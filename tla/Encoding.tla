--------------------------------- MODULE Encoding ---------------------------------
(***************************************************************************)
(* The encoding globals of a page as a script uses them.  They share no    *)
(* state, so a behaviour is about one of them; Calls bounds its calls.     *)
(***************************************************************************)
EXTENDS Base64, Url, UrlParams

CONSTANT Calls

VARIABLES facility, \* the global the behaviour is about
          calls     \* the calls made

encodingVars == <<facility, calls, base64Vars, url, paramsVars>>

EncodingInit ==
    /\ Base64Init /\ UrlInit /\ ParamsInit
    /\ facility \in {"base64", "URL", "URLSearchParams"} /\ calls = 0

Returning == phase \in {"strip", "decode"}    \* atob has yet to return

EncodingNext ==
    /\ calls < Calls \/ Returning
    /\ calls' = IF Returning THEN calls ELSE calls + 1
    /\ UNCHANGED facility
    /\ \/ facility = "base64" /\ Base64Next /\ UNCHANGED <<url, paramsVars>>
       \/ facility = "URL" /\ UrlNext /\ UNCHANGED <<base64Vars, paramsVars>>
       \/ facility = "URLSearchParams" /\ ParamsNext /\ UNCHANGED <<base64Vars, url>>

EncodingSpec == EncodingInit /\ [][EncodingNext]_encodingVars
===================================================================================
