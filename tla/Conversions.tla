-------------------------------- MODULE Conversions --------------------------------
(***************************************************************************)
(* Everything of a page that turns one form of data into another: the      *)
(* conversion of a result for Python and the encoding globals of scripts.  *)
(* The two share no state, so a behaviour is about one of them and the     *)
(* other stays as it began.                                                *)
(***************************************************************************)
EXTENDS ValueConversion, Encoding

VARIABLE topic    \* what the behaviour is about

conversionsVars == <<topic, vars, encodingVars>>

ConversionsInit ==
    /\ EncodingInit
    /\ \/ topic = "to_py" /\ facility = "base64" /\ Init
       \/ topic = "encoding" /\ heap = (CHOOSE h \in Heaps : TRUE) /\ Init

ConversionsNext ==
    /\ UNCHANGED topic
    /\ \/ topic = "to_py" /\ Next /\ UNCHANGED encodingVars
       \/ topic = "encoding" /\ EncodingNext /\ UNCHANGED vars

ConversionsSpec == ConversionsInit /\ [][ConversionsNext]_conversionsVars
====================================================================================
