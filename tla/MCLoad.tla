--------------------------------- MODULE MCLoad ---------------------------------
(***************************************************************************)
(* PageLoad for TLC: a document with a script to skip between two that     *)
(* run, one whose second script has no resource, and one without scripts.  *)
(***************************************************************************)
EXTENDS PageLoad
MCDocs == {<<"classic", "other", "classic">>, <<"classic", "missing">>, <<>>}
===============================================================================
