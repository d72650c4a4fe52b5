-------------------------------- MODULE MCEvents --------------------------------
(***************************************************************************)
(* EventDispatch for TLC: a root and its child in the tree and a detached  *)
(* element, one event that bubbles and one that does not.                  *)
(***************************************************************************)
EXTENDS EventDispatch
CONSTANTS f, g
MCRegistered ==
    {[x \in Targets |-> IF x = 2 THEN <<f, g>> ELSE <<f>>]}
===============================================================================
