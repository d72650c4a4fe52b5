------------------------------- MODULE MCContext -------------------------------
(***************************************************************************)
(* ContextLifecycle for TLC: two threads, at most two wrappers.          *)
(***************************************************************************)
EXTENDS ContextLifecycle
===============================================================================
