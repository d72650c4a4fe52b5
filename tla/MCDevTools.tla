------------------------------- MODULE MCDevTools -------------------------------
(* Constants of DevTools for TLC. *)
EXTENDS DevTools, TLC

CONSTANTS t1, t2, c1, c2

Symmetric == Permutations({c1, c2})
===============================================================================
