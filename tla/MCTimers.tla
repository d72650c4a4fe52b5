------------------------------- MODULE MCTimers -------------------------------
(***************************************************************************)
(* TimerPump for TLC.  With Half = 4, a delay of 5 wraps to a negative one *)
(* (as 2^31 + 1 does in the program), -1 is clamped, 0 and 2 are kept.     *)
(***************************************************************************)
EXTENDS TimerPump
MCDelays == {-1, 2, 5}
===============================================================================
