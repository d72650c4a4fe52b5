---------------------------- MODULE ContextPromise ----------------------------
(***************************************************************************)
(* What one JSContext promises its callers, whatever threads call it and   *)
(* whatever locks it takes (docs/api_contract.md sections 3, 6 and 8):     *)
(*                                                                         *)
(*   - operations on a context never overlap: an overlapping one is        *)
(*     answered "busy", it does not wait;                                  *)
(*   - disposal happens between operations, once, and for good: what comes *)
(*     after it is answered "disposed";                                    *)
(*   - a wrapped value stays usable from the operation that returned it    *)
(*     until its wrapper is dropped or the context is closed, and its      *)
(*     identity is never given to another value.                           *)
(*                                                                         *)
(* ContextLifecycle is shown to implement this specification.              *)
(***************************************************************************)
EXTENDS Integers

CONSTANTS Threads,   \* the Python threads
          Values,    \* identities of wrapped values
          NoOne      \* no thread

VARIABLES open,      \* not disposed yet
          active,    \* the thread whose operation is running, or NoOne
          issued,    \* identities ever given to a value
          values,    \* the wrapped values that can still be read
          answer     \* how each thread's latest call ended

promiseVars == <<open, active, issued, values, answer>>

Init ==
    /\ open = TRUE
    /\ active = NoOne
    /\ issued = {}
    /\ values = {}
    /\ answer = [t \in Threads |-> "none"]

Start(t) ==
    /\ open /\ active = NoOne
    /\ active' = t
    /\ answer' = [answer EXCEPT ![t] = "none"]
    /\ UNCHANGED <<open, issued, values>>

Finish(t) ==
    /\ active = t
    /\ active' = NoOne
    /\ \E a \in {"done", "failed"} : answer' = [answer EXCEPT ![t] = a]
    /\ UNCHANGED <<open, issued, values>>

\* The running operation wraps its result in a value nobody has seen before.
Wrap(t) ==
    /\ active = t
    /\ \E v \in Values \ issued :
         /\ issued' = issued \cup {v}
         /\ values' = values \cup {v}
    /\ UNCHANGED <<open, active, answer>>

Drop(v) ==
    /\ values' = values \ {v}
    /\ UNCHANGED <<open, active, issued, answer>>

Refuse(t) ==
    /\ \/ active # NoOne /\ answer' = [answer EXCEPT ![t] = "busy"]
       \/ ~open /\ answer' = [answer EXCEPT ![t] = "disposed"]
    /\ UNCHANGED <<open, active, issued, values>>

Close ==
    /\ open /\ active = NoOne
    /\ open' = FALSE
    /\ values' = {}
    /\ UNCHANGED <<active, issued, answer>>

\* dispose() returns: the context is closed, by this call or an earlier one.
Closed(t) ==
    /\ ~open
    /\ answer' = [answer EXCEPT ![t] = "done"]
    /\ UNCHANGED <<open, active, issued, values>>

Next ==
    \/ \E t \in Threads : Start(t) \/ Finish(t) \/ Wrap(t) \/ Refuse(t) \/ Closed(t)
    \/ \E v \in Values : Drop(v)
    \/ Close

Spec == Init /\ [][Next]_promiseVars
===============================================================================
