------------------------------- MODULE TimerPump -------------------------------
(***************************************************************************)
(* The manual timer pump of one context: setTimeout, setInterval and the   *)
(* two clear functions (src/src/core/page_state.cpp), the registry behind  *)
(* them and run_timers() (src/src/core/context_host.cpp).                  *)
(*                                                                         *)
(* JavaScript changes the registry while a script is evaluated or while    *)
(* the pump is inside one of its callbacks.  Everything runs under the     *)
(* context's operation guard (ContextLifecycle), so one mode suffices; a   *)
(* re-entrant run_timers() or dispose() is refused there.  next_timer_id_  *)
(* and next_timer_seq_ advance together, so an id also orders              *)
(* registrations.                                                          *)
(***************************************************************************)
EXTENDS Integers, Sequences, FiniteSets

CONSTANTS MaxId,    \* bound on next_timer_id_: timers a behaviour registers
          Delays,   \* delays a script passes, before ToInt32
          Half      \* 2^31, the width of the delay (Int32Value)

ASSUME MaxIdAssumption == MaxId \in Nat
ASSUME DelaysAssumption == Delays \subseteq Int
ASSUME HalfAssumption == Half \in Nat \ {0}

VARIABLES mode,       \* "idle", "script", "pump", "callback"
          disposed,
          nextId,
          timers,     \* ids in timers_
          delay,      \* id -> its clamped delay
          repeating,  \* ids registered by setInterval
          due,        \* what is left of the pump's snapshot
          base,       \* history: the whole snapshot of the latest pump
          fired,      \* history: what the latest pump fired, in order
          cancelled   \* history: ids ever cleared

vars == <<mode, disposed, nextId, timers, delay, repeating, due, base, fired, cancelled>>
registry == <<nextId, timers, delay, repeating>>
history == <<base, fired>>

Ids == 1..MaxId

Init ==
    /\ mode = "idle" /\ disposed = FALSE
    /\ nextId = 1 /\ timers = {}
    /\ delay = [i \in Ids |-> 0]
    /\ repeating = {}
    /\ due = {} /\ base = {} /\ fired = <<>> /\ cancelled = {}

\* Int32Value wraps; register_timer raises a negative delay to 0.
ToInt32(d) == ((d + Half) % (2 * Half)) - Half

\* Mutant: the delay is not clamped.
Unclamped(d) == ToInt32(d)

Clamped(d) == IF ToInt32(d) < 0 THEN 0 ELSE ToInt32(d)

\* The order of the pump: (delay, registration).
Before(i, j) == delay[i] < delay[j] \/ (delay[i] = delay[j] /\ i < j)

-------------------------------------------------------------------------------
(* JavaScript *)

RunsScript == mode \in {"script", "callback"}

StartScript ==
    /\ mode = "idle" /\ ~disposed
    /\ mode' = "script"
    /\ UNCHANGED <<disposed, registry, due, history, cancelled>>

EndScript ==
    /\ mode = "script"
    /\ mode' = "idle"
    /\ UNCHANGED <<disposed, registry, due, history, cancelled>>

\* Mutant: the map is iterated live, so a callback's new timer joins this pump.
RegisterLive(d, interval) ==
    /\ RunsScript /\ nextId <= MaxId
    /\ timers' = timers \cup {nextId}
    /\ delay' = [delay EXCEPT ![nextId] = Clamped(d)]
    /\ repeating' = IF interval THEN repeating \cup {nextId} ELSE repeating
    /\ due' = IF mode = "callback" THEN due \cup {nextId} ELSE due
    /\ nextId' = nextId + 1
    /\ UNCHANGED <<mode, disposed, history, cancelled>>

\* setTimeout / setInterval with a function; anything else registers nothing.
Register(d, interval) ==
    /\ RunsScript /\ nextId <= MaxId
    /\ timers' = timers \cup {nextId}
    /\ delay' = [delay EXCEPT ![nextId] = Clamped(d)]
    /\ repeating' = IF interval THEN repeating \cup {nextId} ELSE repeating
    /\ nextId' = nextId + 1
    /\ UNCHANGED <<mode, disposed, due, history, cancelled>>

\* clearTimeout / clearInterval share one id space; an unknown id is ignored.
Clear(i) ==
    /\ RunsScript
    /\ timers' = timers \ {i}
    /\ cancelled' = IF i < nextId THEN cancelled \cup {i} ELSE cancelled
    /\ UNCHANGED <<mode, disposed, nextId, delay, repeating, due, history>>

-------------------------------------------------------------------------------
(* run_timers() *)

StartPump ==
    /\ mode = "idle" /\ ~disposed
    /\ mode' = "pump"
    /\ due' = timers
    /\ base' = timers
    /\ fired' = <<>>
    /\ UNCHANGED <<disposed, registry, cancelled>>

IsNext(i) == i \in due /\ \A j \in due \ {i} : Before(i, j)

\* Cancelled by an earlier callback of this pump.
Skip(i) ==
    /\ mode = "pump" /\ IsNext(i)
    /\ i \notin timers
    /\ due' = due \ {i}
    /\ UNCHANGED <<mode, disposed, registry, history, cancelled>>

\* Mutant: a timer cancelled during the pump still fires.
FireStale(i) ==
    /\ mode = "pump" /\ IsNext(i)
    /\ due' = due \ {i}
    /\ timers' = IF i \in repeating THEN timers ELSE timers \ {i}
    /\ fired' = Append(fired, i)
    /\ mode' = "callback"
    /\ UNCHANGED <<disposed, nextId, delay, repeating, base, cancelled>>

\* A one-shot is erased before its callback runs.
Fire(i) ==
    /\ mode = "pump" /\ IsNext(i)
    /\ i \in timers
    /\ due' = due \ {i}
    /\ timers' = IF i \in repeating THEN timers ELSE timers \ {i}
    /\ fired' = Append(fired, i)
    /\ mode' = "callback"
    /\ UNCHANGED <<disposed, nextId, delay, repeating, base, cancelled>>

\* It returns or throws; the exception is swallowed.
CallbackReturns ==
    /\ mode = "callback"
    /\ mode' = "pump"
    /\ UNCHANGED <<disposed, registry, due, history, cancelled>>

\* Mutants: the pump waits for an empty registry; an exception in a callback ends it.
EndPumpWhenEmpty ==
    /\ mode = "pump" /\ due = {} /\ timers = {}
    /\ mode' = "idle"
    /\ UNCHANGED <<disposed, registry, due, history, cancelled>>

EndPumpEarly ==
    /\ mode = "pump"
    /\ mode' = "idle"
    /\ due' = {}
    /\ UNCHANGED <<disposed, registry, history, cancelled>>

EndPump ==
    /\ mode = "pump" /\ due = {}
    /\ mode' = "idle"
    /\ UNCHANGED <<disposed, registry, due, history, cancelled>>

\* teardown(): the registry is emptied; every later pump or script is refused.
Teardown ==
    /\ mode = "idle" /\ ~disposed
    /\ disposed' = TRUE
    /\ timers' = {}
    /\ UNCHANGED <<mode, nextId, delay, repeating, due, history, cancelled>>

-------------------------------------------------------------------------------
Next ==
    \/ StartScript \/ EndScript \/ StartPump \/ CallbackReturns \/ EndPump \/ Teardown
    \/ \E d \in Delays, interval \in BOOLEAN : Register(d, interval)
    \/ \E i \in Ids : Clear(i) \/ Skip(i) \/ Fire(i)

Spec == Init /\ [][Next]_vars

\* Callbacks return (each runs to completion without the GIL), and the pump's loop goes on.
FairSpec ==
    /\ Spec
    /\ SF_vars(CallbackReturns) /\ WF_vars(EndPump)
    /\ WF_vars(\E i \in Ids : Skip(i) \/ Fire(i))

-------------------------------------------------------------------------------
(* Properties *)

TypeOK ==
    /\ mode \in {"idle", "script", "pump", "callback"}
    /\ disposed \in BOOLEAN
    /\ nextId \in 1..(MaxId + 1)
    /\ timers \subseteq 1..(nextId - 1) /\ repeating \subseteq 1..(nextId - 1)
    /\ delay \in [Ids -> 0..(Half - 1)]
    /\ due \subseteq base /\ base \subseteq 1..(nextId - 1)
    /\ fired \in Seq(base) /\ cancelled \subseteq 1..(nextId - 1)

FiredSet == {fired[k] : k \in DOMAIN fired}

\* One pump fires timers in (delay, registration) order and so none of them twice
\* (docs/m2_4_timers_jobs.md, "Manual pump").
FiresInOrder ==
    \A k, l \in DOMAIN fired : k < l => Before(fired[k], fired[l])

\* A pump forgets no timer of its snapshot: each is fired, still to come, or was
\* cancelled; when the pump is over none is still to come.
NoneForgotten ==
    /\ base \subseteq FiredSet \cup due \cup cancelled
    /\ mode \in {"idle", "script"} => due = {}

\* A timer that was cleared, a one-shot that has fired, a timer registered by a
\* callback of this very pump: none of them fires.
NoStaleFire ==
    [][\A i \in Ids : fired' = Append(fired, i) =>
          /\ i \in base
          /\ i \notin cancelled
          /\ i \in timers
          /\ i \in repeating \/ i \notin timers']_vars

\* A pump ends, although intervals stay registered and callbacks may re-register.
PumpEnds == mode = "pump" ~> mode = "idle"
===============================================================================
