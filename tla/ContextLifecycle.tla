--------------------------- MODULE ContextLifecycle ---------------------------
(***************************************************************************)
(* One ContextState (src/src/core/context_host.cpp) used by several Python *)
(* threads: the GIL, the operation mutex that is only ever try-locked, the *)
(* v8::Locker, the handle table behind the JSValue wrappers, explicit      *)
(* disposal, and the teardown that runs when Python drops the owner        *)
(* (ContextHost or PageState).                                             *)
(*                                                                         *)
(* A thread is somewhere in one native call (pc); Python code runs at      *)
(* "idle", at "hosting" (a logging handler called by console.log from JS)  *)
(* and at "convert" (getters and allocation while a result is converted),  *)
(* and only there can the interpreter switch threads.  table_mutex_ is     *)
(* taken only by threads that hold the GIL and never across a switch, so   *)
(* each critical section of it is one step.                                *)
(***************************************************************************)
EXTENDS Integers, FiniteSets

CONSTANTS Threads,     \* Python threads
          NoOne,       \* no thread
          MaxId,       \* bound on next_id_: how many wrappers a behaviour creates
          OwnerDropsMidCall
            \* TRUE: the last reference to the owner may go while a JSValue call,
            \* which does not hold one, is inside the isolate

ASSUME ThreadsAssumption == NoOne \notin Threads /\ IsFiniteSet(Threads)
ASSUME MaxIdAssumption == MaxId \in Nat
ASSUME DropAssumption == OwnerDropsMidCall \in BOOLEAN

VARIABLES gil,        \* the thread that holds the GIL
          op,         \* the owner of op_mutex_
          locker,     \* the thread inside the v8::Locker
          pc, kind, arg,  \* per thread: where its call is, which call, on which wrapper
          answer,     \* per thread: how its latest call ended
          handles,    \* ids in values_
          wrappers,   \* ids whose JSValue object is alive in Python
          nextId,     \* next_id_
          owner,      \* the ContextHost / PageState object is alive
          disposed,   \* disposed_
          stage, downer,  \* progress of a teardown and the thread running it
          roots,      \* the context, timer and listener Globals are set
          isolate     \* isolate_host_ is set

vars == <<gil, op, locker, pc, kind, arg, answer, handles, wrappers, nextId,
          owner, disposed, stage, downer, roots, isolate>>
callVars == <<pc, kind, arg>>
lockVars == <<gil, op, locker>>
tableVars == <<handles, wrappers, nextId>>
downVars == <<owner, disposed, stage, downer, roots, isolate>>

Ids == 1..MaxId
NoId == 0
OwnerKinds == {"eval", "pump", "jobs", "scope"}   \* called on the owner object
ValueKinds == {"to_py", "type_name"}              \* called on a JSValue
Kinds == OwnerKinds \cup ValueKinds \cup {"dispose"}
PCs == {"idle", "locking", "running", "hosting", "rejoin", "pumping", "lookup",
        "convert", "unlock", "leave", "disposing"}
InsideV8 == {"running", "hosting", "rejoin", "pumping", "lookup", "convert"}

\* Mutant: ids start at 0, which a JSValue takes for "moved from".
InitIdZero ==
    /\ gil = NoOne /\ op = NoOne /\ locker = NoOne
    /\ pc = [t \in Threads |-> "idle"]
    /\ kind = [t \in Threads |-> "eval"]
    /\ arg = [t \in Threads |-> NoId]
    /\ answer = [t \in Threads |-> "none"]
    /\ handles = {} /\ wrappers = {} /\ nextId = 0
    /\ owner = TRUE /\ disposed = FALSE
    /\ stage = "none" /\ downer = NoOne
    /\ roots = TRUE /\ isolate = TRUE

Init ==
    /\ gil = NoOne /\ op = NoOne /\ locker = NoOne
    /\ pc = [t \in Threads |-> "idle"]
    /\ kind = [t \in Threads |-> "eval"]
    /\ arg = [t \in Threads |-> NoId]
    /\ answer = [t \in Threads |-> "none"]
    /\ handles = {} /\ wrappers = {} /\ nextId = 1
    /\ owner = TRUE /\ disposed = FALSE
    /\ stage = "none" /\ downer = NoOne
    /\ roots = TRUE /\ isolate = TRUE

\* t runs Python bytecode (and is not inside a teardown it started).
PythonRuns(t) == gil = t /\ downer # t /\ pc[t] \in {"idle", "hosting", "convert"}
GoTo(t, where) == pc' = [pc EXCEPT ![t] = where]
Answers(t, a) == answer' = [answer EXCEPT ![t] = a]
InFlight == {t \in Threads : pc[t] # "idle"}
OwnerInUse == \E t \in InFlight : kind[t] \in OwnerKinds \cup {"dispose"}
ArgInUse(v) == \E t \in InFlight : arg[t] = v

-------------------------------------------------------------------------------
(* The interpreter *)

\* A thread waiting to run Python code, or to come back from released code, gets the GIL.
TakeGil(t) ==
    /\ gil = NoOne
    /\ pc[t] \in {"idle", "hosting", "convert"}
    /\ gil' = t
    /\ UNCHANGED <<op, locker, callVars, answer, tableVars, downVars>>

YieldGil(t) ==
    /\ PythonRuns(t)
    /\ gil' = NoOne
    /\ UNCHANGED <<op, locker, callVars, answer, tableVars, downVars>>

-------------------------------------------------------------------------------
(* Entering: OperationScope, then v8::Locker *)

\* Mutants: no try_lock; no disposed check.
OpFreeUnchecked == TRUE
AdmittedWhileDisposed == op = NoOne

\* OperationScope: try_lock(op_mutex_) ...
OpFree == op = NoOne
\* ... and only then the disposed check.
Admitted == OpFree /\ ~disposed

Enter(t, k, v) ==
    /\ op' = t
    /\ GoTo(t, "locking")
    /\ kind' = [kind EXCEPT ![t] = k]
    /\ arg' = [arg EXCEPT ![t] = v]
    /\ Answers(t, "none")
    /\ UNCHANGED <<gil, locker, tableVars, downVars>>

CallOwner(t, k) ==
    /\ PythonRuns(t) /\ pc[t] = "idle" /\ owner
    /\ k \in OwnerKinds
    /\ Admitted
    /\ Enter(t, k, NoId)

CallValue(t, k, v) ==
    /\ PythonRuns(t) /\ pc[t] = "idle"
    /\ k \in ValueKinds /\ v \in wrappers
    /\ Admitted
    /\ Enter(t, k, v)

\* Any call that OperationScope or dispose() refuses, from Python code outside a
\* call or from a handler running inside one; nothing but the answer changes.
Refused(t) ==
    /\ PythonRuns(t)
    /\ owner \/ wrappers # {}
    /\ \/ ~OpFree /\ Answers(t, "busy")
       \/ OpFree /\ disposed /\ Answers(t, "disposed")
    /\ UNCHANGED <<lockVars, callVars, tableVars, downVars>>

\* v8::Locker's constructor blocks, with the GIL held.
TakeLocker(t) ==
    /\ pc[t] = "locking" /\ locker = NoOne
    /\ locker' = t
    /\ CASE kind[t] \in {"eval", "jobs"} -> GoTo(t, "running") /\ gil' = NoOne
         [] kind[t] = "pump"             -> GoTo(t, "pumping") /\ UNCHANGED gil
         [] kind[t] = "scope"            -> GoTo(t, "convert") /\ UNCHANGED gil
         [] OTHER                        -> GoTo(t, "lookup") /\ UNCHANGED gil
    /\ UNCHANGED <<op, kind, arg, answer, tableVars, downVars>>

-------------------------------------------------------------------------------
(* JavaScript runs with the GIL released *)

\* console.log and friends: the host method waits for the GIL to call logging.
CallHost(t) ==
    /\ pc[t] = "running"
    /\ GoTo(t, "hosting")
    /\ UNCHANGED <<lockVars, kind, arg, answer, tableVars, downVars>>

HostReturns(t) ==
    /\ pc[t] = "hosting" /\ PythonRuns(t)
    /\ gil' = NoOne
    /\ GoTo(t, "running")
    /\ UNCHANGED <<op, locker, kind, arg, answer, tableVars, downVars>>

ScriptEnds(t) ==
    /\ pc[t] = "running"
    /\ GoTo(t, "rejoin")
    /\ UNCHANGED <<lockVars, kind, arg, answer, tableVars, downVars>>

\* The gil_scoped_release ends.  A script that threw leaves at once; an exception in
\* a timer callback is swallowed.
Rejoin(t) ==
    /\ pc[t] = "rejoin" /\ gil = NoOne
    /\ gil' = t
    /\ CASE kind[t] = "pump" -> GoTo(t, "pumping") /\ UNCHANGED answer
         [] kind[t] = "jobs" -> GoTo(t, "unlock") /\ Answers(t, "done")
         [] OTHER -> \/ GoTo(t, "convert") /\ UNCHANGED answer
                     \/ GoTo(t, "unlock") /\ Answers(t, "failed")
    /\ UNCHANGED <<op, locker, kind, arg, tableVars, downVars>>

PumpCallback(t) ==
    /\ pc[t] = "pumping"
    /\ gil' = NoOne
    /\ GoTo(t, "running")
    /\ UNCHANGED <<op, locker, kind, arg, answer, tableVars, downVars>>

PumpEnds(t) ==
    /\ pc[t] = "pumping"
    /\ GoTo(t, "unlock")
    /\ Answers(t, "done")
    /\ UNCHANGED <<lockVars, kind, arg, tableVars, downVars>>

-------------------------------------------------------------------------------
(* Results: conversion, retain_value, local_value, release_value *)

Convert(t) ==
    /\ pc[t] = "convert" /\ PythonRuns(t)
    /\ GoTo(t, "unlock")
    /\ \/ Answers(t, "done")
       \/ kind[t] # "scope" /\ Answers(t, "failed")   \* JSConversionError
    /\ UNCHANGED <<lockVars, kind, arg, tableVars, downVars>>

\* A complex result of eval(to_py=False): its handle goes into the table and its
\* JSValue to the caller.
Retain(t) ==
    /\ pc[t] = "convert" /\ PythonRuns(t) /\ kind[t] = "eval"
    /\ nextId <= MaxId
    /\ handles' = handles \cup {nextId}
    /\ wrappers' = wrappers \cup {nextId}
    /\ nextId' = nextId + 1
    /\ GoTo(t, "unlock")
    /\ Answers(t, "done")
    /\ UNCHANGED <<lockVars, kind, arg, downVars>>

Lookup(t) ==
    /\ pc[t] = "lookup"
    /\ IF arg[t] \notin handles
       THEN GoTo(t, "unlock") /\ Answers(t, "disposed")
       ELSE IF kind[t] = "to_py"
            THEN GoTo(t, "convert") /\ UNCHANGED answer
            ELSE GoTo(t, "unlock") /\ Answers(t, "done")
    /\ UNCHANGED <<lockVars, kind, arg, tableVars, downVars>>

\* Mutant: the wrapper's destructor forgets the table.
DropWrapperOnly(t, v) ==
    /\ PythonRuns(t)
    /\ v \in wrappers /\ ~ArgInUse(v)
    /\ wrappers' = wrappers \ {v}
    /\ UNCHANGED <<handles, lockVars, callVars, answer, nextId, downVars>>

\* ~JsValue: the id leaves the table, if teardown has not emptied it already.
DropWrapper(t, v) ==
    /\ PythonRuns(t)
    /\ v \in wrappers /\ ~ArgInUse(v)
    /\ wrappers' = wrappers \ {v}
    /\ handles' = handles \ {v}
    /\ UNCHANGED <<lockVars, callVars, answer, nextId, downVars>>

-------------------------------------------------------------------------------
(* Leaving: the scopes unwind in reverse order of construction *)

DropLocker(t) ==
    /\ pc[t] = "unlock"
    /\ locker' = NoOne
    /\ GoTo(t, "leave")
    /\ UNCHANGED <<gil, op, kind, arg, answer, tableVars, downVars>>

Leave(t) ==
    /\ pc[t] = "leave"
    /\ op' = NoOne
    /\ GoTo(t, "idle")
    /\ arg' = [arg EXCEPT ![t] = NoId]
    /\ UNCHANGED <<gil, locker, kind, answer, tableVars, downVars>>

-------------------------------------------------------------------------------
(* Disposal and teardown *)

\* The first caller of teardown() wins disposed_.exchange and goes through its stages.
BeginTeardown(t) ==
    /\ disposed' = TRUE
    /\ stage' = "handles"
    /\ downer' = t

\* Mutant: dispose() tears down without trying the operation mutex first.
DisposeUnguarded(t) ==
    /\ PythonRuns(t) /\ pc[t] = "idle" /\ owner /\ ~disposed
    /\ op' = t
    /\ GoTo(t, "disposing")
    /\ kind' = [kind EXCEPT ![t] = "dispose"]
    /\ BeginTeardown(t)
    /\ UNCHANGED <<arg, answer, gil, locker, tableVars, owner, roots, isolate>>

Dispose(t) ==
    /\ PythonRuns(t) /\ pc[t] = "idle" /\ owner
    /\ OpFree
    /\ IF disposed
       THEN /\ Answers(t, "done")
            /\ UNCHANGED <<op, callVars, disposed, stage, downer>>
       ELSE /\ op' = t
            /\ GoTo(t, "disposing")
            /\ kind' = [kind EXCEPT ![t] = "dispose"]
            /\ BeginTeardown(t)
            /\ UNCHANGED <<arg, answer>>
    /\ UNCHANGED <<gil, locker, tableVars, owner, roots, isolate>>

\* ~ContextHost / ~PageState: teardown() without the operation guard.  Python
\* cannot drop an object while one of its methods runs.
DropOwner(t) ==
    /\ PythonRuns(t) /\ owner
    /\ ~OwnerInUse
    /\ OwnerDropsMidCall \/ InFlight = {}
    /\ owner' = FALSE
    /\ IF disposed THEN UNCHANGED <<disposed, stage, downer>> ELSE BeginTeardown(t)
    /\ UNCHANGED <<lockVars, callVars, answer, tableVars, roots, isolate>>

TeardownHandles(t) ==
    /\ downer = t /\ stage = "handles"
    /\ handles' = {}
    /\ stage' = "roots"
    /\ UNCHANGED <<lockVars, callVars, answer, wrappers, nextId, owner, disposed,
                   downer, roots, isolate>>

\* Timers, then the teardown hook (listeners, inspector), then context_.
TeardownRoots(t) ==
    /\ downer = t /\ stage = "roots"
    /\ roots' = FALSE
    /\ stage' = "isolate"
    /\ UNCHANGED <<lockVars, callVars, answer, tableVars, owner, disposed, downer,
                   isolate>>

\* The isolate goes last; dispose() then returns and its lock is released.
TeardownIsolate(t) ==
    /\ downer = t /\ stage = "isolate"
    /\ isolate' = FALSE
    /\ stage' = "none"
    /\ downer' = NoOne
    /\ IF pc[t] = "disposing"
       THEN op' = NoOne /\ GoTo(t, "idle") /\ Answers(t, "done")
       ELSE UNCHANGED <<op, pc, answer>>
    /\ UNCHANGED <<gil, locker, kind, arg, tableVars, owner, disposed, roots>>

-------------------------------------------------------------------------------
Next ==
    \E t \in Threads :
        \/ TakeGil(t) \/ YieldGil(t)
        \/ \E k \in OwnerKinds : CallOwner(t, k)
        \/ \E k \in ValueKinds, v \in Ids : CallValue(t, k, v)
        \/ Refused(t)
        \/ TakeLocker(t) \/ CallHost(t) \/ HostReturns(t) \/ ScriptEnds(t) \/ Rejoin(t)
        \/ PumpCallback(t) \/ PumpEnds(t)
        \/ Convert(t) \/ Retain(t) \/ Lookup(t)
        \/ \E v \in Ids : DropWrapper(t, v)
        \/ DropLocker(t) \/ Leave(t)
        \/ Dispose(t) \/ DropOwner(t)
        \/ TeardownHandles(t) \/ TeardownRoots(t) \/ TeardownIsolate(t)

Spec == Init /\ [][Next]_vars

\* Native code that waits for nothing but, at most, the Locker.
Native(t) ==
    \/ TakeLocker(t) \/ Lookup(t) \/ DropLocker(t) \/ Leave(t)
    \/ TeardownHandles(t) \/ TeardownRoots(t) \/ TeardownIsolate(t)

\* The interpreter preempts Python code and hands the GIL to every thread that keeps
\* asking for it (SF: others take it in between); native code proceeds; a script, a
\* handler, a conversion and a pump's finite snapshot come to an end.
Fairness ==
    \A t \in Threads :
        /\ WF_vars(Native(t)) /\ WF_vars(YieldGil(t))
        /\ SF_vars(TakeGil(t) \/ Rejoin(t))
        /\ SF_vars(HostReturns(t)) /\ SF_vars(ScriptEnds(t))
        /\ SF_vars(Convert(t) \/ PumpEnds(t))

FairSpec == Spec /\ Fairness

-------------------------------------------------------------------------------
(* Properties *)

TypeOK ==
    /\ gil \in Threads \cup {NoOne} /\ op \in Threads \cup {NoOne}
    /\ locker \in Threads \cup {NoOne} /\ downer \in Threads \cup {NoOne}
    /\ pc \in [Threads -> PCs] /\ kind \in [Threads -> Kinds]
    /\ arg \in [Threads -> Ids \cup {NoId}]
    /\ answer \in [Threads -> {"none", "done", "failed", "busy", "disposed"}]
    /\ handles \subseteq Ids /\ wrappers \subseteq Ids /\ nextId \in 1..(MaxId + 1)
    /\ owner \in BOOLEAN /\ disposed \in BOOLEAN
    /\ roots \in BOOLEAN /\ isolate \in BOOLEAN
    /\ stage \in {"none", "handles", "roots", "isolate"}

\* At most one thread is inside the isolate, and it holds both the operation mutex
\* and the Locker: what makes it safe to take the blocking Locker with the GIL held
\* (docs/architecture.md section 8) and to touch timers and listeners unlocked.
OneThreadInside ==
    \A t \in Threads : pc[t] \in InsideV8 => op = t /\ locker = t

\* Nothing that a call inside the isolate uses is torn down under it: not the
\* isolate, not its context, and not the handle of the value it was called on.
IsolateOutlivesCalls ==
    \A t \in Threads :
        pc[t] \in InsideV8 =>
            /\ ~disposed /\ roots /\ isolate
            /\ arg[t] # NoId => arg[t] \in handles

\* The table holds exactly the live wrappers' handles while the context lives (a lost
\* release leaks a handle, a double one breaks another wrapper), and every V8 handle
\* is reset before the isolate that owns it goes.
HandlesMatchWrappers ==
    /\ ~disposed => handles = wrappers
    /\ ~isolate => handles = {} /\ ~roots

\* What callers see: disposal is not an operation of theirs but the closing of the
\* context, which happens when disposed_ is set; an operation ends, and its answer
\* counts, when its thread has left op_mutex_.
SeenActive == IF \E t \in Threads : pc[t] = "disposing" THEN NoOne ELSE op
SeenIssued == 1..(nextId - 1)
SeenValues == IF disposed THEN {} ELSE handles
SeenAnswer == [t \in Threads |-> IF pc[t] \in {"idle", "disposing"}
                                 THEN answer[t] ELSE "none"]

Promise ==
    INSTANCE ContextPromise WITH
        Values <- Ids,
        open <- ~disposed,
        active <- SeenActive,
        issued <- SeenIssued,
        values <- SeenValues,
        answer <- SeenAnswer

\* Whatever the threads, locks and teardown stages do, callers see the context that
\* docs/api_contract.md sections 3, 6 and 8 promise.
KeepsPromise == Promise!Spec

\* Every call returns: the GIL, the Locker and the operation mutex never wait for
\* each other in a cycle, although a logging handler takes the GIL from inside the
\* Locker while another thread, holding the GIL, may want the Locker.
CallsReturn ==
    \A t \in Threads : pc[t] # "idle" ~> pc[t] = "idle"
===============================================================================
