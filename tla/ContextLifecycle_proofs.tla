------------------------ MODULE ContextLifecycle_proofs ------------------------
(***************************************************************************)
(* Proofs about ContextLifecycle, for any set of threads and any number of *)
(* wrappers.  Mutual exclusion inside the isolate needs no assumption on   *)
(* the owner; that nothing is torn down under a call, and that the         *)
(* context keeps its promise, hold when the owner outlives the calls made  *)
(* on its values (OwnerDropsMidCall = FALSE).                              *)
(***************************************************************************)
EXTENDS ContextLifecycle, TLAPS

USE ThreadsAssumption, MaxIdAssumption, DropAssumption

(* pcs at which the thread's call owns the operation mutex, and the Locker, and at  *)
(* which it never gives up the GIL.                                                *)
OwnsOp == PCs \ {"idle"}
OwnsLocker == InsideV8 \cup {"unlock"}
KeepsGil == {"locking", "pumping", "lookup", "unlock", "leave", "disposing"}

\* The locks are held by whom pc says, and a teardown keeps the GIL until it is over.
LockInv ==
    /\ \A t \in Threads : pc[t] \in OwnsOp <=> op = t
    /\ \A t \in Threads : pc[t] \in OwnsLocker <=> locker = t
    /\ \A t \in Threads : pc[t] \in KeepsGil => gil = t
    /\ downer \in Threads => gil = downer /\ disposed
    /\ \A t \in Threads : pc[t] = "disposing" => downer = t
    /\ \A t \in Threads : downer = t => pc[t] \in {"idle", "hosting", "convert", "disposing"}
    /\ (stage = "none") <=> (downer = NoOne)

-------------------------------------------------------------------------------
(* Whatever threads call, drop and dispose, every thread is at a place that its kind *)
(* of call has, and locks, handles and stages of the teardown are what they can be.  *)
THEOREM TypeCorrect == Spec => []TypeOK
<1>1. Init => TypeOK
  <2> SUFFICES ASSUME Init PROVE TypeOK
    OBVIOUS
  <2>1. /\ pc \in [Threads -> PCs] /\ kind \in [Threads -> Kinds]
        /\ arg \in [Threads -> Ids \cup {NoId}]
        /\ answer \in [Threads -> {"none", "done", "failed", "busy", "disposed"}]
    BY DEF Init, PCs, Kinds, OwnerKinds, NoId
  <2>2. nextId \in 1..(MaxId + 1)
    BY DEF Init
  <2>3. QED
    BY <2>1, <2>2 DEF Init, TypeOK
<1>2. TypeOK /\ [Next]_vars => TypeOK'
  <2> SUFFICES ASSUME TypeOK, [Next]_vars PROVE TypeOK'
    OBVIOUS
  <2> USE DEF TypeOK, PCs, Kinds, Ids, NoId, GoTo, Answers
  <2>1. ASSUME NEW t \in Threads, TakeGil(t) PROVE TypeOK'
    BY <2>1 DEF TakeGil, callVars, tableVars, downVars
  <2>2. ASSUME NEW t \in Threads, YieldGil(t) PROVE TypeOK'
    BY <2>2 DEF YieldGil, callVars, tableVars, downVars
  <2>3. ASSUME NEW t \in Threads, NEW k \in OwnerKinds, CallOwner(t, k) PROVE TypeOK'
    BY <2>3 DEF CallOwner, Enter, tableVars, downVars
  <2>4. ASSUME NEW t \in Threads, NEW k \in ValueKinds, NEW v \in Ids, CallValue(t, k, v)
        PROVE TypeOK'
    BY <2>4 DEF CallValue, Enter, tableVars, downVars
  <2>5. ASSUME NEW t \in Threads, Refused(t) PROVE TypeOK'
    BY <2>5 DEF Refused, lockVars, callVars, tableVars, downVars
  <2>6. ASSUME NEW t \in Threads, TakeLocker(t) PROVE TypeOK'
    BY <2>6 DEF TakeLocker, tableVars, downVars
  <2>7. ASSUME NEW t \in Threads,
               CallHost(t) \/ HostReturns(t) \/ ScriptEnds(t) \/ Rejoin(t)
               \/ PumpCallback(t) \/ PumpEnds(t)
        PROVE TypeOK'
    BY <2>7 DEF CallHost, HostReturns, ScriptEnds, Rejoin, PumpCallback, PumpEnds,
                lockVars, tableVars, downVars
  <2>8. ASSUME NEW t \in Threads, Convert(t) \/ Lookup(t) PROVE TypeOK'
    <3>1. CASE Convert(t)
      BY <3>1 DEF Convert, lockVars, tableVars, downVars
    <3>2. CASE Lookup(t)
      BY <3>2 DEF Lookup, lockVars, tableVars, downVars
    <3> QED BY <2>8, <3>1, <3>2
  <2>9. ASSUME NEW t \in Threads, Retain(t) PROVE TypeOK'
    BY <2>9 DEF Retain, lockVars, downVars
  <2>10. ASSUME NEW t \in Threads, NEW v \in Ids, DropWrapper(t, v) PROVE TypeOK'
    BY <2>10 DEF DropWrapper, lockVars, callVars, downVars
  <2>11. ASSUME NEW t \in Threads, DropLocker(t) \/ Leave(t) PROVE TypeOK'
    <3>1. CASE DropLocker(t)
      BY <3>1 DEF DropLocker, tableVars, downVars
    <3>2. CASE Leave(t)
      BY <3>2 DEF Leave, tableVars, downVars
    <3> QED BY <2>11, <3>1, <3>2
  <2>12. ASSUME NEW t \in Threads, Dispose(t) \/ DropOwner(t) PROVE TypeOK'
    <3>1. CASE Dispose(t)
      BY <3>1 DEF Dispose, BeginTeardown, lockVars, callVars, tableVars
    <3>2. CASE DropOwner(t)
      BY <3>2 DEF DropOwner, BeginTeardown, lockVars, callVars, tableVars
    <3> QED BY <2>12, <3>1, <3>2
  <2>13. ASSUME NEW t \in Threads,
                TeardownHandles(t) \/ TeardownRoots(t) \/ TeardownIsolate(t)
         PROVE TypeOK'
    BY <2>13 DEF TeardownHandles, TeardownRoots, TeardownIsolate, lockVars, callVars,
                 tableVars
  <2>14. CASE UNCHANGED vars
    BY <2>14 DEF vars
  <2>15. QED
    BY <2>1, <2>2, <2>3, <2>4, <2>5, <2>6, <2>7, <2>8, <2>9, <2>10, <2>11, <2>12,
       <2>13, <2>14 DEF Next
<1>3. QED
  BY <1>1, <1>2, PTL DEF Spec

-------------------------------------------------------------------------------
(* Mutual exclusion.  The inductive invariant says who holds what at every pc; the  *)
(* steps are grouped by the part of the call they belong to.                       *)
LEMMA LocksHeld == Spec => []LockInv
<1> USE DEF OwnsOp, OwnsLocker, KeepsGil, InsideV8, PCs
<1>1. Init => LockInv
  BY DEF Init, LockInv
<1>2. TypeOK /\ LockInv /\ [Next]_vars => LockInv'
  <2> SUFFICES ASSUME TypeOK, LockInv, [Next]_vars PROVE LockInv'
    OBVIOUS
  <2> USE DEF TypeOK, LockInv, GoTo
  <2>1. ASSUME NEW t \in Threads, TakeGil(t) \/ YieldGil(t) PROVE LockInv'
    BY <2>1 DEF TakeGil, YieldGil, PythonRuns, callVars, tableVars, downVars
  <2>2. ASSUME NEW t \in Threads, NEW k \in Kinds, NEW v \in Ids \cup {NoId},
               PythonRuns(t), pc[t] = "idle", Admitted, Enter(t, k, v)
        PROVE LockInv'
    BY <2>2 DEF PythonRuns, Admitted, OpFree, Enter, tableVars, downVars
  <2>3. ASSUME NEW t \in Threads, Refused(t) PROVE LockInv'
    BY <2>3 DEF Refused, lockVars, callVars, tableVars, downVars
  <2>4. ASSUME NEW t \in Threads, TakeLocker(t) PROVE LockInv'
    <3>1. \E where \in InsideV8 :
            /\ pc' = [pc EXCEPT ![t] = where]
            /\ where \in KeepsGil => gil' = gil
      BY <2>4 DEF TakeLocker
    <3>2. pc[t] = "locking" /\ locker = NoOne /\ locker' = t
          /\ (gil' = gil \/ gil' = NoOne)
          /\ UNCHANGED <<op, downer, stage, disposed>>
      BY <2>4 DEF TakeLocker, downVars
    <3>3. op = t /\ gil = t /\ downer \notin Threads /\ downer = NoOne
      BY <3>2
    <3>4. \A u \in Threads \ {t} : pc'[u] = pc[u] /\ pc[u] \notin OwnsOp
      BY <3>1, <3>3
    <3>5. QED
      BY <3>1, <3>2, <3>3, <3>4
  <2>5. ASSUME NEW t \in Threads,
               CallHost(t) \/ HostReturns(t) \/ ScriptEnds(t) \/ Rejoin(t)
               \/ PumpCallback(t) \/ PumpEnds(t)
        PROVE LockInv'
    <3>1. CASE CallHost(t) \/ ScriptEnds(t)
      BY <3>1 DEF CallHost, ScriptEnds, lockVars, tableVars, downVars
    <3>2. CASE HostReturns(t)
      BY <3>2 DEF HostReturns, PythonRuns, tableVars, downVars
    <3>3. CASE Rejoin(t)
      BY <3>3 DEF Rejoin, tableVars, downVars
    <3>4. CASE PumpCallback(t)
      BY <3>4 DEF PumpCallback, tableVars, downVars
    <3>5. CASE PumpEnds(t)
      BY <3>5 DEF PumpEnds, lockVars, tableVars, downVars
    <3>6. QED
      BY <2>5, <3>1, <3>2, <3>3, <3>4, <3>5
  <2>6. ASSUME NEW t \in Threads, Convert(t) \/ Lookup(t) \/ Retain(t) PROVE LockInv'
    BY <2>6 DEF Convert, Lookup, Retain, PythonRuns, lockVars, tableVars, downVars
  <2>7. ASSUME NEW t \in Threads, NEW v \in Ids, DropWrapper(t, v) PROVE LockInv'
    BY <2>7 DEF DropWrapper, lockVars, callVars, downVars
  <2>8. ASSUME NEW t \in Threads, DropLocker(t) \/ Leave(t) PROVE LockInv'
    <3>1. CASE DropLocker(t)
      BY <3>1 DEF DropLocker, tableVars, downVars
    <3>2. CASE Leave(t)
      BY <3>2 DEF Leave, tableVars, downVars
    <3>3. QED
      BY <2>8, <3>1, <3>2
  <2>9. ASSUME NEW t \in Threads, Dispose(t) PROVE LockInv'
    BY <2>9 DEF Dispose, BeginTeardown, OpFree, PythonRuns, callVars, tableVars
  <2>10. ASSUME NEW t \in Threads, DropOwner(t) PROVE LockInv'
    BY <2>10 DEF DropOwner, BeginTeardown, PythonRuns, lockVars, callVars, tableVars
  <2>11. ASSUME NEW t \in Threads, TeardownHandles(t) \/ TeardownRoots(t)
         PROVE LockInv'
    BY <2>11 DEF TeardownHandles, TeardownRoots, lockVars, callVars, tableVars
  <2>12. ASSUME NEW t \in Threads, TeardownIsolate(t) PROVE LockInv'
    BY <2>12 DEF TeardownIsolate, tableVars
  <2>13. CASE UNCHANGED vars
    BY <2>13 DEF vars
  <2>14. ASSUME NEW t \in Threads,
                \/ \E k \in OwnerKinds : CallOwner(t, k)
                \/ \E k \in ValueKinds, v \in Ids : CallValue(t, k, v)
         PROVE LockInv'
    BY <2>14, <2>2 DEF CallOwner, CallValue, Kinds
  <2>15. QED
    BY <2>1, <2>3, <2>4, <2>5, <2>6, <2>7, <2>8, <2>9, <2>10, <2>11, <2>12, <2>13,
       <2>14 DEF Next
<1>3. QED
  BY <1>1, <1>2, TypeCorrect, PTL DEF Spec

(* Two threads are never inside the isolate at once, and whoever is inside holds   *)
(* the operation mutex and the Locker -- however the owner is dropped.             *)
THEOREM MutualExclusion == Spec => []OneThreadInside
<1>1. LockInv => OneThreadInside
  BY DEF LockInv, OneThreadInside, OwnsOp, OwnsLocker, InsideV8, PCs
<1>2. QED
  BY <1>1, LocksHeld, PTL

-------------------------------------------------------------------------------
(* Lifetimes.  What an owner that outlives its calls adds: no call is between its   *)
(* guard and its end once disposed_ is set, and teardown goes through its stages.  *)
InCall == PCs \ {"idle", "disposing"}

LifeInv ==
    /\ ~disposed => handles = wrappers /\ roots /\ isolate /\ stage = "none"
    /\ \A t \in Threads : pc[t] \in InCall => ~disposed
    /\ \A t \in Threads : arg[t] # NoId => pc[t] \in InCall /\ arg[t] \in wrappers
    /\ stage # "none" => isolate
    /\ stage \in {"roots", "isolate"} => handles = {}
    /\ stage = "isolate" => ~roots
    /\ disposed /\ stage = "none" => handles = {} /\ ~roots /\ ~isolate

LEMMA Lifetimes == ASSUME OwnerDropsMidCall = FALSE
                   PROVE  Spec => []LifeInv
<1> USE DEF InCall, PCs
<1>1. Init => LifeInv
  BY DEF Init, LifeInv, NoId
<1>2. TypeOK /\ LockInv /\ LifeInv /\ [Next]_vars => LifeInv'
  <2> SUFFICES ASSUME TypeOK, LockInv, LifeInv, [Next]_vars PROVE LifeInv'
    OBVIOUS
  <2> USE DEF TypeOK, LifeInv, GoTo
  <2>1. ASSUME NEW t \in Threads, TakeGil(t) \/ YieldGil(t) PROVE LifeInv'
    BY <2>1 DEF TakeGil, YieldGil, callVars, tableVars, downVars
  <2>2. ASSUME NEW t \in Threads, NEW k \in Kinds, NEW v \in wrappers \cup {NoId},
               Admitted, Enter(t, k, v)
        PROVE LifeInv'
    BY <2>2 DEF Admitted, Enter, tableVars, downVars
  <2>3. ASSUME NEW t \in Threads, Refused(t) PROVE LifeInv'
    BY <2>3 DEF Refused, callVars, tableVars, downVars
  <2>4. ASSUME NEW t \in Threads, TakeLocker(t) PROVE LifeInv'
    <3>1. /\ \E where \in InCall : pc' = [pc EXCEPT ![t] = where]
          /\ pc[t] = "locking"
          /\ UNCHANGED <<arg, handles, wrappers, disposed, stage, roots, isolate>>
      BY <2>4 DEF TakeLocker, tableVars, downVars
    <3>2. QED
      BY <3>1
  <2>5. ASSUME NEW t \in Threads,
               CallHost(t) \/ HostReturns(t) \/ ScriptEnds(t) \/ Rejoin(t)
               \/ PumpCallback(t) \/ PumpEnds(t)
        PROVE LifeInv'
    <3>1. /\ \E where \in InCall : pc' = [pc EXCEPT ![t] = where]
          /\ pc[t] \in InCall
          /\ UNCHANGED <<arg, handles, wrappers, disposed, stage, roots, isolate>>
      BY <2>5 DEF CallHost, HostReturns, ScriptEnds, Rejoin, PumpCallback, PumpEnds,
                  lockVars, tableVars, downVars
    <3>2. QED
      BY <3>1
  <2>6. ASSUME NEW t \in Threads, Convert(t) \/ Lookup(t) PROVE LifeInv'
    <3>1. /\ \E where \in InCall : pc' = [pc EXCEPT ![t] = where]
          /\ pc[t] \in InCall
          /\ UNCHANGED <<arg, handles, wrappers, disposed, stage, roots, isolate>>
      BY <2>6 DEF Convert, Lookup, lockVars, tableVars, downVars
    <3>2. QED
      BY <3>1
  <2>7. ASSUME NEW t \in Threads, Retain(t) PROVE LifeInv'
    BY <2>7 DEF Retain, lockVars, downVars
  <2>8. ASSUME NEW t \in Threads, NEW v \in Ids, DropWrapper(t, v) PROVE LifeInv'
    BY <2>8 DEF DropWrapper, ArgInUse, InFlight, callVars, downVars
  <2>9. ASSUME NEW t \in Threads, DropLocker(t) \/ Leave(t) PROVE LifeInv'
    BY <2>9 DEF DropLocker, Leave, NoId, tableVars, downVars
  <2>10. ASSUME NEW t \in Threads, Dispose(t) \/ DropOwner(t) PROVE LifeInv'
    <3>1. \A u \in Threads : pc[u] \notin InCall
      <4>1. CASE Dispose(t)
        BY <4>1 DEF Dispose, OpFree, LockInv, OwnsOp
      <4>2. CASE DropOwner(t)
        BY <4>2 DEF DropOwner, InFlight
      <4>3. QED
        BY <2>10, <4>1, <4>2
    <3>2. CASE disposed
      <4>1. UNCHANGED <<pc, arg, handles, wrappers, disposed, stage, roots, isolate>>
        <5>1. CASE Dispose(t)
          BY <3>2, <5>1 DEF Dispose, callVars, tableVars
        <5>2. CASE DropOwner(t)
          BY <3>2, <5>2 DEF DropOwner, callVars, tableVars
        <5>3. QED
          BY <2>10, <5>1, <5>2
      <4>2. QED
        BY <4>1
    <3>3. CASE ~disposed
      <4>1. /\ disposed' = TRUE /\ stage' = "handles"
            /\ \A u \in Threads : pc'[u] \notin InCall
            /\ UNCHANGED <<arg, handles, wrappers, roots, isolate>>
        BY <2>10, <3>1, <3>3
           DEF Dispose, DropOwner, BeginTeardown, lockVars, callVars, tableVars
      <4>2. QED
        BY <3>1, <3>3, <4>1
    <3>4. QED
      BY <3>2, <3>3
  <2>11. ASSUME NEW t \in Threads, TeardownHandles(t) \/ TeardownRoots(t)
         PROVE LifeInv'
    BY <2>11 DEF TeardownHandles, TeardownRoots, callVars, tableVars
  <2>12. ASSUME NEW t \in Threads, TeardownIsolate(t) PROVE LifeInv'
    BY <2>12 DEF TeardownIsolate, tableVars
  <2>13. CASE UNCHANGED vars
    BY <2>13 DEF vars
  <2>14. ASSUME NEW t \in Threads,
                \/ \E k \in OwnerKinds : CallOwner(t, k)
                \/ \E k \in ValueKinds, v \in Ids : CallValue(t, k, v)
         PROVE LifeInv'
    BY <2>14, <2>2 DEF CallOwner, CallValue, Kinds
  <2>15. QED
    BY <2>1, <2>3, <2>4, <2>5, <2>6, <2>7, <2>8, <2>9, <2>10, <2>11, <2>12, <2>13,
       <2>14 DEF Next
<1>3. QED
  BY <1>1, <1>2, TypeCorrect, LocksHeld, PTL DEF Spec

(* With an owner that outlives the calls on its values, nothing a call inside the   *)
(* isolate uses is torn down under it.                                             *)
THEOREM NoUseAfterTeardown == ASSUME OwnerDropsMidCall = FALSE
                              PROVE  Spec => []IsolateOutlivesCalls
<1>1. LifeInv => IsolateOutlivesCalls
  BY DEF LifeInv, IsolateOutlivesCalls, InCall, InsideV8, PCs
<1>2. QED
  BY <1>1, Lifetimes, PTL

(* The handle table holds exactly the live wrappers' handles until disposal, and    *)
(* nothing outlives the isolate.                                                   *)
THEOREM HandleTable == ASSUME OwnerDropsMidCall = FALSE
                       PROVE  Spec => []HandlesMatchWrappers
<1>1. LifeInv => HandlesMatchWrappers
  BY DEF LifeInv, HandlesMatchWrappers
<1>2. QED
  BY <1>1, Lifetimes, PTL

-------------------------------------------------------------------------------
(* Answers.  A call that leaves has been answered "done" or "failed": the lookup of *)
(* the value it was made on never comes back empty.                                *)
AnswerInv ==
    \A t \in Threads :
        /\ pc[t] \in {"unlock", "leave"} => answer[t] \in {"done", "failed"}
        /\ pc[t] = "locking" => kind[t] \in OwnerKinds \/ arg[t] # NoId
        /\ pc[t] = "lookup" => arg[t] # NoId

LEMMA Answered == ASSUME OwnerDropsMidCall = FALSE
                  PROVE  Spec => []AnswerInv
<1>1. Init => AnswerInv
  BY DEF Init, AnswerInv
<1>2. TypeOK /\ LifeInv /\ AnswerInv /\ [Next]_vars => AnswerInv'
  <2> SUFFICES ASSUME TypeOK, LifeInv, AnswerInv, [Next]_vars PROVE AnswerInv'
    OBVIOUS
  <2> USE DEF TypeOK, AnswerInv, GoTo, Answers, PCs
  <2>1. ASSUME NEW t \in Threads, UNCHANGED callVars, UNCHANGED answer
        PROVE AnswerInv'
    BY <2>1 DEF callVars
  <2>2. ASSUME NEW t \in Threads, NEW k \in Kinds, NEW v \in Ids \cup {NoId},
               k \in OwnerKinds \/ v # NoId, Enter(t, k, v)
        PROVE AnswerInv'
    BY <2>2 DEF Enter
  <2>3. ASSUME NEW t \in Threads, Refused(t) PROVE AnswerInv'
    BY <2>3 DEF Refused, PythonRuns, callVars
  <2>4. ASSUME NEW t \in Threads, TakeLocker(t) PROVE AnswerInv'
    BY <2>4 DEF TakeLocker, OwnerKinds
  <2>5. ASSUME NEW t \in Threads,
               CallHost(t) \/ HostReturns(t) \/ ScriptEnds(t) \/ PumpCallback(t)
        PROVE AnswerInv'
    BY <2>5 DEF CallHost, HostReturns, ScriptEnds, PumpCallback
  <2>6. ASSUME NEW t \in Threads, Rejoin(t) PROVE AnswerInv'
    BY <2>6 DEF Rejoin
  <2>7. ASSUME NEW t \in Threads, PumpEnds(t) PROVE AnswerInv'
    BY <2>7 DEF PumpEnds
  <2>8. ASSUME NEW t \in Threads, Convert(t) \/ Retain(t) PROVE AnswerInv'
    BY <2>8 DEF Convert, Retain
  <2>9. ASSUME NEW t \in Threads, Lookup(t) PROVE AnswerInv'
    <3>1. arg[t] \in handles
      BY <2>9 DEF Lookup, LifeInv, InCall
    <3>2. QED
      BY <2>9, <3>1 DEF Lookup
  <2>10. ASSUME NEW t \in Threads, DropLocker(t) \/ Leave(t) PROVE AnswerInv'
    BY <2>10 DEF DropLocker, Leave
  <2>11. ASSUME NEW t \in Threads, Dispose(t) PROVE AnswerInv'
    BY <2>11 DEF Dispose, callVars
  <2>12. ASSUME NEW t \in Threads, TeardownIsolate(t) PROVE AnswerInv'
    BY <2>12 DEF TeardownIsolate
  <2>13. ASSUME NEW t \in Threads,
                \/ TakeGil(t) \/ YieldGil(t) \/ DropOwner(t)
                \/ TeardownHandles(t) \/ TeardownRoots(t)
                \/ \E v \in Ids : DropWrapper(t, v)
         PROVE AnswerInv'
    BY <2>13, <2>1 DEF TakeGil, YieldGil, DropOwner, TeardownHandles, TeardownRoots,
                       DropWrapper
  <2>14. ASSUME NEW t \in Threads,
                \/ \E k \in OwnerKinds : CallOwner(t, k)
                \/ \E k \in ValueKinds, v \in Ids : CallValue(t, k, v)
         PROVE AnswerInv'
    BY <2>14, <2>2 DEF CallOwner, CallValue, Kinds, Ids, NoId
  <2>15. CASE UNCHANGED vars
    BY <2>15 DEF vars, callVars
  <2>16. QED
    BY <2>3, <2>4, <2>5, <2>6, <2>7, <2>8, <2>9, <2>10, <2>11, <2>12, <2>13, <2>14,
       <2>15 DEF Next
<1>3. QED
  BY <1>1, <1>2, TypeCorrect, Lifetimes, PTL DEF Spec

-------------------------------------------------------------------------------
(* Refinement: every step is a step of ContextPromise or leaves what callers see   *)
(* unchanged.                                                                      *)
LEMMA PromiseStep ==
    ASSUME OwnerDropsMidCall = FALSE,
           TypeOK, LockInv, LifeInv, AnswerInv, [Next]_vars
    PROVE  [Promise!Next]_<<~disposed, SeenActive, SeenIssued, SeenValues, SeenAnswer>>
<1> DEFINE seen == <<~disposed, SeenActive, SeenIssued, SeenValues, SeenAnswer>>
           Step == [Promise!Next]_seen
<1> USE DEF TypeOK, PCs, Ids, GoTo, Answers
<1>1. ASSUME NEW t \in Threads, pc[t] \in InCall,
             \E where \in InCall : pc' = [pc EXCEPT ![t] = where],
             \A u \in Threads \ {t} : answer'[u] = answer[u],
             UNCHANGED <<op, handles, nextId, disposed>>
      PROVE  UNCHANGED seen
  <2>2. SeenAnswer' = SeenAnswer
    BY <1>1 DEF SeenAnswer, InCall
  <2>3. SeenActive' = SeenActive
    BY <1>1 DEF SeenActive, InCall
  <2>4. QED
    BY <1>1, <2>2, <2>3 DEF SeenValues, SeenIssued
<1>2. ASSUME NEW t \in Threads, NEW k \in Kinds, NEW v \in Ids \cup {NoId},
             pc[t] = "idle", Admitted, Enter(t, k, v)
      PROVE  Step
  <2>1. /\ \A u \in Threads : pc[u] # "disposing" /\ pc'[u] # "disposing"
        /\ op = NoOne /\ ~disposed /\ op' = t
        /\ UNCHANGED <<disposed, handles, nextId>>
    BY <1>2 DEF Admitted, OpFree, Enter, LockInv, OwnsOp, tableVars, downVars
  <2>2. /\ SeenActive = NoOne /\ SeenActive' = t
        /\ UNCHANGED <<SeenValues, SeenIssued>>
    BY <2>1 DEF SeenActive, SeenValues, SeenIssued
  <2>3. SeenAnswer' = [SeenAnswer EXCEPT ![t] = "none"]
    BY <1>2 DEF Enter, SeenAnswer
  <2>4. Promise!Start(t)
    BY <2>1, <2>2, <2>3 DEF Promise!Start
  <2>5. QED
    BY <2>4 DEF Promise!Next
<1>3. ASSUME NEW t \in Threads, Refused(t) PROVE Step
  <2>1. \A u \in Threads : pc[u] # "disposing"
    BY <1>3 DEF Refused, PythonRuns, LockInv
  <2>2. UNCHANGED <<op, pc, disposed, handles, nextId>>
    BY <1>3 DEF Refused, lockVars, callVars, tableVars, downVars
  <2>3. SeenActive = op /\ UNCHANGED <<SeenActive, SeenValues, SeenIssued>>
    BY <2>1, <2>2 DEF SeenActive, SeenValues, SeenIssued
  <2>4. CASE pc[t] = "idle"
    <3>1. \E a \in {"busy", "disposed"} :
             /\ answer' = [answer EXCEPT ![t] = a]
             /\ (a = "busy" => op # NoOne) /\ (a = "disposed" => disposed)
      BY <1>3 DEF Refused, OpFree
    <3>2. PICK a \in {"busy", "disposed"} :
             /\ answer' = [answer EXCEPT ![t] = a]
             /\ (a = "busy" => op # NoOne) /\ (a = "disposed" => disposed)
      BY <3>1
    <3>3. SeenAnswer' = [SeenAnswer EXCEPT ![t] = a]
      BY <2>2, <2>4, <3>2 DEF SeenAnswer
    <3>4. Promise!Refuse(t)
      BY <2>2, <2>3, <3>2, <3>3 DEF Promise!Refuse
    <3>5. QED
      BY <3>4 DEF Promise!Next
  <2>5. CASE pc[t] # "idle"
    <3>1. SeenAnswer' = SeenAnswer
      BY <1>3, <2>2, <2>5, <2>1 DEF Refused, SeenAnswer
    <3>2. QED
      BY <2>2, <2>3, <3>1
  <2>6. QED
    BY <2>4, <2>5
<1>4. ASSUME NEW t \in Threads,
             \/ TakeLocker(t) \/ CallHost(t) \/ HostReturns(t) \/ ScriptEnds(t)
             \/ Rejoin(t) \/ PumpCallback(t) \/ PumpEnds(t)
             \/ Convert(t) \/ Lookup(t) \/ DropLocker(t)
      PROVE  UNCHANGED seen
  <2>1. pc[t] \in InCall /\ UNCHANGED <<op, handles, nextId, disposed>>
    BY <1>4 DEF TakeLocker, CallHost, HostReturns, ScriptEnds, Rejoin, PumpCallback,
                PumpEnds, Convert, Lookup, DropLocker, InCall, lockVars, tableVars,
                downVars
  <2>2. \E where \in InCall : pc' = [pc EXCEPT ![t] = where]
    BY <1>4 DEF TakeLocker, CallHost, HostReturns, ScriptEnds, Rejoin, PumpCallback,
                PumpEnds, Convert, Lookup, DropLocker, InCall
  <2>3. \A u \in Threads \ {t} : answer'[u] = answer[u]
    BY <1>4 DEF TakeLocker, CallHost, HostReturns, ScriptEnds, Rejoin, PumpCallback,
                PumpEnds, Convert, Lookup, DropLocker
  <2>4. QED
    BY <1>1, <2>1, <2>2, <2>3
<1>5. ASSUME NEW t \in Threads, Retain(t) PROVE Step
  <2>1. /\ op = t /\ ~disposed /\ nextId \in Ids
        /\ \A u \in Threads : pc[u] # "disposing" /\ pc'[u] # "disposing"
        /\ UNCHANGED <<op, disposed>>
    BY <1>5 DEF Retain, LockInv, LifeInv, OwnsOp, InCall, lockVars, downVars
  <2>2. /\ nextId \in Ids \ 1..(nextId - 1)
        /\ 1..(nextId' - 1) = 1..(nextId - 1) \cup {nextId}
        /\ handles' = handles \cup {nextId}
    BY <1>5 DEF Retain
  <2>3. /\ SeenActive = t /\ SeenActive' = t
        /\ SeenValues' = SeenValues \cup {nextId}
        /\ SeenIssued' = SeenIssued \cup {nextId}
        /\ nextId \in Ids \ SeenIssued
    BY <2>1, <2>2 DEF SeenActive, SeenValues, SeenIssued
  <2>4. SeenAnswer' = SeenAnswer
    BY <1>5 DEF Retain, SeenAnswer
  <2>5. Promise!Wrap(t)
    BY <2>1, <2>3, <2>4 DEF Promise!Wrap
  <2>6. QED
    BY <2>5 DEF Promise!Next
<1>6. ASSUME NEW t \in Threads, NEW v \in Ids, DropWrapper(t, v) PROVE Step
  <2>1. /\ UNCHANGED <<disposed, SeenActive, SeenIssued, SeenAnswer>>
        /\ SeenValues' = SeenValues \ {v}
    BY <1>6 DEF DropWrapper, SeenActive, SeenIssued, SeenAnswer, SeenValues,
                lockVars, callVars, downVars
  <2>2. Promise!Drop(v)
    BY <2>1 DEF Promise!Drop
  <2>3. QED
    BY <2>2 DEF Promise!Next
<1>7. ASSUME NEW t \in Threads, Leave(t) PROVE Step
  <2>1. /\ op = t /\ op' = NoOne /\ UNCHANGED <<disposed, handles, nextId, answer>>
        /\ \A u \in Threads : pc[u] # "disposing" /\ pc'[u] # "disposing"
    BY <1>7 DEF Leave, LockInv, OwnsOp, tableVars, downVars
  <2>2. /\ SeenActive = t /\ SeenActive' = NoOne
        /\ UNCHANGED <<SeenValues, SeenIssued>>
    BY <2>1 DEF SeenActive, SeenValues, SeenIssued
  <2>3. answer[t] \in {"done", "failed"}
    BY <1>7 DEF Leave, AnswerInv
  <2>4. SeenAnswer' = [SeenAnswer EXCEPT ![t] = answer[t]]
    BY <1>7, <2>1 DEF Leave, SeenAnswer
  <2>5. Promise!Finish(t)
    BY <2>1, <2>2, <2>3, <2>4 DEF Promise!Finish
  <2>6. QED
    BY <2>5 DEF Promise!Next
<1>8. ASSUME ~disposed, disposed', UNCHANGED <<handles, nextId, SeenAnswer>>,
             SeenActive = NoOne, SeenActive' = NoOne
      PROVE  Step
  <2>1. SeenValues' = {} /\ UNCHANGED SeenIssued
    BY <1>8 DEF SeenValues, SeenIssued
  <2>2. Promise!Close
    BY <1>8, <2>1 DEF Promise!Close
  <2>3. QED
    BY <2>2 DEF Promise!Next
<1>9. ASSUME NEW t \in Threads, disposed, disposed',
             SeenAnswer' = [SeenAnswer EXCEPT ![t] = "done"],
             UNCHANGED <<nextId, SeenActive>>
      PROVE  Step
  <2>1. UNCHANGED <<SeenValues, SeenIssued>>
    BY <1>9 DEF SeenValues, SeenIssued
  <2>2. Promise!Closed(t)
    BY <1>9, <2>1 DEF Promise!Closed
  <2>3. QED
    BY <2>2 DEF Promise!Next
<1>10. ASSUME NEW t \in Threads, Dispose(t) PROVE Step
  <2>1. /\ \A u \in Threads : pc[u] # "disposing"
        /\ op = NoOne /\ UNCHANGED <<handles, nextId>> /\ pc[t] = "idle"
    BY <1>10 DEF Dispose, OpFree, LockInv, OwnsOp, tableVars
  <2>2. CASE disposed
    <3>1. /\ UNCHANGED <<op, pc, disposed>>
          /\ answer' = [answer EXCEPT ![t] = "done"]
      BY <1>10, <2>2 DEF Dispose, callVars
    <3>2. SeenAnswer' = [SeenAnswer EXCEPT ![t] = "done"] /\ UNCHANGED SeenActive
      BY <2>1, <3>1 DEF SeenAnswer, SeenActive
    <3>3. QED
      BY <1>9, <2>1, <2>2, <3>1, <3>2
  <2>3. CASE ~disposed
    <3>1. /\ disposed' /\ UNCHANGED answer
          /\ pc' = [pc EXCEPT ![t] = "disposing"]
      BY <1>10, <2>3 DEF Dispose, BeginTeardown
    <3>2. UNCHANGED SeenAnswer /\ SeenActive = NoOne /\ SeenActive' = NoOne
      BY <2>1, <3>1 DEF SeenAnswer, SeenActive
    <3>3. QED
      BY <1>8, <2>1, <2>3, <3>1, <3>2
  <2>4. QED
    BY <2>2, <2>3
<1>11. ASSUME NEW t \in Threads, DropOwner(t) PROVE Step
  <2>1. /\ UNCHANGED <<op, pc, answer, handles, nextId>>
        /\ \A u \in Threads : pc[u] = "idle"
    BY <1>11 DEF DropOwner, InFlight, lockVars, callVars, tableVars
  <2>2. op = NoOne
    BY <2>1 DEF LockInv, OwnsOp
  <2>3. UNCHANGED SeenAnswer /\ SeenActive = NoOne /\ SeenActive' = NoOne
    BY <2>1, <2>2 DEF SeenAnswer, SeenActive
  <2>4. CASE disposed
    BY <1>11, <2>1, <2>3, <2>4 DEF DropOwner, SeenValues, SeenIssued
  <2>5. CASE ~disposed
    BY <1>11, <1>8, <2>1, <2>3, <2>5 DEF DropOwner, BeginTeardown
  <2>6. QED
    BY <2>4, <2>5
<1>12. ASSUME NEW t \in Threads, TeardownHandles(t) \/ TeardownRoots(t)
       PROVE  UNCHANGED seen
  <2>1. disposed /\ UNCHANGED <<op, pc, answer, nextId, disposed>>
    BY <1>12 DEF TeardownHandles, TeardownRoots, LockInv, lockVars, callVars, tableVars
  <2>2. QED
    BY <2>1 DEF SeenAnswer, SeenActive, SeenValues, SeenIssued
<1>13. ASSUME NEW t \in Threads, TeardownIsolate(t) PROVE Step
  <2>1. disposed /\ downer = t /\ UNCHANGED <<nextId, disposed, handles>>
    BY <1>13 DEF TeardownIsolate, LockInv, tableVars
  <2>2. CASE pc[t] = "disposing"
    <3>1. /\ op' = NoOne /\ pc' = [pc EXCEPT ![t] = "idle"]
          /\ answer' = [answer EXCEPT ![t] = "done"]
          /\ \A u \in Threads \ {t} : pc[u] # "disposing"
      BY <1>13, <2>1, <2>2 DEF TeardownIsolate, LockInv
    <3>2. UNCHANGED SeenActive
      BY <2>2, <3>1 DEF SeenActive
    <3>3. SeenAnswer' = [SeenAnswer EXCEPT ![t] = "done"]
      BY <2>2, <3>1 DEF SeenAnswer
    <3>4. QED
      BY <1>9, <2>1, <3>2, <3>3
  <2>3. CASE pc[t] # "disposing"
    <3>1. UNCHANGED <<op, pc, answer>>
      BY <1>13, <2>3 DEF TeardownIsolate
    <3>2. QED
      BY <2>1, <3>1 DEF SeenAnswer, SeenActive, SeenValues, SeenIssued
  <2>4. QED
    BY <2>2, <2>3
<1>14. ASSUME NEW t \in Threads, TakeGil(t) \/ YieldGil(t) PROVE UNCHANGED seen
  <2>1. UNCHANGED <<op, pc, answer, handles, nextId, disposed>>
    BY <1>14 DEF TakeGil, YieldGil, callVars, tableVars, downVars
  <2>2. QED
    BY <2>1 DEF SeenAnswer, SeenActive, SeenValues, SeenIssued
<1>15. CASE UNCHANGED vars
  BY <1>15 DEF vars, SeenAnswer, SeenActive, SeenValues, SeenIssued
<1>16. ASSUME NEW t \in Threads,
              \/ \E k \in OwnerKinds : CallOwner(t, k)
              \/ \E k \in ValueKinds, v \in Ids : CallValue(t, k, v)
       PROVE  Step
  BY <1>16, <1>2 DEF CallOwner, CallValue, Kinds
<1>17. QED
  BY <1>3, <1>4, <1>5, <1>6, <1>7, <1>10, <1>11, <1>12, <1>13, <1>14, <1>15, <1>16
     DEF Next

(* Callers of a context see ContextPromise, whatever the threads, the locks and the *)
(* teardown stages do.                                                             *)
THEOREM PromiseKept == ASSUME OwnerDropsMidCall = FALSE
                       PROVE  Spec => KeepsPromise
<1>1. Init => Promise!Init
  BY DEF Init, Promise!Init, SeenAnswer, SeenActive, SeenValues, SeenIssued
<1>2. QED
  BY <1>1, PromiseStep, TypeCorrect, LocksHeld, Lifetimes, Answered, PTL
     DEF Spec, KeepsPromise, Promise!Spec, Promise!promiseVars
===============================================================================
