----------------------------- MODULE PageLoad_proofs -----------------------------
(***************************************************************************)
(* Theorems about PageLoad, for any documents, any number of host scripts  *)
(* and of threads.  Those about the order of a load assume that one thread *)
(* loads: with two the code breaks them (the run load_overlap).            *)
(***************************************************************************)
EXTENDS PageLoad, SequenceTheorems, TLAPS

OneLoader == \A t, u \in Loaders : t = u

-------------------------------------------------------------------------------
(* Types *)

LEMMA InitTypes == Init => TypeOK
<1> SUFFICES ASSUME Init PROVE TypeOK
  OBVIOUS
<1>1. done \in Seq((0..MaxLoads) \X Nat)
  BY EmptySeq DEF Init
<1>2. pc \in [Threads -> Waiting]
  BY DEF Init, Waiting
<1>3. gen \in 0..MaxLoads /\ mine \in [Threads -> 0..MaxLoads]
  BY BoundsAssumption DEF Init
<1> QED
  BY <1>1, <1>2, <1>3 DEF Init, TypeOK, None

LEMMA DoneGrows ==
    ASSUME NEW s \in Seq((0..MaxLoads) \X Nat), NEW g \in 0..MaxLoads, NEW n \in Nat
    PROVE  /\ Append(s, <<g, n>>) \in Seq((0..MaxLoads) \X Nat)
           /\ DOMAIN s = 1..Len(s) /\ Len(s) \in Nat
           /\ DOMAIN Append(s, <<g, n>>) = 1..(Len(s) + 1)
           /\ \A i \in 1..Len(s) : Append(s, <<g, n>>)[i] = s[i]
           /\ Append(s, <<g, n>>)[Len(s) + 1] = <<g, n>>
<1>1. <<g, n>> \in (0..MaxLoads) \X Nat
  OBVIOUS
<1> QED
  BY <1>1, AppendProperties

LEMMA LoadStepTypes ==
    ASSUME TypeOK, NEW t \in Threads, LoadStep(t)
    PROVE  TypeOK'
<1> USE DEF TypeOK, Waiting, InJs, GoTo, loaderVars, genVars
<1>1. ASSUME Raise(t) PROVE TypeOK'
  BY <1>1 DEF Raise
<1>2. CASE Install(t)
  <2>1. CASE Free /\ gen < MaxLoads
    <3>1. gen' \in 0..MaxLoads /\ done' \in Seq((0..MaxLoads) \X Nat)
      BY <1>2, <2>1, BoundsAssumption, EmptySeq DEF Install, Raise
    <3>2. mine' \in [Threads -> 0..MaxLoads] /\ pc' \in [Threads -> Waiting \cup InJs \cup {"entering"}]
      BY <1>2, <2>1, <3>1 DEF Install
    <3> QED
      BY <1>2, <2>1, <3>1, <3>2 DEF Install, None
  <2>2. CASE ~(Free /\ gen < MaxLoads)
    BY <1>1, <1>2, <2>2 DEF Install
  <2> QED BY <2>1, <2>2
<1>3. CASE ListScripts(t)
  BY <1>3 DEF ListScripts
<1>4. CASE SkipOther(t)
  BY <1>4 DEF SkipOther
<1>5. CASE NoResource(t)
  BY <1>1, <1>5 DEF NoResource
<1>6. CASE SetCurrentScript(t)
  BY <1>6 DEF SetCurrentScript, None
<1>7. CASE EnterScript(t)
  <2>1. CASE Free
    BY <1>7, <2>1 DEF EnterScript
  <2>2. CASE ~Free
    BY <1>7, <2>2, SMTT(40) DEF EnterScript, None
  <2> QED BY <2>1, <2>2
<1>8. ASSUME NEW ok \in BOOLEAN, ScriptEnds(t, ok) PROVE TypeOK'
  <2>1. CASE ok
    <3>1. /\ done' = Append(done, <<mine[t], next[t]>>)
          /\ next' = [next EXCEPT ![t] = next[t] + 1]
          /\ mine[t] \in 0..MaxLoads /\ next[t] \in Nat
      BY <1>8, <2>1 DEF ScriptEnds
    <3>2. done' \in Seq((0..MaxLoads) \X Nat) /\ next' \in [Threads -> Nat]
      BY <3>1, DoneGrows
    <3> QED
      BY <1>8, <2>1, <3>2 DEF ScriptEnds, None
  <2>2. CASE ~ok
    BY <1>8, <2>2 DEF ScriptEnds, None
  <2> QED BY <2>1, <2>2
<1>9. ASSUME NEW ok \in BOOLEAN, HostScriptEnds(t, ok) PROVE TypeOK'
  <2>1. CASE ok
    <3>1. /\ done' = Append(done, <<mine[t], next[t]>>)
          /\ next' = [next EXCEPT ![t] = next[t] + 1]
          /\ mine[t] \in 0..MaxLoads /\ next[t] \in Nat
      BY <1>9, <2>1 DEF HostScriptEnds
    <3>2. done' \in Seq((0..MaxLoads) \X Nat) /\ next' \in [Threads -> Nat]
      BY <3>1, DoneGrows
    <3> QED
      BY <1>9, <2>1, <3>2 DEF HostScriptEnds
  <2>2. CASE ~ok
    BY <1>9, <2>2 DEF HostScriptEnds
  <2> QED BY <2>1, <2>2
<1>10. CASE HtmlScriptsDone(t) \/ HostScript(t)
  BY <1>10 DEF HtmlScriptsDone, HostScript
<1>11. CASE BeginLifecycle(t) \/ Interactive(t) \/ Complete(t) \/ LifecycleEnds(t) \/ FinishLoad(t)
  BY <1>11 DEF BeginLifecycle, Interactive, Complete, LifecycleEnds, FinishLoad
<1> QED
  BY <1>2, <1>3, <1>4, <1>5, <1>6, <1>7, <1>8, <1>9, <1>10, <1>11 DEF LoadStep

LEMMA StepTypes ==
    ASSUME TypeOK, [Next]_vars
    PROVE  TypeOK'
<1>1. CASE UNCHANGED vars
  BY <1>1 DEF vars, TypeOK
<1>2. ASSUME NEW t \in Threads, Eval(t) \/ EvalEnds(t) \/ OverwriteDocument(t) \/ Dispose(t) \/ BeginLoad(t)
      PROVE  TypeOK'
  BY <1>2 DEF Eval, EvalEnds, OverwriteDocument, Dispose, BeginLoad, TypeOK, Waiting, InJs,
              GoTo, loaderVars, genVars
<1> QED
  BY <1>1, <1>2, LoadStepTypes DEF Next

\* Whatever threads do, all state stays within its type: script positions are naturals,
\* generations within the bound, readyState one of its three strings.
THEOREM TypeCorrect == Spec => []TypeOK
  BY InitTypes, StepTypes, PTL DEF Spec

-------------------------------------------------------------------------------
(* The order of a load *)

RanBefore(n) == Ran = {p \in Scripts(doc) : p < n}

\* What is true of the page at each point of thread t's load.
LoadInv(t) ==
    /\ pc[t] # "eval"
    /\ pc[t] # "idle" => pageReady = "loading"
    /\ pc[t] \notin {"idle", "install"} => gen > 0 /\ mine[t] = gen
    /\ pc[t] = "list" => done = <<>>
    /\ pc[t] \in {"html", "entering", "script", "host", "hostscript"} =>
          todo[t] = doc /\ RanBefore(next[t])
    /\ pc[t] = "html" => next[t] \in 1..(Len(doc) + 1)
    /\ pc[t] \in {"entering", "script"} =>
          next[t] \in Scripts(doc) /\ next[t] <= Len(doc) /\ current_script_ = next[t]
    /\ pc[t] \in {"host", "hostscript"} =>
          next[t] > Len(doc) /\ next[t] <= Len(doc) + HostScripts
    /\ pc[t] \in {"lifecycle", "interactive", "complete", "load", "finish"} =>
          Scripts(doc) \subseteq Ran
    /\ pc[t] \in {"list", "html", "entering", "script", "host", "hostscript", "lifecycle"} =>
          ready_state_ = "loading"
    /\ pc[t] = "interactive" => ready_state_ = "interactive"
    /\ pc[t] = "complete" => ready_state_ = "complete"
    /\ pc[t] \notin {"entering", "script"} => current_script_ = None

\* The other threads evaluate, at most.
OthersEvaluate == \A t \in Threads \ Loaders : pc[t] \in {"idle", "eval"}

IInv ==
    /\ TypeOK
    /\ OthersEvaluate
    /\ \A t \in Loaders : LoadInv(t)
    /\ OwnScriptsInOrder
    /\ LifecycleAfterScripts

\* A position is a natural number.
LEMMA Positions ==
    ASSUME NEW d \in Seq(Kinds)
    PROVE  Scripts(d) \subseteq Nat /\ Len(d) \in Nat
  BY BoundsAssumption DEF Scripts

LEMMA DocIsSeq == TypeOK => doc \in Seq(Kinds)
  BY DocsAssumption, EmptySeq DEF TypeOK

\* A script that ends well is the next one of its document.
LEMMA RunsNext ==
    ASSUME TypeOK, OwnScriptsInOrder, NEW n \in Scripts(doc), RanBefore(n),
           done' = Append(done, <<gen, n>>), UNCHANGED <<gen, doc>>
    PROVE  OwnScriptsInOrder' /\ RanBefore(n + 1)' /\ Ran' = Ran \cup {n}
<1>1. n \in Nat /\ Scripts(doc) \subseteq Nat /\ gen \in 0..MaxLoads
  BY DocIsSeq, Positions DEF TypeOK
<1>2. /\ DOMAIN done = 1..Len(done) /\ Len(done) \in Nat
      /\ DOMAIN done' = 1..(Len(done) + 1)
      /\ \A i \in 1..Len(done) : done'[i] = done[i]
      /\ done'[Len(done) + 1] = <<gen, n>>
  BY <1>1, DoneGrows DEF TypeOK
<1>3. Ran' = Ran \cup {n}
  <2>1. ASSUME NEW x \in Ran' PROVE x \in Ran \cup {n}
    <3>1. PICK i \in 1..(Len(done) + 1) : x = done'[i][2]
      BY <1>2 DEF Ran
    <3>2. i \in 1..Len(done) \/ i = Len(done) + 1
      BY <1>2
    <3> QED BY <1>2, <3>1, <3>2 DEF Ran
  <2>2. ASSUME NEW x \in Ran PROVE x \in Ran'
    <3>1. PICK i \in 1..Len(done) : x = done[i][2]
      BY <1>2 DEF Ran
    <3>2. i \in DOMAIN done' /\ done'[i] = done[i]
      BY <1>2
    <3> QED BY <3>1, <3>2 DEF Ran
  <2>3. n \in Ran'
    <3>1. Len(done) + 1 \in DOMAIN done' /\ done'[Len(done) + 1][2] = n
      BY <1>2
    <3> QED BY <3>1 DEF Ran
  <2> QED BY <2>1, <2>2, <2>3
<1>4. RanBefore(n + 1)'
  BY <1>1, <1>3 DEF RanBefore, Scripts
<1>5. \A i \in DOMAIN done : done[i][2] \in Scripts(doc) /\ done[i][2] < n
  BY DEF RanBefore, Ran
<1>6. \A i \in DOMAIN done' : done'[i][1] = gen /\ done'[i][2] \in Scripts(doc)
  BY <1>2 DEF OwnScriptsInOrder
<1>7. \A i, j \in DOMAIN done' : i < j => done'[i][2] < done'[j][2]
  <2> SUFFICES ASSUME NEW i \in DOMAIN done', NEW j \in DOMAIN done', i < j
               PROVE  done'[i][2] < done'[j][2]
    OBVIOUS
  <2>1. i \in DOMAIN done
    BY <1>2
  <2>2. CASE j \in DOMAIN done
    BY <1>2, <2>1, <2>2 DEF OwnScriptsInOrder
  <2>3. CASE j = Len(done) + 1
    BY <1>2, <1>5, <2>1, <2>3
  <2> QED BY <1>2, <2>2, <2>3
<1>8. ASSUME NEW i \in DOMAIN done', NEW p \in Scripts(doc), p < done'[i][2] PROVE p \in Ran'
  <2>1. done'[i][2] <= n /\ done'[i][2] \in Nat
    BY <1>1, <1>2, <1>5
  <2>2. p < n
    BY <1>1, <1>8, <2>1
  <2> QED BY <2>2, <1>3 DEF RanBefore
<1> QED
  BY <1>3, <1>4, <1>6, <1>7, <1>8 DEF OwnScriptsInOrder, Scripts

\* What a thread does that is not loading disturbs no load.
LEMMA OthersKeep ==
    ASSUME IInv, NEW t \in Threads,
           Eval(t) \/ EvalEnds(t) \/ OverwriteDocument(t) \/ Dispose(t)
    PROVE  IInv'
<1>1. TypeOK'
  BY StepTypes DEF IInv, Next
<1>2. UNCHANGED <<loaderVars, gen, doc, done, ready_state_, current_script_, pageReady>>
  BY DEF Eval, EvalEnds, OverwriteDocument, Dispose, genVars
<1>3. \A u \in Loaders : pc'[u] = pc[u]
  <2>1. CASE t \in Loaders
    <3>1. pc' = pc
      BY <2>1 DEF IInv, LoadInv, Eval, EvalEnds, OverwriteDocument, Dispose
    <3> QED BY <3>1
  <2>2. CASE t \notin Loaders
    BY <2>2, ThreadsAssumption
       DEF IInv, TypeOK, Eval, EvalEnds, OverwriteDocument, Dispose, GoTo
  <2> QED BY <2>1, <2>2
<1>4. \A u \in Threads \ Loaders : pc'[u] \in {"idle", "eval"}
  BY DEF IInv, OthersEvaluate, TypeOK, Eval, EvalEnds, OverwriteDocument, Dispose, GoTo
<1>5. Ran' = Ran /\ Scripts(doc)' = Scripts(doc)
  BY <1>2 DEF Ran, Scripts
<1>6. ASSUME NEW u \in Loaders PROVE LoadInv(u)'
  BY <1>2, <1>3, <1>5 DEF IInv, LoadInv, loaderVars, RanBefore
<1>7. OwnScriptsInOrder' /\ LifecycleAfterScripts'
  BY <1>2, <1>3, <1>5 DEF IInv, OwnScriptsInOrder, LifecycleAfterScripts
<1> QED
  BY <1>1, <1>4, <1>6, <1>7 DEF IInv, OthersEvaluate

\* Each step of the one load keeps what is true of it.
LEMMA LoadKeeps ==
    ASSUME OneLoader, IInv, NEW t \in Loaders, BeginLoad(t) \/ LoadStep(t)
    PROVE  IInv'
<1> DEFINE Kept == OwnScriptsInOrder' /\ LifecycleAfterScripts' /\ LoadInv(t)'
<1>1. t \in Threads /\ TypeOK /\ TypeOK' /\ LoadInv(t)
  BY StepTypes, ThreadsAssumption DEF IInv, Next
<1>2. \A u \in Loaders : u = t
  BY DEF OneLoader
<1>3. \A u \in Threads \ {t} : pc'[u] = pc[u]
  BY <1>1 DEF TypeOK, LoadStep, BeginLoad, Install, ListScripts, SkipOther, NoResource, AtScript,
       SetCurrentScript, EnterScript, ScriptEnds, HostScriptEnds, HtmlScriptsDone, HostScript,
       BeginLifecycle, Interactive, Complete, LifecycleEnds, FinishLoad, Raise, GoTo
<1>4. OthersEvaluate'
  BY <1>3 DEF IInv, OthersEvaluate
<1>5. SUFFICES Kept
  BY <1>1, <1>2, <1>4 DEF IInv
<1>6. ASSUME UNCHANGED <<gen, doc, done>>
      PROVE  /\ OwnScriptsInOrder' /\ Ran' = Ran /\ Scripts(doc)' = Scripts(doc)
             /\ \A n : RanBefore(n) => RanBefore(n)'
  <2>1. Ran' = Ran /\ Scripts(doc)' = Scripts(doc)
    BY <1>6 DEF Ran, Scripts
  <2> QED BY <1>6, <2>1 DEF IInv, OwnScriptsInOrder, RanBefore
<1>7. ASSUME Raise(t) PROVE pc[t] # "idle" /\ current_script_ = None => Kept
  <2>1. pc'[t] = "idle" /\ UNCHANGED <<gen, doc, done, ready_state_, pageReady, current_script_>>
    BY <1>1, <1>7 DEF Raise, GoTo, genVars, TypeOK
  <2> QED BY <1>2, <1>6, <2>1 DEF IInv, LoadInv, LifecycleAfterScripts
<1>8. CASE BeginLoad(t)
  <2>1. pc'[t] = "install" /\ pageReady' = "loading" /\ pc[t] = "idle"
        /\ UNCHANGED <<gen, doc, done, ready_state_, current_script_>>
    BY <1>1, <1>8 DEF BeginLoad, GoTo, genVars, TypeOK
  <2> QED BY <1>1, <1>6, <2>1 DEF IInv, LoadInv, LifecycleAfterScripts
<1>9. CASE Install(t)
  <2>1. CASE Raise(t)
    BY <1>1, <1>7, <1>9, <2>1 DEF Install, LoadInv
  <2>2. CASE ~Raise(t)
    <3>1. /\ pc[t] = "install" /\ pc'[t] = "list" /\ done' = <<>> /\ gen' = gen + 1
          /\ mine'[t] = gen' /\ ready_state_' = "loading" /\ current_script_' = None
          /\ pageReady' = pageReady
      BY <1>1, <1>9, <2>2 DEF Install, GoTo, TypeOK
    <3>2. DOMAIN done' = {} /\ gen' > 0
      BY <1>1, <3>1 DEF TypeOK
    <3> QED BY <1>1, <3>1, <3>2 DEF LoadInv, OwnScriptsInOrder, LifecycleAfterScripts
  <2> QED BY <2>1, <2>2
<1>10. CASE ListScripts(t)
  <2>1. /\ pc[t] = "list" /\ pc'[t] = "html" /\ todo'[t] = doc /\ next'[t] = 1
        /\ UNCHANGED <<mine, gen, doc, done, ready_state_, current_script_, pageReady>>
    BY <1>1, <1>10 DEF ListScripts, GoTo, genVars, TypeOK
  <2>2. Ran = {} /\ RanBefore(1)
    BY <1>1, <2>1 DEF LoadInv, Ran, RanBefore, Scripts
  <2>3. Len(doc) \in Nat
    BY <1>1, DocIsSeq, Positions
  <2> QED BY <1>1, <1>6, <2>1, <2>2, <2>3 DEF IInv, LoadInv, LifecycleAfterScripts
<1>11. CASE SkipOther(t)
  <2>1. /\ pc[t] = "html" /\ pc'[t] = "html" /\ todo[t] = doc /\ todo' = todo
        /\ next[t] \in DOMAIN doc /\ doc[next[t]] = "other" /\ next'[t] = next[t] + 1
        /\ UNCHANGED <<mine, gen, doc, done, ready_state_, current_script_, pageReady>>
    BY <1>1, <1>11 DEF SkipOther, AtScript, genVars, TypeOK, LoadInv
  <2>2. doc \in Seq(Kinds) /\ Scripts(doc) \subseteq Nat /\ Len(doc) \in Nat
    BY <1>1, DocIsSeq, Positions
  <2>3. next[t] \in 1..Len(doc) /\ next[t] \notin Scripts(doc)
    BY <2>1, <2>2 DEF Scripts
  <2>4. RanBefore(next[t] + 1)
    BY <1>1, <2>1, <2>2, <2>3 DEF LoadInv, RanBefore
  <2> QED BY <1>1, <1>6, <2>1, <2>2, <2>3, <2>4 DEF IInv, LoadInv, LifecycleAfterScripts
<1>12. CASE NoResource(t)
  BY <1>1, <1>7, <1>12 DEF NoResource, AtScript, LoadInv
<1>13. CASE SetCurrentScript(t)
  <2>1. /\ pc[t] = "html" /\ pc'[t] = "entering" /\ todo[t] = doc
        /\ next[t] \in DOMAIN doc /\ doc[next[t]] = "classic" /\ current_script_' = next[t]
        /\ UNCHANGED <<todo, next, mine, gen, doc, done, ready_state_, pageReady>>
    BY <1>1, <1>13 DEF SetCurrentScript, AtScript, GoTo, loaderVars, genVars, TypeOK, LoadInv
  <2>2. doc \in Seq(Kinds) /\ Len(doc) \in Nat
    BY <1>1, DocIsSeq, Positions
  <2>3. next[t] \in Scripts(doc) /\ next[t] <= Len(doc)
    BY <2>1, <2>2, BoundsAssumption DEF Scripts
  <2> QED BY <1>1, <1>6, <2>1, <2>3 DEF IInv, LoadInv, LifecycleAfterScripts
<1>14. CASE EnterScript(t)
  <2>1. pc[t] = "entering" /\ UNCHANGED <<todo, next, mine, gen, doc, done, ready_state_, pageReady>>
    BY <1>14 DEF EnterScript, loaderVars, genVars
  <2>2. \/ pc'[t] = "script" /\ current_script_' = current_script_
        \/ pc'[t] = "idle" /\ current_script_' = None
    BY <1>1, <1>14 DEF EnterScript, GoTo, TypeOK
  <2> QED BY <1>1, <1>6, <2>1, <2>2 DEF IInv, LoadInv, LifecycleAfterScripts
<1>17. CASE HtmlScriptsDone(t)
  <2>1. /\ pc[t] = "html" /\ next[t] > Len(todo[t])
        /\ pc'[t] = IF HostScripts = 0 THEN "lifecycle" ELSE "host"
        /\ UNCHANGED <<todo, next, mine, gen, doc, done, ready_state_, current_script_, pageReady>>
    BY <1>1, <1>17 DEF HtmlScriptsDone, GoTo, loaderVars, genVars, TypeOK
  <2>2. Len(doc) \in Nat /\ HostScripts \in Nat /\ Scripts(doc) \subseteq Nat
    BY <1>1, DocIsSeq, Positions, BoundsAssumption
  <2>3. next[t] = Len(doc) + 1 /\ RanBefore(next[t])
    BY <1>1, <2>1, <2>2 DEF LoadInv
  <2>4. HostScripts = 0 => Scripts(doc) \subseteq Ran
    BY <2>2, <2>3 DEF RanBefore, Scripts
  <2> QED BY <1>1, <1>6, <2>1, <2>2, <2>3, <2>4 DEF IInv, LoadInv, LifecycleAfterScripts
<1>18. CASE HostScript(t)
  <2>1. pc[t] = "host" /\ pc'[t] \in {"hostscript", "idle"}
        /\ UNCHANGED <<todo, next, mine, gen, doc, done, ready_state_, current_script_, pageReady>>
    BY <1>1, <1>18 DEF HostScript, GoTo, loaderVars, genVars, TypeOK
  <2> QED BY <1>1, <1>6, <2>1 DEF IInv, LoadInv, LifecycleAfterScripts
<1>15. ASSUME NEW ok \in BOOLEAN, ScriptEnds(t, ok) PROVE Kept
  <2>1. /\ pc[t] = "script" /\ current_script_' = None
        /\ UNCHANGED <<todo, mine, gen, doc, ready_state_, pageReady>>
    BY <1>15 DEF ScriptEnds
  <2>2. CASE ok
    <3> PICK n : n = next[t]
      OBVIOUS
    <3>1. /\ pc'[t] = "html" /\ n = next[t] /\ next'[t] = n + 1
          /\ done' = Append(done, <<gen, n>>)
      BY <1>1, <1>15, <2>1, <2>2 DEF ScriptEnds, GoTo, TypeOK, LoadInv
    <3>2. OwnScriptsInOrder' /\ RanBefore(n + 1)' /\ Scripts(doc)' = Scripts(doc)
          /\ Ran \subseteq Ran'
      BY <1>1, <2>1, <3>1, RunsNext DEF IInv, LoadInv, Scripts
    <3>3. n + 1 \in 1..(Len(doc) + 1)
      BY <1>1, <2>1, <3>1, DocIsSeq, Positions, SMTT(40) DEF LoadInv, TypeOK
    <3> QED BY <1>1, <2>1, <3>1, <3>2, <3>3 DEF IInv, LoadInv, LifecycleAfterScripts, RanBefore
  <2>3. CASE ~ok
    <3>1. pc'[t] = "idle" /\ UNCHANGED <<next, done>>
      BY <1>1, <1>15, <2>3 DEF ScriptEnds, GoTo, TypeOK
    <3> QED BY <1>1, <1>6, <2>1, <3>1 DEF IInv, LoadInv, LifecycleAfterScripts
  <2> QED BY <2>2, <2>3
<1>16. ASSUME NEW ok \in BOOLEAN, HostScriptEnds(t, ok) PROVE Kept
  <2>1. /\ pc[t] = "hostscript"
        /\ UNCHANGED <<todo, mine, gen, doc, ready_state_, current_script_, pageReady>>
    BY <1>16 DEF HostScriptEnds
  <2>2. CASE ok
    <3> PICK n : n = next[t]
      OBVIOUS
    <3>1. /\ n = next[t] /\ next'[t] = n + 1
          /\ pc'[t] = IF n + 1 > Len(doc) + HostScripts THEN "lifecycle" ELSE "host"
          /\ done' = Append(done, <<gen, n>>)
      BY <1>1, <1>16, <2>1, <2>2 DEF HostScriptEnds, GoTo, TypeOK, LoadInv
    <3>2. Len(doc) \in Nat /\ HostScripts \in Nat /\ n \in Nat /\ n \in Scripts(doc)
      BY <1>1, <2>1, <3>1, DocIsSeq, Positions, BoundsAssumption, SMTT(40) DEF LoadInv, TypeOK, Scripts
    <3>3. OwnScriptsInOrder' /\ RanBefore(n + 1)' /\ Scripts(doc)' = Scripts(doc)
          /\ Ran \subseteq Ran'
      BY <1>1, <2>1, <3>1, <3>2, RunsNext DEF IInv, LoadInv, Scripts
    <3>4. n + 1 > Len(doc) + HostScripts => Scripts(doc) \subseteq Ran'
      BY <3>2, <3>3 DEF RanBefore, Scripts
    <3> QED
      BY <1>1, <2>1, <3>1, <3>2, <3>3, <3>4 DEF IInv, LoadInv, LifecycleAfterScripts, RanBefore
  <2>3. CASE ~ok
    <3>1. pc'[t] = "idle" /\ UNCHANGED <<next, done>>
      BY <1>1, <1>16, <2>3 DEF HostScriptEnds, GoTo, TypeOK
    <3> QED BY <1>1, <1>6, <2>1, <3>1 DEF IInv, LoadInv, LifecycleAfterScripts
  <2> QED BY <2>2, <2>3
<1>19. CASE BeginLifecycle(t)
  <2>1. pc[t] = "lifecycle" /\ UNCHANGED <<todo, next, mine, gen, doc, done, current_script_, pageReady>>
    BY <1>19 DEF BeginLifecycle, loaderVars, genVars
  <2>2. \/ pc'[t] \in {"idle", "load"} /\ ready_state_' = ready_state_
        \/ pc'[t] = "interactive" /\ ready_state_' = "interactive"
    BY <1>1, <1>19 DEF BeginLifecycle, GoTo, TypeOK
  <2> QED BY <1>1, <1>6, <2>1, <2>2 DEF IInv, LoadInv, LifecycleAfterScripts
<1>20. CASE Interactive(t)
  <2>1. /\ pc[t] = "interactive" /\ pc'[t] = "complete" /\ ready_state_' = "complete"
        /\ UNCHANGED <<todo, next, mine, gen, doc, done, current_script_, pageReady>>
    BY <1>1, <1>20 DEF Interactive, GoTo, loaderVars, genVars, TypeOK
  <2> QED BY <1>1, <1>6, <2>1 DEF IInv, LoadInv, LifecycleAfterScripts
<1>21. CASE Complete(t) \/ LifecycleEnds(t)
  <2>1. /\ pc[t] \in {"complete", "load"} /\ pc'[t] \in {"load", "finish"}
        /\ UNCHANGED <<todo, next, mine, gen, doc, done, ready_state_, current_script_, pageReady>>
    BY <1>1, <1>21 DEF Complete, LifecycleEnds, GoTo, loaderVars, genVars, TypeOK
  <2> QED BY <1>1, <1>6, <2>1 DEF IInv, LoadInv, LifecycleAfterScripts
<1>22. CASE FinishLoad(t)
  <2>1. /\ pc[t] = "finish" /\ pc'[t] = "idle"
        /\ UNCHANGED <<todo, next, mine, gen, doc, done, ready_state_, current_script_>>
    BY <1>1, <1>22 DEF FinishLoad, GoTo, loaderVars, genVars, TypeOK
  <2> QED BY <1>1, <1>2, <1>6, <2>1 DEF IInv, LoadInv, LifecycleAfterScripts
<1> QED
  BY <1>8, <1>9, <1>10, <1>11, <1>12, <1>13, <1>14, <1>15, <1>16, <1>17, <1>18, <1>19, <1>20,
     <1>21, <1>22 DEF LoadStep

LEMMA InitInv == Init => IInv
<1> SUFFICES ASSUME Init PROVE IInv
  OBVIOUS
<1>1. TypeOK
  BY InitTypes
<1>2. OthersEvaluate /\ \A t \in Loaders : LoadInv(t)
  BY ThreadsAssumption DEF Init, OthersEvaluate, LoadInv
<1>3. OwnScriptsInOrder /\ LifecycleAfterScripts
  BY DEF Init, OwnScriptsInOrder, LifecycleAfterScripts
<1> QED
  BY <1>1, <1>2, <1>3 DEF IInv

LEMMA StepInv ==
    ASSUME OneLoader, IInv, [Next]_vars
    PROVE  IInv'
<1>1. CASE UNCHANGED vars
  BY <1>1 DEF vars, IInv, TypeOK, OthersEvaluate, LoadInv, OwnScriptsInOrder,
              LifecycleAfterScripts, Ran, RanBefore, Scripts
<1>2. ASSUME NEW t \in Threads, BeginLoad(t) \/ LoadStep(t) PROVE IInv'
  <2>1. t \in Loaders
    BY <1>2 DEF IInv, OthersEvaluate, BeginLoad, LoadStep, Install, ListScripts, SkipOther,
         NoResource, AtScript, SetCurrentScript, EnterScript, ScriptEnds, HostScriptEnds,
         HtmlScriptsDone, HostScript, BeginLifecycle, Interactive, Complete, LifecycleEnds, FinishLoad
  <2> QED BY <1>2, <2>1, LoadKeeps
<1> QED
  BY <1>1, <1>2, OthersKeep DEF Next

LEMMA Invariance ==
    ASSUME OneLoader
    PROVE  Spec => []IInv
<1>1. IInv /\ [Next]_vars => IInv'
  BY StepInv
<1> QED
  BY <1>1, InitInv, PTL DEF Spec

\* When one thread loads, every generation runs the executable scripts of its document in
\* order and then the host's, none skipped and none twice, whatever other threads evaluate,
\* overwrite or dispose of between the load's native calls.
THEOREM ScriptsInOrder ==
    ASSUME OneLoader
    PROVE  Spec => []OwnScriptsInOrder
<1>1. IInv => OwnScriptsInOrder
  BY DEF IInv
<1> QED
  BY <1>1, Invariance, PTL

\* And no lifecycle event precedes the last script; ready_state is "complete" only after a
\* load that ran all of them.
THEOREM LifecycleLast ==
    ASSUME OneLoader
    PROVE  Spec => []LifecycleAfterScripts
<1>1. IInv => LifecycleAfterScripts
  BY DEF IInv
<1> QED
  BY <1>1, Invariance, PTL

\* Scripts of the load see readyState "loading" and their own element as currentScript.
THEOREM ScriptsSeeLoad ==
    ASSUME OneLoader
    PROVE  Spec => []ScriptsSeeTheirLoad
<1>1. IInv => ScriptsSeeTheirLoad
  BY DEF IInv, LoadInv, OthersEvaluate, ScriptsSeeTheirLoad
<1> QED
  BY <1>1, Invariance, PTL

\* No step takes document.readyState back, or forward by more than one state, within a
\* generation.
THEOREM ReadyStateMonotone ==
    ASSUME OneLoader
    PROVE  Spec => ReadyStateForward
<1> DEFINE Forward == gen' = gen => Rank(ready_state_') - Rank(ready_state_) \in {0, 1}
<1>1. ASSUME IInv, [Next]_vars PROVE [Forward]_vars
  <2>1. ASSUME UNCHANGED ready_state_ PROVE Forward
    BY <1>1, <2>1 DEF IInv, TypeOK, Rank
  <2>2. ASSUME NEW t \in Threads, Install(t) PROVE Forward
    <3>1. UNCHANGED ready_state_ \/ gen' = gen + 1
      BY <2>2 DEF Install, Raise
    <3> QED BY <1>1, <2>1, <3>1 DEF IInv, TypeOK
  <2>3. ASSUME NEW t \in Threads, BeginLifecycle(t) PROVE Forward
    <3>1. t \in Loaders /\ pc[t] = "lifecycle"
      BY <1>1, <2>3 DEF BeginLifecycle, IInv, OthersEvaluate
    <3>2. ready_state_ = "loading"
      BY <1>1, <3>1 DEF IInv, LoadInv
    <3>3. ready_state_' \in {"loading", "interactive"}
      BY <2>3, <3>2 DEF BeginLifecycle
    <3> QED BY <3>2, <3>3 DEF Rank
  <2>4. ASSUME NEW t \in Threads, Interactive(t) PROVE Forward
    <3>1. t \in Loaders /\ pc[t] = "interactive"
      BY <1>1, <2>4 DEF Interactive, IInv, OthersEvaluate
    <3>2. ready_state_ = "interactive" /\ ready_state_' = "complete"
      BY <1>1, <2>4, <3>1 DEF Interactive, IInv, LoadInv
    <3> QED BY <3>2 DEF Rank
  <2>5. \/ UNCHANGED ready_state_
        \/ \E t \in Threads : Install(t) \/ BeginLifecycle(t) \/ Interactive(t)
    BY <1>1 DEF Next, vars, Eval, EvalEnds, OverwriteDocument, Dispose, BeginLoad, LoadStep,
         ListScripts, SkipOther, NoResource, Raise, SetCurrentScript, EnterScript, ScriptEnds,
         HostScriptEnds, HtmlScriptsDone, HostScript, Complete, LifecycleEnds, FinishLoad
  <2> QED BY <2>1, <2>2, <2>3, <2>4, <2>5
<1> QED
  BY <1>1, Invariance, PTL DEF Spec, ReadyStateForward
===============================================================================
