-------------------------------- MODULE PageLoad --------------------------------
(***************************************************************************)
(* Page.load (src/python/iv8/page.py) over PageState                       *)
(* (src/src/core/page_state.cpp): a load replaces the generation, runs the *)
(* document's scripts and the host's, then the lifecycle events, in        *)
(* several native calls between which other Python threads may use the     *)
(* page.                                                                   *)
(*                                                                         *)
(* One step is a piece of Python or native code run under the GIL, or one  *)
(* of JavaScript, run without it but with the operation mutex of the       *)
(* current ContextState (ContextLifecycle) held.  Replacing the generation *)
(* needs that mutex too, so the page has one holder at a time.             *)
(***************************************************************************)
EXTENDS Integers, Sequences

CONSTANTS Threads, NoOne,
          Loaders,    \* the threads that call load(); the others call everything else
          Docs,       \* documents: sequences of the kinds of their scripts
          HostScripts,  \* how many scripts=[...] the host passes
          MaxLoads    \* bound on generations

Kinds == {"classic", "other", "missing"}
  \* executable; not executable (type=module ...); executable, its resource missing

ASSUME ThreadsAssumption == NoOne \notin Threads /\ Loaders \subseteq Threads
ASSUME DocsAssumption == Docs \subseteq Seq(Kinds) /\ Docs # {}
ASSUME BoundsAssumption == HostScripts \in Nat /\ MaxLoads \in Nat

VARIABLES pc,
          todo,       \* per loader: the document it lists (html_scripts())
          next,       \* per loader: the position of its next script
          mine,       \* history, per loader: the generation its load installed
          op,         \* the holder of the operation mutex
          disposed,
          gen, doc,   \* the current generation and its document
          ready_state_,     \* document.readyState
          current_script_,  \* position of the script, or None
          documentSet,  \* global `document` still is the document object
          pageReady,  \* Page._ready_state
          done        \* history: <<load's generation, position>> of each script of this
                      \* generation that ran to its end

vars == <<pc, todo, next, mine, op, disposed, gen, doc, ready_state_, current_script_,
          documentSet, pageReady, done>>
loaderVars == <<todo, next, mine>>
genVars == <<gen, doc, documentSet, done>>

None == 0
Waiting == {"idle", "install", "list", "html", "host", "lifecycle", "finish"}
InJs == {"eval", "script", "hostscript", "interactive", "complete", "load"}

\* The positions that run when all goes well: the executable scripts, then the host's.
Scripts(d) == {i \in 1..(Len(d) + HostScripts) : i > Len(d) \/ d[i] # "other"}

Init ==
    /\ pc = [t \in Threads |-> "idle"]
    /\ todo = [t \in Threads |-> <<>>]
    /\ next = [t \in Threads |-> 1]
    /\ mine = [t \in Threads |-> 0]
    /\ op = NoOne /\ disposed = FALSE
    /\ gen = 0 /\ doc = <<>> /\ ready_state_ = "complete" /\ current_script_ = None
    /\ documentSet = TRUE
    /\ pageReady = "complete"
    /\ done = <<>>

GoTo(t, where) == pc' = [pc EXCEPT ![t] = where]
\* t can run Python: run_html_script never gives the GIL away before eval's guard.
PythonRuns(t) == \A u \in Threads : pc[u] = "entering" => u = t
Free == op = NoOne /\ ~disposed

-------------------------------------------------------------------------------
(* Other uses of the page *)

\* eval(), run_timers(), run_jobs(): refused, or holding the mutex while JavaScript runs.
Eval(t) ==
    /\ pc[t] = "idle" /\ t \notin Loaders /\ PythonRuns(t) /\ Free
    /\ op' = t
    /\ GoTo(t, "eval")
    /\ UNCHANGED <<loaderVars, genVars, disposed, ready_state_, current_script_, pageReady>>

EvalEnds(t) ==
    /\ pc[t] = "eval" /\ PythonRuns(t)
    /\ op' = NoOne
    /\ GoTo(t, "idle")
    /\ UNCHANGED <<loaderVars, genVars, disposed, ready_state_, current_script_, pageReady>>

\* JavaScript overwrites the global `document`, an ordinary property.
OverwriteDocument(t) ==
    /\ pc[t] \in {"eval", "script", "hostscript"} /\ documentSet
    /\ documentSet' = FALSE
    /\ UNCHANGED <<pc, loaderVars, op, disposed, gen, doc, done, ready_state_,
                   current_script_, pageReady>>

\* dispose(): refused while an operation is active.
Dispose(t) ==
    /\ pc[t] = "idle" /\ t \notin Loaders /\ PythonRuns(t) /\ Free
    /\ disposed' = TRUE
    /\ UNCHANGED <<pc, loaderVars, op, genVars, ready_state_, current_script_, pageReady>>

-------------------------------------------------------------------------------
(* Page.load *)

\* Mutant: ready_state becomes "loading" only in the native load.
BeginLoadSilently(t) ==
    /\ pc[t] = "idle" /\ t \in Loaders /\ PythonRuns(t) /\ gen < MaxLoads
    /\ GoTo(t, "install")
    /\ UNCHANGED <<loaderVars, op, disposed, genVars, ready_state_, current_script_, pageReady>>

\* The arguments are valid.
BeginLoad(t) ==
    /\ pc[t] = "idle" /\ t \in Loaders /\ PythonRuns(t) /\ gen < MaxLoads
    /\ pageReady' = "loading"
    /\ GoTo(t, "install")
    /\ UNCHANGED <<loaderVars, op, disposed, genVars, ready_state_, current_script_>>

\* An exception leaves load(); there is no rollback.
Raise(t) ==
    /\ GoTo(t, "idle")
    /\ UNCHANGED <<loaderVars, op, disposed, genVars, ready_state_, current_script_, pageReady>>

\* Mutant: the new document keeps the default "complete".
InstallComplete(t) ==
    /\ pc[t] = "install" /\ PythonRuns(t)
    /\ \/ ~Free /\ Raise(t)
       \/ /\ Free /\ gen < MaxLoads
          /\ gen' = gen + 1
          /\ doc' \in Docs
          /\ ready_state_' = "complete" /\ current_script_' = None /\ documentSet' = TRUE
          /\ done' = <<>>
          /\ mine' = [mine EXCEPT ![t] = gen']
          /\ GoTo(t, "list")
          /\ UNCHANGED <<todo, next, op, disposed, pageReady>>

\* PageState::load: disposed -> JSContextDisposedError, an active operation ->
\* JSContextBusyError; otherwise a fresh generation.
Install(t) ==
    /\ pc[t] = "install" /\ PythonRuns(t)
    /\ \/ ~Free /\ Raise(t)
       \/ /\ Free /\ gen < MaxLoads
          /\ gen' = gen + 1
          /\ doc' \in Docs
          /\ ready_state_' = "loading" /\ current_script_' = None /\ documentSet' = TRUE
          /\ done' = <<>>
          /\ mine' = [mine EXCEPT ![t] = gen']
          /\ GoTo(t, "list")
          /\ UNCHANGED <<todo, next, op, disposed, pageReady>>

\* Mutant: the list leaves out what does not run, so indexes no longer match.
ListExecutable(t) ==
    /\ pc[t] = "list" /\ PythonRuns(t)
    /\ todo' = [todo EXCEPT ![t] = SelectSeq(doc, LAMBDA k : k # "other")]
    /\ next' = [next EXCEPT ![t] = 1]
    /\ GoTo(t, "html")
    /\ UNCHANGED <<mine, op, disposed, genVars, ready_state_, current_script_, pageReady>>

\* html_scripts() reads whatever document is current, unguarded.
ListScripts(t) ==
    /\ pc[t] = "list" /\ PythonRuns(t)
    /\ todo' = [todo EXCEPT ![t] = doc]
    /\ next' = [next EXCEPT ![t] = 1]
    /\ GoTo(t, "html")
    /\ UNCHANGED <<mine, op, disposed, genVars, ready_state_, current_script_, pageReady>>

AtScript(t, k) ==
    /\ pc[t] = "html" /\ PythonRuns(t)
    /\ next[t] \in DOMAIN todo[t] /\ todo[t][next[t]] = k

\* A <script> that is not a classic one stays in the tree and does not run.
SkipOther(t) ==
    /\ AtScript(t, "other")
    /\ next' = [next EXCEPT ![t] = @ + 1]
    /\ UNCHANGED <<pc, todo, mine, op, disposed, genVars, ready_state_, current_script_,
                   pageReady>>

NoResource(t) == AtScript(t, "missing") /\ Raise(t)

\* run_html_script sets current_script_ before eval tries the operation mutex ...
SetCurrentScript(t) ==
    /\ AtScript(t, "classic")
    /\ current_script_' = IF next[t] \in DOMAIN doc THEN next[t] ELSE None
    /\ GoTo(t, "entering")
    /\ UNCHANGED <<loaderVars, op, disposed, genVars, ready_state_, pageReady>>

\* ... and CurrentScriptGuard clears it however eval ends.
EnterScript(t) ==
    /\ pc[t] = "entering"
    /\ IF Free
       THEN op' = t /\ GoTo(t, "script") /\ UNCHANGED current_script_
       ELSE current_script_' = None /\ GoTo(t, "idle") /\ UNCHANGED op
    /\ UNCHANGED <<loaderVars, disposed, genVars, ready_state_, pageReady>>

\* Mutants: the guard does not clear; the failed script is skipped instead of raised.
ScriptEndsUncleared(t, ok) ==
    /\ pc[t] = "script" /\ PythonRuns(t)
    /\ op' = NoOne
    /\ IF ok THEN /\ done' = Append(done, <<mine[t], next[t]>>)
                  /\ next' = [next EXCEPT ![t] = @ + 1]
                  /\ GoTo(t, "html")
             ELSE GoTo(t, "idle") /\ UNCHANGED <<done, next>>
    /\ UNCHANGED <<todo, mine, disposed, gen, doc, documentSet, ready_state_,
                   current_script_, pageReady>>

ScriptErrorSwallowed(t, ok) ==
    /\ pc[t] = "script" /\ PythonRuns(t)
    /\ op' = NoOne /\ current_script_' = None
    /\ done' = IF ok THEN Append(done, <<mine[t], next[t]>>) ELSE done
    /\ next' = [next EXCEPT ![t] = @ + 1]
    /\ GoTo(t, "html")
    /\ UNCHANGED <<todo, mine, disposed, gen, doc, documentSet, ready_state_, pageReady>>

ScriptEnds(t, ok) ==
    /\ pc[t] = "script" /\ PythonRuns(t)
    /\ op' = NoOne /\ current_script_' = None
    /\ IF ok THEN /\ done' = Append(done, <<mine[t], next[t]>>)
                  /\ next' = [next EXCEPT ![t] = @ + 1]
                  /\ GoTo(t, "html")
             ELSE GoTo(t, "idle") /\ UNCHANGED <<done, next>>
    /\ UNCHANGED <<todo, mine, disposed, gen, doc, documentSet, ready_state_, pageReady>>

HtmlScriptsDone(t) ==
    /\ pc[t] = "html" /\ PythonRuns(t)
    /\ next[t] > Len(todo[t])
    /\ GoTo(t, IF HostScripts = 0 THEN "lifecycle" ELSE "host")
    /\ UNCHANGED <<loaderVars, op, disposed, genVars, ready_state_, current_script_, pageReady>>

\* Mutant: a host script waits for the operation mutex.
HostScriptWaits(t) ==
    /\ pc[t] = "host" /\ PythonRuns(t) /\ Free
    /\ op' = t
    /\ GoTo(t, "hostscript")
    /\ UNCHANGED <<loaderVars, disposed, genVars, ready_state_, current_script_, pageReady>>

\* eval() of a scripts=[...] entry; currentScript stays null.
HostScript(t) ==
    /\ pc[t] = "host" /\ PythonRuns(t)
    /\ IF Free THEN op' = t /\ GoTo(t, "hostscript") ELSE GoTo(t, "idle") /\ UNCHANGED op
    /\ UNCHANGED <<loaderVars, disposed, genVars, ready_state_, current_script_, pageReady>>

HostScriptEnds(t, ok) ==
    /\ pc[t] = "hostscript" /\ PythonRuns(t)
    /\ op' = NoOne
    /\ IF ok THEN /\ done' = Append(done, <<mine[t], next[t]>>)
                  /\ next' = [next EXCEPT ![t] = @ + 1]
                  /\ GoTo(t, IF next'[t] > Len(todo[t]) + HostScripts
                             THEN "lifecycle" ELSE "host")
             ELSE GoTo(t, "idle") /\ UNCHANGED <<done, next>>
    /\ UNCHANGED <<todo, mine, disposed, gen, doc, documentSet, ready_state_,
                   current_script_, pageReady>>

-------------------------------------------------------------------------------
(* dispatch_lifecycle_events: readystatechange and DOMContentLoaded on document, then
   load on window; a listener's exception is swallowed. *)

BeginLifecycle(t) ==
    /\ pc[t] = "lifecycle" /\ PythonRuns(t)
    /\ IF ~Free
       THEN GoTo(t, "idle") /\ UNCHANGED <<op, ready_state_>>
       ELSE /\ op' = t
            /\ IF documentSet THEN GoTo(t, "interactive") /\ ready_state_' = "interactive"
                              ELSE GoTo(t, "load") /\ UNCHANGED ready_state_
    /\ UNCHANGED <<loaderVars, disposed, genVars, current_script_, pageReady>>

Interactive(t) ==
    /\ pc[t] = "interactive"
    /\ ready_state_' = "complete"
    /\ GoTo(t, "complete")
    /\ UNCHANGED <<loaderVars, op, disposed, genVars, current_script_, pageReady>>

Complete(t) ==
    /\ pc[t] = "complete"
    /\ GoTo(t, "load")
    /\ UNCHANGED <<loaderVars, op, disposed, genVars, ready_state_, current_script_, pageReady>>

LifecycleEnds(t) ==
    /\ pc[t] = "load" /\ PythonRuns(t)
    /\ op' = NoOne
    /\ GoTo(t, "finish")
    /\ UNCHANGED <<loaderVars, disposed, genVars, ready_state_, current_script_, pageReady>>

FinishLoad(t) ==
    /\ pc[t] = "finish" /\ PythonRuns(t)
    /\ pageReady' = "complete"
    /\ GoTo(t, "idle")
    /\ UNCHANGED <<loaderVars, op, disposed, genVars, ready_state_, current_script_>>

-------------------------------------------------------------------------------
LoadStep(t) ==
    \/ Install(t) \/ ListScripts(t) \/ SkipOther(t) \/ NoResource(t)
    \/ SetCurrentScript(t) \/ EnterScript(t)
    \/ \E ok \in BOOLEAN : ScriptEnds(t, ok) \/ HostScriptEnds(t, ok)
    \/ HtmlScriptsDone(t) \/ HostScript(t)
    \/ BeginLifecycle(t) \/ Interactive(t) \/ Complete(t) \/ LifecycleEnds(t) \/ FinishLoad(t)

Next ==
    \E t \in Threads :
        \/ Eval(t) \/ EvalEnds(t) \/ OverwriteDocument(t) \/ Dispose(t)
        \/ BeginLoad(t) \/ LoadStep(t)

Spec == Init /\ [][Next]_vars

\* The interpreter schedules every thread and scripts come to an end.
FairSpec == Spec /\ \A t \in Threads : SF_vars(LoadStep(t)) /\ SF_vars(EvalEnds(t))

-------------------------------------------------------------------------------
(* Properties *)

TypeOK ==
    /\ pc \in [Threads -> Waiting \cup InJs \cup {"entering"}]
    /\ todo \in [Threads -> Docs \cup {<<>>}] /\ doc \in Docs \cup {<<>>}
    /\ next \in [Threads -> Nat] /\ mine \in [Threads -> 0..MaxLoads] /\ gen \in 0..MaxLoads
    /\ op \in Threads \cup {NoOne} /\ disposed \in BOOLEAN /\ documentSet \in BOOLEAN
    /\ ready_state_ \in {"loading", "interactive", "complete"}
    /\ pageReady \in {"loading", "complete"}
    /\ current_script_ \in Nat
    /\ done \in Seq((0..MaxLoads) \X Nat)

\* The positions of the scripts that ran to their end.
Ran == {done[i][2] : i \in DOMAIN done}

\* A generation runs the scripts of its own load, in document order and then the host's
\* (docs/m3_5_html_scripts.md), none skipped and none twice.
OwnScriptsInOrder ==
    /\ \A i \in DOMAIN done : done[i][1] = gen /\ done[i][2] \in Scripts(doc)
    /\ \A i, j \in DOMAIN done : i < j => done[i][2] < done[j][2]
    /\ \A i \in DOMAIN done, p \in Scripts(doc) : p < done[i][2] => p \in Ran

\* No lifecycle step before the last script has succeeded, and Page.ready_state says
\* "complete" only when all of that is over (docs/m3_6_ready_state.md, "Failure").
LifecycleAfterScripts ==
    gen > 0 =>
        /\ ready_state_ # "loading" => Scripts(doc) \subseteq Ran
        /\ pageReady = "complete" =>
              /\ Scripts(doc) \subseteq Ran
              /\ \A t \in Loaders : pc[t] = "idle"

\* Scripts of a load observe document.readyState "loading" and an HTML script its own
\* element as currentScript, whatever other threads try meanwhile.
ScriptsSeeTheirLoad ==
    \A t \in Threads :
        /\ pc[t] \in {"script", "hostscript"} => ready_state_ = "loading" /\ pageReady = "loading"
        /\ pc[t] = "script" => current_script_ = next[t]
        /\ pc[t] \in {"hostscript", "interactive", "complete", "load"} => current_script_ = None

Rank(r) == CASE r = "loading" -> 0 [] r = "interactive" -> 1 [] r = "complete" -> 2

\* Within a generation readyState only moves forward, one state at a time.
ReadyStateForward ==
    [][gen' = gen => Rank(ready_state_') - Rank(ready_state_) \in {0, 1}]_vars

\* Every load ends, with success or an exception.
LoadsEnd == \A t \in Loaders : pc[t] = "install" ~> pc[t] = "idle"
================================================================================
