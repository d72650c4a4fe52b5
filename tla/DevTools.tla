-------------------------------- MODULE DevTools --------------------------------
(***************************************************************************)
(* The DevTools endpoint of a page (Page.devtools_url and dispose,         *)
(* src/python/iv8/page.py; the server, src/python/iv8/_devtools.py; the    *)
(* Inspector of each generation, src/src/core/page_state.cpp) and the      *)
(* registry of watched host methods (src/include/iv8/watch_registry.h).    *)
(*                                                                         *)
(* Python threads (Callers) use the page while the handler threads of      *)
(* WebSocket connections (Clients) dispatch messages into it.  One step is *)
(* a stretch of Python or native code under the GIL, or an act of          *)
(* JavaScript, which runs with the operation mutex held.  JavaScript run   *)
(* by a dispatch keeps the GIL, but console.log calls Python, which may    *)
(* give it away.                                                           *)
(***************************************************************************)
EXTENDS Integers, Sequences, FiniteSets, Functions

CONSTANTS Callers, Clients, NoOne,
          Owners,      \* the callers of devtools_url() and dispose()
          Users,       \* the callers of everything else
          Names,       \* resource names passed to eval()
          Unattributed, \* the empty resource name
          Paths,       \* "receiver.method" paths
          \* bounds on servers started, generations, hits recorded and messages read:
          MaxServers, MaxGenerations, MaxHits, MaxMessages

ASSUME ActorsAssumption ==
    /\ Callers = Owners \cup Users
    /\ Callers \cap Clients = {} /\ NoOne \notin Callers \cup Clients
ASSUME NamesAssumption == Unattributed \notin Names
ASSUME BoundsAssumption ==
    {MaxServers, MaxGenerations, MaxHits, MaxMessages} \subseteq Nat \ {0}

VARIABLES
    \* Page
    devtools,      \* Page._devtools: a server, or None
    listening,     \* the servers whose socket is open
    servers,       \* how many were started
    \* PageState and its current ContextState
    active,        \* the holder of the operation mutex
    generation, disposed,
    enabled,       \* devtools_enabled_
    inspector,     \* inspector_: None, or the generation it was created for
    debugging,     \* its session exists and has the Debugger domain enabled
    outbox,        \* DevToolsChannel::outbox_
    \* WatchRegistry
    watched, breaking, hits,
    resource,      \* current_resource_
    \* callers: what each is doing, its server, its saved resource name
    pc, mine, previous,
    \* connections: state (or the message that was read), frames received
    conn, got,
    \* history: the script that runs; hits recorded and read; messages per connection
    running, recorded, read, asked

pageVars == <<devtools, listening, servers>>
inspectorVars == <<inspector, debugging, outbox>>
stateVars == <<active, generation, disposed, enabled>>
registryVars == <<watched, breaking>>
logVars == <<hits, recorded, read>>
stampVars == <<resource, previous, running>>
watchVars == <<registryVars, logVars, stampVars>>
callerVars == <<pc, mine>>
clientVars == <<conn, got, asked>>
vars == <<pageVars, stateVars, inspectorVars, watchVars, callerVars, clientVars>>

None == 0
Messages == {"enable", "evaluate"}
  \* Debugger.enable; Runtime.evaluate, which runs JavaScript
Frames == [to : Clients \cup {NoOne}, gen : 1..MaxGenerations]
  \* a response, or with to = NoOne a notification (Debugger.paused)

Init ==
    /\ devtools = None /\ listening = {} /\ servers = 0
    /\ active = NoOne
    /\ generation = 1 /\ disposed = FALSE /\ enabled = FALSE
    /\ inspector = None /\ debugging = FALSE /\ outbox = <<>>
    /\ watched = {} /\ breaking = FALSE /\ hits = <<>> /\ resource = Unattributed
    /\ pc = [t \in Callers |-> "idle"]
    /\ mine = [t \in Callers |-> None]
    /\ previous = [t \in Callers |-> Unattributed]
    /\ conn = [c \in Clients |-> "closed"]
    /\ got = [c \in Clients |-> <<>>]
    /\ asked = [c \in Clients |-> 0]
    /\ running = Unattributed /\ recorded = 0 /\ read = 0

Free == active = NoOne /\ ~disposed
Goes(t, from, to) == pc[t] = from /\ pc' = [pc EXCEPT ![t] = to]

-------------------------------------------------------------------------------
(* JavaScript and the watch registry *)

\* eval(): the guard, then the resource name is stamped for the run.
Eval(t, name) ==
    /\ Goes(t, "idle", "eval") /\ Free
    /\ active' = t
    /\ previous' = [previous EXCEPT ![t] = resource]
    /\ resource' = name
    /\ running' = name
    /\ UNCHANGED <<pageVars, generation, disposed, enabled, inspectorVars, registryVars,
                   logVars, mine, clientVars>>

\* Mutant: the name stays when the script has ended.
EvalEndsStamped(t) ==
    /\ Goes(t, "eval", "idle")
    /\ active' = NoOne
    /\ running' = Unattributed
    /\ UNCHANGED <<pageVars, generation, disposed, enabled, inspectorVars, registryVars,
                   logVars, resource, previous, mine, clientVars>>

\* With a value or a JSError, the destructors restore the name, then unlock.
EvalEnds(t) ==
    /\ Goes(t, "eval", "idle")
    /\ active' = NoOne
    /\ resource' = previous[t]
    /\ previous' = [previous EXCEPT ![t] = Unattributed]
    /\ running' = Unattributed
    /\ UNCHANGED <<pageVars, generation, disposed, enabled, inspectorVars, registryVars,
                   logVars, mine, clientVars>>

\* run_timers(), run_jobs(): no name is stamped.
Pump(t) ==
    /\ Goes(t, "idle", "pump") /\ Free
    /\ active' = t
    /\ UNCHANGED <<pageVars, generation, disposed, enabled, inspectorVars, watchVars, mine,
                   clientVars>>

PumpEnds(t) ==
    /\ Goes(t, "pump", "idle")
    /\ active' = NoOne
    /\ UNCHANGED <<pageVars, generation, disposed, enabled, inspectorVars, watchVars, mine,
                   clientVars>>

\* request_inspector_pause: breakProgram, inert unless a debugger is attached.
Pauses == breaking /\ inspector # None /\ debugging

\* The running JavaScript calls a watched host method.
maybe_record(path) ==
    /\ active # NoOne /\ path \in watched
    /\ recorded < MaxHits
    /\ hits' = Append(hits, [resource |-> resource, by |-> running, number |-> recorded + 1])
    /\ recorded' = recorded + 1
    /\ outbox' = IF Pauses THEN Append(outbox, [to |-> NoOne, gen |-> inspector]) ELSE outbox
    /\ UNCHANGED <<pageVars, stateVars, inspector, debugging, registryVars, read, stampVars,
                   callerVars, clientVars>>

\* watch_apis(): refused only by a disposed page, not while JavaScript runs.
watch_apis(t, paths, break) ==
    /\ pc[t] = "idle" /\ ~disposed
    /\ watched' = paths /\ breaking' = break
    /\ UNCHANGED <<pageVars, stateVars, inspectorVars, logVars, stampVars, callerVars,
                   clientVars>>

\* read_watch_api_hits(): read and clear.
take_hits(t) ==
    /\ pc[t] = "idle" /\ ~disposed
    /\ hits # <<>>
    /\ read' = hits[Len(hits)].number
    /\ hits' = <<>>
    /\ UNCHANGED <<pageVars, stateVars, inspectorVars, registryVars, recorded, stampVars,
                   callerVars, clientVars>>

-------------------------------------------------------------------------------
(* Generations *)

\* install_inspector for generation g.
Installed(g) == /\ inspector' = g /\ debugging' = FALSE
                /\ outbox' = <<>>

\* The teardown hook: session, inspector and channel go together.
Uninstalled == inspector' = None /\ debugging' = FALSE /\ outbox' = <<>>

\* Mutant: a new generation keeps the Inspector of the old one.
LoadKeepsInspector(t) ==
    /\ pc[t] = "idle" /\ Free /\ generation < MaxGenerations
    /\ generation' = generation + 1
    /\ UNCHANGED <<pageVars, active, disposed, enabled, inspectorVars, watchVars, callerVars,
                   clientVars>>

\* PageState::load: refused while an operation is active.
Load(t) ==
    /\ pc[t] = "idle" /\ Free /\ generation < MaxGenerations
    /\ generation' = generation + 1
    /\ IF enabled THEN Installed(generation + 1) ELSE Uninstalled
    /\ UNCHANGED <<pageVars, active, disposed, enabled, watchVars, callerVars, clientVars>>

-------------------------------------------------------------------------------
(* Page.devtools_url and Page.dispose *)

\* devtools_url() without a server: the Inspector is enabled first, which an active
\* operation refuses unless there is one already.
Enable(t) ==
    /\ ~disposed /\ devtools = None
    /\ servers + Cardinality({u \in Callers : pc[u] = "starting"}) < MaxServers
    /\ Goes(t, "idle", "starting")
    /\ IF inspector # None THEN UNCHANGED inspectorVars
       ELSE Free /\ Installed(generation)
    /\ enabled' = TRUE
    /\ UNCHANGED <<pageVars, active, generation, disposed, watchVars, mine, clientVars>>

\* DevToolsServer(...): the import and the constructor run Python.
StartServer(t) ==
    /\ Goes(t, "starting", "started")
    /\ servers' = servers + 1
    /\ listening' = listening \cup {servers + 1}
    /\ mine' = [mine EXCEPT ![t] = servers + 1]
    /\ UNCHANGED <<devtools, stateVars, inspectorVars, watchVars, clientVars>>

KeepServer(t) ==
    /\ Goes(t, "started", "idle")
    /\ devtools' = mine[t]
    /\ mine' = [mine EXCEPT ![t] = None]
    /\ UNCHANGED <<listening, servers, stateVars, inspectorVars, watchVars, clientVars>>

\* Page.dispose with a server: shutdown() waits for the serving thread, and the GIL is free
\* meanwhile.  The test of self._devtools and the call are one step: that another dispose()
\* may clear it between the two, and the call raise AttributeError, is left out.
BeginDispose(t) ==
    /\ devtools # None
    /\ Goes(t, "idle", "stopping")
    /\ mine' = [mine EXCEPT ![t] = devtools]
    /\ UNCHANGED <<pageVars, stateVars, inspectorVars, watchVars, clientVars>>

ServerStops(t) ==
    /\ Goes(t, "stopping", "stopped")
    /\ listening' = listening \ {mine[t]}
    /\ UNCHANGED <<devtools, servers, stateVars, inspectorVars, watchVars, mine, clientVars>>

\* The native dispose: refused while an operation is active, and idempotent.
Dispose == IF Free THEN disposed' = TRUE /\ Uninstalled
           ELSE UNCHANGED <<disposed, inspectorVars>>

\* Mutant: the server is forgotten after the native dispose, unless that raises.
FinishDisposeForgetsLast(t) ==
    /\ \/ Goes(t, "stopped", "idle")
       \/ devtools = None /\ Goes(t, "idle", "idle")
    /\ Dispose
    /\ devtools' = IF active = NoOne THEN None ELSE devtools
    /\ mine' = [mine EXCEPT ![t] = None]
    /\ UNCHANGED <<listening, servers, active, generation, enabled, watchVars, clientVars>>

\* The rest of Page.dispose, or all of it when there is no server.
FinishDispose(t) ==
    /\ \/ Goes(t, "stopped", "idle")
       \/ devtools = None /\ Goes(t, "idle", "idle")
    /\ devtools' = None
    /\ Dispose
    /\ mine' = [mine EXCEPT ![t] = None]
    /\ UNCHANGED <<listening, servers, active, generation, enabled, watchVars, clientVars>>

-------------------------------------------------------------------------------
(* Connections *)

\* The handshake.  The handler thread owns the socket from here on, also when the server that
\* accepted it stops; a connection that is closed is not opened again.
Connect(c) ==
    /\ conn[c] = "closed" /\ listening # {} /\ asked[c] = 0
    /\ conn' = [conn EXCEPT ![c] = "open"]
    /\ UNCHANGED <<pageVars, stateVars, inspectorVars, watchVars, callerVars, got, asked>>

\* A text frame has been read.
Receive(c, message) ==
    /\ conn[c] = "open" /\ FoldFunction(+, 0, asked) < MaxMessages
    /\ conn' = [conn EXCEPT ![c] = message]
    /\ asked' = [asked EXCEPT ![c] = @ + 1]
    /\ UNCHANGED <<pageVars, stateVars, inspectorVars, watchVars, callerVars, got>>

\* A close frame, or the end of the input.
Close(c) ==
    /\ conn[c] = "open"
    /\ conn' = [conn EXCEPT ![c] = "closed"]
    /\ got' = [got EXCEPT ![c] = <<>>]
    /\ UNCHANGED <<pageVars, stateVars, inspectorVars, watchVars, callerVars, asked>>

Reply(c) == [to |-> c, gen |-> inspector]

\* Mutant: no answer from dispatch is drained before the next message.
RespondLate(c) ==
    /\ got' = [got EXCEPT ![c] = @ \o outbox]
    /\ outbox' = <<Reply(c)>>
    /\ conn' = [conn EXCEPT ![c] = "open"]

\* The session's response joins what notifications wait, and all are sent on.
Respond(c) ==
    /\ got' = [got EXCEPT ![c] = Append(@ \o outbox, Reply(c))]
    /\ outbox' = <<>>
    /\ conn' = [conn EXCEPT ![c] = "open"]

\* devtools_dispatch without an Inspector returns no frames, and raises nothing.
DispatchNowhere(c) ==
    /\ conn[c] \in Messages /\ inspector = None
    /\ conn' = [conn EXCEPT ![c] = "open"]
    /\ UNCHANGED <<pageVars, stateVars, inspectorVars, watchVars, callerVars, got, asked>>

\* The guard raises, and the handler drops the connection.
DispatchRefused(c) ==
    /\ conn[c] \in Messages /\ inspector # None /\ ~Free
    /\ conn' = [conn EXCEPT ![c] = "closed"]
    /\ got' = [got EXCEPT ![c] = <<>>]
    /\ UNCHANGED <<pageVars, stateVars, inspectorVars, watchVars, callerVars, asked>>

\* Debugger.enable is answered at once.
DispatchEnable(c) ==
    /\ conn[c] = "enable"
    /\ inspector # None /\ Free
    /\ debugging' = TRUE
    /\ Respond(c)
    /\ UNCHANGED <<pageVars, stateVars, inspector, watchVars, callerVars, asked>>

\* Runtime.evaluate: JavaScript runs within the dispatch.
DispatchEvaluate(c) ==
    /\ conn[c] = "evaluate"
    /\ inspector # None /\ Free
    /\ active' = c
    /\ conn' = [conn EXCEPT ![c] = "inside"]
    /\ UNCHANGED <<pageVars, generation, disposed, enabled, inspectorVars, watchVars,
                   callerVars, got, asked>>

EvaluateEnds(c) ==
    /\ conn[c] = "inside"
    /\ active' = NoOne
    /\ Respond(c)
    /\ UNCHANGED <<pageVars, generation, disposed, enabled, inspector, debugging, watchVars,
                   callerVars, asked>>

-------------------------------------------------------------------------------
Use(t) ==
    \/ \E name \in Names : Eval(t, name)
    \/ EvalEnds(t) \/ Pump(t) \/ PumpEnds(t)
    \/ \E paths \in SUBSET Paths, break \in BOOLEAN : watch_apis(t, paths, break)
    \/ take_hits(t)
    \/ Load(t)

Own(t) ==
    \/ Enable(t) \/ StartServer(t) \/ KeepServer(t)
    \/ BeginDispose(t) \/ ServerStops(t) \/ FinishDispose(t)

Serve(c) ==
    \/ Connect(c) \/ Close(c)
    \/ \E message \in Messages : Receive(c, message)
    \/ DispatchNowhere(c) \/ DispatchRefused(c) \/ DispatchEnable(c)
    \/ DispatchEvaluate(c) \/ EvaluateEnds(c)

Next ==
    \/ \E path \in Paths : maybe_record(path)
    \/ \E t \in Users : Use(t)
    \/ \E t \in Owners : Own(t)
    \/ \E c \in Clients : Serve(c)

Spec == Init /\ [][Next]_vars

-------------------------------------------------------------------------------
(* Properties *)

\* Once enabled, each generation that is alive has an Inspector of its own, a disposed page
\* has none, and no frame of an earlier document waits for a client of a later one.
InspectorCurrent ==
    /\ inspector # None => inspector = generation /\ ~disposed
    /\ enabled /\ ~disposed => inspector # None
    /\ \A i \in DOMAIN outbox : outbox[i].gen = generation

Replies(c) == {i \in DOMAIN got[c] : got[c][i].to # NoOne}

\* The clients share one session and one outbox, yet a connection that waits for input got
\* an answer to each of its messages (while the page lives) and none of another's.
RepliesReachSender ==
    \A c \in Clients : conn[c] = "open" =>
        /\ \A i \in Replies(c) : got[c][i].to = c
        /\ disposed \/ Cardinality(Replies(c)) = asked[c]

\* A hit names the script that made the call, or none for callbacks and DevTools, and every
\* hit is read once and in order, whatever loads and dispatches happen in between.
HitLog ==
    /\ \A i \in DOMAIN hits : hits[i].resource = hits[i].by
    /\ \A i \in DOMAIN hits : hits[i].number = read + i
    /\ read + Len(hits) = recorded

\* The URL that devtools_url() returns is served, except while a dispose() has stopped the
\* server and is about to forget it.
UrlServed ==
    devtools # None =>
        \/ devtools \in listening
        \/ \E t \in Callers : pc[t] = "stopped" /\ mine[t] = devtools
===============================================================================
