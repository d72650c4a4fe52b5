----------------------------- MODULE DevTools_proofs -----------------------------
(***************************************************************************)
(* Theorems about DevTools, for any number of threads and connections and  *)
(* any bounds.  The invariant has one part per concern; each is proved     *)
(* from those before it.                                                   *)
(***************************************************************************)
EXTENDS DevTools, SequenceTheorems, FiniteSetTheorems, TLAPS

Places == {"idle", "eval", "pump", "starting", "started", "stopping", "stopped"}
Hits == [resource : Names \cup {Unattributed}, by : Names \cup {Unattributed}, number : Nat]

Types ==
    /\ devtools \in Nat /\ listening \subseteq Nat /\ servers \in Nat
    /\ active \in Callers \cup Clients \cup {NoOne}
    /\ generation \in 1..MaxGenerations /\ disposed \in BOOLEAN /\ enabled \in BOOLEAN
    /\ inspector \in 0..MaxGenerations
    /\ outbox \in Seq(Frames)
    /\ hits \in Seq(Hits) /\ recorded \in Nat /\ read \in Nat
    /\ resource \in Names \cup {Unattributed} /\ running \in Names \cup {Unattributed}
    /\ pc \in [Callers -> Places] /\ mine \in [Callers -> Nat]
    /\ previous \in [Callers -> Names \cup {Unattributed}]
    /\ conn \in [Clients -> {"closed", "open", "inside"} \cup Messages]
    /\ got \in [Clients -> Seq(Frames)] /\ asked \in [Clients -> Nat]

\* Whoever runs JavaScript holds the operation mutex, a dispatch within an Inspector.
MutexHeld ==
    /\ \A t \in Callers : pc[t] \in {"eval", "pump"} => active = t
    /\ \A c \in Clients : conn[c] = "inside" => active = c /\ inspector # None

\* A resource name is stamped while an eval() runs, and its own name only.
Stamped ==
    /\ running = resource
    /\ (\A t \in Callers : pc[t] # "eval") => resource = Unattributed
    /\ \A t \in Callers : pc[t] = "eval" => previous[t] = Unattributed

\* The Inspector is enabled before there is a server, hence a connection.
EnabledFirst ==
    /\ listening # {} => enabled
    /\ \A t \in Callers : pc[t] = "starting" => enabled
    /\ \A c \in Clients : conn[c] # "closed" => enabled

\* A server that was started and not yet kept is listening and known to its thread alone.
ServersApart ==
    /\ devtools <= servers /\ \A s \in listening : s <= servers
    /\ \A t \in Callers : mine[t] <= servers
    /\ \A t \in Callers : pc[t] = "started" =>
          /\ mine[t] \in listening /\ mine[t] # devtools /\ mine[t] # None
          /\ \A u \in Callers \ {t} : mine[u] # mine[t]

ReplySet(s) == {i \in DOMAIN s : s[i].to # NoOne}

\* Between dispatches only notifications wait, and every connection lacks the answer to the
\* message it has read, and no other.
RepliesMatch ==
    /\ \A i \in DOMAIN outbox : outbox[i].to = NoOne
    /\ \A c \in Clients :
          /\ conn[c] = "closed" => got[c] = <<>>
          /\ conn[c] # "closed" => \A i \in ReplySet(got[c]) : got[c][i].to = c
          /\ conn[c] = "open" => disposed \/ Cardinality(ReplySet(got[c])) = asked[c]
          /\ conn[c] \in Messages \cup {"inside"} =>
                disposed \/ Cardinality(ReplySet(got[c])) + 1 = asked[c]

IInv ==
    /\ Types /\ MutexHeld
    /\ Stamped /\ HitLog
    /\ InspectorCurrent /\ EnabledFirst
    /\ ServersApart /\ UrlServed
    /\ RepliesMatch

-------------------------------------------------------------------------------
(* Initial states *)

LEMMA InitInv == Init => IInv
<1> SUFFICES ASSUME Init PROVE IInv
  OBVIOUS
<1>1. outbox \in Seq(Frames) /\ hits \in Seq(Hits)
  BY EmptySeq DEF Init
<1>2. pc \in [Callers -> Places] /\ got \in [Clients -> Seq(Frames)]
  BY EmptySeq DEF Init, Places
<1>3. generation \in 1..MaxGenerations /\ inspector \in 0..MaxGenerations
  BY BoundsAssumption DEF Init, None
<1>4. Types
  BY <1>1, <1>2, <1>3 DEF Init, Types, None
<1>5. ReplySet(<<>>) = {} /\ Cardinality(ReplySet(<<>>)) = 0
  BY FS_EmptySet DEF ReplySet
<1>6. MutexHeld /\ Stamped /\ EnabledFirst /\ ServersApart /\ UrlServed
  BY DEF Init, MutexHeld, Stamped, EnabledFirst, ServersApart, UrlServed, None, Messages
<1>7. HitLog /\ InspectorCurrent
  BY DEF Init, HitLog, InspectorCurrent, None
<1>8. RepliesMatch
  BY <1>5 DEF Init, RepliesMatch, Messages
<1> QED
  BY <1>4, <1>6, <1>7, <1>8 DEF IInv

-------------------------------------------------------------------------------
(* Types *)

LEMMA RecordTypes ==
    ASSUME Types, InspectorCurrent, NEW path \in Paths, maybe_record(path)
    PROVE  Types'
<1> DEFINE hit == [resource |-> resource, by |-> running, number |-> recorded + 1]
<1>1. hits' = Append(hits, hit) /\ recorded' = recorded + 1
  BY DEF maybe_record
<1>2. hit \in Hits
  BY DEF Hits, Types
<1>3. hits' \in Seq(Hits)
  BY <1>1, <1>2, AppendProperties DEF Types
<1>4. outbox' \in Seq(Frames)
  <2>1. CASE Pauses
    <3>1. [to |-> NoOne, gen |-> inspector] \in Frames
      BY <2>1 DEF Pauses, Types, Frames, None
    <3> QED BY <2>1, <3>1, AppendProperties DEF maybe_record, Types
  <2>2. CASE ~Pauses
    BY <2>2 DEF maybe_record, Types
  <2> QED BY <2>1, <2>2
<1> QED
  BY <1>1, <1>3, <1>4
     DEF maybe_record, Types, pageVars, stateVars, registryVars, stampVars, callerVars, clientVars

LEMMA UseTypes ==
    ASSUME Types, NEW t \in Users, Use(t)
    PROVE  Types'
<1> USE DEF Goes, pageVars, stateVars, inspectorVars, registryVars, logVars, stampVars, watchVars,
            callerVars, clientVars
<1>0. t \in Callers
  BY ActorsAssumption
<1>1. ASSUME NEW name \in Names, Eval(t, name) PROVE Types'
  BY <1>0, <1>1 DEF Eval, Types, Places
<1>2. CASE EvalEnds(t)
  BY <1>0, <1>2 DEF EvalEnds, Types, Places
<1>3. CASE Pump(t) \/ PumpEnds(t)
  BY <1>0, <1>3 DEF Pump, PumpEnds, Types, Places
<1>4. ASSUME NEW paths, NEW break, watch_apis(t, paths, break) PROVE Types'
  BY <1>4 DEF watch_apis, Types
<1>5. CASE take_hits(t)
  <2>1. hits' = <<>> /\ hits' \in Seq(Hits)
    BY <1>5, EmptySeq DEF take_hits
  <2>2. hits[Len(hits)] \in Hits
    BY <1>5 DEF take_hits, Types
  <2>3. read' \in Nat
    BY <1>5, <2>2 DEF take_hits, Hits
  <2> QED BY <1>5, <2>1, <2>3 DEF take_hits, Types
<1>6. CASE Load(t)
  <2>1. outbox' = <<>> /\ outbox' \in Seq(Frames)
    BY <1>6, EmptySeq DEF Load, Installed, Uninstalled
  <2>2. generation' \in 1..MaxGenerations /\ inspector' \in 0..MaxGenerations
    BY <1>6, BoundsAssumption DEF Load, Installed, Uninstalled, Types, None
  <2> QED BY <1>6, <2>1, <2>2 DEF Load, Types
<1> QED
  BY <1>1, <1>2, <1>3, <1>4, <1>5, <1>6 DEF Use

LEMMA OwnTypes ==
    ASSUME Types, NEW t \in Owners, Own(t)
    PROVE  Types'
<1> USE DEF Goes, pageVars, stateVars, inspectorVars, registryVars, logVars, stampVars, watchVars,
            callerVars, clientVars
<1>0. t \in Callers
  BY ActorsAssumption
<1>1. CASE Enable(t)
  <2>1. CASE inspector # None
    BY <1>0, <1>1, <2>1 DEF Enable, Types, Places
  <2>2. CASE inspector = None
    <3>1. inspector' = generation /\ outbox' = <<>> /\ enabled' = TRUE
      BY <1>1, <2>2 DEF Enable, Installed
    <3>2. inspector' \in 0..MaxGenerations /\ outbox' \in Seq(Frames)
      BY <3>1, EmptySeq, BoundsAssumption DEF Types
    <3> QED BY <1>0, <1>1, <3>1, <3>2 DEF Enable, Types, Places
  <2> QED BY <2>1, <2>2
<1>2. CASE StartServer(t)
  BY <1>0, <1>2 DEF StartServer, Types, Places
<1>3. CASE KeepServer(t)
  BY <1>0, <1>3 DEF KeepServer, Types, Places, None
<1>4. CASE BeginDispose(t)
  BY <1>0, <1>4 DEF BeginDispose, Types, Places
<1>5. CASE ServerStops(t)
  BY <1>0, <1>5 DEF ServerStops, Types, Places
<1>6. CASE FinishDispose(t)
  <2>1. inspector' \in 0..MaxGenerations /\ outbox' \in Seq(Frames) /\ disposed' \in BOOLEAN
    <3>1. CASE Free
      BY <1>6, <3>1, EmptySeq, BoundsAssumption DEF FinishDispose, Dispose, Uninstalled, None
    <3>2. CASE ~Free
      BY <1>6, <3>2 DEF FinishDispose, Dispose, Types
    <3> QED BY <3>1, <3>2
  <2>2. pc' \in [Callers -> Places] /\ mine' \in [Callers -> Nat] /\ devtools' \in Nat
    BY <1>0, <1>6 DEF FinishDispose, Types, Places, None
  <2> QED BY <1>6, <2>1, <2>2 DEF FinishDispose, Types
<1> QED
  BY <1>1, <1>2, <1>3, <1>4, <1>5, <1>6 DEF Own

\* What a dispatch sends is well formed.
LEMMA RespondTypes ==
    ASSUME Types, NEW c \in Clients, inspector # None, Respond(c)
    PROVE  /\ outbox' \in Seq(Frames) /\ got' \in [Clients -> Seq(Frames)]
           /\ conn' \in [Clients -> {"closed", "open", "inside"} \cup Messages]
<1>1. Reply(c) \in Frames
  BY DEF Reply, Frames, Types, None
<1>2. got[c] \o outbox \in Seq(Frames)
  BY ConcatProperties DEF Types
<1>3. Append(got[c] \o outbox, Reply(c)) \in Seq(Frames)
  BY <1>1, <1>2, AppendProperties
<1> QED
  BY <1>3, EmptySeq DEF Respond, Types

LEMMA ServeTypes ==
    ASSUME Types, MutexHeld, NEW c \in Clients, Serve(c)
    PROVE  Types'
<1> USE DEF pageVars, stateVars, inspectorVars, registryVars, logVars, stampVars, watchVars,
            callerVars
<1>1. CASE Connect(c) \/ DispatchNowhere(c)
  BY <1>1 DEF Connect, DispatchNowhere, Types
<1>2. CASE Close(c) \/ DispatchRefused(c)
  <2>1. /\ got' \in [Clients -> Seq(Frames)]
        /\ conn' \in [Clients -> {"closed", "open", "inside"} \cup Messages]
    BY <1>2, EmptySeq, ZenonT(60) DEF Close, DispatchRefused, Types
  <2>2. CASE Close(c)
    BY <2>1, <2>2 DEF Close, Types
  <2>3. CASE DispatchRefused(c)
    BY <2>1, <2>3 DEF DispatchRefused, Types
  <2> QED BY <1>2, <2>2, <2>3
<1>3. ASSUME NEW message \in Messages, Receive(c, message) PROVE Types'
  <2>1. /\ conn' = [conn EXCEPT ![c] = message] /\ asked' = [asked EXCEPT ![c] = @ + 1]
        /\ UNCHANGED <<pageVars, stateVars, inspectorVars, watchVars, callerVars, got>>
    BY <1>3 DEF Receive
  <2>2. conn' \in [Clients -> {"closed", "open", "inside"} \cup Messages]
    BY <1>3, <2>1 DEF Types
  <2>3. asked' \in [Clients -> Nat]
    BY <2>1 DEF Types
  <2> QED BY <2>1, <2>2, <2>3 DEF Types
<1>4. CASE DispatchEnable(c)
  <2>1. inspector # None /\ Respond(c)
    BY <1>4 DEF DispatchEnable
  <2> QED BY <1>4, <2>1, RespondTypes DEF DispatchEnable, Types
<1>5. CASE DispatchEvaluate(c)
  BY <1>5 DEF DispatchEvaluate, Types
<1>6. CASE EvaluateEnds(c)
  <2>1. inspector # None /\ Respond(c)
    BY <1>6 DEF EvaluateEnds, MutexHeld
  <2> QED BY <1>6, <2>1, RespondTypes DEF EvaluateEnds, Types
<1> QED
  BY <1>1, <1>2, <1>3, <1>4, <1>5, <1>6 DEF Serve

-------------------------------------------------------------------------------
(* The operation mutex and the resource stamp *)

\* No action but these lets go of the mutex, and each is its holder's own.
LEMMA MutexKept ==
    ASSUME IInv, [Next]_vars
    PROVE  MutexHeld'
<1> USE DEF Goes, pageVars, stateVars, inspectorVars, registryVars, logVars, stampVars, watchVars,
            callerVars, clientVars
<1>0. NoOne \notin Callers \cup Clients /\ Callers \cap Clients = {} /\ Types /\ MutexHeld
  BY ActorsAssumption DEF IInv
<1>1. ASSUME NEW path \in Paths, maybe_record(path) PROVE MutexHeld'
  BY <1>0, <1>1 DEF maybe_record, MutexHeld
<1>2. ASSUME NEW t \in Callers, NEW name \in Names, Eval(t, name) PROVE MutexHeld'
  BY <1>0, <1>2 DEF Eval, Free, MutexHeld, Types
<1>3. ASSUME NEW t \in Callers, EvalEnds(t) PROVE MutexHeld'
  BY <1>0, <1>3 DEF EvalEnds, MutexHeld, Types
<1>4. ASSUME NEW t \in Callers, Pump(t) PROVE MutexHeld'
  BY <1>0, <1>4 DEF Pump, Free, MutexHeld, Types
<1>5. ASSUME NEW t \in Callers, PumpEnds(t) PROVE MutexHeld'
  BY <1>0, <1>5 DEF PumpEnds, MutexHeld, Types
<1>6. ASSUME NEW t \in Callers, NEW paths, NEW break, watch_apis(t, paths, break)
      PROVE  MutexHeld'
  BY <1>6, <1>0 DEF watch_apis, MutexHeld
<1>7. ASSUME NEW t \in Callers, take_hits(t) PROVE MutexHeld'
  BY <1>7, <1>0 DEF take_hits, MutexHeld
<1>8. ASSUME NEW t \in Callers, Load(t) PROVE MutexHeld'
  BY <1>0, <1>8 DEF Load, Free, MutexHeld
<1>9. ASSUME NEW t \in Callers, Enable(t) PROVE MutexHeld'
  <2>1. inspector # None => inspector' # None
    BY <1>9 DEF Enable
  <2>2. /\ active' = active /\ conn' = conn
        /\ \A u \in Callers : pc'[u] \in {"eval", "pump"} => pc[u] \in {"eval", "pump"}
    BY <1>0, <1>9 DEF Enable, Types
  <2> QED BY <1>0, <2>1, <2>2 DEF MutexHeld
<1>10. ASSUME NEW t \in Callers,
              StartServer(t) \/ KeepServer(t) \/ BeginDispose(t) \/ ServerStops(t)
       PROVE  MutexHeld'
  <2>1. /\ active' = active /\ conn' = conn /\ inspector' = inspector
        /\ \A u \in Callers : pc'[u] \in {"eval", "pump"} => pc[u] \in {"eval", "pump"}
    BY <1>0, <1>10 DEF StartServer, KeepServer, BeginDispose, ServerStops, Types
  <2> QED BY <1>0, <2>1 DEF MutexHeld
<1>11. ASSUME NEW t \in Callers, FinishDispose(t) PROVE MutexHeld'
  <2>1. /\ active' = active /\ conn' = conn
        /\ \A u \in Callers : pc'[u] \in {"eval", "pump"} => pc[u] \in {"eval", "pump"}
        /\ active # NoOne => inspector' = inspector
    BY <1>0, <1>11 DEF FinishDispose, Dispose, Free, Types
  <2> QED BY <1>0, <2>1 DEF MutexHeld
<1>12. ASSUME NEW c \in Clients, Connect(c) \/ Close(c) \/ DispatchNowhere(c) \/ DispatchRefused(c)
       PROVE  MutexHeld'
  BY <1>0, <1>12 DEF Connect, Close, DispatchNowhere, DispatchRefused, MutexHeld, Types
<1>13. ASSUME NEW c \in Clients, NEW message \in Messages, Receive(c, message)
       PROVE  MutexHeld'
  <2>1. /\ UNCHANGED <<active, inspector, pc>> /\ conn' = [conn EXCEPT ![c] = message]
        /\ message # "inside"
    BY <1>13 DEF Receive, Messages
  <2> QED BY <1>0, <2>1 DEF MutexHeld, Types
<1>14. ASSUME NEW c \in Clients, DispatchEnable(c) PROVE MutexHeld'
  BY <1>0, <1>14 DEF DispatchEnable, Respond, MutexHeld, Types
<1>15. ASSUME NEW c \in Clients, DispatchEvaluate(c) PROVE MutexHeld'
  BY <1>0, <1>15 DEF DispatchEvaluate, Free, MutexHeld, Types
<1>16. ASSUME NEW c \in Clients, EvaluateEnds(c) PROVE MutexHeld'
  BY <1>0, <1>16 DEF EvaluateEnds, Respond, MutexHeld, Types
<1>17. CASE UNCHANGED vars
  BY <1>0, <1>17 DEF vars, MutexHeld
<1> QED
  BY ActorsAssumption, <1>1, <1>2, <1>3, <1>4, <1>5, <1>6, <1>7, <1>8, <1>9, <1>10, <1>11, <1>12,
     <1>13, <1>14, <1>15, <1>16, <1>17 DEF Next, Use, Own, Serve

\* All other actions leave the stamp alone, and no caller begins or ends an eval() by them.
LEMMA OthersKeepStamp ==
    ASSUME IInv, [Next]_vars,
           \A t \in Users, name \in Names : ~Eval(t, name), \A t \in Users : ~EvalEnds(t)
    PROVE  /\ UNCHANGED stampVars
           /\ \A t \in Callers : pc'[t] = "eval" <=> pc[t] = "eval"
<1> USE DEF Goes, pageVars, stateVars, inspectorVars, registryVars, logVars, stampVars, watchVars,
            callerVars, clientVars
<1> DEFINE Kept == /\ UNCHANGED stampVars
                   /\ \A t \in Callers : pc'[t] = "eval" <=> pc[t] = "eval"
<1>0. pc \in [Callers -> Places]
  BY DEF IInv, Types
<1>1. ASSUME NEW path \in Paths, maybe_record(path) PROVE Kept
  BY <1>1 DEF maybe_record
<1>2. ASSUME NEW t \in Users, Use(t) PROVE Kept
  BY <1>0, <1>2 DEF Use, Pump, PumpEnds, watch_apis, take_hits, Load
<1>3. ASSUME NEW t \in Owners, Own(t) PROVE Kept
  BY <1>0, <1>3 DEF Own, Enable, StartServer, KeepServer, BeginDispose, ServerStops, FinishDispose
<1>4. ASSUME NEW c \in Clients, Serve(c) PROVE Kept
  BY <1>4 DEF Serve, Connect, Close, Receive, DispatchNowhere, DispatchRefused, DispatchEnable,
              DispatchEvaluate, EvaluateEnds
<1>5. CASE UNCHANGED vars
  BY <1>5 DEF vars
<1> QED
  BY <1>1, <1>2, <1>3, <1>4, <1>5 DEF Next

LEMMA StampKept ==
    ASSUME IInv, [Next]_vars
    PROVE  Stamped'
<1>0. /\ Stamped /\ MutexHeld /\ Types /\ NoOne \notin Callers /\ Users \subseteq Callers
  BY ActorsAssumption DEF IInv
<1>1. ASSUME NEW t \in Users, NEW name \in Names, Eval(t, name) PROVE Stamped'
  <2>1. \A u \in Callers : pc[u] # "eval"
    BY <1>0, <1>1 DEF Eval, Free, MutexHeld
  <2>2. resource = Unattributed
    BY <1>0, <2>1 DEF Stamped
  <2>3. \A u \in Callers : pc'[u] = "eval" => u = t /\ previous'[u] = Unattributed
    BY <1>0, <1>1, <2>1, <2>2 DEF Eval, Goes, Types
  <2>4. pc'[t] = "eval" /\ running' = resource'
    BY <1>0, <1>1 DEF Eval, Goes, Types
  <2> QED BY <1>0, <2>3, <2>4 DEF Stamped
<1>2. ASSUME NEW t \in Users, EvalEnds(t) PROVE Stamped'
  <2>1. previous[t] = Unattributed /\ resource' = Unattributed /\ running' = Unattributed
    BY <1>0, <1>2 DEF EvalEnds, Goes, Stamped
  <2>2. \A u \in Callers : pc'[u] = "eval" => pc[u] = "eval" /\ previous'[u] = previous[u]
    BY <1>0, <1>2 DEF EvalEnds, Goes, Types
  <2> QED BY <1>0, <2>1, <2>2 DEF Stamped
<1>3. CASE /\ \A t \in Users, name \in Names : ~Eval(t, name)
           /\ \A t \in Users : ~EvalEnds(t)
  BY <1>0, <1>3, OthersKeepStamp DEF Stamped, stampVars
<1> QED
  BY <1>1, <1>2, <1>3

-------------------------------------------------------------------------------
(* The log of hits *)

LEMMA HitsKept ==
    ASSUME IInv, [Next]_vars
    PROVE  HitLog'
<1> USE DEF pageVars, stateVars, inspectorVars, registryVars, logVars, stampVars, watchVars,
            callerVars, clientVars
<1>0. HitLog /\ Stamped /\ Types /\ hits \in Seq(Hits) /\ recorded \in Nat /\ read \in Nat
  BY DEF IInv, Types
<1>1. ASSUME NEW path \in Paths, maybe_record(path) PROVE HitLog'
  <2> DEFINE hit == [resource |-> resource, by |-> running, number |-> recorded + 1]
  <2>1. hits' = Append(hits, hit) /\ recorded' = recorded + 1 /\ read' = read
    BY <1>1 DEF maybe_record
  <2>2. /\ Len(hits') = Len(hits) + 1 /\ DOMAIN hits' = 1..(Len(hits) + 1)
        /\ hits'[Len(hits) + 1] = hit
        /\ \A i \in 1..Len(hits) : hits'[i] = hits[i]
    BY <1>0, <2>1
  <2>3. hit.resource = hit.by /\ hit.number = read + (Len(hits) + 1)
    BY <1>0 DEF Stamped, HitLog
  <2>4. \A i \in DOMAIN hits' : hits'[i].resource = hits'[i].by /\ hits'[i].number = read' + i
    <3> SUFFICES ASSUME NEW i \in DOMAIN hits'
                 PROVE  hits'[i].resource = hits'[i].by /\ hits'[i].number = read' + i
      OBVIOUS
    <3>1. CASE i = Len(hits) + 1
      BY <2>1, <2>2, <2>3, <3>1
    <3>2. CASE i \in 1..Len(hits)
      BY <1>0, <2>1, <2>2, <3>2 DEF HitLog
    <3> QED BY <1>0, <2>2, <3>1, <3>2
  <2>5. read' + Len(hits') = recorded'
    BY <1>0, <2>1, <2>2, SMTT(40) DEF HitLog
  <2> QED BY <2>4, <2>5 DEF HitLog
<1>2. ASSUME NEW t \in Users, take_hits(t) PROVE HitLog'
  <2>1. hits' = <<>> /\ recorded' = recorded /\ read' = hits[Len(hits)].number
    BY <1>2 DEF take_hits
  <2>2. Len(hits) \in DOMAIN hits
    BY <1>0, <1>2 DEF take_hits
  <2>3. read' = recorded
    BY <1>0, <2>1, <2>2 DEF HitLog
  <2> QED BY <1>0, <2>1, <2>3 DEF HitLog
<1>3. CASE UNCHANGED logVars
  BY <1>0, <1>3 DEF HitLog
<1>4. UNCHANGED logVars \/ (\E path \in Paths : maybe_record(path)) \/ \E t \in Users : take_hits(t)
  <2>1. ASSUME NEW t \in Users, Use(t), ~take_hits(t) PROVE UNCHANGED logVars
    BY <2>1 DEF Use, Eval, EvalEnds, Pump, PumpEnds, watch_apis, Load
  <2>2. ASSUME NEW t \in Owners, Own(t) PROVE UNCHANGED logVars
    BY <2>2 DEF Own, Enable, StartServer, KeepServer, BeginDispose, ServerStops, FinishDispose
  <2>3. ASSUME NEW c \in Clients, Serve(c) PROVE UNCHANGED logVars
    BY <2>3 DEF Serve, Connect, Close, Receive, DispatchNowhere, DispatchRefused, DispatchEnable,
                DispatchEvaluate, EvaluateEnds
  <2>4. CASE UNCHANGED vars
    BY <2>4 DEF vars
  <2> QED BY <2>1, <2>2, <2>3, <2>4 DEF Next
<1> QED
  BY <1>1, <1>2, <1>3, <1>4

-------------------------------------------------------------------------------
(* The Inspector of each generation *)

LEMMA EnabledKept ==
    ASSUME IInv, [Next]_vars
    PROVE  EnabledFirst'
<1> USE DEF Goes, pageVars, stateVars, inspectorVars, registryVars, logVars, stampVars, watchVars,
            callerVars, clientVars
<1>0. EnabledFirst /\ Types
  BY DEF IInv
<1>1. ASSUME NEW path \in Paths, maybe_record(path) PROVE EnabledFirst'
  BY <1>0, <1>1 DEF maybe_record, EnabledFirst
<1>2. ASSUME NEW t \in Users, Use(t) PROVE EnabledFirst'
  <2>1. /\ UNCHANGED <<listening, enabled, conn>>
        /\ \A u \in Callers : pc'[u] = "starting" => pc[u] = "starting"
    BY <1>0, <1>2 DEF Use, Eval, EvalEnds, Pump, PumpEnds, watch_apis, take_hits, Load, Types
  <2> QED BY <1>0, <2>1 DEF EnabledFirst
<1>3. ASSUME NEW t \in Owners, Enable(t) PROVE EnabledFirst'
  BY <1>3 DEF Enable, EnabledFirst
<1>4. ASSUME NEW t \in Owners, Own(t), ~Enable(t) PROVE EnabledFirst'
  <2>1. /\ UNCHANGED <<enabled, conn>>
        /\ \A u \in Callers : pc'[u] = "starting" => pc[u] = "starting"
    BY <1>0, <1>4 DEF Own, StartServer, KeepServer, BeginDispose, ServerStops, FinishDispose, Types
  <2>2. listening' # {} => enabled
    <3>1. CASE StartServer(t)
      BY <1>0, <3>1, ActorsAssumption DEF StartServer, EnabledFirst
    <3>2. CASE ~StartServer(t)
      BY <1>0, <1>4, <3>2
         DEF Own, KeepServer, BeginDispose, ServerStops, FinishDispose, EnabledFirst
    <3> QED BY <3>1, <3>2
  <2> QED BY <1>0, <2>1, <2>2 DEF EnabledFirst
<1>5. ASSUME NEW c \in Clients, Serve(c) PROVE EnabledFirst'
  <2>1. UNCHANGED <<listening, enabled, pc>>
    BY <1>5 DEF Serve, Connect, Close, Receive, DispatchNowhere, DispatchRefused, DispatchEnable,
                DispatchEvaluate, EvaluateEnds
  <2>2. \A d \in Clients : conn'[d] # "closed" => conn[d] # "closed" \/ listening # {}
    BY <1>0, <1>5 DEF Serve, Connect, Close, Receive, DispatchNowhere, DispatchRefused,
                DispatchEnable, DispatchEvaluate, EvaluateEnds, Respond, Types, Messages
  <2> QED BY <1>0, <2>1, <2>2 DEF EnabledFirst
<1>6. CASE UNCHANGED vars
  BY <1>0, <1>6 DEF vars, EnabledFirst
<1> QED
  BY <1>1, <1>2, <1>3, <1>4, <1>5, <1>6 DEF Next

LEMMA InspectorKept ==
    ASSUME IInv, [Next]_vars
    PROVE  InspectorCurrent'
<1> USE DEF Goes, pageVars, stateVars, inspectorVars, registryVars, logVars, stampVars, watchVars,
            callerVars, clientVars
<1> DEFINE about == <<generation, disposed, enabled, inspector, outbox>>
<1>0. InspectorCurrent /\ Types /\ generation \in Nat \ {0} /\ None = 0
  BY DEF IInv, Types, None
<1>1. ASSUME NEW path \in Paths, maybe_record(path) PROVE InspectorCurrent'
  <2>1. CASE Pauses
    <3>1. /\ outbox' = Append(outbox, [to |-> NoOne, gen |-> inspector])
          /\ UNCHANGED <<generation, disposed, enabled, inspector>>
      BY <1>1, <2>1 DEF maybe_record
    <3>2. inspector = generation
      BY <1>0, <2>1 DEF Pauses, InspectorCurrent
    <3>3. \A i \in DOMAIN outbox' :
             \/ i \in DOMAIN outbox /\ outbox'[i] = outbox[i]
             \/ outbox'[i] = [to |-> NoOne, gen |-> inspector]
      BY <1>0, <3>1 DEF Types
    <3> QED BY <1>0, <3>1, <3>2, <3>3 DEF InspectorCurrent
  <2>2. CASE ~Pauses
    BY <1>0, <1>1, <2>2 DEF maybe_record, InspectorCurrent
  <2> QED BY <2>1, <2>2
<1>2. ASSUME NEW t \in Users, Load(t) PROVE InspectorCurrent'
  BY <1>0, <1>2 DEF Load, Free, Installed, Uninstalled, InspectorCurrent
<1>3. ASSUME NEW t \in Owners, Enable(t) PROVE InspectorCurrent'
  <2>1. CASE inspector # None
    BY <1>0, <1>3, <2>1 DEF Enable, InspectorCurrent
  <2>2. CASE inspector = None
    BY <1>0, <1>3, <2>2 DEF Enable, Installed, InspectorCurrent
  <2> QED BY <2>1, <2>2
<1>4. ASSUME NEW t \in Owners, FinishDispose(t) PROVE InspectorCurrent'
  <2>1. CASE Free
    BY <1>0, <1>4, <2>1 DEF FinishDispose, Dispose, Uninstalled, InspectorCurrent
  <2>2. CASE ~Free
    BY <1>0, <1>4, <2>2 DEF FinishDispose, Dispose, InspectorCurrent
  <2> QED BY <2>1, <2>2
<1>5. ASSUME NEW c \in Clients, Respond(c), UNCHANGED <<generation, disposed, enabled, inspector>>
      PROVE  InspectorCurrent'
  BY <1>0, <1>5 DEF Respond, InspectorCurrent
<1>6. CASE UNCHANGED about
  BY <1>0, <1>6 DEF InspectorCurrent
<1>7. ASSUME NEW t \in Users, Use(t), ~Load(t) PROVE UNCHANGED about
  BY <1>7 DEF Use, Eval, EvalEnds, Pump, PumpEnds, watch_apis, take_hits
<1>8. ASSUME NEW t \in Owners, Own(t), ~Enable(t), ~FinishDispose(t) PROVE UNCHANGED about
  BY <1>8 DEF Own, StartServer, KeepServer, BeginDispose, ServerStops
<1>9. ASSUME NEW c \in Clients, Serve(c)
      PROVE  \/ UNCHANGED about
             \/ Respond(c) /\ UNCHANGED <<generation, disposed, enabled, inspector>>
  BY <1>9 DEF Serve, Connect, Close, Receive, DispatchNowhere, DispatchRefused, DispatchEnable,
              DispatchEvaluate, EvaluateEnds
<1>10. UNCHANGED vars => UNCHANGED about
  BY DEF vars
<1> QED
  BY <1>1, <1>2, <1>3, <1>4, <1>5, <1>6, <1>7, <1>8, <1>9, <1>10 DEF Next

-------------------------------------------------------------------------------
(* The server of the page *)

LEMMA ServersKept ==
    ASSUME IInv, [Next]_vars
    PROVE  ServersApart' /\ UrlServed'
<1> USE DEF Goes
<1> DEFINE Kept == ServersApart' /\ UrlServed'
           others(t) == \A u \in Callers \ {t} : pc'[u] = pc[u] /\ mine'[u] = mine[u]
<1>0. /\ ServersApart /\ UrlServed /\ None = 0 /\ Owners \subseteq Callers /\ Users \subseteq Callers
      /\ pc \in [Callers -> Places] /\ mine \in [Callers -> Nat]
      /\ devtools \in Nat /\ servers \in Nat /\ listening \subseteq Nat
  BY ActorsAssumption DEF IInv, Types, None
<1>1. ASSUME NEW t \in Owners, StartServer(t) PROVE Kept
  <2>1. /\ servers' = servers + 1 /\ listening' = listening \cup {servers + 1}
        /\ devtools' = devtools /\ mine'[t] = servers + 1 /\ pc[t] = "starting"
        /\ pc'[t] = "started" /\ others(t)
    BY <1>0, <1>1 DEF StartServer
  <2>2. ServersApart'
    BY <1>0, <2>1 DEF ServersApart
  <2>3. UrlServed'
    BY <1>0, <2>1 DEF UrlServed
  <2> QED BY <2>2, <2>3
<1>2. ASSUME NEW t \in Owners, KeepServer(t) PROVE Kept
  <2>1. /\ UNCHANGED <<servers, listening>> /\ devtools' = mine[t] /\ mine'[t] = None
        /\ pc[t] = "started" /\ pc'[t] = "idle" /\ others(t)
    BY <1>0, <1>2 DEF KeepServer
  <2>2. \A u \in Callers : pc'[u] = "started" =>
           u # t /\ pc[u] = "started" /\ mine'[u] = mine[u] /\ mine[u] # mine[t]
    BY <1>0, <2>1 DEF ServersApart
  <2>3. \A u, v \in Callers : pc'[u] = "started" /\ u # v => mine'[v] # mine'[u]
    BY <1>0, <2>1, <2>2 DEF ServersApart
  <2>4. ServersApart'
    BY <1>0, <2>1, <2>2, <2>3 DEF ServersApart
  <2>5. UrlServed'
    BY <1>0, <2>1 DEF ServersApart, UrlServed
  <2> QED BY <2>4, <2>5
<1>3. ASSUME NEW t \in Owners, BeginDispose(t) PROVE Kept
  <2>1. /\ UNCHANGED <<servers, listening, devtools>> /\ mine'[t] = devtools
        /\ pc[t] = "idle" /\ pc'[t] = "stopping" /\ others(t)
    BY <1>0, <1>3 DEF BeginDispose, pageVars
  <2>2. ServersApart'
    BY <1>0, <2>1 DEF ServersApart
  <2>3. UrlServed'
    BY <1>0, <2>1 DEF UrlServed
  <2> QED BY <2>2, <2>3
<1>4. ASSUME NEW t \in Owners, ServerStops(t) PROVE Kept
  <2>1. /\ UNCHANGED <<servers, devtools, mine>> /\ listening' = listening \ {mine[t]}
        /\ pc[t] = "stopping" /\ pc'[t] = "stopped" /\ others(t)
    BY <1>0, <1>4 DEF ServerStops
  <2>2. ServersApart'
    BY <1>0, <2>1 DEF ServersApart
  <2>3. UrlServed'
    BY <1>0, <2>1 DEF UrlServed
  <2> QED BY <2>2, <2>3
<1>5. ASSUME NEW t \in Owners, FinishDispose(t) PROVE Kept
  <2>1. /\ UNCHANGED <<servers, listening>> /\ devtools' = None /\ mine'[t] = None
        /\ pc'[t] = "idle" /\ others(t)
    BY <1>0, <1>5 DEF FinishDispose
  <2>2. ServersApart'
    BY <1>0, <2>1 DEF ServersApart
  <2> QED BY <2>1, <2>2 DEF UrlServed
<1> DEFINE Still == /\ UNCHANGED <<pageVars, mine>>
                    /\ \A u \in Callers :
                          pc'[u] \in {"started", "stopped"} \/ pc[u] \in {"started", "stopped"}
                             => pc'[u] = pc[u]
<1>6. CASE Still
  BY <1>0, <1>6 DEF ServersApart, UrlServed, pageVars
<1>7. ASSUME NEW t \in Users, Use(t) PROVE Still
  BY <1>0, <1>7 DEF Use, Eval, EvalEnds, Pump, PumpEnds, watch_apis, take_hits, Load, callerVars
<1>8. ASSUME NEW t \in Owners, Enable(t) PROVE Still
  BY <1>0, <1>8 DEF Enable
<1>9. ASSUME NEW c \in Clients, Serve(c) PROVE Still
  BY <1>9 DEF Serve, Connect, Close, Receive, DispatchNowhere, DispatchRefused, DispatchEnable,
              DispatchEvaluate, EvaluateEnds, callerVars
<1>10. (UNCHANGED vars \/ \E path \in Paths : maybe_record(path)) => Still
  BY DEF vars, maybe_record, callerVars
<1> QED
  BY <1>1, <1>2, <1>3, <1>4, <1>5, <1>6, <1>7, <1>8, <1>9, <1>10 DEF Next, Own

-------------------------------------------------------------------------------
(* Answers and the messages they answer *)

\* What waits in the outbox goes to everyone, so a dispatch adds exactly one reply.
LEMMA OneReplyMore ==
    ASSUME NEW s \in Seq(Frames), NEW o \in Seq(Frames), NEW f \in Frames, f.to # NoOne,
           \A i \in DOMAIN o : o[i].to = NoOne
    PROVE  LET r == Append(s \o o, f)
           IN  /\ Cardinality(ReplySet(r)) = Cardinality(ReplySet(s)) + 1
               /\ \A i \in ReplySet(r) : r[i] = f \/ (i \in ReplySet(s) /\ r[i] = s[i])
<1> DEFINE r == Append(s \o o, f)
           n == Len(s) + Len(o) + 1
<1>1. /\ r \in Seq(Frames) /\ Len(r) = n /\ r[n] = f
      /\ \A i \in 1..Len(s) : r[i] = s[i]
      /\ \A i \in (Len(s) + 1)..(n - 1) : r[i] = o[i - Len(s)]
  OBVIOUS
<1>2. /\ \A i \in (Len(s) + 1)..(n - 1) : r[i].to = NoOne
  BY <1>1
<1>3. \A i \in 1..n : i \in 1..Len(s) \/ i \in (Len(s) + 1)..(n - 1) \/ i = n
  OBVIOUS
<1>4. n \in 1..n /\ 1..Len(s) \subseteq 1..n
  OBVIOUS
<1>5. ReplySet(r) = ReplySet(s) \cup {n}
  BY <1>1, <1>2, <1>3, <1>4 DEF ReplySet
<1>6. IsFiniteSet(ReplySet(s))
  BY FS_Interval, FS_Subset DEF ReplySet
<1>7. n \notin ReplySet(s)
  BY DEF ReplySet
<1>8. Cardinality(ReplySet(r)) = Cardinality(ReplySet(s)) + 1
  BY <1>5, <1>6, <1>7, FS_AddElement
<1>9. \A i \in ReplySet(r) : r[i] = f \/ (i \in ReplySet(s) /\ r[i] = s[i])
  BY <1>1, <1>5 DEF ReplySet
<1> QED
  BY <1>8, <1>9

\* The part of RepliesMatch about one connection.
Matched(c) ==
    /\ conn[c] = "closed" => got[c] = <<>>
    /\ conn[c] # "closed" => \A i \in ReplySet(got[c]) : got[c][i].to = c
    /\ conn[c] = "open" => disposed \/ Cardinality(ReplySet(got[c])) = asked[c]
    /\ conn[c] \in Messages \cup {"inside"} =>
          disposed \/ Cardinality(ReplySet(got[c])) + 1 = asked[c]

\* A connection that a dispatch has answered has its answer.
LEMMA AnswerMatches ==
    ASSUME Types, RepliesMatch, NEW c \in Clients, conn[c] \in Messages \cup {"inside"},
           inspector # None, Respond(c), asked' = asked, disposed' = disposed
    PROVE  RepliesMatch'
<1> DEFINE r == Append(got[c] \o outbox, Reply(c))
<1>1. /\ got \in [Clients -> Seq(Frames)] /\ outbox \in Seq(Frames) /\ asked \in [Clients -> Nat]
      /\ conn \in [Clients -> {"closed", "open", "inside"} \cup Messages] /\ NoOne \notin Clients
  BY ActorsAssumption DEF Types
<1>2. Reply(c) \in Frames /\ Reply(c).to = c
  BY DEF Reply, Frames, Types, None
<1>3. got'[c] = r /\ conn'[c] = "open" /\ outbox' = <<>>
  BY <1>1 DEF Respond
<1>4. \A d \in Clients \ {c} : got'[d] = got[d] /\ conn'[d] = conn[d]
  BY <1>1 DEF Respond
<1>5. /\ Cardinality(ReplySet(r)) = Cardinality(ReplySet(got[c])) + 1
      /\ \A i \in ReplySet(r) : r[i] = Reply(c) \/ (i \in ReplySet(got[c]) /\ r[i] = got[c][i])
  <2>1. \A i \in DOMAIN outbox : outbox[i].to = NoOne
    BY DEF RepliesMatch
  <2>2. got[c] \in Seq(Frames) /\ outbox \in Seq(Frames) /\ Reply(c).to # NoOne
    BY <1>1, <1>2
  <2> HIDE DEF r
  <2> QED BY <1>2, <2>1, <2>2, OneReplyMore, Zenon DEF r
<1>6. Matched(c)'
  <2>1. conn[c] # "closed"
    BY DEF Messages
  <2>2. \A i \in ReplySet(r) : r[i].to = c
    BY <1>2, <1>5, <2>1, ZenonT(60) DEF RepliesMatch
  <2>3. disposed \/ Cardinality(ReplySet(r)) = asked[c]
    BY <1>5 DEF RepliesMatch
  <2> QED BY <1>3, <2>2, <2>3 DEF Matched, Messages, ReplySet
<1>7. \A d \in Clients \ {c} : Matched(d)'
  <2> SUFFICES ASSUME NEW d \in Clients \ {c} PROVE Matched(d)'
    OBVIOUS
  <2>1. Matched(d)
    BY DEF RepliesMatch, Matched
  <2> QED BY <1>4, <2>1 DEF Matched, ReplySet
<1>8. \A i \in DOMAIN outbox' : outbox'[i].to = NoOne
  BY <1>3
<1> QED
  BY <1>6, <1>7, <1>8 DEF RepliesMatch, Matched

LEMMA RepliesKept ==
    ASSUME IInv, [Next]_vars
    PROVE  RepliesMatch'
<1> USE DEF pageVars, stateVars, inspectorVars, registryVars, logVars, stampVars, watchVars,
            callerVars, clientVars
<1> DEFINE Quiet == \A i \in DOMAIN outbox : outbox[i].to = NoOne
<1>0. /\ RepliesMatch /\ Types /\ conn \in [Clients -> {"closed", "open", "inside"} \cup Messages]
      /\ got \in [Clients -> Seq(Frames)] /\ asked \in [Clients -> Nat] /\ outbox \in Seq(Frames)
  BY DEF IInv, Types
<1>1. ASSUME Quiet', UNCHANGED clientVars, disposed => disposed'
      PROVE  RepliesMatch'
  BY <1>0, <1>1 DEF RepliesMatch, ReplySet
<1>2. ASSUME NEW path \in Paths, maybe_record(path) PROVE RepliesMatch'
  <2>1. UNCHANGED clientVars /\ disposed' = disposed
    BY <1>2 DEF maybe_record
  <2>2. CASE Pauses
    <3>1. outbox' = Append(outbox, [to |-> NoOne, gen |-> inspector])
      BY <1>2, <2>2 DEF maybe_record
    <3>2. Quiet'
      BY <1>0, <3>1 DEF RepliesMatch
    <3> QED BY <1>1, <2>1, <3>2
  <2>3. CASE ~Pauses
    BY <1>0, <1>1, <1>2, <2>1, <2>3 DEF maybe_record, RepliesMatch
  <2> QED BY <2>2, <2>3
<1>3. ASSUME NEW t \in Users, Use(t) PROVE RepliesMatch'
  <2>1. UNCHANGED clientVars /\ disposed' = disposed /\ (outbox' = outbox \/ outbox' = <<>>)
    BY <1>3 DEF Use, Eval, EvalEnds, Pump, PumpEnds, watch_apis, take_hits, Load, Installed,
                Uninstalled
  <2> QED BY <1>0, <1>1, <2>1 DEF RepliesMatch
<1>4. ASSUME NEW t \in Owners, Own(t) PROVE RepliesMatch'
  <2>1. UNCHANGED clientVars /\ (disposed => disposed') /\ (outbox' = outbox \/ outbox' = <<>>)
    <3>1. CASE Enable(t)
      BY <3>1 DEF Enable, Installed
    <3>2. CASE FinishDispose(t)
      BY <3>2 DEF FinishDispose, Dispose, Uninstalled, Free
    <3>3. CASE StartServer(t) \/ KeepServer(t) \/ BeginDispose(t) \/ ServerStops(t)
      BY <3>3 DEF StartServer, KeepServer, BeginDispose, ServerStops
    <3> QED BY <1>4, <3>1, <3>2, <3>3 DEF Own
  <2> QED BY <1>0, <1>1, <2>1 DEF RepliesMatch
<1>5. ASSUME NEW c \in Clients, UNCHANGED <<outbox, disposed>>, Matched(c)',
             \A d \in Clients \ {c} : conn'[d] = conn[d] /\ got'[d] = got[d] /\ asked'[d] = asked[d]
      PROVE  RepliesMatch'
  <2>1. \A d \in Clients \ {c} : Matched(d)'
    <3> SUFFICES ASSUME NEW d \in Clients \ {c} PROVE Matched(d)'
      OBVIOUS
    <3>1. Matched(d)
      BY <1>0 DEF RepliesMatch, Matched
    <3> QED BY <1>5, <3>1 DEF Matched, ReplySet
  <2> QED BY <1>0, <1>5, <2>1 DEF RepliesMatch, Matched
<1>6. ASSUME NEW c \in Clients, Connect(c) PROVE RepliesMatch'
  <2>1. conn'[c] = "open" /\ got'[c] = <<>> /\ asked'[c] = 0
    BY <1>0, <1>6 DEF Connect, RepliesMatch
  <2>2. Cardinality(ReplySet(<<>>)) = 0 /\ ReplySet(<<>>) = {}
    BY FS_EmptySet DEF ReplySet
  <2>3. Matched(c)'
    BY <2>1, <2>2 DEF Matched, Messages, ReplySet
  <2> QED BY <1>0, <1>5, <1>6, <2>3 DEF Connect
<1>7. ASSUME NEW c \in Clients, Close(c) \/ DispatchRefused(c) PROVE RepliesMatch'
  <2>1. conn'[c] = "closed" /\ got'[c] = <<>>
    BY <1>0, <1>7 DEF Close, DispatchRefused
  <2>2. Matched(c)'
    BY <2>1 DEF Matched, Messages
  <2> QED BY <1>0, <1>5, <1>7, <2>2 DEF Close, DispatchRefused
<1>8. ASSUME NEW c \in Clients, NEW message \in Messages, Receive(c, message) PROVE RepliesMatch'
  <2>1. /\ conn[c] = "open" /\ conn'[c] = message /\ got'[c] = got[c] /\ asked'[c] = asked[c] + 1
        /\ disposed' = disposed
    BY <1>0, <1>8 DEF Receive
  <2>2. Matched(c)'
    BY <1>0, <2>1, ZenonT(60) DEF RepliesMatch, Matched, Messages, ReplySet
  <2>3. \A d \in Clients \ {c} : conn'[d] = conn[d] /\ got'[d] = got[d] /\ asked'[d] = asked[d]
    BY <1>0, <1>8 DEF Receive
  <2> QED BY <1>5, <1>8, <2>2, <2>3 DEF Receive
<1>9. ASSUME NEW c \in Clients, DispatchNowhere(c) PROVE RepliesMatch'
  <2>1. disposed
    BY <1>9 DEF DispatchNowhere, IInv, InspectorCurrent, EnabledFirst, Messages
  <2>2. /\ conn[c] # "closed" /\ conn'[c] = "open" /\ got'[c] = got[c] /\ asked'[c] = asked[c]
        /\ disposed' = disposed
    BY <1>0, <1>9 DEF DispatchNowhere, Messages
  <2>3. Matched(c)'
    BY <1>0, <2>1, <2>2 DEF RepliesMatch, Matched, Messages, ReplySet
  <2> QED BY <1>0, <1>5, <1>9, <2>3 DEF DispatchNowhere
<1>10. ASSUME NEW c \in Clients, DispatchEnable(c) \/ EvaluateEnds(c) PROVE RepliesMatch'
  <2>1. /\ conn[c] \in Messages \cup {"inside"} /\ inspector # None /\ Respond(c)
        /\ asked' = asked /\ disposed' = disposed
    BY <1>10 DEF DispatchEnable, EvaluateEnds, Messages, IInv, MutexHeld
  <2> QED BY <1>0, <2>1, AnswerMatches
<1>11. ASSUME NEW c \in Clients, DispatchEvaluate(c) PROVE RepliesMatch'
  <2>1. /\ conn[c] = "evaluate" /\ conn'[c] = "inside" /\ got'[c] = got[c] /\ asked'[c] = asked[c]
        /\ disposed' = disposed
    BY <1>0, <1>11 DEF DispatchEvaluate
  <2>2. /\ \A i \in ReplySet(got[c]) : got[c][i].to = c
        /\ disposed \/ Cardinality(ReplySet(got[c])) + 1 = asked[c]
    BY <1>0, <2>1 DEF RepliesMatch, Messages
  <2>3. Matched(c)'
    BY <2>1, <2>2 DEF Matched, Messages, ReplySet
  <2> QED BY <1>0, <1>5, <1>11, <2>3 DEF DispatchEvaluate
<1>12. CASE UNCHANGED vars
  BY <1>0, <1>12 DEF vars, RepliesMatch, ReplySet
<1> QED
  BY <1>2, <1>3, <1>4, <1>6, <1>7, <1>8, <1>9, <1>10, <1>11, <1>12 DEF Next, Serve

-------------------------------------------------------------------------------
(* The invariant, and what it shows *)

\* IInv holds in every reachable state, for any threads and connections.
THEOREM Invariant == Spec => []IInv
<1>1. ASSUME IInv, [Next]_vars PROVE IInv'
  <2>1. Types /\ MutexHeld /\ InspectorCurrent
    BY <1>1 DEF IInv
  <2>2. Types'
    <3>1. CASE UNCHANGED vars
      BY <2>1, <3>1 DEF vars, pageVars, stateVars, inspectorVars, registryVars, logVars, stampVars,
                        watchVars, callerVars, clientVars, Types
    <3> QED
      BY <1>1, <2>1, <3>1, RecordTypes, UseTypes, OwnTypes, ServeTypes DEF Next
  <2> QED
    BY <1>1, <2>2, MutexKept, StampKept, HitsKept, EnabledKept, InspectorKept, ServersKept,
       RepliesKept DEF IInv
<1> QED
  BY <1>1, InitInv, PTL DEF Spec

\* For any threads, connections and generations: no Inspector, and no frame, outlives its page
\* or its document, and every document of an enabled page has an Inspector.
THEOREM InspectorOfGeneration == Spec => []InspectorCurrent
<1>1. IInv => InspectorCurrent
  BY DEF IInv
<1> QED BY <1>1, Invariant, PTL

\* For any threads and scripts, every hit is read once, in order, under its script's name.
THEOREM HitsOnceInOrder == Spec => []HitLog
<1>1. IInv => HitLog
  BY DEF IInv
<1> QED BY <1>1, Invariant, PTL

\* For any number of owners that start and stop servers, the URL is served until a dispose()
\* has stopped its server.
THEOREM UrlIsServed == Spec => []UrlServed
<1>1. IInv => UrlServed
  BY DEF IInv
<1> QED BY <1>1, Invariant, PTL

\* For any number of connections that share the session and its outbox, each has no answers
\* but those to its own messages, and has all of these while the page lives.
THEOREM RepliesToSender == Spec => []RepliesReachSender
<1>1. IInv => RepliesReachSender
  <2>1. \A c : Replies(c) = ReplySet(got[c])
    BY DEF Replies, ReplySet
  <2> QED BY <2>1 DEF IInv, RepliesMatch, RepliesReachSender
<1> QED BY <1>1, Invariant, PTL
===============================================================================
