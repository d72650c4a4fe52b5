--------------------------- MODULE EventDispatch_proofs ---------------------------
(***************************************************************************)
(* Theorems about EventDispatch, for every tree, any listeners and events, *)
(* and any depth of nested dispatches.  What DomTree_proofs shows of       *)
(* edits to the tree holds of the edits that listeners make.               *)
(***************************************************************************)
EXTENDS EventDispatch, SequenceTheorems, WellFoundedInduction, TLAPS

DT == INSTANCE DomTree_proofs

-------------------------------------------------------------------------------
(* The invariant *)

\* No callback is registered twice.
Listed == \A x \in Targets : IsInjective(listeners[x])

\* A dispatch that has an inner one of its own event is marked.
Nested ==
    \A i, j \in DOMAIN stack : i < j /\ stack[i].event = stack[j].event => stack[i].again

\* The flag of an event agrees with what the dispatches of it remember.
Flagged ==
    \A i \in DOMAIN stack :
        /\ stack[i].stop /\ ~stack[i].again => stopped[stack[i].event]
        /\ stopped[stack[i].event] /\ ~stack[i].native => stack[i].stop

\* The path of a dispatch starts at its origin and ends where its listeners run.
Underway ==
    \A i \in DOMAIN stack :
        /\ stack[i].visited # <<>>
        /\ stack[i].visited[1] = stack[i].origin
        /\ stack[i].visited[Len(stack[i].visited)] = stack[i].at

\* A dispatch goes up its route; what it has not visited lies beyond where it is.
OnRoute(f) ==
    /\ \A i, j \in DOMAIN f.visited : i < j => Beyond(f.visited[j], f.visited[i])
    /\ ToSet(f.visited) \subseteq Route(f)
    /\ \A y \in Route(f) : y \in ToSet(f.visited) \/ Beyond(y, f.at)

Bubbles ==
    \A i \in DOMAIN stack : \A f \in {stack[i]} : ~f.edited => OnRoute(f)

TreeSound == DT!Inv /\ DT!Acyclic

IInv ==
    /\ TypeOK /\ TreeSound /\ Listed
    /\ HopServesSnapshot
    /\ Nested /\ TargetsStay /\ Flagged
    /\ Underway /\ Bubbles

-------------------------------------------------------------------------------
(* The tree *)

LEMMA MaxNodesNat == MaxNodes \in Nat
BY NodesAssumption

\* DomTree's lemmas speak of DT!, this module of Tree!; the two are one tree.
LEMMA SameTree ==
    /\ DT!Inv <=> Tree!TypeOK /\ Tree!TreeLinks
    /\ \A n, c, ref : Tree!Insert(n, c, ref) => DT!Insert(n, c, ref)
    /\ \A n, c : Tree!removeChild(n, c) => DT!removeChild(n, c)
<1> USE DEF Tree!Nodes, DT!Nodes, Tree!None, DT!None, Tree!Pool, DT!Pool, Tree!Members, DT!Members
<1>1. DT!Inv <=> Tree!TypeOK /\ Tree!TreeLinks
  BY DEF DT!Inv, DT!TypeOK, DT!TreeLinks, DT!NoRepeats, Tree!TypeOK, Tree!TreeLinks, Tree!NoRepeats
<1>2. \A c : Tree!Detached(c) = DT!Detached(c)
  BY DEF Tree!Detached, DT!Detached, Tree!Without, DT!Without, Tree!Position, DT!Position
<1>3. \A n, c : Tree!MayInsert(n, c) <=> DT!MayInsert(n, c)
  BY DEF Tree!MayInsert, DT!MayInsert, Tree!is_self_or_ancestor, DT!is_self_or_ancestor,
         Tree!ClosedUp, DT!ClosedUp
<1>4. ASSUME NEW n, NEW c, NEW ref, Tree!Insert(n, c, ref) PROVE DT!Insert(n, c, ref)
  BY <1>2, <1>3, <1>4
     DEF Tree!Insert, DT!Insert, Tree!Position, DT!Position, Tree!InsertedAt, DT!InsertedAt
<1>5. ASSUME NEW n, NEW c, Tree!removeChild(n, c) PROVE DT!removeChild(n, c)
  BY <1>2, <1>5 DEF Tree!removeChild, DT!removeChild
<1> QED
  BY <1>1, <1>4, <1>5

\* Edits by listeners keep the tree a tree.
LEMMA EditSound ==
    ASSUME TreeSound, EditTree
    PROVE  TreeSound'
<1>1. PICK n \in Nodes, c \in Nodes :
         \/ \E ref \in Nodes \cup {None} : Tree!Insert(n, c, ref)
         \/ Tree!removeChild(n, c)
  BY DEF EditTree
<1>2. DT!Inv /\ DT!Acyclic
  BY DEF TreeSound
<1>3. ASSUME NEW ref, Tree!Insert(n, c, ref) PROVE TreeSound'
  <2>1. DT!Insert(n, c, ref)
    BY <1>3, SameTree
  <2>2. n \in DT!Pool /\ c \in DT!Pool /\ ref \in DT!Pool \cup {DT!None}
    BY <2>1 DEF DT!Insert
  <2>3. DT!Inv'
    BY <1>2, <2>1, <2>2, DT!InsertInv, MaxNodesNat
  <2>4. DT!Acyclic'
    BY <1>2, <2>1, <2>2, DT!InsertAcyclic, MaxNodesNat
  <2> QED BY <2>3, <2>4 DEF TreeSound
<1>4. CASE Tree!removeChild(n, c)
  <2>1. DT!removeChild(n, c)
    BY <1>4, SameTree
  <2>2. n \in DT!Pool /\ c \in DT!Pool
    BY <2>1 DEF DT!removeChild
  <2>3. DT!Inv'
    BY <1>2, <2>1, <2>2, DT!RemoveInv, MaxNodesNat
  <2>4. DT!None \notin DT!Nodes /\ \A m \in DT!Nodes : parent'[m] \in {DT!None, parent[m]}
    BY <1>2, <2>1 DEF DT!removeChild, DT!Inv, DT!TypeOK, DT!None, DT!Nodes
  <2>5. DT!Acyclic'
    BY <1>2, <2>4, DT!ClearingAcyclic, MaxNodesNat
  <2> QED BY <2>3, <2>5 DEF TreeSound
<1> QED
  BY <1>1, <1>3, <1>4

LEMMA LeastOf ==
    ASSUME NEW S \in SUBSET Nat, S # {}
    PROVE  \E n \in S : \A m \in S : ~(m < n)
<1>1. PICK n \in S : \A m \in S : ~(<<m, n>> \in OpToRel(<, Nat))
  BY NatLessThanWellFounded, WFMin
<1>2. \A m, n2 \in Nat : m < n2 => <<m, n2>> \in OpToRel(<, Nat)
  BY DEF OpToRel
<1> QED
  BY <1>1, <1>2

\* The tree that scripts have built before the first dispatch.
LEMMA InitSound == Init => TreeSound
<1> SUFFICES ASSUME Init PROVE TreeSound
  OBVIOUS
<1> USE MaxNodesNat
<1> USE DEF DT!Nodes, DT!None, DT!Pool, Nodes, None
<1>1. /\ parent = [n \in Nodes |-> IF n = MaxNodes THEN None ELSE n - 1]
      /\ children = [n \in Nodes |-> IF n + 1 < MaxNodes THEN <<n + 1>> ELSE <<>>]
      /\ parsing = FALSE /\ open = <<>> /\ count = MaxNodes /\ roots = <<1>>
  BY DEF Init
<1>2. DT!TypeOK
  <2>1. 1 \in 1..MaxNodes
    BY NodesAssumption
  <2>2. roots \in Seq(1..MaxNodes) /\ open \in Seq(1..MaxNodes)
    BY <1>1, <2>1
  <2>3. ASSUME NEW n \in Nodes PROVE children[n] \in Seq(1..MaxNodes)
    <3>1. CASE n + 1 < MaxNodes
      <4>1. n + 1 \in 1..MaxNodes /\ children[n] = <<n + 1>>
        BY <1>1, <3>1
      <4> QED BY <4>1
    <3>2. CASE ~(n + 1 < MaxNodes)
      BY <1>1, <3>2
    <3> QED BY <3>1, <3>2
  <2>4. children \in [Nodes -> Seq(1..MaxNodes)]
    BY <1>1, <2>3
  <2>5. parent \in [Nodes -> 1..MaxNodes \cup {None}]
    BY <1>1
  <2>6. count \in 0..MaxNodes
    BY <1>1
  <2>7. parsing \in BOOLEAN
    BY <1>1, Zenon
  <2> QED BY <1>1, <2>2, <2>4, <2>5, <2>6, <2>7 DEF DT!TypeOK
<1>3. \A n \in Nodes : DT!Members(children[n]) = IF n + 1 < MaxNodes THEN {n + 1} ELSE {}
  <2>1. DT!Members(<<>>) = {} /\ \A m : DT!Members(<<m>>) = {m}
    BY DEF DT!Members
  <2> QED BY <1>1, <2>1
<1>4. DT!TreeLinks
  <2>1. \A p \in Nodes : DT!NoRepeats(children[p])
    BY <1>1 DEF DT!NoRepeats
  <2>2. ASSUME NEW p \in Nodes, NEW n \in Nodes
        PROVE  parent[n] = p <=> n \in DT!Members(children[p])
    <3>1. parent[n] = p <=> n # MaxNodes /\ n = p + 1
      BY <1>1
    <3>2. n \in DT!Members(children[p]) <=> p + 1 < MaxNodes /\ n = p + 1
      BY <1>3
    <3> QED BY <3>1, <3>2
  <2> QED BY <2>1, <2>2 DEF DT!TreeLinks
<1>5. DT!Acyclic
  <2>1. ASSUME NEW S \in SUBSET Nodes, \A n \in S : parent[n] \in S, S # {} PROVE FALSE
    <3>1. PICK n \in S : \A m \in S : ~(m < n)
      BY <2>1, LeastOf
    <3>2. parent[n] < n
      BY <1>1
    <3> QED BY <2>1, <3>1, <3>2
  <2> QED BY <2>1 DEF DT!Acyclic
<1> QED
  BY <1>2, <1>4, <1>5 DEF TreeSound, DT!Inv

-------------------------------------------------------------------------------
(* Ancestors *)

LEMMA AncestorRules ==
    ASSUME TreeSound
    PROVE  /\ \A n : Tree!is_self_or_ancestor(n, n)
           /\ \A m, n, o : Tree!is_self_or_ancestor(m, n) /\ Tree!is_self_or_ancestor(n, o)
                             => Tree!is_self_or_ancestor(m, o)
           /\ \A n \in Nodes : parent[n] # None =>
                  parent[n] \in Nodes /\ Tree!is_self_or_ancestor(parent[n], n)
           /\ \A n \in Nodes : \A m : Tree!is_self_or_ancestor(m, n) /\ m # n =>
                  parent[n] # None /\ Tree!is_self_or_ancestor(m, parent[n])
<1> USE DEF Tree!Nodes, Nodes, Tree!None, None
<1>1. \A n \in Nodes : parent[n] \in Nodes \cup {None}
  BY MaxNodesNat DEF TreeSound, DT!Inv, DT!TypeOK, DT!Nodes, DT!Pool, DT!None
<1>2. \A n : Tree!is_self_or_ancestor(n, n)
  BY DEF Tree!is_self_or_ancestor
<1>3. \A m, n, o : Tree!is_self_or_ancestor(m, n) /\ Tree!is_self_or_ancestor(n, o)
                   => Tree!is_self_or_ancestor(m, o)
  BY DEF Tree!is_self_or_ancestor
<1>4. \A n \in Nodes : parent[n] # None =>
         parent[n] \in Nodes /\ Tree!is_self_or_ancestor(parent[n], n)
  BY <1>1 DEF Tree!is_self_or_ancestor, Tree!ClosedUp
<1>5. ASSUME NEW n \in Nodes, NEW m, Tree!is_self_or_ancestor(m, n), m # n
      PROVE  parent[n] # None /\ Tree!is_self_or_ancestor(m, parent[n])
  <2>1. ASSUME parent[n] = None PROVE FALSE
    <3>1. {n} \in SUBSET Nodes /\ n \in {n} /\ Tree!ClosedUp({n})
      BY <2>1 DEF Tree!ClosedUp
    <3>2. m \in {n}
      BY <1>5, <3>1 DEF Tree!is_self_or_ancestor
    <3> QED BY <1>5, <3>2
  <2>2. ASSUME NEW S \in SUBSET Nodes, parent[n] \in S, Tree!ClosedUp(S) PROVE m \in S
    <3>1. S \cup {n} \in SUBSET Nodes /\ n \in S \cup {n} /\ Tree!ClosedUp(S \cup {n})
      BY <2>2 DEF Tree!ClosedUp
    <3>2. m \in S \cup {n}
      BY <1>5, <3>1 DEF Tree!is_self_or_ancestor
    <3> QED BY <1>5, <3>2
  <2> QED BY <2>1, <2>2 DEF Tree!is_self_or_ancestor
<1> QED
  BY <1>2, <1>3, <1>4, <1>5

\* Two nodes that are ancestors of each other are one.
LEMMA AncestorsApart ==
    ASSUME TreeSound, NEW a \in Nodes, NEW b \in Nodes,
           Tree!is_self_or_ancestor(a, b), Tree!is_self_or_ancestor(b, a)
    PROVE  a = b
<1> SUFFICES ASSUME a # b PROVE FALSE
  OBVIOUS
<1> DEFINE S == {m \in Nodes : Tree!is_self_or_ancestor(a, m) /\ Tree!is_self_or_ancestor(m, a)}
<1>1. ASSUME NEW m \in S PROVE parent[m] \in S
  <2>1. \E c \in S : c # m /\ Tree!is_self_or_ancestor(c, m)
    <3>1. CASE m = a
      BY <3>1
    <3>2. CASE m # a
      BY <3>2, AncestorRules
    <3> QED BY <3>1, <3>2
  <2>2. PICK c \in S : c # m /\ Tree!is_self_or_ancestor(c, m)
    BY <2>1
  <2>3. parent[m] # None /\ Tree!is_self_or_ancestor(c, parent[m])
    BY <2>2, AncestorRules
  <2>4. parent[m] \in Nodes /\ Tree!is_self_or_ancestor(parent[m], m)
    BY <2>3, AncestorRules
  <2>5. Tree!is_self_or_ancestor(a, parent[m]) /\ Tree!is_self_or_ancestor(parent[m], a)
    BY <2>2, <2>3, <2>4, AncestorRules
  <2> QED BY <2>4, <2>5
<1>2. S \in SUBSET DT!Nodes /\ S # {}
  BY AncestorRules DEF DT!Nodes, Nodes
<1> QED
  BY <1>1, <1>2 DEF TreeSound, DT!Acyclic

\* Beyond is a strict order on the targets.
LEMMA BeyondOrder ==
    ASSUME TreeSound, NEW x \in Targets, NEW y \in Targets, NEW z \in Targets,
           Beyond(y, x), Beyond(z, y)
    PROVE  Beyond(z, x)
<1>1. Document # Window /\ Document \notin Nodes /\ Window \notin Nodes
  BY TargetsAssumption
<1>2. CASE z \in Nodes
  <2>1. x \in Nodes /\ y \in Nodes /\ z # y /\ y # x
        /\ Tree!is_self_or_ancestor(y, x) /\ Tree!is_self_or_ancestor(z, y)
    BY <1>1, <1>2 DEF Beyond
  <2>2. Tree!is_self_or_ancestor(z, x)
    BY <2>1, AncestorRules
  <2>3. z # x
    BY <2>1, AncestorsApart
  <2> QED BY <1>2, <2>1, <2>2, <2>3 DEF Beyond
<1>3. CASE z \notin Nodes
  BY <1>1, <1>3 DEF Beyond, Targets
<1> QED
  BY <1>2, <1>3

-------------------------------------------------------------------------------
(* Routes *)

\* Each target a hop leads to is on the route and beyond the one it leaves, and what was
\* beyond that one is beyond this one, too.
LEMMA HopBeyond ==
    ASSUME TreeSound, NEW f \in Frames, NEW x \in Targets, NextHop(f, x), f.at \in Route(f)
    PROVE  /\ x \in Route(f) /\ Beyond(x, f.at)
           /\ \A y \in Route(f) : Beyond(y, f.at) => y = x \/ Beyond(y, x)
<1>1. Document # Window /\ Document \notin Nodes /\ Window \notin Nodes
  BY TargetsAssumption
<1>2. /\ ~f.native /\ f.origin # Window /\ f.event \in Bubbling
      /\ f.at \in Targets /\ f.origin \in Targets
  BY DEF NextHop, Frames
<1>3. CASE f.origin = Document
  <2>1. Route(f) = {Document, Window}
    BY <1>2, <1>3 DEF Route
  <2>2. f.at = Document /\ x = Window
    BY <1>1, <2>1 DEF NextHop
  <2> QED BY <1>1, <2>1, <2>2 DEF Beyond
<1>4. CASE f.origin \in Nodes
  <2> DEFINE up == {m \in Nodes : Tree!is_self_or_ancestor(m, f.origin)}
             top == IF Tree!is_in_tree(f.origin) THEN {Document, Window} ELSE {}
  <2>1. Route(f) = up \cup top
    BY <1>1, <1>2, <1>4 DEF Route
  <2>2. CASE f.at \in Nodes /\ parent[f.at] # None /\ x = parent[f.at]
    <3>1. x \in Nodes /\ Tree!is_self_or_ancestor(x, f.at) /\ f.at \in up
      BY <1>1, <2>1, <2>2, AncestorRules
    <3>2. x \in up
      BY <3>1, AncestorRules
    <3>3. x # f.at
      <4>1. ASSUME x = f.at PROVE FALSE
        <5>1. {x} \in SUBSET DT!Nodes /\ \A m \in {x} : parent[m] \in {x}
          BY <2>2, <3>1, <4>1 DEF DT!Nodes, Nodes
        <5> QED BY <5>1 DEF TreeSound, DT!Acyclic
      <4> QED BY <4>1
    <3>4. ASSUME NEW y \in Route(f), Beyond(y, f.at), y # x PROVE Beyond(y, x)
      <4>1. CASE y \in Nodes
        <5>1. Tree!is_self_or_ancestor(y, f.at) /\ y # f.at
          BY <1>1, <3>4, <4>1 DEF Beyond
        <5>2. Tree!is_self_or_ancestor(y, x)
          BY <2>2, <5>1, AncestorRules
        <5> QED BY <3>1, <3>4, <4>1, <5>2 DEF Beyond
      <4>2. CASE y \notin Nodes
        BY <1>1, <3>1, <3>4, <4>2 DEF Beyond
      <4> QED BY <4>1, <4>2
    <3> QED BY <2>1, <2>2, <3>1, <3>2, <3>3, <3>4 DEF Beyond
  <2>3. CASE f.at \in Nodes /\ parent[f.at] = None /\ Tree!is_in_tree(f.origin) /\ x = Document
    <3>1. \A y \in Nodes : ~Beyond(y, f.at)
      BY <1>1, <2>3, AncestorRules DEF Beyond
    <3>2. \A y \in Route(f) : Beyond(y, f.at) => y \in {Document, Window}
      BY <2>1, <3>1
    <3> QED BY <1>1, <2>1, <2>3, <3>2 DEF Beyond
  <2>4. CASE f.at = Document /\ x = Window
    <3>1. Tree!is_in_tree(f.origin)
      BY <1>1, <2>1, <2>4
    <3>2. \A y \in Route(f) : Beyond(y, f.at) => y = Window
      BY <1>1, <2>1, <2>4 DEF Beyond
    <3> QED BY <1>1, <2>1, <2>4, <3>1, <3>2 DEF Beyond
  <2> QED BY <2>2, <2>3, <2>4 DEF NextHop
<1> QED
  BY <1>2, <1>3, <1>4 DEF Targets

\* Where the walk ends, nothing of the route is left, unless it was stopped.
LEMMA EndReached ==
    ASSUME TreeSound, NEW f \in Frames, f.at \in Route(f), ~stopped[f.event],
           \A x \in Targets : ~NextHop(f, x)
    PROVE  \/ Route(f) = {f.origin}
           \/ \A y \in Route(f) : ~Beyond(y, f.at)
<1>1. Document # Window /\ Document \notin Nodes /\ Window \notin Nodes
      /\ f.at \in Targets /\ f.origin \in Targets
  BY TargetsAssumption DEF Frames
<1>2. CASE f.native \/ f.origin = Window \/ f.event \notin Bubbling
  BY <1>2 DEF Route
<1>3. CASE ~f.native /\ f.origin # Window /\ f.event \in Bubbling
  <2>1. f.at # Document
    BY <1>1, <1>3 DEF NextHop, Targets
  <2>2. CASE f.at = Window
    BY <1>1, <2>2 DEF Beyond
  <2>3. CASE f.at \in Nodes
    <3>1. parent[f.at] = None
      BY <1>3, <2>3, AncestorRules DEF NextHop, Targets
    <3>2. ~Tree!is_in_tree(f.origin)
      BY <1>3, <2>3, <3>1 DEF NextHop, Targets
    <3>3. f.origin # Document
      BY <1>1, <1>3, <2>3 DEF Route
    <3>4. Route(f) \subseteq Nodes
      BY <1>3, <3>2, <3>3 DEF Route
    <3>5. \A y \in Nodes : ~Beyond(y, f.at)
      BY <1>1, <2>3, <3>1, AncestorRules DEF Beyond
    <3> QED BY <3>4, <3>5
  <2> QED BY <1>1, <2>1, <2>2, <2>3 DEF Targets
<1> QED
  BY <1>2, <1>3

\* A dispatch starts on its route, with all of it ahead.
LEMMA StartOnRoute ==
    ASSUME TreeSound, NEW f \in Frames, f.visited = <<f.origin>>, f.at = f.origin
    PROVE  OnRoute(f)
<1>1. Document # Window /\ Document \notin Nodes /\ Window \notin Nodes /\ f.origin \in Targets
  BY TargetsAssumption DEF Frames
<1>2. f.origin \in Route(f)
  BY <1>1, AncestorRules DEF Route, Targets
<1>3. ToSet(f.visited) = {f.origin}
  BY DEF ToSet
<1>4. \A y \in Route(f) : y = f.origin \/ Beyond(y, f.origin)
  BY <1>1 DEF Route, Beyond, Targets
<1> QED
  BY <1>2, <1>3, <1>4 DEF OnRoute

\* A hop stays on the route.
LEMMA HopOnRoute ==
    ASSUME TreeSound, NEW f \in Frames, OnRoute(f), NEW x \in Targets, NextHop(f, x),
           f.visited # <<>>, f.visited[Len(f.visited)] = f.at,
           NEW g \in Frames, g.visited = Append(f.visited, x), g.at = x,
           g.event = f.event, g.native = f.native, g.origin = f.origin
    PROVE  OnRoute(g)
<1> DEFINE v == f.visited
           n == Len(v)
<1>1. v \in Seq(Targets) /\ n \in Nat \ {0} /\ n \in DOMAIN v /\ DOMAIN v = 1..n
  BY DEF Frames
<1>2. /\ g.visited = Append(v, x) /\ DOMAIN g.visited = 1..(n + 1)
      /\ g.visited[n + 1] = x /\ \A i \in 1..n : g.visited[i] = v[i] /\ v[i] \in Targets
  BY <1>1
<1>3. ToSet(g.visited) = ToSet(v) \cup {x}
  <2>1. \A i \in DOMAIN v : i \in DOMAIN g.visited
    BY <1>1, <1>2
  <2>2. \A i \in DOMAIN g.visited : i \in DOMAIN v \/ i = n + 1
    BY <1>1, <1>2
  <2>3. n + 1 \in DOMAIN g.visited
    BY <1>1, <1>2
  <2> QED BY <1>1, <1>2, <2>1, <2>2, <2>3 DEF ToSet
<1>4. Route(g) = Route(f)
  BY DEF Route
<1>5. f.at \in Route(f) /\ f.at = v[n]
  BY <1>1 DEF OnRoute, ToSet
<1>6. /\ x \in Route(f) /\ Beyond(x, f.at)
      /\ \A y \in Route(f) : Beyond(y, f.at) => y = x \/ Beyond(y, x)
  BY <1>5, HopBeyond
<1>7. ASSUME NEW i \in DOMAIN g.visited, NEW j \in DOMAIN g.visited, i < j
      PROVE  Beyond(g.visited[j], g.visited[i])
  <2>1. CASE j \in 1..n
    <3>1. i \in 1..n
      BY <1>1, <1>2, <1>7, <2>1
    <3> QED BY <1>1, <1>2, <1>7, <2>1, <3>1 DEF OnRoute
  <2>2. CASE j = n + 1
    <3>1. i \in 1..n /\ g.visited[j] = x /\ g.visited[i] = v[i] /\ v[i] \in Targets
      BY <1>1, <1>2, <1>7, <2>2
    <3>2. CASE i = n
      BY <1>5, <1>6, <3>1, <3>2
    <3>3. CASE i # n
      <4>1. Beyond(f.at, v[i])
        BY <1>1, <1>5, <3>1, <3>3 DEF OnRoute
      <4>2. f.at \in Targets
        BY DEF Frames
      <4> QED BY <1>6, <3>1, <4>1, <4>2, BeyondOrder
    <3> QED BY <3>2, <3>3
  <2> QED BY <1>1, <1>2, <2>1, <2>2
<1>8. ToSet(g.visited) \subseteq Route(g)
  BY <1>3, <1>4, <1>6 DEF OnRoute
<1>9. \A y \in Route(g) : y \in ToSet(g.visited) \/ Beyond(y, g.at)
  BY <1>3, <1>4, <1>6 DEF OnRoute
<1> QED
  BY <1>7, <1>8, <1>9 DEF OnRoute

\* A step that leaves the tree and the path alone leaves the dispatch on its route.
LEMMA RouteKept ==
    ASSUME UNCHANGED tree, NEW f, NEW g, OnRoute(f), g.visited = f.visited, g.at = f.at,
           g.event = f.event, g.native = f.native, g.origin = f.origin
    PROVE  OnRoute(g)'
<1> USE DEF tree
<1>1. /\ \A m, n : Tree!is_self_or_ancestor(m, n)' <=> Tree!is_self_or_ancestor(m, n)
      /\ \A n : Tree!is_in_tree(n)' <=> Tree!is_in_tree(n)
  BY DEF Tree!is_self_or_ancestor, Tree!is_in_tree, Tree!ClosedUp, Tree!Nodes, Tree!None, Tree!Members
<1>2. Route(g)' = Route(f)
  BY <1>1 DEF Route
<1>3. \A y, x : Beyond(y, x)' <=> Beyond(y, x)
  BY <1>1 DEF Beyond
<1> QED
  BY <1>2, <1>3 DEF OnRoute

-------------------------------------------------------------------------------
(* What each action does to the stack *)

\* Two frames of one dispatch at one hop.
Alike(f, g) ==
    /\ g.event = f.event /\ g.native = f.native /\ g.origin = f.origin
    /\ g.at = f.at /\ g.visited = f.visited
    /\ g.began = f.began /\ g.calls = f.calls /\ g.rest = f.rest

LEMMA Stacks ==
    ASSUME TypeOK
    PROVE  /\ stack \in Seq(Frames) /\ Len(stack) \in Nat /\ DOMAIN stack = 1..Len(stack)
           /\ \A i \in DOMAIN stack : stack[i] \in Frames
           /\ stack # <<>> => Top \in Frames /\ Len(stack) \in DOMAIN stack
BY DEF TypeOK, Top

\* A sequence of frames made from the stack frame by frame.
LEMMA Remade ==
    ASSUME TypeOK, NEW s, DOMAIN s = DOMAIN stack, s = [i \in DOMAIN stack |-> s[i]],
           \A i \in DOMAIN stack : s[i] \in Frames
    PROVE  s \in Seq(Frames) /\ Len(s) = Len(stack)
<1>1. s \in [1..Len(stack) -> Frames] /\ Len(stack) \in Nat
  BY Stacks
<1>2. s \in Seq(Frames)
  BY <1>1
<1> QED
  BY <1>1, <1>2

LEMMA StopShape ==
    ASSUME TypeOK, NEW e \in Events, stopPropagation(e)
    PROVE  /\ stack' \in Seq(Frames) /\ Len(stack') = Len(stack) /\ DOMAIN stack' = DOMAIN stack
           /\ \A i \in DOMAIN stack :
                 /\ Alike(stack[i], stack'[i])
                 /\ stack'[i].again = stack[i].again /\ stack'[i].edited = stack[i].edited
                 /\ stack'[i].stop = (stack[i].stop \/ stack[i].event = e)
<1> DEFINE s == [i \in DOMAIN stack |-> [stack[i] EXCEPT !.stop = @ \/ stack[i].event = e]]
<1>1. stack' = s
  BY DEF stopPropagation
<1>2. ASSUME NEW i \in DOMAIN stack
      PROVE  /\ s[i] \in Frames /\ Alike(stack[i], s[i])
             /\ s[i].again = stack[i].again /\ s[i].edited = stack[i].edited
             /\ s[i].stop = (stack[i].stop \/ stack[i].event = e)
  <2>1. stack[i] \in Frames /\ s[i] = [stack[i] EXCEPT !.stop = @ \/ stack[i].event = e]
    BY Stacks
  <2>2. (stack[i].stop \/ stack[i].event = e) \in BOOLEAN
    OBVIOUS
  <2> QED BY <2>1, <2>2 DEF Frames, Alike
<1>3. DOMAIN s = DOMAIN stack /\ s = [i \in DOMAIN stack |-> s[i]]
  OBVIOUS
<1> HIDE DEF s
<1>4. s \in Seq(Frames) /\ Len(s) = Len(stack)
  BY <1>2, <1>3, Remade
<1> QED
  BY <1>1, <1>2, <1>3, <1>4

LEMMA EditShape ==
    ASSUME TypeOK, EditTree
    PROVE  /\ stack' \in Seq(Frames) /\ Len(stack') = Len(stack) /\ DOMAIN stack' = DOMAIN stack
           /\ \A i \in DOMAIN stack :
                 /\ Alike(stack[i], stack'[i]) /\ stack'[i].edited
                 /\ stack'[i].again = stack[i].again /\ stack'[i].stop = stack[i].stop
<1> DEFINE s == [i \in DOMAIN stack |-> [stack[i] EXCEPT !.edited = TRUE]]
<1>1. stack' = s
  BY DEF EditTree
<1>2. ASSUME NEW i \in DOMAIN stack
      PROVE  /\ s[i] \in Frames /\ Alike(stack[i], s[i]) /\ s[i].edited
             /\ s[i].again = stack[i].again /\ s[i].stop = stack[i].stop
  <2>1. stack[i] \in Frames /\ s[i] = [stack[i] EXCEPT !.edited = TRUE]
    BY Stacks
  <2> QED BY <2>1 DEF Frames, Alike
<1>3. DOMAIN s = DOMAIN stack /\ s = [i \in DOMAIN stack |-> s[i]]
  OBVIOUS
<1> HIDE DEF s
<1>4. s \in Seq(Frames) /\ Len(s) = Len(stack)
  BY <1>2, <1>3, Remade
<1> QED
  BY <1>1, <1>2, <1>3, <1>4

\* The frame of a dispatch that begins.
LEMMA EnteredFrame ==
    ASSUME TypeOK, NEW e \in Events, NEW x \in Targets, NEW native \in BOOLEAN
    PROVE  LET f == Entered(e, x, native) IN
           /\ f \in Frames
           /\ f.event = e /\ f.native = native /\ f.origin = x /\ f.at = x /\ f.visited = <<x>>
           /\ f.began = listeners[x] /\ f.calls = <<>> /\ f.rest = listeners[x]
           /\ ~f.again /\ ~f.stop
<1>1. listeners[x] \in Seq(Callbacks) /\ <<>> \in Seq(Callbacks)
  BY DEF TypeOK
<1>2. Append(<<>>, x) = <<x>> /\ <<x>> \in Seq(Targets)
  OBVIOUS
<1> DEFINE f0 == [event |-> e, native |-> native, origin |-> x, at |-> x, rest |-> <<>>,
                  calling |-> NoCallback, began |-> <<>>, calls |-> <<>>, visited |-> <<>>,
                  edited |-> FALSE, again |-> FALSE, stop |-> FALSE]
<1>3. f0 \in Frames
  <2>1. <<>> \in Seq(Targets)
    OBVIOUS
  <2> QED BY <1>1, <2>1 DEF Frames
<1>4. /\ f0.event = e /\ f0.native = native /\ f0.origin = x /\ f0.visited = <<>>
      /\ ~f0.again /\ ~f0.stop
  OBVIOUS
<1>5. Entered(e, x, native) = Reaches(f0, x)
  BY DEF Entered
<1> HIDE DEF f0
<1>6. /\ Reaches(f0, x) \in Frames
      /\ Reaches(f0, x).event = e /\ Reaches(f0, x).native = native /\ Reaches(f0, x).origin = x
      /\ Reaches(f0, x).at = x /\ Reaches(f0, x).visited = <<x>>
      /\ Reaches(f0, x).began = listeners[x] /\ Reaches(f0, x).calls = <<>>
      /\ Reaches(f0, x).rest = listeners[x]
      /\ ~Reaches(f0, x).again /\ ~Reaches(f0, x).stop
  BY <1>1, <1>2, <1>3, <1>4 DEF Reaches, Frames
<1> QED
  BY <1>5, <1>6

LEMMA EnterShape ==
    ASSUME TypeOK, NEW e \in Events, NEW x \in Targets, NEW native \in BOOLEAN,
           Enter(e, x, native)
    PROVE  /\ stack' \in Seq(Frames) /\ Len(stack') = Len(stack) + 1
           /\ stack'[Len(stack) + 1] = Entered(e, x, native)
           /\ \A i \in DOMAIN stack :
                 /\ Alike(stack[i], stack'[i])
                 /\ stack'[i].again = (stack[i].again \/ stack[i].event = e)
                 /\ stack'[i].edited = stack[i].edited /\ stack'[i].stop = stack[i].stop
<1> DEFINE s == [i \in DOMAIN stack |-> [stack[i] EXCEPT !.again = @ \/ stack[i].event = e]]
<1>1. stack' = Append(s, Entered(e, x, native))
  BY DEF Enter
<1>2. ASSUME NEW i \in DOMAIN stack
      PROVE  /\ s[i] \in Frames /\ Alike(stack[i], s[i])
             /\ s[i].again = (stack[i].again \/ stack[i].event = e)
             /\ s[i].edited = stack[i].edited /\ s[i].stop = stack[i].stop
  <2>1. stack[i] \in Frames /\ s[i] = [stack[i] EXCEPT !.again = @ \/ stack[i].event = e]
    BY Stacks
  <2>2. (stack[i].again \/ stack[i].event = e) \in BOOLEAN
    OBVIOUS
  <2> QED BY <2>1, <2>2 DEF Frames, Alike
<1>3. DOMAIN s = DOMAIN stack /\ s = [i \in DOMAIN stack |-> s[i]]
  OBVIOUS
<1> HIDE DEF s
<1>4. s \in Seq(Frames) /\ Len(s) = Len(stack)
  BY <1>2, <1>3, Remade
<1>5. Entered(e, x, native) \in Frames
  BY EnteredFrame
<1>6. /\ stack' \in Seq(Frames) /\ Len(stack') = Len(stack) + 1
      /\ stack'[Len(stack) + 1] = Entered(e, x, native)
      /\ \A i \in DOMAIN stack : stack'[i] = s[i]
  BY <1>1, <1>4, <1>5, Stacks
<1> QED
  BY <1>2, <1>6

\* Actions of the innermost dispatch replace its frame, and no other.
LEMMA TopShape ==
    ASSUME TypeOK, stack # <<>>, NEW f \in Frames, stack' = WithTop(f)
    PROVE  /\ stack' \in Seq(Frames) /\ Len(stack') = Len(stack) /\ DOMAIN stack' = DOMAIN stack
           /\ stack'[Len(stack)] = f
           /\ \A i \in DOMAIN stack : i # Len(stack) => stack'[i] = stack[i]
<1>1. stack \in Seq(Frames) /\ Len(stack) \in DOMAIN stack
  BY Stacks
<1> QED
  BY <1>1 DEF WithTop

LEMMA CallShape ==
    ASSUME TypeOK, CallListener
    PROVE  LET f == [Top EXCEPT !.calling = Head(Top.rest), !.rest = Tail(@),
                                !.calls = Append(@, Head(Top.rest))] IN
           /\ stack # <<>> /\ f \in Frames /\ stack' = WithTop(f)
           /\ f.rest = Tail(Top.rest) /\ f.calls = Append(Top.calls, Head(Top.rest))
<1>1. stack # <<>> /\ Top \in Frames /\ Top.rest # <<>>
  BY Stacks DEF CallListener, Between
<1>2. Head(Top.rest) \in Callbacks /\ Tail(Top.rest) \in Seq(Callbacks)
  BY <1>1 DEF Frames
<1>3. Append(Top.calls, Head(Top.rest)) \in Seq(Callbacks)
  BY <1>1, <1>2 DEF Frames
<1> QED
  BY <1>1, <1>2, <1>3 DEF CallListener, Frames

LEMMA ReturnShape ==
    ASSUME TypeOK, ListenerReturns
    PROVE  LET f == [Top EXCEPT !.calling = NoCallback] IN
           stack # <<>> /\ f \in Frames /\ stack' = WithTop(f)
<1>1. stack # <<>> /\ Top \in Frames
  BY Stacks DEF ListenerReturns
<1> QED
  BY <1>1 DEF ListenerReturns, Frames

LEMMA HopShape ==
    ASSUME TypeOK, NEW x \in Targets, Hop(x)
    PROVE  LET f == Reaches(Top, x) IN
           /\ stack # <<>> /\ f \in Frames /\ stack' = WithTop(f)
           /\ f.event = Top.event /\ f.native = Top.native /\ f.origin = Top.origin
           /\ f.at = x /\ f.visited = Append(Top.visited, x)
           /\ f.began = listeners[x] /\ f.calls = <<>> /\ f.rest = listeners[x]
           /\ f.again = Top.again /\ f.edited = Top.edited /\ f.stop = Top.stop
<1>1. stack # <<>> /\ Top \in Frames
  BY Stacks DEF Hop, Between
<1>2. listeners[x] \in Seq(Callbacks) /\ <<>> \in Seq(Callbacks)
      /\ Append(Top.visited, x) \in Seq(Targets)
  BY <1>1 DEF TypeOK, Frames
<1> QED
  BY <1>1, <1>2 DEF Hop, Reaches, Frames

LEMMA EndShape ==
    ASSUME TypeOK, EndDispatch
    PROVE  /\ stack' \in Seq(Frames) /\ Len(stack') = Len(stack) - 1
           /\ DOMAIN stack' \subseteq DOMAIN stack
           /\ \A i \in DOMAIN stack' : stack'[i] = stack[i]
<1>1. stack # <<>> /\ stack \in Seq(Frames) /\ stack' = SubSeq(stack, 1, Len(stack) - 1)
  BY Stacks DEF EndDispatch, Between, Front
<1>2. Len(stack) \in Nat \ {0} /\ DOMAIN stack = 1..Len(stack)
  BY <1>1
<1>3. Len(stack) - 1 \in Nat /\ 1..(Len(stack) - 1) \subseteq DOMAIN stack
  BY <1>2
<1>4. /\ stack' \in Seq(Frames) /\ Len(stack') = Len(stack) - 1
      /\ \A i \in 1..(Len(stack) - 1) : stack'[i] = stack[i]
  BY <1>1, <1>2, <1>3
<1> QED
  BY <1>3, <1>4

-------------------------------------------------------------------------------
(* Types, and lists of listeners *)

LEMMA AddedList ==
    ASSUME NEW s \in Seq(Callbacks), IsInjective(s), NEW c \in Callbacks
    PROVE  LET q == IF Contains(s, c) THEN s ELSE Append(s, c)
           IN  q \in Seq(Callbacks) /\ IsInjective(q)
<1>1. CASE Contains(s, c)
  BY <1>1
<1>2. CASE ~Contains(s, c)
  <2> DEFINE q == Append(s, c)
  <2>1. /\ q \in Seq(Callbacks) /\ DOMAIN q = 1..(Len(s) + 1) /\ DOMAIN s = 1..Len(s)
        /\ Len(s) \in Nat /\ q[Len(s) + 1] = c /\ \A i \in 1..Len(s) : q[i] = s[i]
    OBVIOUS
  <2>2. \A i \in 1..Len(s) : s[i] # c
    BY <1>2 DEF Contains
  <2> HIDE DEF q
  <2>3. IsInjective(q)
    BY <2>1, <2>2 DEF IsInjective
  <2> QED BY <1>2, <2>1, <2>3 DEF q
<1> QED
  BY <1>1, <1>2

LEMMA RemovedList ==
    ASSUME NEW s \in Seq(Callbacks), IsInjective(s), NEW c
    PROVE  Tree!Without(s, c) \in Seq(Callbacks) /\ IsInjective(Tree!Without(s, c))
<1>1. Tree!Without(s, c) = DT!Without(s, c)
  BY DEF Tree!Without, DT!Without, Tree!Members, DT!Members, Tree!Position, DT!Position
<1>2. DT!NoRepeats(s)
  BY DEF DT!NoRepeats, IsInjective
<1>3. DT!Without(s, c) \in Seq(Callbacks) /\ DT!NoRepeats(DT!Without(s, c))
  BY <1>2, DT!WithoutMembers, MaxNodesNat
<1> QED
  BY <1>1, <1>3 DEF DT!NoRepeats, IsInjective

LEMMA ListsKept ==
    ASSUME IInv, [Next]_vars
    PROVE  listeners' \in [Targets -> Seq(Callbacks)] /\ Listed'
<1>0. listeners \in [Targets -> Seq(Callbacks)] /\ Listed
  BY DEF IInv, TypeOK
<1>1. ASSUME NEW x \in Targets, NEW c \in Callbacks, add_listener(x, c)
      PROVE  listeners' \in [Targets -> Seq(Callbacks)] /\ Listed'
  <2> DEFINE q == IF Contains(listeners[x], c) THEN listeners[x] ELSE Append(listeners[x], c)
  <2>1. q \in Seq(Callbacks) /\ IsInjective(q)
    BY <1>0, AddedList DEF Listed
  <2>2. listeners' = [listeners EXCEPT ![x] = q]
    BY <1>1 DEF add_listener
  <2> HIDE DEF q
  <2> QED BY <1>0, <2>1, <2>2 DEF Listed
<1>2. ASSUME NEW x \in Targets, NEW c \in Callbacks, remove_listener(x, c)
      PROVE  listeners' \in [Targets -> Seq(Callbacks)] /\ Listed'
  <2> DEFINE q == Tree!Without(listeners[x], c)
  <2>1. q \in Seq(Callbacks) /\ IsInjective(q)
    BY <1>0, RemovedList DEF Listed
  <2>2. listeners' = [listeners EXCEPT ![x] = q]
    BY <1>2 DEF remove_listener
  <2> HIDE DEF q
  <2> QED BY <1>0, <2>1, <2>2 DEF Listed
<1>3. CASE UNCHANGED listeners
  BY <1>0, <1>3 DEF Listed
<1>4. \/ \E x \in Targets, c \in Callbacks : add_listener(x, c) \/ remove_listener(x, c)
      \/ UNCHANGED listeners
  BY DEF Next, vars, stopPropagation, EditTree, dispatch_event, dispatch_native, Enter, CallListener,
         ListenerReturns, Hop, EndDispatch
<1> QED
  BY <1>1, <1>2, <1>3, <1>4

LEMMA TreeKept ==
    ASSUME IInv, [Next]_vars
    PROVE  TreeSound' /\ Tree!TypeOK'
<1>0. TreeSound
  BY DEF IInv
<1>1. EditTree \/ UNCHANGED tree
  BY DEF Next, vars, add_listener, remove_listener, stopPropagation, dispatch_event,
         dispatch_native, Enter, CallListener, ListenerReturns, Hop, EndDispatch
<1>2. TreeSound'
  <2>1. CASE UNCHANGED tree
    BY <1>0, <2>1 DEF tree, TreeSound, DT!Inv, DT!TypeOK, DT!TreeLinks, DT!Acyclic, DT!Pool
  <2> QED BY <1>0, <1>1, <2>1, EditSound
<1>3. Tree!TypeOK'
  BY <1>2 DEF TreeSound, DT!Inv, DT!TypeOK, Tree!TypeOK, DT!Pool, Tree!Pool, DT!Nodes, Tree!Nodes,
              DT!None, Tree!None
<1> QED
  BY <1>2, <1>3

LEMMA TypesKept ==
    ASSUME IInv, [Next]_vars
    PROVE  TypeOK'
<1>0. /\ TypeOK /\ acts \in 0..MaxActs /\ MaxActs \in Nat /\ MaxDepth \in Nat
      /\ Len(stack) \in 0..MaxDepth
  BY BoundsAssumption DEF IInv, TypeOK
<1>1. listeners' \in [Targets -> Seq(Callbacks)] /\ Tree!TypeOK'
  BY ListsKept, TreeKept
<1>2. stack' \in Seq(Frames) /\ Len(stack') \in 0..MaxDepth
  <2>1. CASE UNCHANGED stack
    BY <1>0, <2>1 DEF TypeOK
  <2>2. ASSUME NEW e \in Events, stopPropagation(e) PROVE stack' \in Seq(Frames) /\ Len(stack') = Len(stack)
    BY <1>0, <2>2, StopShape
  <2>3. CASE EditTree
    BY <1>0, <2>3, EditShape
  <2>4. ASSUME NEW e \in Events, NEW x \in Targets, NEW native \in BOOLEAN, Enter(e, x, native)
        PROVE  stack' \in Seq(Frames) /\ Len(stack') \in 0..MaxDepth
    <3>1. stack' \in Seq(Frames) /\ Len(stack') = Len(stack) + 1
      BY <1>0, <2>4, EnterShape
    <3>2. Len(stack) < MaxDepth
      BY <2>4 DEF Enter
    <3> QED BY <1>0, <3>1, <3>2
  <2>5. CASE CallListener
    BY <1>0, <2>5, CallShape, TopShape
  <2>6. CASE ListenerReturns
    BY <1>0, <2>6, ReturnShape, TopShape
  <2>7. ASSUME NEW x \in Targets, Hop(x) PROVE stack' \in Seq(Frames) /\ Len(stack') = Len(stack)
    BY <1>0, <2>7, HopShape, TopShape
  <2>8. CASE EndDispatch
    <3>1. stack' \in Seq(Frames) /\ Len(stack') = Len(stack) - 1
      BY <1>0, <2>8, EndShape
    <3>2. Len(stack') \in Nat
      BY <3>1
    <3> QED BY <1>0, <3>1, <3>2
  <2>9. ASSUME NEW e \in Events, NEW x \in Targets, dispatch_event(e, x) \/ dispatch_native(e, x)
        PROVE  \E native \in BOOLEAN : Enter(e, x, native)
    BY <2>9 DEF dispatch_event, dispatch_native
  <2>10. ASSUME NEW x \in Targets, NEW c \in Callbacks, add_listener(x, c) \/ remove_listener(x, c)
         PROVE  UNCHANGED stack
    BY <2>10 DEF add_listener, remove_listener
  <2> QED
    BY <1>0, <2>1, <2>2, <2>3, <2>4, <2>5, <2>6, <2>7, <2>8, <2>9, <2>10 DEF Next, vars
<1>3. stopped' \in [Events -> BOOLEAN]
  <2>1. stopped \in [Events -> BOOLEAN]
    BY <1>0 DEF TypeOK
  <2>2. \/ \E e \in Events, b \in BOOLEAN : stopped' = [stopped EXCEPT ![e] = b]
        \/ UNCHANGED stopped
    BY DEF Next, vars, add_listener, remove_listener, stopPropagation, EditTree, dispatch_event,
           dispatch_native, CallListener, ListenerReturns, Hop, EndDispatch, eventVars
  <2> QED BY <2>1, <2>2
<1>4. /\ target' \in [Events -> Targets \cup {None}]
      /\ currentTarget' \in [Events -> Targets \cup {None}]
  <2>1. /\ target \in [Events -> Targets \cup {None}]
        /\ currentTarget \in [Events -> Targets \cup {None}]
    BY <1>0 DEF TypeOK
  <2>2. ASSUME NEW x \in Targets, Hop(x)
        PROVE  target' = target /\ currentTarget' = [currentTarget EXCEPT ![Top.event] = x]
    BY <2>2 DEF Hop
  <2>3. ASSUME NEW e \in Events, NEW x \in Targets, NEW native \in BOOLEAN, Enter(e, x, native)
        PROVE  /\ target' = [target EXCEPT ![e] = x]
               /\ currentTarget' = [currentTarget EXCEPT ![e] = x]
    BY <2>3 DEF Enter
  <2>4. \/ \E x \in Targets : Hop(x)
        \/ \E e \in Events, x \in Targets, native \in BOOLEAN : Enter(e, x, native)
        \/ UNCHANGED <<target, currentTarget>>
    BY DEF Next, vars, add_listener, remove_listener, stopPropagation, EditTree, dispatch_event,
           dispatch_native, CallListener, ListenerReturns, EndDispatch, eventVars
  <2> QED BY <2>1, <2>2, <2>3, <2>4
<1>5. acts' \in 0..MaxActs
  <2> DEFINE Acted == acts < MaxActs /\ acts' = acts + 1
  <2>1. Acts => Acted
    BY DEF Acts
  <2>2. ASSUME NEW e \in Events, NEW x \in Targets, dispatch_event(e, x) \/ dispatch_native(e, x)
        PROVE  Acted
    BY <2>1, <2>2 DEF dispatch_event, dispatch_native
  <2>3. ASSUME NEW x \in Targets, NEW c \in Callbacks, add_listener(x, c) \/ remove_listener(x, c)
        PROVE  Acted
    BY <2>1, <2>3 DEF add_listener, remove_listener
  <2>4. ASSUME NEW e \in Events, stopPropagation(e) PROVE Acted
    BY <2>1, <2>4 DEF stopPropagation
  <2>5. EditTree => Acted
    BY <2>1 DEF EditTree
  <2>6. CallListener \/ ListenerReturns \/ EndDispatch \/ UNCHANGED vars => UNCHANGED acts
    BY DEF CallListener, ListenerReturns, EndDispatch, vars
  <2>7. ASSUME NEW x \in Targets, Hop(x) PROVE UNCHANGED acts
    BY <2>7 DEF Hop
  <2>8. Acted \/ UNCHANGED acts
    BY <2>2, <2>3, <2>4, <2>5, <2>6, <2>7 DEF Next
  <2> QED BY <1>0, <2>8
<1> QED
  BY <1>1, <1>2, <1>3, <1>4, <1>5 DEF TypeOK

-------------------------------------------------------------------------------
(* Snapshots *)

LEMMA SnapshotKept ==
    ASSUME IInv, [Next]_vars
    PROVE  HopServesSnapshot'
<1> DEFINE Served(f) == f.calls \o f.rest = f.began /\ IsInjective(f.began)
<1>0. TypeOK /\ Listed /\ listeners \in [Targets -> Seq(Callbacks)]
  BY DEF IInv, TypeOK
<1>1. \A i \in DOMAIN stack : Served(stack[i])
  BY DEF IInv, HopServesSnapshot
<1>2. SUFFICES \A i \in DOMAIN stack' : Served(stack'[i])
  BY DEF HopServesSnapshot
<1>3. \A f, g : Served(f) /\ Alike(f, g) => Served(g)
  BY DEF Alike
<1>4. \A x \in Targets : <<>> \o listeners[x] = listeners[x] /\ IsInjective(listeners[x])
  BY <1>0 DEF Listed
<1>5. CASE UNCHANGED stack
  BY <1>1, <1>5
<1>6. ASSUME NEW e \in Events, stopPropagation(e) PROVE \A i \in DOMAIN stack' : Served(stack'[i])
  <2> HIDE DEF Served
  <2> QED BY <1>0, <1>1, <1>3, <1>6, StopShape
<1>7. CASE EditTree
  <2> HIDE DEF Served
  <2> QED BY <1>0, <1>1, <1>3, <1>7, EditShape
<1>8. ASSUME NEW e \in Events, NEW x \in Targets, NEW native \in BOOLEAN, Enter(e, x, native)
      PROVE  \A i \in DOMAIN stack' : Served(stack'[i])
  <2>1. Served(Entered(e, x, native))
    <3>1. /\ Entered(e, x, native).calls = <<>> /\ Entered(e, x, native).rest = listeners[x]
          /\ Entered(e, x, native).began = listeners[x]
      BY <1>0, EnteredFrame
    <3> QED BY <1>4, <3>1
  <2>2. /\ DOMAIN stack' = 1..(Len(stack) + 1) /\ DOMAIN stack = 1..Len(stack) /\ Len(stack) \in Nat
        /\ stack'[Len(stack) + 1] = Entered(e, x, native)
        /\ \A i \in DOMAIN stack : Alike(stack[i], stack'[i])
    BY <1>0, <1>8, EnterShape, Stacks
  <2> HIDE DEF Served
  <2>3. \A i \in DOMAIN stack' : i \in DOMAIN stack \/ i = Len(stack) + 1
    BY <2>2
  <2> QED BY <1>1, <1>3, <2>1, <2>2, <2>3
<1>9. ASSUME stack # <<>>, NEW f \in Frames, stack' = WithTop(f), Served(f)
      PROVE  \A i \in DOMAIN stack' : Served(stack'[i])
  <2> HIDE DEF Served
  <2> QED BY <1>0, <1>1, <1>9, TopShape
<1>10. CASE CallListener
  <2> DEFINE f == [Top EXCEPT !.calling = Head(Top.rest), !.rest = Tail(@),
                              !.calls = Append(@, Head(Top.rest))]
  <2>1. /\ stack # <<>> /\ f \in Frames /\ stack' = WithTop(f)
        /\ f.rest = Tail(Top.rest) /\ f.calls = Append(Top.calls, Head(Top.rest))
    BY <1>0, <1>10, CallShape
  <2>2. f.began = Top.began
    OBVIOUS
  <2>3. Top.calls \in Seq(Callbacks) /\ Top.rest \in Seq(Callbacks) /\ Top.rest # <<>>
    BY <1>0, <1>10, <2>1, Stacks DEF CallListener, Frames
  <2> HIDE DEF f
  <2>4. f.calls \o f.rest = Top.calls \o Top.rest
    <3>1. ASSUME NEW a \in Seq(Callbacks), NEW b \in Seq(Callbacks), b # <<>>
          PROVE  Append(a, Head(b)) \o Tail(b) = a \o b
      <4>1. Append(a, Head(b)) = a \o <<Head(b)>> /\ <<Head(b)>> \o Tail(b) = b
            /\ <<Head(b)>> \in Seq(Callbacks) /\ Tail(b) \in Seq(Callbacks)
        BY <3>1
      <4> QED BY <4>1, ConcatAssociative, SMTT(40)
    <3> QED BY <2>1, <2>3, <3>1
  <2>5. Served(Top)
    BY <1>0, <1>1, <2>1, Stacks DEF Top
  <2>6. Served(f)
    BY <2>2, <2>4, <2>5
  <2> QED BY <1>9, <2>1, <2>6
<1>11. CASE ListenerReturns
  <2> DEFINE f == [Top EXCEPT !.calling = NoCallback]
  <2>1. stack # <<>> /\ f \in Frames /\ stack' = WithTop(f)
    BY <1>0, <1>11, ReturnShape
  <2>2. f.began = Top.began /\ f.calls = Top.calls /\ f.rest = Top.rest
    OBVIOUS
  <2>3. Served(Top)
    BY <1>0, <1>1, <2>1, Stacks DEF Top
  <2> HIDE DEF f
  <2>4. Served(f)
    BY <2>2, <2>3
  <2> QED BY <1>9, <2>1, <2>4
<1>12. ASSUME NEW x \in Targets, Hop(x) PROVE \A i \in DOMAIN stack' : Served(stack'[i])
  <2>1. Served(Reaches(Top, x))
    BY <1>0, <1>4, <1>12, HopShape, ZenonT(60)
  <2> HIDE DEF Served
  <2> QED BY <1>0, <1>9, <1>12, <2>1, HopShape
<1>13. CASE EndDispatch
  <2> HIDE DEF Served
  <2> QED BY <1>0, <1>1, <1>13, EndShape
<1>14. ASSUME NEW e \in Events, NEW x \in Targets, dispatch_event(e, x) \/ dispatch_native(e, x)
       PROVE  \E native \in BOOLEAN : Enter(e, x, native)
  BY <1>14 DEF dispatch_event, dispatch_native
<1>15. ASSUME NEW x \in Targets, NEW c \in Callbacks, add_listener(x, c) \/ remove_listener(x, c)
       PROVE  UNCHANGED stack
  BY <1>15 DEF add_listener, remove_listener
<1> HIDE DEF Served
<1> QED
  BY <1>5, <1>6, <1>7, <1>8, <1>10, <1>11, <1>12, <1>13, <1>14, <1>15 DEF Next, vars

-------------------------------------------------------------------------------
(* Paths and marks *)

OnePath(f, g) ==
    /\ g.event = f.event /\ g.native = f.native /\ g.origin = f.origin
    /\ g.at = f.at /\ g.visited = f.visited
SameMarks(f, g) == g.again = f.again /\ g.stop = f.stop /\ g.edited = f.edited

\* No dispatch begins, moves, is marked or ends.
Quiet ==
    /\ UNCHANGED <<eventVars, tree>>
    /\ Len(stack') = Len(stack) /\ DOMAIN stack' = DOMAIN stack
    /\ \A i \in DOMAIN stack : OnePath(stack[i], stack'[i]) /\ SameMarks(stack[i], stack'[i])

LEMMA QuietTop ==
    ASSUME TypeOK, stack # <<>>, NEW f \in Frames, stack' = WithTop(f),
           OnePath(Top, f), SameMarks(Top, f), UNCHANGED <<eventVars, tree>>
    PROVE  Quiet
<1>1. /\ Len(stack') = Len(stack) /\ DOMAIN stack' = DOMAIN stack /\ stack'[Len(stack)] = f
      /\ \A i \in DOMAIN stack : i # Len(stack) => stack'[i] = stack[i]
  BY TopShape
<1>2. ASSUME NEW i \in DOMAIN stack
      PROVE  OnePath(stack[i], stack'[i]) /\ SameMarks(stack[i], stack'[i])
  <2>1. CASE i = Len(stack)
    BY <1>1, <2>1 DEF Top
  <2>2. CASE i # Len(stack)
    BY <1>1, <2>2 DEF OnePath, SameMarks
  <2> QED BY <2>1, <2>2
<1> QED
  BY <1>1, <1>2 DEF Quiet

LEMMA Kinds ==
    ASSUME TypeOK, [Next]_vars
    PROVE  \/ Quiet \/ EditTree \/ EndDispatch
           \/ \E e \in Events : stopPropagation(e)
           \/ \E e \in Events, x \in Targets : dispatch_event(e, x) \/ dispatch_native(e, x)
           \/ \E x \in Targets : Hop(x)
<1>1. CASE UNCHANGED <<stack, eventVars, tree>>
  BY <1>1 DEF Quiet, OnePath, SameMarks
<1>2. CASE CallListener
  <2> DEFINE f == [Top EXCEPT !.calling = Head(Top.rest), !.rest = Tail(@),
                              !.calls = Append(@, Head(Top.rest))]
  <2>1. stack # <<>> /\ f \in Frames /\ stack' = WithTop(f)
    BY <1>2, CallShape
  <2>2. OnePath(Top, f) /\ SameMarks(Top, f)
    BY DEF OnePath, SameMarks
  <2>3. UNCHANGED <<eventVars, tree>>
    BY <1>2 DEF CallListener
  <2> HIDE DEF f
  <2> QED BY <2>1, <2>2, <2>3, QuietTop
<1>3. CASE ListenerReturns
  <2> DEFINE f == [Top EXCEPT !.calling = NoCallback]
  <2>1. stack # <<>> /\ f \in Frames /\ stack' = WithTop(f)
    BY <1>3, ReturnShape
  <2>2. OnePath(Top, f) /\ SameMarks(Top, f)
    BY DEF OnePath, SameMarks
  <2>3. UNCHANGED <<eventVars, tree>>
    BY <1>3 DEF ListenerReturns
  <2> HIDE DEF f
  <2> QED BY <2>1, <2>2, <2>3, QuietTop
<1>4. ASSUME NEW x \in Targets, NEW c \in Callbacks, add_listener(x, c) \/ remove_listener(x, c)
      PROVE  UNCHANGED <<stack, eventVars, tree>>
  BY <1>4 DEF add_listener, remove_listener
<1> QED
  BY <1>1, <1>2, <1>3, <1>4 DEF Next, vars

\* The innermost frame after a hop.
LEMMA HopTop ==
    ASSUME TypeOK, NEW x \in Targets, Hop(x)
    PROVE  /\ Len(stack') = Len(stack) /\ DOMAIN stack' = DOMAIN stack /\ Len(stack) \in DOMAIN stack
           /\ \A i \in DOMAIN stack : i # Len(stack) => stack'[i] = stack[i] /\ i < Len(stack)
           /\ LET f == stack[Len(stack)]
                  g == stack'[Len(stack)] IN
              /\ f \in Frames /\ g \in Frames /\ NextHop(f, x)
              /\ g.event = f.event /\ g.native = f.native /\ g.origin = f.origin
              /\ g.at = x /\ g.visited = Append(f.visited, x)
              /\ SameMarks(f, g)
              /\ currentTarget' = [currentTarget EXCEPT ![f.event] = x]
<1>1. stack # <<>> /\ Len(stack) \in DOMAIN stack /\ DOMAIN stack = 1..Len(stack) /\ Len(stack) \in Nat
  BY HopShape, Stacks
<1>2. /\ Reaches(Top, x) \in Frames /\ stack' = WithTop(Reaches(Top, x)) /\ Top \in Frames
  BY HopShape, Stacks
<1>3. /\ Len(stack') = Len(stack) /\ DOMAIN stack' = DOMAIN stack
      /\ stack'[Len(stack)] = Reaches(Top, x)
      /\ \A i \in DOMAIN stack : i # Len(stack) => stack'[i] = stack[i]
  BY <1>1, <1>2, TopShape
<1>4. \A i \in DOMAIN stack : i # Len(stack) => i < Len(stack)
  BY <1>1
<1>5. NextHop(Top, x) /\ currentTarget' = [currentTarget EXCEPT ![Top.event] = x]
  BY DEF Hop
<1>6. Top = stack[Len(stack)]
  BY DEF Top
<1> QED
  BY <1>1, <1>2, <1>3, <1>4, <1>5, <1>6, HopShape DEF SameMarks

\* The frames after a dispatch has begun.
LEMMA EnterTop ==
    ASSUME TypeOK, NEW e \in Events, NEW x \in Targets, NEW native \in BOOLEAN,
           Enter(e, x, native)
    PROVE  /\ Len(stack) \in Nat /\ DOMAIN stack = 1..Len(stack)
           /\ DOMAIN stack' = 1..(Len(stack) + 1)
           /\ \A i \in DOMAIN stack' : i \in DOMAIN stack \/ i = Len(stack) + 1
           /\ \A i \in DOMAIN stack :
                 /\ OnePath(stack[i], stack'[i])
                 /\ stack'[i].again = (stack[i].again \/ stack[i].event = e)
                 /\ stack'[i].edited = stack[i].edited /\ stack'[i].stop = stack[i].stop
           /\ LET g == stack'[Len(stack) + 1] IN
              /\ g \in Frames
              /\ g.event = e /\ g.native = native /\ g.origin = x /\ g.at = x /\ g.visited = <<x>>
              /\ ~g.again /\ ~g.stop
<1>1. /\ stack' \in Seq(Frames) /\ Len(stack') = Len(stack) + 1
      /\ stack'[Len(stack) + 1] = Entered(e, x, native)
      /\ \A i \in DOMAIN stack :
            /\ Alike(stack[i], stack'[i])
            /\ stack'[i].again = (stack[i].again \/ stack[i].event = e)
            /\ stack'[i].edited = stack[i].edited /\ stack'[i].stop = stack[i].stop
  BY EnterShape
<1>2. Len(stack) \in Nat /\ DOMAIN stack = 1..Len(stack) /\ DOMAIN stack' = 1..(Len(stack) + 1)
  BY <1>1, Stacks
<1>3. \A i \in DOMAIN stack' : i \in DOMAIN stack \/ i = Len(stack) + 1
  BY <1>2
<1> QED
  BY <1>1, <1>2, <1>3, EnteredFrame DEF Alike, OnePath

LEMMA NestedKept ==
    ASSUME IInv, [Next]_vars
    PROVE  Nested'
<1>0. TypeOK /\ Nested /\ DOMAIN stack = 1..Len(stack) /\ Len(stack) \in Nat
  BY Stacks DEF IInv
<1>1. CASE Quiet
  BY <1>0, <1>1 DEF Quiet, OnePath, SameMarks, Nested
<1>2. CASE EditTree
  BY <1>0, <1>2, EditShape DEF Alike, Nested
<1>3. CASE EndDispatch
  BY <1>0, <1>3, EndShape DEF Nested
<1>4. ASSUME NEW e \in Events, stopPropagation(e) PROVE Nested'
  BY <1>0, <1>4, StopShape DEF Alike, Nested
<1>5. ASSUME NEW e \in Events, NEW x \in Targets, NEW native \in BOOLEAN, Enter(e, x, native)
      PROVE  Nested'
  <2>1. ASSUME NEW i \in DOMAIN stack', NEW j \in DOMAIN stack', i < j,
               stack'[i].event = stack'[j].event
        PROVE  stack'[i].again
    <3>1. i \in DOMAIN stack /\ (j \in DOMAIN stack \/ j = Len(stack) + 1)
      BY <1>0, <1>5, <2>1, EnterTop
    <3>2. stack'[i].event = stack[i].event /\ stack'[i].again = (stack[i].again \/ stack[i].event = e)
      BY <1>0, <1>5, <3>1, EnterTop DEF OnePath
    <3>3. CASE j \in DOMAIN stack
      <4>1. stack'[j].event = stack[j].event
        BY <1>0, <1>5, <3>3, EnterTop DEF OnePath
      <4> QED BY <1>0, <2>1, <3>1, <3>2, <3>3, <4>1 DEF Nested
    <3>4. CASE j = Len(stack) + 1
      <4>1. stack'[j].event = e
        BY <1>0, <1>5, <3>4, EnterTop
      <4> QED BY <2>1, <3>2, <4>1
    <3> QED BY <3>1, <3>3, <3>4
  <2> QED BY <2>1 DEF Nested
<1>6. ASSUME NEW x \in Targets, Hop(x) PROVE Nested'
  <2>1. DOMAIN stack' = DOMAIN stack /\ \A i \in DOMAIN stack :
           stack'[i].event = stack[i].event /\ stack'[i].again = stack[i].again
    BY <1>0, <1>6, HopTop DEF SameMarks
  <2> QED BY <1>0, <2>1 DEF Nested
<1>7. ASSUME NEW e \in Events, NEW x \in Targets, dispatch_event(e, x) \/ dispatch_native(e, x)
      PROVE  \E native \in BOOLEAN : Enter(e, x, native)
  BY <1>7 DEF dispatch_event, dispatch_native
<1> QED
  BY <1>0, <1>1, <1>2, <1>3, <1>4, <1>5, <1>6, <1>7, Kinds

LEMMA TargetsKept ==
    ASSUME IInv, [Next]_vars
    PROVE  TargetsStay'
<1>0. /\ TypeOK /\ Nested /\ TargetsStay /\ DOMAIN stack = 1..Len(stack) /\ Len(stack) \in Nat
      /\ target \in [Events -> Targets \cup {None}]
      /\ currentTarget \in [Events -> Targets \cup {None}]
      /\ \A i \in DOMAIN stack : stack[i] \in Frames /\ stack[i].event \in Events
  <2>1. TypeOK /\ Nested /\ TargetsStay
    BY DEF IInv
  <2>2. \A i \in DOMAIN stack : stack[i] \in Frames /\ stack[i].event \in Events
    BY <2>1, Stacks DEF Frames
  <2> QED BY <2>1, <2>2, Stacks DEF TypeOK
<1>1. CASE Quiet
  BY <1>0, <1>1 DEF Quiet, OnePath, SameMarks, TargetsStay, eventVars
<1>2. CASE EditTree
  <2>1. UNCHANGED eventVars
    BY <1>2 DEF EditTree
  <2> QED BY <1>0, <1>2, <2>1, EditShape DEF Alike, TargetsStay, eventVars
<1>3. CASE EndDispatch
  <2>1. UNCHANGED eventVars
    BY <1>3 DEF EndDispatch
  <2> QED BY <1>0, <1>3, <2>1, EndShape DEF TargetsStay, eventVars
<1>4. ASSUME NEW e \in Events, stopPropagation(e) PROVE TargetsStay'
  <2>1. UNCHANGED <<target, currentTarget>>
    BY <1>4 DEF stopPropagation
  <2> QED BY <1>0, <1>4, <2>1, StopShape DEF Alike, TargetsStay
<1>5. ASSUME NEW e \in Events, NEW x \in Targets, NEW native \in BOOLEAN, Enter(e, x, native)
      PROVE  TargetsStay'
  <2>1. target' = [target EXCEPT ![e] = x] /\ currentTarget' = [currentTarget EXCEPT ![e] = x]
    BY <1>5 DEF Enter
  <2>2. ASSUME NEW i \in DOMAIN stack', ~stack'[i].again
        PROVE  target'[stack'[i].event] = stack'[i].origin
               /\ currentTarget'[stack'[i].event] = stack'[i].at
    <3>1. i \in DOMAIN stack \/ i = Len(stack) + 1
      BY <1>0, <1>5, EnterTop
    <3>2. CASE i \in DOMAIN stack
      <4>1. /\ OnePath(stack[i], stack'[i])
            /\ stack'[i].again = (stack[i].again \/ stack[i].event = e)
        BY <1>0, <1>5, <3>2, EnterTop
      <4>2. ~stack[i].again /\ stack[i].event # e
        BY <2>2, <4>1
      <4> QED BY <1>0, <2>1, <3>2, <4>1, <4>2 DEF OnePath, TargetsStay
    <3>3. CASE i = Len(stack) + 1
      <4>1. stack'[i].event = e /\ stack'[i].origin = x /\ stack'[i].at = x
        BY <1>0, <1>5, <3>3, EnterTop
      <4> QED BY <1>0, <2>1, <4>1
    <3> QED BY <3>1, <3>2, <3>3
  <2> QED BY <2>2 DEF TargetsStay
<1>6. ASSUME NEW x \in Targets, Hop(x) PROVE TargetsStay'
  <2> DEFINE n == Len(stack)
  <2>1. target' = target /\ currentTarget' = [currentTarget EXCEPT ![stack[n].event] = x]
    BY <1>0, <1>6, HopTop DEF Hop
  <2>2. ASSUME NEW i \in DOMAIN stack', ~stack'[i].again
        PROVE  target'[stack'[i].event] = stack'[i].origin
               /\ currentTarget'[stack'[i].event] = stack'[i].at
    <3>1. i \in DOMAIN stack /\ n \in DOMAIN stack
      BY <1>0, <1>6, HopTop
    <3>2. CASE i = n
      <4>1. /\ stack'[n].event = stack[n].event /\ stack'[n].origin = stack[n].origin
            /\ stack'[n].at = x /\ stack'[n].again = stack[n].again
        BY <1>0, <1>6, HopTop DEF SameMarks
      <4> QED BY <1>0, <2>1, <2>2, <3>1, <3>2, <4>1 DEF TargetsStay
    <3>3. CASE i # n
      <4>1. stack'[i] = stack[i] /\ i < n
        BY <1>0, <1>6, <3>1, <3>3, HopTop
      <4>2. stack[i].event # stack[n].event
        BY <1>0, <2>2, <3>1, <4>1 DEF Nested
      <4> QED BY <1>0, <2>1, <2>2, <3>1, <4>1, <4>2 DEF TargetsStay
    <3> QED BY <3>2, <3>3
  <2> QED BY <2>2 DEF TargetsStay
<1>7. ASSUME NEW e \in Events, NEW x \in Targets, dispatch_event(e, x) \/ dispatch_native(e, x)
      PROVE  \E native \in BOOLEAN : Enter(e, x, native)
  BY <1>7 DEF dispatch_event, dispatch_native
<1> QED
  BY <1>0, <1>1, <1>2, <1>3, <1>4, <1>5, <1>6, <1>7, Kinds

LEMMA FlagsKept ==
    ASSUME IInv, [Next]_vars
    PROVE  Flagged'
<1> DEFINE Fits(f, flag) == /\ f.stop /\ ~f.again => flag
                            /\ flag /\ ~f.native => f.stop
<1>0. /\ TypeOK /\ DOMAIN stack = 1..Len(stack) /\ Len(stack) \in Nat
      /\ stopped \in [Events -> BOOLEAN]
      /\ \A i \in DOMAIN stack : stack[i] \in Frames /\ stack[i].event \in Events
      /\ \A i \in DOMAIN stack : Fits(stack[i], stopped[stack[i].event])
  <2>1. TypeOK /\ Flagged
    BY DEF IInv
  <2>2. \A i \in DOMAIN stack : stack[i] \in Frames /\ stack[i].event \in Events
    BY <2>1, Stacks DEF Frames
  <2> QED BY <2>1, <2>2, Stacks DEF TypeOK, Flagged
<1>1. SUFFICES \A i \in DOMAIN stack' : Fits(stack'[i], stopped'[stack'[i].event])
  BY DEF Flagged
<1>2. CASE Quiet
  BY <1>0, <1>2 DEF Quiet, OnePath, SameMarks, eventVars
<1>3. CASE EditTree
  <2>1. stopped' = stopped
    BY <1>3 DEF EditTree, eventVars
  <2> QED BY <1>0, <1>3, <2>1, EditShape DEF Alike
<1>4. CASE EndDispatch
  <2>1. stopped' = stopped
    BY <1>4 DEF EndDispatch, eventVars
  <2> QED BY <1>0, <1>4, <2>1, EndShape
<1>5. ASSUME NEW e \in Events, stopPropagation(e), NEW i \in DOMAIN stack'
      PROVE  Fits(stack'[i], stopped'[stack'[i].event])
  <2>1. stopped' = [stopped EXCEPT ![e] = TRUE]
    BY <1>5 DEF stopPropagation
  <2>2. /\ i \in DOMAIN stack /\ stack'[i].event = stack[i].event
        /\ stack'[i].native = stack[i].native
        /\ stack'[i].again = stack[i].again
        /\ stack'[i].stop = (stack[i].stop \/ stack[i].event = e)
    BY <1>0, <1>5, StopShape DEF Alike
  <2>3. CASE stack[i].event = e
    BY <1>0, <2>1, <2>2, <2>3
  <2>4. CASE stack[i].event # e
    BY <1>0, <2>1, <2>2, <2>4
  <2> QED BY <2>3, <2>4
<1>6. ASSUME NEW e \in Events, NEW x \in Targets, dispatch_event(e, x), NEW i \in DOMAIN stack'
      PROVE  Fits(stack'[i], stopped'[stack'[i].event])
  <2>1. stopped' = [stopped EXCEPT ![e] = FALSE] /\ Enter(e, x, FALSE)
    BY <1>6 DEF dispatch_event
  <2>2. i \in DOMAIN stack \/ i = Len(stack) + 1
    BY <1>0, <1>6, <2>1, EnterTop
  <2>3. CASE i = Len(stack) + 1
    <3>1. stack'[i].event = e /\ ~stack'[i].stop
      BY <1>0, <2>1, <2>3, EnterTop
    <3> QED BY <1>0, <2>1, <3>1
  <2>4. CASE i \in DOMAIN stack
    <3>1. /\ stack'[i].event = stack[i].event /\ stack'[i].native = stack[i].native
          /\ stack'[i].again = (stack[i].again \/ stack[i].event = e)
          /\ stack'[i].stop = stack[i].stop
      BY <1>0, <2>1, <2>4, EnterTop DEF OnePath
    <3>2. CASE stack[i].event = e
      BY <1>0, <2>1, <2>4, <3>1, <3>2
    <3>3. CASE stack[i].event # e
      BY <1>0, <2>1, <2>4, <3>1, <3>3
    <3> QED BY <3>2, <3>3
  <2> QED BY <2>2, <2>3, <2>4
<1>7. ASSUME NEW e \in Events, NEW x \in Targets, dispatch_native(e, x), NEW i \in DOMAIN stack'
      PROVE  Fits(stack'[i], stopped'[stack'[i].event])
  <2>1. stack = <<>> /\ Enter(e, x, TRUE)
    BY <1>7 DEF dispatch_native
  <2>2. i = Len(stack) + 1
    <3>1. i \in DOMAIN stack \/ i = Len(stack) + 1
      BY <1>0, <1>7, <2>1, EnterTop
    <3>2. DOMAIN stack = {}
      BY <2>1
    <3> QED BY <3>1, <3>2
  <2>3. stack'[i].native /\ ~stack'[i].stop
    BY <1>0, <2>1, <2>2, EnterTop
  <2> QED BY <2>3
<1>8. ASSUME NEW x \in Targets, Hop(x) PROVE \A i \in DOMAIN stack' : Fits(stack'[i], stopped'[stack'[i].event])
  <2>1. stopped' = stopped
    BY <1>8 DEF Hop
  <2>2. DOMAIN stack' = DOMAIN stack /\ \A i \in DOMAIN stack :
           /\ stack'[i].event = stack[i].event /\ stack'[i].native = stack[i].native
           /\ stack'[i].again = stack[i].again /\ stack'[i].stop = stack[i].stop
    BY <1>0, <1>8, HopTop DEF SameMarks
  <2> QED BY <1>0, <2>1, <2>2
<1> HIDE DEF Fits
<1> QED
  BY <1>0, <1>2, <1>3, <1>4, <1>5, <1>6, <1>7, <1>8, Kinds

-------------------------------------------------------------------------------
(* Every dispatch is on its route *)

LEMMA PathsKept ==
    ASSUME IInv, [Next]_vars
    PROVE  Underway'
<1> DEFINE Way(f) == /\ f.visited # <<>> /\ f.visited[1] = f.origin
                     /\ f.visited[Len(f.visited)] = f.at
<1>0. /\ TypeOK /\ DOMAIN stack = 1..Len(stack) /\ Len(stack) \in Nat
      /\ \A i \in DOMAIN stack : Way(stack[i])
  BY Stacks DEF IInv, Underway
<1>1. SUFFICES \A i \in DOMAIN stack' : Way(stack'[i])
  BY DEF Underway
<1>2. \A f, g : Way(f) /\ OnePath(f, g) => Way(g)
  BY DEF OnePath
<1>3. ASSUME NEW e \in Events, NEW x \in Targets, NEW native \in BOOLEAN, Enter(e, x, native)
      PROVE  \A i \in DOMAIN stack' : Way(stack'[i])
  <2>1. Way(stack'[Len(stack) + 1])
    <3>1. /\ stack'[Len(stack) + 1].visited = <<x>> /\ stack'[Len(stack) + 1].origin = x
          /\ stack'[Len(stack) + 1].at = x
      BY <1>0, <1>3, EnterTop
    <3> QED BY <3>1
  <2> HIDE DEF Way
  <2> QED BY <1>0, <1>2, <1>3, <2>1, EnterTop
<1>4. ASSUME NEW x \in Targets, Hop(x) PROVE \A i \in DOMAIN stack' : Way(stack'[i])
  <2> DEFINE f == stack[Len(stack)]
             g == stack'[Len(stack)]
  <2>1. /\ f \in Frames /\ g.origin = f.origin /\ g.at = x /\ g.visited = Append(f.visited, x)
        /\ Way(f)
    BY <1>0, <1>4, HopTop
  <2>2. f.visited \in Seq(Targets) /\ f.visited # <<>>
    BY <2>1 DEF Frames
  <2> HIDE DEF f, g
  <2>3. Way(g)
    BY <2>1, <2>2
  <2> HIDE DEF Way
  <2> QED BY <1>0, <1>4, <2>3, HopTop DEF g
<1>5. ASSUME NEW e \in Events, stopPropagation(e)
      PROVE  DOMAIN stack' = DOMAIN stack /\ \A i \in DOMAIN stack : OnePath(stack[i], stack'[i])
  BY <1>0, <1>5, StopShape DEF Alike, OnePath
<1>6. EditTree =>
         DOMAIN stack' = DOMAIN stack /\ \A i \in DOMAIN stack : OnePath(stack[i], stack'[i])
  BY <1>0, EditShape DEF Alike, OnePath
<1>7. ASSUME NEW e \in Events, NEW x \in Targets, dispatch_event(e, x) \/ dispatch_native(e, x)
      PROVE  \E native \in BOOLEAN : Enter(e, x, native)
  BY <1>7 DEF dispatch_event, dispatch_native
<1> HIDE DEF Way
<1>8. CASE EndDispatch
  BY <1>0, <1>8, EndShape
<1>9. CASE Quiet
  BY <1>0, <1>2, <1>9 DEF Quiet
<1> QED
  BY <1>0, <1>2, <1>3, <1>4, <1>5, <1>6, <1>7, <1>8, <1>9, Kinds

LEMMA RoutesKept ==
    ASSUME IInv, [Next]_vars
    PROVE  Bubbles'
<1>0. /\ TypeOK /\ TreeSound /\ Underway /\ Bubbles
      /\ DOMAIN stack = 1..Len(stack) /\ Len(stack) \in Nat
      /\ \A i \in DOMAIN stack : stack[i] \in Frames
  <2>1. TypeOK /\ TreeSound /\ Underway /\ Bubbles
    BY DEF IInv
  <2> QED BY <2>1, Stacks
<1>1. SUFFICES ASSUME NEW i \in DOMAIN stack', NEW g, g = stack'[i], ~g.edited
               PROVE  OnRoute(g)'
  BY DEF Bubbles
<1>2. ASSUME NEW j \in DOMAIN stack, OnePath(stack[j], g), ~stack[j].edited, UNCHANGED tree
      PROVE  OnRoute(g)'
  <2>1. PICK f : f = stack[j]
    OBVIOUS
  <2>2. OnRoute(f)
    BY <1>0, <1>2, <2>1 DEF Bubbles
  <2> QED BY <1>2, <2>1, <2>2, RouteKept DEF OnePath
<1>3. CASE Quiet
  BY <1>1, <1>2, <1>3 DEF Quiet, SameMarks
<1>4. CASE EditTree
  BY <1>0, <1>1, <1>4, EditShape
<1>5. CASE EndDispatch
  BY <1>0, <1>1, <1>2, <1>5, EndShape DEF EndDispatch, OnePath
<1>6. ASSUME NEW e \in Events, stopPropagation(e) PROVE OnRoute(g)'
  <2>1. i \in DOMAIN stack /\ OnePath(stack[i], g) /\ ~stack[i].edited
    BY <1>0, <1>1, <1>6, StopShape DEF Alike, OnePath
  <2> QED BY <1>2, <1>6, <2>1 DEF stopPropagation
<1>7. ASSUME NEW e \in Events, NEW x \in Targets, NEW native \in BOOLEAN, Enter(e, x, native)
      PROVE  OnRoute(g)'
  <2>1. UNCHANGED tree
    BY <1>7 DEF Enter
  <2>2. CASE i \in DOMAIN stack
    <3>1. OnePath(stack[i], g) /\ ~stack[i].edited
      BY <1>0, <1>1, <1>7, <2>2, EnterTop
    <3> QED BY <1>2, <2>1, <2>2, <3>1
  <2>3. CASE i = Len(stack) + 1
    <3>1. g \in Frames /\ g.visited = <<g.origin>> /\ g.at = g.origin
      BY <1>0, <1>1, <1>7, <2>3, EnterTop
    <3>2. OnRoute(g)
      BY <1>0, <3>1, StartOnRoute
    <3> QED BY <2>1, <3>2, RouteKept
  <2> QED BY <1>0, <1>7, <2>2, <2>3, EnterTop
<1>8. ASSUME NEW x \in Targets, Hop(x) PROVE OnRoute(g)'
  <2>1. UNCHANGED tree /\ i \in DOMAIN stack
    BY <1>0, <1>8, HopTop DEF Hop
  <2>2. CASE i # Len(stack)
    <3>1. OnePath(stack[i], g) /\ ~stack[i].edited
      BY <1>0, <1>1, <1>8, <2>1, <2>2, HopTop DEF OnePath
    <3> QED BY <1>2, <2>1, <3>1
  <2>3. CASE i = Len(stack)
    <3>1. PICK f : f = stack[i]
      OBVIOUS
    <3>2. /\ f \in Frames /\ g \in Frames /\ NextHop(f, x) /\ ~f.edited
          /\ g.event = f.event /\ g.native = f.native /\ g.origin = f.origin
          /\ g.at = x /\ g.visited = Append(f.visited, x)
      BY <1>0, <1>1, <1>8, <2>3, <3>1, HopTop DEF SameMarks
    <3>3. OnRoute(f)
      BY <1>0, <2>1, <3>1, <3>2 DEF Bubbles
    <3>4. f.visited # <<>> /\ f.visited[Len(f.visited)] = f.at
      BY <1>0, <2>1, <3>1 DEF Underway
    <3>5. OnRoute(g)
      BY <1>0, <3>2, <3>3, <3>4, HopOnRoute
    <3> QED BY <2>1, <3>5, RouteKept
  <2> QED BY <2>2, <2>3
<1>9. ASSUME NEW e \in Events, NEW x \in Targets, dispatch_event(e, x) \/ dispatch_native(e, x)
      PROVE  \E native \in BOOLEAN : Enter(e, x, native)
  BY <1>9 DEF dispatch_event, dispatch_native
<1> QED
  BY <1>0, <1>3, <1>4, <1>5, <1>6, <1>7, <1>8, <1>9, Kinds

-------------------------------------------------------------------------------
(* The invariant, and what it shows *)

LEMMA InitInv == Init => IInv
<1> SUFFICES ASSUME Init PROVE IInv
  OBVIOUS
<1>1. stack = <<>> /\ DOMAIN stack = {} /\ Len(stack) = 0 /\ stack \in Seq(Frames)
  BY DEF Init
<1>2. TreeSound /\ Tree!TypeOK
  <2>1. TreeSound
    BY InitSound
  <2> QED
    BY <2>1 DEF TreeSound, DT!Inv, DT!TypeOK, Tree!TypeOK, DT!Pool, Tree!Pool, DT!Nodes, Tree!Nodes,
                DT!None, Tree!None
<1>3. listeners \in [Targets -> Seq(Callbacks)] /\ Listed
  BY RegisteredAssumption DEF Init, Listed
<1>4. TypeOK
  BY <1>1, <1>2, <1>3, BoundsAssumption DEF Init, TypeOK
<1>5. HopServesSnapshot /\ Nested /\ TargetsStay /\ Flagged /\ Underway /\ Bubbles
  BY <1>1 DEF HopServesSnapshot, Nested, TargetsStay, Flagged, Underway, Bubbles
<1> QED
  BY <1>2, <1>3, <1>4, <1>5 DEF IInv

LEMMA StepInv == IInv /\ [Next]_vars => IInv'
BY TypesKept, TreeKept, ListsKept, SnapshotKept, NestedKept, TargetsKept, FlagsKept, PathsKept,
   RoutesKept DEF IInv

\* IInv holds in every reachable state: lists, frames, flags and tree fit together after
\* any step of the dispatch loops or of a listener.
THEOREM Invariant == Spec => []IInv
BY InitInv, StepInv, PTL DEF Spec

\* For any listeners, events and depth, every reachable state is well typed.
THEOREM TypeCorrect == Spec => []TypeOK
<1>1. IInv => TypeOK
  BY DEF IInv
<1> QED BY <1>1, Invariant, PTL

\* Whatever listeners do to the lists, a hop calls those it found, each once and in order.
THEOREM SnapshotServed == Spec => []HopServesSnapshot
<1>1. IInv => HopServesSnapshot
  BY DEF IInv
<1> QED BY <1>1, Invariant, PTL

\* However deep other events are dispatched in between, target and currentTarget are those
\* of the dispatch whose listeners run.  Nothing is said of an event that is dispatched
\* again from within its own dispatch.
THEOREM TargetsAreKept == Spec => []TargetsStay
<1>1. IInv => TargetsStay
  BY DEF IInv
<1> QED BY <1>1, Invariant, PTL

\* Once a listener has stopped the event, the dispatch reaches no later target, for any
\* nesting of dispatches of other events.  Dispatching the same event again from within
\* clears the flag, and is exempt.
THEOREM StopIsKept == Spec => StopHolds
<1>1. ASSUME IInv, [Next]_vars
      PROVE  \A i \in DOMAIN stack : stack[i].stop /\ ~stack[i].again => StaysPut(i)
  <2>1. TypeOK /\ Flagged
    BY <1>1 DEF IInv
  <2>2. CASE Quiet
    BY <2>2 DEF Quiet, OnePath, StaysPut
  <2>3. CASE EditTree
    BY <2>1, <2>3, EditShape DEF Alike, StaysPut
  <2>4. CASE EndDispatch
    BY <2>1, <2>4, EndShape DEF StaysPut
  <2>5. ASSUME NEW e \in Events, stopPropagation(e), NEW i \in DOMAIN stack PROVE StaysPut(i)
    BY <2>1, <2>5, StopShape DEF Alike, StaysPut
  <2>6. ASSUME NEW e \in Events, NEW x \in Targets, dispatch_event(e, x) \/ dispatch_native(e, x),
               NEW i \in DOMAIN stack
        PROVE  StaysPut(i)
    <3>1. \E native \in BOOLEAN : Enter(e, x, native)
      BY <2>6 DEF dispatch_event, dispatch_native
    <3> QED BY <2>1, <3>1, EnterTop DEF OnePath, StaysPut
  <2>7. ASSUME NEW x \in Targets, Hop(x), NEW i \in DOMAIN stack, stack[i].stop, ~stack[i].again
        PROVE  StaysPut(i)
    <3>1. ~stopped[stack[Len(stack)].event]
      BY <2>1, <2>7, HopTop DEF NextHop
    <3>2. i # Len(stack)
      BY <2>1, <2>7, <3>1 DEF Flagged
    <3> QED BY <2>1, <2>7, <3>2, HopTop DEF StaysPut
  <2> QED
    BY <1>1, <2>1, <2>2, <2>3, <2>4, <2>5, <2>6, <2>7, Kinds
<1> QED
  BY <1>1, Invariant, PTL DEF Spec, StopHolds

\* When a dispatch that left the tree alone ends, it has visited its route from the inside
\* out, and all of it unless a listener stopped it.
LEMMA EndsBubbled ==
    ASSUME IInv, EndDispatch, ~Top.edited
    PROVE  /\ \A i, j \in DOMAIN Top.visited :
                 i < j => Beyond(Top.visited[j], Top.visited[i])
           /\ ToSet(Top.visited) \subseteq Route(Top)
           /\ Top.stop \/ ToSet(Top.visited) = Route(Top)
<1>1. PICK f : f = Top
  OBVIOUS
<1>2. /\ f \in Frames /\ f = stack[Len(stack)] /\ Len(stack) \in DOMAIN stack /\ TreeSound
      /\ OnRoute(f) /\ f.visited # <<>> /\ f.visited[1] = f.origin
      /\ f.visited[Len(f.visited)] = f.at
  <2>1. TypeOK /\ stack # <<>>
    BY DEF IInv, EndDispatch, Between
  <2>2. f \in Frames /\ f = stack[Len(stack)] /\ Len(stack) \in DOMAIN stack
    BY <1>1, <2>1, Stacks DEF Top
  <2> QED BY <1>1, <2>2 DEF IInv, Bubbles, Underway
<1>3. f.visited \in Seq(Targets) /\ 1 \in DOMAIN f.visited /\ Len(f.visited) \in DOMAIN f.visited
  BY <1>2 DEF Frames
<1>4. f.at \in Route(f) /\ f.origin \in ToSet(f.visited)
  BY <1>2, <1>3 DEF OnRoute, ToSet
<1>5. \A x \in Targets : ~NextHop(f, x)
  BY <1>1 DEF EndDispatch
<1>6. ASSUME ~f.stop PROVE ToSet(f.visited) = Route(f)
  <2>1. CASE f.native
    BY <1>2, <1>4, <2>1 DEF Route, OnRoute
  <2>2. CASE ~f.native
    <3>1. ~stopped[f.event]
      BY <1>2, <1>6, <2>2 DEF IInv, Flagged
    <3>2. Route(f) = {f.origin} \/ \A y \in Route(f) : ~Beyond(y, f.at)
      BY <1>2, <1>4, <1>5, <3>1, EndReached
    <3> QED BY <1>2, <1>4, <3>2 DEF OnRoute
  <2> QED BY <2>1, <2>2
<1> QED
  BY <1>1, <1>2, <1>6 DEF OnRoute

\* A dispatch during which no listener edits the tree visits its route from the inside out, no
\* target twice, and all of it unless a listener stops the event, for any tree, listeners and
\* dispatches of other events in between.  Only EndDispatch, which ends one, shortens the stack.
THEOREM RoutesAreServed == Spec => BubblesAlongPath
<1>1. ASSUME IInv, [Next]_vars, Len(stack') < Len(stack) PROVE EndDispatch
  <2>1. TypeOK /\ Len(stack) \in Nat
    BY <1>1, Stacks DEF IInv
  <2>2. ~Quiet /\ ~EditTree
    BY <1>1, <2>1, EditShape DEF Quiet
  <2>3. \A e \in Events : ~stopPropagation(e)
    BY <1>1, <2>1, StopShape
  <2>4. \A e \in Events, x \in Targets : ~dispatch_event(e, x) /\ ~dispatch_native(e, x)
    <3>1. ASSUME NEW e \in Events, NEW x \in Targets, NEW native \in BOOLEAN, Enter(e, x, native)
          PROVE  FALSE
      BY <1>1, <2>1, <3>1, EnterShape
    <3> QED BY <3>1 DEF dispatch_event, dispatch_native
  <2>5. \A x \in Targets : ~Hop(x)
    BY <1>1, <2>1, HopTop
  <2> QED BY <1>1, <2>1, <2>2, <2>3, <2>4, <2>5, Kinds
<1>2. ASSUME IInv, [Next]_vars
      PROVE  Len(stack') < Len(stack) /\ ~Top.edited =>
                /\ \A i, j \in DOMAIN Top.visited :
                      i < j => Beyond(Top.visited[j], Top.visited[i])
                /\ ToSet(Top.visited) \subseteq Route(Top)
                /\ Top.stop \/ ToSet(Top.visited) = Route(Top)
  BY <1>1, <1>2, EndsBubbled
<1> QED
  BY <1>2, Invariant, PTL DEF Spec, BubblesAlongPath
===================================================================================
