-------------------------------- MODULE DomTree --------------------------------
(***************************************************************************)
(* The element tree of one document generation (DomNode, parse_html,       *)
(* DocumentHost and the tree methods of ElementHost in                     *)
(* src/src/core/page_state.cpp): nodes are allocated by the parser and by  *)
(* createElement, linked by raw parent and children pointers, and never    *)
(* freed before the generation goes.  All of it runs under the context's   *)
(* operation guard, so one step at a time.                                 *)
(*                                                                         *)
(* A node is its allocation number.  Tags, attributes and text matter only *)
(* in that the parser may or may not leave a tag open.                     *)
(***************************************************************************)
EXTENDS Integers, Sequences, FiniteSets

CONSTANT MaxNodes   \* bound on the nodes a behaviour allocates

ASSUME MaxNodesAssumption == MaxNodes \in Nat

VARIABLES parsing,    \* the document is being parsed; no JavaScript runs yet
          open,       \* the parser's stack of open elements
          count,      \* nodes allocated: pool_ and detached_pool_
          parent,     \* node -> its parent, or None
          children,   \* node -> its children in order
          roots       \* roots_: the top-level elements the parser found

vars == <<parsing, open, count, parent, children, roots>>

Nodes == 1..MaxNodes
None == 0
Pool == 1..count

Init ==
    /\ parsing = TRUE /\ open = <<>>
    /\ count = 0
    /\ parent = [n \in Nodes |-> None]
    /\ children = [n \in Nodes |-> <<>>]
    /\ roots = <<>>

-------------------------------------------------------------------------------
(* Sequences of nodes *)

Members(s) == {s[i] : i \in DOMAIN s}
Position(s, e) == CHOOSE i \in DOMAIN s : s[i] = e

\* std::vector::insert before position i.
InsertedAt(s, i, e) == SubSeq(s, 1, i - 1) \o <<e>> \o SubSeq(s, i, Len(s))

\* erase(remove(...)): a node is listed at most once (TreeLinks).
Without(s, e) ==
    IF e \in Members(s)
    THEN SubSeq(s, 1, Position(s, e) - 1) \o SubSeq(s, Position(s, e) + 1, Len(s))
    ELSE s

-------------------------------------------------------------------------------
(* Walks *)

\* What "for (node = of; node; node = node->parent)" visits: the least set with the
\* starting node that is closed under parent.
ClosedUp(S) == \A m \in S : parent[m] # None => parent[m] \in S
is_self_or_ancestor(candidate, of) ==
    \A S \in SUBSET Nodes : of \in S /\ ClosedUp(S) => candidate \in S

\* The topmost ancestor is one of roots_.
is_in_tree(n) ==
    \E r \in Members(roots) : parent[r] = None /\ is_self_or_ancestor(r, n)

\* What a query over the document walks: roots_ and, from there, children.
ClosedDown(S) == \A m \in S : Members(children[m]) \subseteq S
Queried ==
    {n \in Nodes : \A S \in SUBSET Nodes :
                       Members(roots) \subseteq S /\ ClosedDown(S) => n \in S}

-------------------------------------------------------------------------------
(* parse_html *)

\* Mutant: a top-level element is recorded before its node is allocated.
StartTagStaleRoot(leftOpen) ==
    /\ parsing /\ count < MaxNodes
    /\ count' = count + 1
    /\ IF open = <<>>
       THEN roots' = Append(roots, count) /\ UNCHANGED <<parent, children>>
       ELSE LET top == open[Len(open)] IN
            /\ parent' = [parent EXCEPT ![count'] = top]
            /\ children' = [children EXCEPT ![top] = Append(@, count')]
            /\ UNCHANGED roots
    /\ open' = IF leftOpen THEN Append(open, count') ELSE open
    /\ UNCHANGED parsing

\* A start tag.  Void, self-closing and script elements are not left open.
StartTag(leftOpen) ==
    /\ parsing /\ count < MaxNodes
    /\ count' = count + 1
    /\ IF open = <<>>
       THEN roots' = Append(roots, count') /\ UNCHANGED <<parent, children>>
       ELSE LET top == open[Len(open)] IN
            /\ parent' = [parent EXCEPT ![count'] = top]
            /\ children' = [children EXCEPT ![top] = Append(@, count')]
            /\ UNCHANGED roots
    /\ open' = IF leftOpen THEN Append(open, count') ELSE open
    /\ UNCHANGED parsing

\* Mutant: the element that an end tag names stays open.
EndTagKeepsOpen(k) ==
    /\ parsing /\ k \in DOMAIN open
    /\ open' = SubSeq(open, 1, k)
    /\ UNCHANGED <<parsing, count, parent, children, roots>>

\* An end tag closes the innermost element of its name and all inside it.
EndTag(k) ==
    /\ parsing /\ k \in DOMAIN open
    /\ open' = SubSeq(open, 1, k - 1)
    /\ UNCHANGED <<parsing, count, parent, children, roots>>

EndOfInput ==
    /\ parsing
    /\ parsing' = FALSE
    /\ open' = <<>>
    /\ UNCHANGED <<count, parent, children, roots>>

-------------------------------------------------------------------------------
(* Methods of document and element.  One that throws a TypeError changes nothing. *)

createElement ==
    /\ ~parsing /\ count < MaxNodes
    /\ count' = count + 1
    /\ UNCHANGED <<parsing, open, parent, children, roots>>

\* Mutant: the former parent keeps the detached child.
DetachedPointerOnly(child) == children

\* The children of every node once child has left its parent's.
Detached(child) ==
    IF parent[child] = None THEN children
    ELSE [children EXCEPT ![parent[child]] = Without(@, child)]

\* Mutant: the cycle check looks only at the node itself.
MayInsertUnlessSelf(node, child) == child # node

MayInsert(node, child) == ~is_self_or_ancestor(child, node)

\* Mutant: the place of ref is looked up before child leaves the list.
InsertAtOldPlace(node, child, ref) ==
    /\ ~parsing /\ node \in Pool /\ child \in Pool
    /\ ref = None \/ (ref \in Pool /\ parent[ref] = node /\ ref # child)
    /\ MayInsert(node, child)
    /\ parent' = [parent EXCEPT ![child] = node]
    /\ LET kids == Detached(child)[node]
           place == IF ref = None THEN Len(kids) + 1 ELSE Position(children[node], ref)
       IN  children' = [Detached(child) EXCEPT ![node] = InsertedAt(kids, place, child)]
    /\ UNCHANGED <<parsing, open, count, roots>>

\* appendChild(child) is Insert(node, child, None); insertBefore(child, ref) otherwise,
\* where a search for ref that fails would leave the end of the list.
Insert(node, child, ref) ==
    /\ ~parsing /\ node \in Pool /\ child \in Pool
    /\ ref = None \/ (ref \in Pool /\ parent[ref] = node /\ ref # child)
    /\ MayInsert(node, child)
    /\ parent' = [parent EXCEPT ![child] = node]
    /\ LET kids == Detached(child)[node]
           place == IF ref \in Members(kids) THEN Position(kids, ref) ELSE Len(kids) + 1
       IN  children' = [Detached(child) EXCEPT ![node] = InsertedAt(kids, place, child)]
    /\ UNCHANGED <<parsing, open, count, roots>>

removeChild(node, child) ==
    /\ ~parsing /\ node \in Pool /\ child \in Pool
    /\ parent[child] = node
    /\ children' = Detached(child)
    /\ parent' = [parent EXCEPT ![child] = None]
    /\ UNCHANGED <<parsing, open, count, roots>>

\* Mutant: the former children still point at their parent.
setTextContentKeepingParents(node) ==
    /\ ~parsing /\ node \in Pool
    /\ children' = [children EXCEPT ![node] = <<>>]
    /\ UNCHANGED <<parsing, open, count, parent, roots>>

\* node.textContent = ...: every child is detached.
setTextContent(node) ==
    /\ ~parsing /\ node \in Pool
    /\ parent' = [n \in Nodes |-> IF n \in Members(children[node]) THEN None ELSE parent[n]]
    /\ children' = [children EXCEPT ![node] = <<>>]
    /\ UNCHANGED <<parsing, open, count, roots>>

-------------------------------------------------------------------------------
Next ==
    \/ \E leftOpen \in BOOLEAN : StartTag(leftOpen)
    \/ \E k \in DOMAIN open : EndTag(k)
    \/ EndOfInput
    \/ createElement
    \/ \E node, child \in Pool :
          \/ \E ref \in Pool \cup {None} : Insert(node, child, ref)
          \/ removeChild(node, child)
    \/ \E node \in Pool : setTextContent(node)

Spec == Init /\ [][Next]_vars

-------------------------------------------------------------------------------
(* Properties *)

TypeOK ==
    /\ parsing \in BOOLEAN
    /\ count \in 0..MaxNodes
    /\ open \in Seq(Pool) /\ roots \in Seq(Pool)
    /\ parent \in [Nodes -> Pool \cup {None}]
    /\ children \in [Nodes -> Seq(Pool)]

NoRepeats(s) == \A i, j \in DOMAIN s : s[i] = s[j] => i = j

\* The two pointers of every link agree and no child is listed twice, whatever moves
\* a script makes; sibling navigation and erase(remove()) rest on it.
TreeLinks ==
    /\ \A p \in Nodes : NoRepeats(children[p])
    /\ \A p, n \in Nodes : parent[n] = p <=> n \in Members(children[p])

\* No node is its own ancestor: every loop over parent pointers (isConnected,
\* contains, closest, bubbling, the insertion check itself) and every recursion over
\* children ends.  Each nonempty set of nodes has one whose parent is outside.
Acyclic ==
    \A S \in SUBSET Nodes : (\A n \in S : parent[n] \in S) => S = {}

\* What isConnected reports connected is what queries find; they part ways only in
\* the subtree of a top-level element that was moved under another one.
ConnectedIsQueried ==
    \A n \in Pool :
        /\ is_in_tree(n) => n \in Queried
        /\ n \in Queried /\ ~is_in_tree(n) =>
              \E r \in Members(roots) : parent[r] # None /\ is_self_or_ancestor(r, n)

\* docs/m4_a_6_connectivity_siblings.md: a node a query finds "has isConnected ===
\* true", a detached one "is invisible to document queries and has isConnected ===
\* false".
QueriedIsConnected ==
    ~parsing => \A n \in Pool : n \in Queried <=> is_in_tree(n)

\* A move puts the child right before ref, or last, and disturbs nothing else: all
\* other siblings keep their order and the child keeps its subtree.
MovesKeepOrder ==
    [][\A node, child \in Pool : parent' = [parent EXCEPT ![child] = node] =>
          \A ref \in Pool \cup {None} : Insert(node, child, ref) =>
              /\ \A p \in Pool : Without(children'[p], child) = Without(children[p], child)
              /\ LET at == Position(children'[node], child)
                 IN  IF ref = None THEN at = Len(children'[node])
                                   ELSE at + 1 = Position(children'[node], ref)]_vars
===============================================================================
