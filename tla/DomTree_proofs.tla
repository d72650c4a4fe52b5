----------------------------- MODULE DomTree_proofs -----------------------------
(***************************************************************************)
(* Theorems about DomTree, for every number of nodes: the two directions   *)
(* of every link agree, and no sequence of script edits makes a cycle.     *)
(***************************************************************************)
EXTENDS DomTree, SequenceTheorems, TLAPS

-------------------------------------------------------------------------------
(* Lists of nodes *)

LEMMA LenNat ==
    ASSUME NEW P, NEW s \in Seq(P)
    PROVE  Len(s) \in Nat /\ DOMAIN s = 1..Len(s)
OBVIOUS

\* std::vector::insert shifts what follows and changes nothing else.
LEMMA InsertedAtShape ==
    ASSUME NEW P, NEW s \in Seq(P), NEW e \in P, NEW i \in 1..(Len(s) + 1)
    PROVE  /\ InsertedAt(s, i, e) \in Seq(P)
           /\ Len(InsertedAt(s, i, e)) = Len(s) + 1
           /\ \A j \in 1..(Len(s) + 1) :
                 InsertedAt(s, i, e)[j] =
                    IF j < i THEN s[j] ELSE IF j = i THEN e ELSE s[j - 1]
<1> DEFINE a == SubSeq(s, 1, i - 1)
           b == SubSeq(s, i, Len(s))
<1>1. /\ a \in Seq(P) /\ Len(a) = i - 1
      /\ \A j \in 1..(i - 1) : a[j] = s[j]
  OBVIOUS
<1>2. /\ b \in Seq(P) /\ Len(b) = Len(s) - i + 1
      /\ \A j \in 1..(Len(s) - i + 1) : b[j] = s[i + j - 1]
  OBVIOUS
<1>3. /\ <<e>> \in Seq(P) /\ Len(<<e>>) = 1 /\ <<e>>[1] = e
  OBVIOUS
<1> HIDE DEF a, b
<1>4. /\ a \o <<e>> \in Seq(P) /\ Len(a \o <<e>>) = i
      /\ \A j \in 1..i : (a \o <<e>>)[j] = IF j < i THEN s[j] ELSE e
  BY <1>1, <1>3
<1>5. InsertedAt(s, i, e) = (a \o <<e>>) \o b
  BY DEF InsertedAt, a, b
<1> DEFINE c == a \o <<e>>
<1>6. c \in Seq(P) /\ Len(c) = i /\ \A j \in 1..i : c[j] = IF j < i THEN s[j] ELSE e
  BY <1>4
<1> HIDE DEF c
<1>7. c \o b \in Seq(P) /\ Len(c \o b) = Len(s) + 1
  <2>1. c \o b \in Seq(P) /\ Len(c \o b) = Len(c) + Len(b)
    BY <1>2, <1>6, ConcatProperties
  <2> QED BY <2>1, <1>2, <1>6, LenNat
<1>8. ASSUME NEW j \in 1..(Len(s) + 1)
      PROVE  (c \o b)[j] = IF j < i THEN s[j] ELSE IF j = i THEN e ELSE s[j - 1]
  <2>1. (c \o b)[j] = IF j <= Len(c) THEN c[j] ELSE b[j - Len(c)]
    BY <1>2, <1>6
  <2>2. CASE j <= i
    BY <2>1, <2>2, <1>6
  <2>3. CASE j > i
    <3>1. j - i \in 1..(Len(s) - i + 1) /\ i + (j - i) - 1 = j - 1
      BY <2>3
    <3> QED BY <2>1, <2>3, <3>1, <1>2, <1>6
  <2>4. j \in Int /\ i \in Int
    BY LenNat
  <2>5. j <= i \/ j > i
    BY <2>4
  <2> QED BY <2>2, <2>3, <2>5, Zenon
<1> QED
  BY <1>5, <1>7, <1>8 DEF c

LEMMA InsertedAtMembers ==
    ASSUME NEW P, NEW s \in Seq(P), NEW e \in P, NEW i \in 1..(Len(s) + 1)
    PROVE  /\ Members(InsertedAt(s, i, e)) = Members(s) \cup {e}
           /\ NoRepeats(s) /\ e \notin Members(s) => NoRepeats(InsertedAt(s, i, e))
<1> DEFINE q == InsertedAt(s, i, e)
<1>1. /\ q \in Seq(P) /\ Len(q) = Len(s) + 1
      /\ \A j \in 1..(Len(s) + 1) : q[j] = IF j < i THEN s[j] ELSE IF j = i THEN e ELSE s[j - 1]
  <2>1. q \in Seq(P) /\ Len(q) = Len(s) + 1
    BY InsertedAtShape
  <2>2. ASSUME NEW j \in 1..(Len(s) + 1)
        PROVE  q[j] = IF j < i THEN s[j] ELSE IF j = i THEN e ELSE s[j - 1]
    BY InsertedAtShape
  <2> HIDE DEF q
  <2> QED BY <2>1, <2>2
<1>2. DOMAIN q = 1..(Len(s) + 1) /\ DOMAIN s = 1..Len(s) /\ Len(s) \in Nat
  BY <1>1
<1> HIDE DEF q
<1>3. ASSUME NEW j \in DOMAIN q PROVE q[j] \in Members(s) \cup {e}
  <2>1. CASE j < i
    BY <2>1, <1>1, <1>2 DEF Members
  <2>2. CASE j = i
    BY <2>2, <1>1, <1>2
  <2>3. CASE j > i
    <3>1. j - 1 \in DOMAIN s /\ q[j] = s[j - 1]
      BY <2>3, <1>1, <1>2
    <3> QED BY <3>1 DEF Members
  <2> QED BY <2>1, <2>2, <2>3, <1>2
<1>4. e \in Members(q)
  BY <1>1, <1>2 DEF Members
<1>5. ASSUME NEW k \in DOMAIN s PROVE s[k] \in Members(q)
  <2>1. CASE k < i
    BY <2>1, <1>1, <1>2 DEF Members
  <2>2. CASE k >= i
    <3>1. k + 1 \in DOMAIN q /\ q[k + 1] = s[k]
      BY <2>2, <1>1, <1>2
    <3> QED BY <3>1 DEF Members
  <2> QED BY <2>1, <2>2, <1>2
<1>6. ASSUME NoRepeats(s), e \notin Members(s), NEW j \in DOMAIN q, NEW k \in DOMAIN q, j < k
      PROVE  q[j] # q[k]
  <2>1. \A l, m \in 1..Len(s) : l # m => s[l] # s[m]
    BY <1>6, <1>2 DEF NoRepeats
  <2>2. \A l \in 1..Len(s) : s[l] # e
    BY <1>6, <1>2 DEF Members
  <2>3. CASE k < i
    BY <2>1, <2>3, <1>1, <1>2, <1>6
  <2>4. CASE k = i
    BY <2>2, <2>4, <1>1, <1>2, <1>6
  <2>5. CASE k > i
    <3>1. q[k] = s[k - 1] /\ k - 1 \in 1..Len(s)
      BY <2>5, <1>1, <1>2
    <3>2. CASE j < i
      BY <3>1, <3>2, <2>1, <2>5, <1>1, <1>2
    <3>3. CASE j = i
      BY <3>1, <3>3, <2>2, <1>1, <1>2
    <3>4. CASE j > i
      <4>1. q[j] = s[j - 1] /\ j - 1 \in 1..Len(s) /\ j - 1 # k - 1
        BY <3>4, <1>1, <1>2, <1>6
      <4> QED BY <4>1, <3>1, <2>1
    <3> QED BY <3>2, <3>3, <3>4, <1>2
  <2> QED BY <2>3, <2>4, <2>5, <1>2
<1>7. NoRepeats(s) /\ e \notin Members(s) => NoRepeats(q)
  BY <1>6, <1>2 DEF NoRepeats
<1> QED
  <2>1. Members(q) = Members(s) \cup {e}
    BY <1>3, <1>4, <1>5 DEF Members
  <2> QED BY <2>1, <1>7 DEF q

\* Erasing the one place of an element leaves the others, in order.
LEMMA WithoutMembers ==
    ASSUME NEW P, NEW s \in Seq(P), NEW e, NoRepeats(s)
    PROVE  /\ Without(s, e) \in Seq(P)
           /\ Members(Without(s, e)) = Members(s) \ {e}
           /\ NoRepeats(Without(s, e))
<1>1. CASE e \notin Members(s)
  BY <1>1 DEF Without
<1>2. CASE e \in Members(s)
  <2> DEFINE i == Position(s, e)
             a == SubSeq(s, 1, i - 1)
             b == SubSeq(s, i + 1, Len(s))
             q == a \o b
  <2>1. i \in 1..Len(s) /\ s[i] = e /\ DOMAIN s = 1..Len(s) /\ Len(s) \in Nat
    BY <1>2 DEF Members, Position
  <2>2. Without(s, e) = q
    BY <1>2 DEF Without
  <2> HIDE DEF i
  <2>3. /\ a \in Seq(P) /\ Len(a) = i - 1
        /\ \A j \in 1..(i - 1) : a[j] = s[j]
    BY <2>1
  <2>4. /\ b \in Seq(P) /\ Len(b) = Len(s) - i
        /\ \A j \in 1..(Len(s) - i) : b[j] = s[i + j]
    <3>1. i + 1 \in 1..(Len(s) + 1) /\ Len(s) - (i + 1) + 1 = Len(s) - i
      BY <2>1
    <3>2. b \in Seq(P) /\ Len(b) = Len(s) - (i + 1) + 1
      <4>1. \A k \in (i + 1)..Len(s) : s[k] \in P
        BY <2>1
      <4>2. /\ b \in Seq(P)
            /\ Len(b) = IF i + 1 <= Len(s) THEN Len(s) - (i + 1) + 1 ELSE 0
        BY <2>1, <4>1, SubSeqProperties
      <4>3. ASSUME NEW n \in Nat, NEW m \in 1..n, ~(m + 1 <= n)
            PROVE  n - (m + 1) + 1 = 0
        BY <4>3
      <4> HIDE DEF b
      <4> QED BY <4>2, <4>3, <2>1
    <3>3. \A j \in 1..(Len(s) - (i + 1) + 1) : b[j] = s[(i + 1) + j - 1]
      BY <2>1, <3>1
    <3>4. \A j \in 1..(Len(s) - i) : (i + 1) + j - 1 = i + j
      BY <2>1
    <3> QED BY <3>1, <3>2, <3>3, <3>4
  <2> HIDE DEF a, b
  <2>5. /\ q \in Seq(P) /\ Len(q) = Len(s) - 1 /\ DOMAIN q = 1..(Len(s) - 1)
        /\ \A j \in 1..(Len(s) - 1) : q[j] = IF j < i THEN s[j] ELSE s[j + 1]
    <3>1. q \in Seq(P) /\ Len(q) = Len(s) - 1 /\ DOMAIN q = 1..(Len(s) - 1)
      <4>1. q \in Seq(P) /\ Len(q) = Len(a) + Len(b)
        BY <2>3, <2>4, ConcatProperties
      <4>2. Len(q) = Len(s) - 1
        BY <4>1, <2>1, <2>3, <2>4
      <4> HIDE DEF q
      <4> QED BY <4>1, <4>2, LenNat
    <3>2. ASSUME NEW j \in 1..(Len(s) - 1), j < i PROVE q[j] = s[j]
      BY <2>1, <2>3, <2>4, <3>2
    <3>3. ASSUME NEW j \in 1..(Len(s) - 1), ~(j < i) PROVE q[j] = s[j + 1]
      <4>1. j - (i - 1) \in 1..(Len(s) - i) /\ i + (j - (i - 1)) = j + 1
        BY <2>1, <3>3
      <4>2. q[j] = b[j - Len(a)]
        BY <2>1, <2>3, <2>4, <3>3
      <4> QED BY <4>1, <4>2, <2>3, <2>4
    <3> QED BY <3>1, <3>2, <3>3
  <2> HIDE DEF q
  <2>6. NoRepeats(q)
    <3>1. ASSUME NEW j \in DOMAIN q, NEW k \in DOMAIN q, j < k
          PROVE  q[j] # q[k]
      <4> DEFINE jj == IF j < i THEN j ELSE j + 1
                 kk == IF k < i THEN k ELSE k + 1
      <4>1. jj \in DOMAIN s /\ kk \in DOMAIN s /\ jj < kk
        BY <3>1, <2>1, <2>5
      <4>2. q[j] = s[jj] /\ q[k] = s[kk]
        BY <2>5
      <4> HIDE DEF jj, kk
      <4> QED BY <4>1, <4>2, <2>1 DEF NoRepeats
    <3> QED BY <3>1, <2>1, <2>5 DEF NoRepeats
  <2>7. ASSUME NEW j \in DOMAIN q PROVE q[j] \in Members(s) \ {e}
    <3>1. PICK k \in DOMAIN s : k # i /\ q[j] = s[k]
      <4> DEFINE k == IF j < i THEN j ELSE j + 1
      <4>1. k \in DOMAIN s /\ k # i /\ q[j] = s[k]
        BY <2>1, <2>5
      <4> QED BY <4>1
    <3>2. s[k] # s[i]
      BY <2>1, <3>1 DEF NoRepeats
    <3> QED BY <2>1, <3>1, <3>2 DEF Members
  <2>8. ASSUME NEW k \in DOMAIN s, s[k] # e PROVE s[k] \in Members(q)
    <3>1. CASE k < i
      BY <3>1, <2>1, <2>5 DEF Members
    <3>2. CASE k > i
      <4>1. k - 1 \in DOMAIN q /\ q[k - 1] = s[k]
        BY <3>2, <2>1, <2>5
      <4> QED BY <4>1 DEF Members
    <3> QED BY <3>1, <3>2, <2>1, <2>8
  <2> QED
    BY <2>2, <2>5, <2>6, <2>7, <2>8, SMTT(40) DEF Members
<1> QED
  BY <1>1, <1>2
-------------------------------------------------------------------------------
(* Types and links *)

Inv == TypeOK /\ TreeLinks

LEMMA PoolInNodes ==
    ASSUME TypeOK
    PROVE  Pool \subseteq Nodes /\ None \notin Nodes /\ count \in Nat
BY MaxNodesAssumption DEF TypeOK, Nodes, Pool, None

\* A node not yet allocated is linked to nothing.
LEMMA Unallocated ==
    ASSUME Inv, NEW n \in Nodes, n \notin Pool
    PROVE  /\ parent[n] = None /\ children[n] = <<>>
           /\ \A m \in Nodes : parent[m] # n
<1>1. children[n] \in Seq(Pool) /\ Pool \subseteq Nodes /\ None \notin Nodes
  BY PoolInNodes DEF Inv, TypeOK
<1>2. \A m \in Nodes : parent[m] # n
  BY <1>1 DEF Inv, TypeOK
<1>3. \A m \in Nodes : m \notin Members(children[n])
  BY <1>2 DEF Inv, TreeLinks
<1>4. children[n] = <<>>
  <2>1. ASSUME children[n] # <<>> PROVE FALSE
    <3>1. 1 \in DOMAIN children[n] /\ children[n][1] \in Pool
      BY <1>1, <2>1
    <3> QED BY <1>1, <1>3, <3>1 DEF Members
  <2> QED BY <2>1
<1>5. parent[n] = None
  <2>1. ASSUME NEW p \in Nodes, parent[n] = p PROVE FALSE
    <3>1. n \in Members(children[p])
      BY <2>1 DEF Inv, TreeLinks
    <3>2. children[p] \in Seq(Pool)
      BY DEF Inv, TypeOK
    <3> QED BY <3>1, <3>2 DEF Members
  <2> QED BY <2>1, <1>1 DEF Inv, TypeOK
<1> QED
  BY <1>2, <1>4, <1>5

\* Detaching a node takes it out of every list and leaves the lists otherwise alone.
LEMMA DetachedLists ==
    ASSUME Inv, NEW child \in Pool
    PROVE  /\ Detached(child) \in [Nodes -> Seq(Pool)]
           /\ \A p \in Nodes : /\ NoRepeats(Detached(child)[p])
                               /\ Members(Detached(child)[p]) = Members(children[p]) \ {child}
<1>1. children \in [Nodes -> Seq(Pool)] /\ child \in Nodes
  BY PoolInNodes DEF Inv, TypeOK
<1>2. \A p \in Nodes : NoRepeats(children[p])
  BY DEF Inv, TreeLinks
<1>3. \A p \in Nodes : p # parent[child] => child \notin Members(children[p])
  BY <1>1 DEF Inv, TreeLinks
<1>4. CASE parent[child] = None
  <2>1. \A p \in Nodes : child \notin Members(children[p])
    BY <1>3, <1>4, PoolInNodes DEF Inv
  <2> QED BY <1>1, <1>2, <1>4, <2>1 DEF Detached
<1>5. CASE parent[child] # None
  <2> DEFINE old == parent[child]
  <2>1. old \in Nodes
    BY <1>1, <1>5, PoolInNodes DEF Inv, TypeOK
  <2>2. /\ Without(children[old], child) \in Seq(Pool)
        /\ Members(Without(children[old], child)) = Members(children[old]) \ {child}
        /\ NoRepeats(Without(children[old], child))
    BY <1>1, <1>2, <2>1, WithoutMembers
  <2>3. Detached(child) = [children EXCEPT ![old] = Without(children[old], child)]
    BY <1>5 DEF Detached
  <2> HIDE DEF old
  <2>4. ASSUME NEW p \in Nodes
        PROVE  Detached(child)[p] = IF p = old THEN Without(children[old], child)
                                               ELSE children[p]
    BY <1>1, <2>3
  <2>5. Detached(child) \in [Nodes -> Seq(Pool)]
    BY <1>1, <2>2, <2>3
  <2>6. ASSUME NEW p \in Nodes
        PROVE  /\ NoRepeats(Detached(child)[p])
               /\ Members(Detached(child)[p]) = Members(children[p]) \ {child}
    <3>1. CASE p = old
      BY <3>1, <2>2, <2>4
    <3>2. CASE p # old
      <4>1. child \notin Members(children[p])
        BY <1>3, <3>2 DEF old
      <4> QED BY <3>2, <4>1, <2>4, <1>2
    <3> QED BY <3>1, <3>2
  <2> QED BY <2>5, <2>6
<1> QED
  BY <1>4, <1>5

LEMMA InitInv == Init => Inv
<1> SUFFICES ASSUME Init PROVE Inv
  OBVIOUS
<1>1. TypeOK
  BY MaxNodesAssumption DEF Init, TypeOK, Pool, Nodes
<1>2. TreeLinks
  BY DEF Init, TreeLinks, NoRepeats, Members, Nodes, None
<1> QED
  BY <1>1, <1>2 DEF Inv

LEMMA InsertInv ==
    ASSUME Inv, NEW node \in Pool, NEW child \in Pool, NEW ref \in Pool \cup {None},
           Insert(node, child, ref)
    PROVE  Inv'
<1> DEFINE kids == Detached(child)[node]
           place == IF ref \in Members(kids) THEN Position(kids, ref) ELSE Len(kids) + 1
           grown == InsertedAt(kids, place, child)
<1>1. node \in Nodes /\ child \in Nodes /\ Pool \subseteq Nodes /\ None \notin Nodes
      /\ TypeOK /\ TreeLinks
  BY PoolInNodes DEF Inv
<1>2. /\ Detached(child) \in [Nodes -> Seq(Pool)]
      /\ \A p \in Nodes : /\ NoRepeats(Detached(child)[p])
                          /\ Members(Detached(child)[p]) = Members(children[p]) \ {child}
  BY DetachedLists
<1>3. kids \in Seq(Pool) /\ NoRepeats(kids) /\ Members(kids) = Members(children[node]) \ {child}
  BY <1>1, <1>2
<1>4. place \in 1..(Len(kids) + 1)
  <2>1. CASE ref \in Members(kids)
    <3>1. Position(kids, ref) \in DOMAIN kids
      BY <2>1 DEF Members, Position
    <3> QED BY <1>3, <2>1, <3>1
  <2>2. CASE ref \notin Members(kids)
    <3>1. place = Len(kids) + 1
      BY <2>2
    <3> QED BY <1>3, <3>1
  <2> QED BY <2>1, <2>2
<1>5. /\ parent' = [parent EXCEPT ![child] = node]
      /\ children' = [Detached(child) EXCEPT ![node] = grown]
      /\ UNCHANGED <<parsing, open, count, roots>>
  BY DEF Insert
<1> HIDE DEF kids, place
<1>6. /\ grown \in Seq(Pool) /\ NoRepeats(grown)
      /\ Members(grown) = Members(kids) \cup {child}
  <2>1. grown \in Seq(Pool)
    BY <1>3, <1>4, InsertedAtShape
  <2>2. /\ Members(grown) = Members(kids) \cup {child}
        /\ NoRepeats(kids) /\ child \notin Members(kids) => NoRepeats(grown)
    BY <1>3, <1>4, InsertedAtMembers
  <2> QED BY <2>1, <2>2, <1>3
<1> HIDE DEF grown
<1>7. TypeOK'
  BY <1>1, <1>2, <1>5, <1>6 DEF TypeOK, Pool
<1>8. ASSUME NEW p \in Nodes
      PROVE  /\ NoRepeats(children'[p])
             /\ Members(children'[p]) = IF p = node THEN Members(children[p]) \cup {child}
                                                    ELSE Members(children[p]) \ {child}
  <2>1. CASE p = node
    BY <2>1, <1>2, <1>3, <1>5, <1>6
  <2>2. CASE p # node
    BY <2>2, <1>2, <1>5
  <2> QED BY <2>1, <2>2
<1>9. ASSUME NEW p \in Nodes, NEW n \in Nodes
      PROVE  parent'[n] = p <=> n \in Members(children'[p])
  <2>1. parent'[n] = IF n = child THEN node ELSE parent[n]
    BY <1>1, <1>5 DEF TypeOK
  <2>2. parent[n] = p <=> n \in Members(children[p])
    BY <1>1 DEF TreeLinks
  <2> QED BY <2>1, <2>2, <1>8
<1> QED
  BY <1>7, <1>8, <1>9 DEF Inv, TreeLinks

LEMMA RemoveInv ==
    ASSUME Inv, NEW node \in Pool, NEW child \in Pool, removeChild(node, child)
    PROVE  Inv'
<1>1. node \in Nodes /\ child \in Nodes /\ Pool \subseteq Nodes /\ None \notin Nodes
      /\ TypeOK /\ TreeLinks
  BY PoolInNodes DEF Inv
<1>2. /\ children' \in [Nodes -> Seq(Pool)]
      /\ \A p \in Nodes : /\ NoRepeats(children'[p])
                          /\ Members(children'[p]) = Members(children[p]) \ {child}
  BY DetachedLists DEF removeChild
<1>3. /\ parent' = [parent EXCEPT ![child] = None]
      /\ UNCHANGED <<parsing, open, count, roots>>
  BY DEF removeChild
<1>4. TypeOK'
  BY <1>1, <1>2, <1>3 DEF TypeOK, Pool
<1>5. ASSUME NEW p \in Nodes, NEW n \in Nodes
      PROVE  parent'[n] = p <=> n \in Members(children'[p])
  <2>1. parent'[n] = IF n = child THEN None ELSE parent[n]
    BY <1>1, <1>3 DEF TypeOK
  <2>2. parent[n] = p <=> n \in Members(children[p])
    BY <1>1 DEF TreeLinks
  <2> QED BY <2>1, <2>2, <1>1, <1>2
<1> QED
  BY <1>2, <1>4, <1>5 DEF Inv, TreeLinks

LEMMA TextContentInv ==
    ASSUME Inv, NEW node \in Pool, setTextContent(node)
    PROVE  Inv'
<1>1. node \in Nodes /\ Pool \subseteq Nodes /\ None \notin Nodes /\ TypeOK /\ TreeLinks
  BY PoolInNodes DEF Inv
<1>2. /\ parent' = [n \in Nodes |-> IF n \in Members(children[node]) THEN None ELSE parent[n]]
      /\ children' = [children EXCEPT ![node] = <<>>]
      /\ UNCHANGED <<parsing, open, count, roots>>
  BY DEF setTextContent
<1>3. TypeOK'
  BY <1>1, <1>2 DEF TypeOK, Pool
<1>4. \A p \in Nodes : children'[p] = IF p = node THEN <<>> ELSE children[p]
  BY <1>1, <1>2 DEF TypeOK
<1>5. Members(<<>>) = {} /\ NoRepeats(<<>>)
  BY DEF Members, NoRepeats
<1>6. ASSUME NEW p \in Nodes, NEW n \in Nodes
      PROVE  parent'[n] = p <=> n \in Members(children'[p])
  <2>1. parent[n] = p <=> n \in Members(children[p])
    BY <1>1 DEF TreeLinks
  <2>2. parent[n] = node <=> n \in Members(children[node])
    BY <1>1 DEF TreeLinks
  <2> QED BY <2>1, <2>2, <1>1, <1>2, <1>4, <1>5
<1>7. \A p \in Nodes : NoRepeats(children'[p])
  BY <1>1, <1>4, <1>5 DEF TreeLinks
<1> QED
  BY <1>3, <1>6, <1>7 DEF Inv, TreeLinks
\* The pool grows; what was a list of its nodes still is.
LEMMA PoolGrows ==
    ASSUME TypeOK, count' = count + 1, count < MaxNodes
    PROVE  /\ Pool \subseteq Pool' /\ count' \in Pool' /\ count' \in Nodes /\ count' \notin Pool
           /\ \A s \in Seq(Pool) : s \in Seq(Pool')
           /\ \A s \in Seq(Pool) : Append(s, count') \in Seq(Pool')
<1>1. /\ Pool \subseteq Pool' /\ count' \in Pool' /\ count' \in Nodes /\ count' \notin Pool
  BY MaxNodesAssumption DEF TypeOK, Pool, Nodes
<1>2. \A s \in Seq(Pool) : s \in Seq(Pool')
  BY <1>1, SeqMonotonic
<1> QED
  BY <1>1, <1>2, AppendProperties

LEMMA AppendMembers ==
    ASSUME NEW P, NEW s \in Seq(P), NEW e
    PROVE  /\ Members(Append(s, e)) = Members(s) \cup {e}
           /\ NoRepeats(s) /\ e \notin Members(s) => NoRepeats(Append(s, e))
<1>1. /\ DOMAIN Append(s, e) = 1..(Len(s) + 1) /\ DOMAIN s = 1..Len(s) /\ Len(s) \in Nat
      /\ \A j \in 1..Len(s) : Append(s, e)[j] = s[j]
      /\ Append(s, e)[Len(s) + 1] = e
  OBVIOUS
<1> DEFINE q == Append(s, e)
<1> HIDE DEF q
<1>2. Members(q) = Members(s) \cup {e}
  BY <1>1 DEF Members, q
<1>3. NoRepeats(s) /\ e \notin Members(s) => NoRepeats(q)
  BY <1>1 DEF NoRepeats, Members, q
<1> QED
  BY <1>2, <1>3 DEF q

LEMMA StartTagInv ==
    ASSUME Inv, NEW leftOpen \in BOOLEAN, StartTag(leftOpen)
    PROVE  Inv'
<1>1. TypeOK /\ TreeLinks /\ count < MaxNodes /\ count' = count + 1 /\ parsing' = parsing
  BY DEF Inv, StartTag
<1>2. /\ Pool \subseteq Pool' /\ count' \in Pool' /\ count' \in Nodes /\ count' \notin Pool
      /\ \A s \in Seq(Pool) : s \in Seq(Pool') /\ Append(s, count') \in Seq(Pool')
      /\ Pool \subseteq Nodes /\ None \notin Nodes
  BY <1>1, PoolGrows, PoolInNodes
<1>3. parsing' \in BOOLEAN /\ count' \in 0..MaxNodes /\ open' \in Seq(Pool')
  BY <1>1, <1>2, MaxNodesAssumption DEF TypeOK, StartTag
<1>4. CASE open = <<>>
  <2>1. roots' = Append(roots, count') /\ UNCHANGED <<parent, children>>
    BY <1>4 DEF StartTag
  <2>2. TypeOK'
    BY <1>1, <1>2, <1>3, <2>1 DEF TypeOK
  <2> QED BY <1>1, <2>1, <2>2 DEF Inv, TreeLinks
<1>5. CASE open # <<>>
  <2> DEFINE top == open[Len(open)]
             longer == Append(children[top], count')
  <2>1. top \in Pool
    BY <1>1, <1>5 DEF TypeOK
  <2>2. /\ parent' = [parent EXCEPT ![count'] = top]
        /\ children' = [children EXCEPT ![top] = longer]
        /\ roots' = roots
    BY <1>5 DEF StartTag
  <2> HIDE DEF top
  <2>3. parent[count'] = None /\ children[count'] = <<>> /\ \A m \in Nodes : parent[m] # count'
    BY <1>2, Unallocated
  <2>4. count' \notin Members(children[top])
    BY <1>1, <1>2, <2>1, <2>3 DEF TreeLinks
  <2>5. children[top] \in Seq(Pool) /\ NoRepeats(children[top])
    BY <1>1, <1>2, <2>1 DEF TypeOK, TreeLinks
  <2>6. /\ longer \in Seq(Pool') /\ NoRepeats(longer)
        /\ Members(longer) = Members(children[top]) \cup {count'}
    BY <1>2, <2>4, <2>5, AppendMembers
  <2> HIDE DEF longer
  <2>7. TypeOK'
    BY <1>1, <1>2, <1>3, <2>1, <2>2, <2>6 DEF TypeOK
  <2>8. ASSUME NEW p \in Nodes
        PROVE  /\ NoRepeats(children'[p])
               /\ Members(children'[p]) = IF p = top THEN Members(children[p]) \cup {count'}
                                                     ELSE Members(children[p])
    BY <1>1, <2>2, <2>6 DEF TypeOK, TreeLinks
  <2>9. ASSUME NEW p \in Nodes, NEW n \in Nodes
        PROVE  parent'[n] = p <=> n \in Members(children'[p])
    <3>1. parent'[n] = IF n = count' THEN top ELSE parent[n]
      BY <1>1, <2>2 DEF TypeOK
    <3>2. parent[n] = p <=> n \in Members(children[p])
      BY <1>1 DEF TreeLinks
    <3> QED BY <3>1, <3>2, <1>2, <2>1, <2>3, <2>8
  <2> QED
    BY <2>7, <2>8, <2>9 DEF Inv, TreeLinks
<1> QED
  BY <1>4, <1>5

LEMMA CreateInv ==
    ASSUME Inv, createElement
    PROVE  Inv'
<1>1. TypeOK /\ TreeLinks /\ count < MaxNodes /\ count' = count + 1
      /\ UNCHANGED <<parsing, open, parent, children, roots>>
  BY DEF Inv, createElement
<1>2. /\ Pool \subseteq Pool'
      /\ \A s \in Seq(Pool) : s \in Seq(Pool')
  BY <1>1, PoolGrows
<1>3. TypeOK'
  BY <1>1, <1>2, MaxNodesAssumption DEF TypeOK
<1> QED
  BY <1>1, <1>3 DEF Inv, TreeLinks

\* Both facts about links and types are inductive together.
LEMMA StepInv ==
    ASSUME Inv, [Next]_vars
    PROVE  Inv'
<1>1. CASE UNCHANGED vars
  BY <1>1 DEF vars, Inv, TypeOK, TreeLinks, Pool
<1>2. ASSUME NEW leftOpen \in BOOLEAN, StartTag(leftOpen) PROVE Inv'
  BY <1>2, StartTagInv
<1>3. ASSUME NEW k \in DOMAIN open, EndTag(k) PROVE Inv'
  <2>1. k \in 1..Len(open) /\ open \in Seq(Pool) /\ open' = SubSeq(open, 1, k - 1)
    BY <1>3 DEF EndTag, Inv, TypeOK
  <2>2. open' \in Seq(Pool)
    BY <2>1
  <2> QED BY <1>3, <2>2 DEF EndTag, Inv, TypeOK, TreeLinks, Pool
<1>4. CASE EndOfInput
  <2>1. parsing' = FALSE /\ open' = <<>> /\ UNCHANGED <<count, parent, children, roots>>
    BY <1>4 DEF EndOfInput
  <2>2. open' \in Seq(Pool)
    BY <2>1
  <2> QED BY <2>1, <2>2 DEF Inv, TypeOK, TreeLinks, Pool
<1>5. CASE createElement
  BY <1>5, CreateInv
<1>6. ASSUME NEW node \in Pool, NEW child \in Pool, NEW ref \in Pool \cup {None},
             Insert(node, child, ref)
      PROVE  Inv'
  BY <1>6, InsertInv
<1>7. ASSUME NEW node \in Pool, NEW child \in Pool, removeChild(node, child) PROVE Inv'
  BY <1>7, RemoveInv
<1>8. ASSUME NEW node \in Pool, setTextContent(node) PROVE Inv'
  BY <1>8, TextContentInv
<1> QED
  BY <1>1, <1>2, <1>3, <1>4, <1>5, <1>6, <1>7, <1>8 DEF Next

\* Every reachable tree is well typed: pointers stay inside the generation's pool.
THEOREM TypeCorrect == Spec => []TypeOK
<1>1. Inv => TypeOK
  BY DEF Inv
<1> QED
  BY <1>1, InitInv, StepInv, PTL DEF Spec

\* Parent and children pointers always agree, and no child is listed twice.
THEOREM LinksAgree == Spec => []TreeLinks
<1>1. Inv => TreeLinks
  BY DEF Inv
<1> QED
  BY <1>1, InitInv, StepInv, PTL DEF Spec

-------------------------------------------------------------------------------
(* No cycles *)

\* Hanging child under node makes no cycle when child is not among the ancestors of
\* node: a set closed under the new parents, cut with the closed set that shows child
\* is not above node, would be closed under the old ones.
LEMMA InsertAcyclic ==
    ASSUME Inv, Acyclic, NEW node \in Pool, NEW child \in Pool,
           NEW ref \in Pool \cup {None}, Insert(node, child, ref)
    PROVE  Acyclic'
<1>1. node \in Nodes /\ child \in Nodes /\ None \notin Nodes /\ TypeOK
  BY PoolInNodes DEF Inv
<1>2. PICK U \in SUBSET Nodes : node \in U /\ ClosedUp(U) /\ child \notin U
  BY DEF Insert, MayInsert, is_self_or_ancestor
<1>3. \A n \in Nodes : parent'[n] = IF n = child THEN node ELSE parent[n]
  BY <1>1 DEF Insert, TypeOK
<1>4. ASSUME NEW S \in SUBSET Nodes, \A n \in S : parent'[n] \in S PROVE S = {}
  <2>1. CASE child \in S
    <3>1. node \in S \cap U
      BY <1>2, <1>3, <1>4, <2>1
    <3>2. \A n \in S \cap U : parent[n] \in S \cap U
      BY <1>1, <1>2, <1>3, <1>4 DEF ClosedUp
    <3>3. S \cap U = {}
      BY <3>2 DEF Acyclic
    <3> QED BY <3>1, <3>3
  <2>2. CASE child \notin S
    BY <1>3, <1>4, <2>2 DEF Acyclic
  <2> QED BY <2>1, <2>2
<1> QED
  BY <1>4 DEF Acyclic

\* A step that only clears parent pointers makes no cycle.
LEMMA ClearingAcyclic ==
    ASSUME Acyclic, None \notin Nodes,
           \A n \in Nodes : parent'[n] \in {None, parent[n]}
    PROVE  Acyclic'
<1>1. ASSUME NEW S \in SUBSET Nodes, \A n \in S : parent'[n] \in S PROVE S = {}
  <2>1. \A n \in S : parent[n] \in S
    BY <1>1
  <2> QED BY <2>1 DEF Acyclic
<1> QED
  BY <1>1 DEF Acyclic

LEMMA StartTagAcyclic ==
    ASSUME Inv, Acyclic, NEW leftOpen \in BOOLEAN, StartTag(leftOpen)
    PROVE  Acyclic'
<1>1. count' \in Nodes /\ count' \notin Pool /\ None \notin Nodes /\ Pool \subseteq Nodes
      /\ TypeOK
  BY PoolGrows, PoolInNodes DEF Inv, StartTag
<1>2. CASE open = <<>>
  BY <1>2 DEF StartTag, Acyclic
<1>3. CASE open # <<>>
  <2> DEFINE top == open[Len(open)]
  <2>1. top \in Pool /\ parent' = [parent EXCEPT ![count'] = top]
    BY <1>1, <1>3 DEF StartTag, TypeOK
  <2> HIDE DEF top
  <2>2. \A m \in Nodes : parent[m] # count'
    BY <1>1, Unallocated
  <2>3. \A n \in Nodes : parent'[n] = IF n = count' THEN top ELSE parent[n]
    BY <1>1, <2>1 DEF TypeOK
  <2>4. ASSUME NEW S \in SUBSET Nodes, \A n \in S : parent'[n] \in S PROVE S = {}
    <3> DEFINE T == S \ {count'}
    <3>1. \A n \in T : parent[n] \in T
      BY <2>2, <2>3, <2>4
    <3>2. T = {}
      BY <3>1 DEF Acyclic
    <3>3. count' \in S => top \in T
      BY <1>1, <2>1, <2>3, <2>4
    <3> QED BY <3>2, <3>3
  <2> QED BY <2>4 DEF Acyclic
<1> QED
  BY <1>2, <1>3

\* No sequence of edits makes a node its own ancestor, so every loop over parent
\* pointers and every recursion over children ends.
THEOREM NoCycles == Spec => []Acyclic
<1>1. Init => Acyclic
  BY DEF Init, Acyclic, Nodes, None
<1>2. ASSUME Inv, Acyclic, [Next]_vars PROVE Acyclic'
  <2>1. None \notin Nodes /\ TypeOK /\ Pool \subseteq Nodes
    BY <1>2, PoolInNodes DEF Inv
  <2>2. ASSUME NEW leftOpen \in BOOLEAN, StartTag(leftOpen) PROVE Acyclic'
    BY <1>2, <2>2, StartTagAcyclic
  <2>3. ASSUME NEW node \in Pool, NEW child \in Pool, NEW ref \in Pool \cup {None},
               Insert(node, child, ref)
        PROVE  Acyclic'
    BY <1>2, <2>3, InsertAcyclic
  <2>4. ASSUME NEW node \in Pool, NEW child \in Pool, removeChild(node, child)
        PROVE  Acyclic'
    <3>1. \A n \in Nodes : parent'[n] \in {None, parent[n]}
      BY <2>1, <2>4 DEF removeChild, TypeOK
    <3> QED BY <1>2, <2>1, <3>1, ClearingAcyclic
  <2>5. ASSUME NEW node \in Pool, setTextContent(node) PROVE Acyclic'
    <3>1. \A n \in Nodes : parent'[n] \in {None, parent[n]}
      BY <2>5 DEF setTextContent
    <3> QED BY <1>2, <2>1, <3>1, ClearingAcyclic
  <2>6. CASE UNCHANGED parent
    BY <1>2, <2>6 DEF Acyclic
  <2> QED
    BY <1>2, <2>2, <2>3, <2>4, <2>5, <2>6 DEF Next, vars, EndTag, EndOfInput, createElement
<1> QED
  BY <1>1, <1>2, InitInv, StepInv, PTL DEF Spec

-------------------------------------------------------------------------------
(* Connectivity *)

\* What isConnected reaches going up, queries reach going down, and what queries reach
\* has a top-level element above it: the two walks follow the same links.
LEMMA WalksAgree ==
    ASSUME Inv
    PROVE  ConnectedIsQueried
<1>1. TypeOK /\ TreeLinks /\ Pool \subseteq Nodes /\ None \notin Nodes
  BY PoolInNodes DEF Inv
<1>2. roots \in Seq(Pool) /\ Members(roots) \subseteq Pool
  BY <1>1 DEF TypeOK, Members
<1>3. \A p, n \in Nodes : parent[n] = p <=> n \in Members(children[p])
  BY <1>1 DEF TreeLinks
<1>4. \A n \in Nodes : parent[n] \in Nodes \cup {None} /\ Members(children[n]) \subseteq Nodes
  BY <1>1 DEF TypeOK, Members
<1>5. ASSUME NEW n \in Pool, is_in_tree(n) PROVE n \in Queried
  <2> SUFFICES ASSUME NEW S \in SUBSET Nodes, Members(roots) \subseteq S, ClosedDown(S), n \notin S
               PROVE  FALSE
    BY <1>1 DEF Queried
  <2> DEFINE T == Nodes \ S
  <2>1. ClosedUp(T)
    <3> SUFFICES ASSUME NEW m \in T, parent[m] # None PROVE parent[m] \notin S
      BY <1>4 DEF ClosedUp
    <3>1. parent[m] \in Nodes /\ m \in Members(children[parent[m]])
      BY <1>3, <1>4
    <3> QED BY <3>1 DEF ClosedDown
  <2>2. PICK r \in Members(roots) : is_self_or_ancestor(r, n)
    BY <1>5 DEF is_in_tree
  <2>3. r \in T
    BY <1>1, <2>1, <2>2 DEF is_self_or_ancestor
  <2> QED BY <2>3
<1>6. ASSUME NEW n \in Pool, n \in Queried, ~is_in_tree(n)
      PROVE  \E r \in Members(roots) : parent[r] # None /\ is_self_or_ancestor(r, n)
  <2> DEFINE S == {m \in Nodes : \E r \in Members(roots) : is_self_or_ancestor(r, m)}
  <2>1. Members(roots) \subseteq S
    BY <1>1, <1>2 DEF is_self_or_ancestor
  <2>2. ClosedDown(S)
    <3> SUFFICES ASSUME NEW m \in S, NEW c \in Members(children[m]) PROVE c \in S
      BY DEF ClosedDown
    <3>1. c \in Nodes /\ parent[c] = m /\ m \in Nodes
      BY <1>3, <1>4
    <3>2. PICK r \in Members(roots) : is_self_or_ancestor(r, m)
      OBVIOUS
    <3>3. ASSUME NEW T \in SUBSET Nodes, c \in T, ClosedUp(T) PROVE r \in T
      <4>1. m \in T
        BY <1>1, <3>1, <3>3 DEF ClosedUp
      <4> QED BY <3>2, <3>3, <4>1 DEF is_self_or_ancestor
    <3> QED BY <3>1, <3>3 DEF is_self_or_ancestor
  <2>3. n \in S
    <3>1. S \in SUBSET Nodes
      OBVIOUS
    <3> HIDE DEF S
    <3> QED BY <1>6, <2>1, <2>2, <3>1 DEF Queried
  <2>4. PICK r \in Members(roots) : is_self_or_ancestor(r, n)
    BY <2>3
  <2>5. parent[r] # None
    BY <1>6, <2>4 DEF is_in_tree
  <2> QED BY <2>4, <2>5
<1> QED
  BY <1>5, <1>6 DEF ConnectedIsQueried

\* What isConnected says a script can see, queries find; what they find beside it lies
\* under a top-level element that a script moved.
THEOREM ConnectedAreFound == Spec => []ConnectedIsQueried
BY InitInv, StepInv, WalksAgree, PTL DEF Spec

-------------------------------------------------------------------------------
(* The order of children *)

LEMMA WithoutInserted ==
    ASSUME NEW P, NEW s \in Seq(P), NEW e \in P, NEW i \in 1..(Len(s) + 1),
           e \notin Members(s), NoRepeats(s)
    PROVE  /\ Position(InsertedAt(s, i, e), e) = i
           /\ Without(InsertedAt(s, i, e), e) = s
           /\ Len(InsertedAt(s, i, e)) = Len(s) + 1
           /\ \A k \in DOMAIN s : k = i => Position(InsertedAt(s, i, e), s[k]) = k + 1
<1>0. Len(s) \in Nat /\ DOMAIN s = 1..Len(s)
  OBVIOUS
<1>1. PICK q \in Seq(P) :
         /\ q = InsertedAt(s, i, e) /\ Len(q) = Len(s) + 1 /\ DOMAIN q = 1..(Len(s) + 1)
         /\ \A j \in 1..(Len(s) + 1) : q[j] = IF j < i THEN s[j] ELSE IF j = i THEN e ELSE s[j - 1]
  <2>1. InsertedAt(s, i, e) \in Seq(P) /\ Len(InsertedAt(s, i, e)) = Len(s) + 1
    BY InsertedAtShape
  <2>2. \A j \in 1..(Len(s) + 1) : InsertedAt(s, i, e)[j] =
                                      IF j < i THEN s[j] ELSE IF j = i THEN e ELSE s[j - 1]
    BY InsertedAtShape
  <2>3. DOMAIN InsertedAt(s, i, e) = 1..(Len(s) + 1)
    BY <2>1, LenNat
  <2> QED BY <2>1, <2>2, <2>3
<1>2. NoRepeats(q) /\ q[i] = e /\ i \in DOMAIN q
  <2>1. NoRepeats(InsertedAt(s, i, e))
    BY InsertedAtMembers
  <2> QED BY <2>1, <1>0, <1>1
<1>3. Position(q, e) = i
  <2>1. \A j \in DOMAIN q : q[j] = e => j = i
    BY <1>2 DEF NoRepeats
  <2> QED BY <1>2, <2>1 DEF Position
<1>4. Without(q, e) = s
  <2>1. Without(q, e) = SubSeq(q, 1, i - 1) \o SubSeq(q, i + 1, Len(q))
    BY <1>2, <1>3 DEF Without, Members
  <2> DEFINE a == SubSeq(q, 1, i - 1)
             b == SubSeq(q, i + 1, Len(q))
  <2>2. a \in Seq(P) /\ Len(a) = i - 1 /\ \A j \in 1..(i - 1) : a[j] = q[j]
    BY <1>0, <1>1
  <2>3. b \in Seq(P) /\ Len(b) = Len(s) - i + 1 /\ \A j \in 1..(Len(s) - i + 1) : b[j] = q[i + j]
    <3>1. /\ i + 1 \in Int /\ Len(q) \in Int /\ Len(q) = Len(s) + 1
          /\ \A k \in (i + 1)..Len(q) : q[k] \in P
      BY <1>0, <1>1
    <3>2. /\ b \in Seq(P)
          /\ Len(b) = IF i + 1 <= Len(q) THEN Len(q) - (i + 1) + 1 ELSE 0
          /\ \A j \in 1..(Len(q) - (i + 1) + 1) : b[j] = q[(i + 1) + j - 1]
      BY <3>1, SubSeqProperties
    <3> HIDE DEF b
    <3>3. (IF i + 1 <= Len(q) THEN Len(q) - (i + 1) + 1 ELSE 0) = Len(s) - i + 1
      BY <1>0, <3>1
    <3>4. Len(q) - (i + 1) + 1 = Len(s) - i + 1
      BY <1>0, <3>1
    <3>5. \A j \in 1..(Len(s) - i + 1) : (i + 1) + j - 1 = i + j
      BY <1>0
    <3> QED BY <3>2, <3>3, <3>4, <3>5
  <2> HIDE DEF a, b
  <2>4. /\ a \o b \in Seq(P) /\ Len(a \o b) = Len(a) + Len(b)
        /\ \A j \in 1..(Len(a) + Len(b)) : (a \o b)[j] = IF j <= Len(a) THEN a[j] ELSE b[j - Len(a)]
    BY <2>2, <2>3, ConcatProperties
  <2>5. Len(a) + Len(b) = Len(s)
    BY <1>0, <2>2, <2>3
  <2>6. ASSUME NEW j \in 1..Len(s) PROVE (a \o b)[j] = s[j]
    <3>1. CASE j < i
      <4>1. j <= Len(a) /\ j \in 1..(i - 1) /\ j \in 1..(Len(s) + 1)
        BY <1>0, <2>2, <3>1
      <4>2. (a \o b)[j] = a[j] /\ a[j] = q[j]
        BY <2>2, <2>4, <2>5, <4>1
      <4>3. q[j] = s[j]
        BY <1>1, <3>1, <4>1
      <4> QED BY <4>2, <4>3
    <3>2. CASE ~(j < i)
      <4>1. /\ ~(j <= Len(a)) /\ j - Len(a) \in 1..(Len(s) - i + 1) /\ i + (j - Len(a)) = j + 1
            /\ j + 1 \in 1..(Len(s) + 1) /\ ~(j + 1 < i) /\ j + 1 # i /\ j + 1 - 1 = j
        BY <1>0, <2>2, <3>2
      <4>2. (a \o b)[j] = b[j - Len(a)]
        BY <2>4, <2>5, <4>1
      <4>3. b[j - Len(a)] = q[j + 1]
        BY <2>3, <4>1
      <4>4. q[j + 1] = s[j]
        BY <1>1, <4>1
      <4> QED BY <4>2, <4>3, <4>4
    <3> QED BY <3>1, <3>2
  <2>7. a \o b = s
    BY <2>4, <2>5, <2>6, SeqEqual
  <2> QED BY <2>1, <2>7 DEF a, b
<1>5. ASSUME NEW k \in DOMAIN s, k = i PROVE Position(q, s[k]) = k + 1
  <2>1. k + 1 \in DOMAIN q /\ q[k + 1] = s[k]
    BY <1>0, <1>1, <1>5
  <2>2. \A j \in DOMAIN q : q[j] = s[k] => j = k + 1
    BY <1>2, <2>1 DEF NoRepeats
  <2> QED BY <2>1, <2>2 DEF Position
<1> QED
  BY <1>1, <1>3, <1>4, <1>5

LEMMA InsertKeepsOrder ==
    ASSUME Inv, NEW node \in Pool, NEW child \in Pool, NEW ref \in Pool \cup {None},
           Insert(node, child, ref)
    PROVE  /\ \A p \in Pool : Without(children'[p], child) = Without(children[p], child)
           /\ LET at == Position(children'[node], child)
              IN  IF ref = None THEN at = Len(children'[node])
                                ELSE at + 1 = Position(children'[node], ref)
<1> DEFINE kids == Detached(child)[node]
           place == IF ref \in Members(kids) THEN Position(kids, ref) ELSE Len(kids) + 1
           grown == InsertedAt(kids, place, child)
<1>1. node \in Nodes /\ child \in Nodes /\ Pool \subseteq Nodes /\ None \notin Nodes
      /\ TypeOK /\ TreeLinks
  BY PoolInNodes DEF Inv
<1>2. /\ Detached(child) \in [Nodes -> Seq(Pool)]
      /\ \A p \in Nodes : /\ NoRepeats(Detached(child)[p])
                          /\ Members(Detached(child)[p]) = Members(children[p]) \ {child}
  BY DetachedLists
<1>3. kids \in Seq(Pool) /\ NoRepeats(kids) /\ Members(kids) = Members(children[node]) \ {child}
  BY <1>1, <1>2
<1>4. place \in 1..(Len(kids) + 1)
  <2>1. CASE ref \in Members(kids)
    <3>1. Position(kids, ref) \in DOMAIN kids
      BY <2>1 DEF Members, Position
    <3> QED BY <1>3, <2>1, <3>1
  <2>2. CASE ref \notin Members(kids)
    <3>1. place = Len(kids) + 1
      BY <2>2
    <3> QED BY <1>3, <3>1
  <2> QED BY <2>1, <2>2
<1>5. children' = [Detached(child) EXCEPT ![node] = grown]
  BY DEF Insert
<1>6. \A p \in Nodes : Detached(child)[p] = Without(children[p], child)
  <2> SUFFICES ASSUME NEW p \in Nodes PROVE Detached(child)[p] = Without(children[p], child)
    OBVIOUS
  <2>1. CASE parent[child] = p
    <3>1. parent[child] # None
      BY <1>1, <2>1
    <3>2. Detached(child) = [children EXCEPT ![parent[child]] = Without(children[parent[child]], child)]
      BY <3>1 DEF Detached
    <3> QED BY <1>1, <2>1, <3>2 DEF TypeOK
  <2>2. CASE parent[child] # p
    <3>1. child \notin Members(children[p])
      BY <1>1, <2>2 DEF TreeLinks
    <3>2. Detached(child)[p] = children[p]
      BY <1>1, <2>2 DEF Detached, TypeOK
    <3> QED BY <3>1, <3>2 DEF Without
  <2> QED BY <2>1, <2>2
<1>7. ref # None => ref \in Members(kids)
  BY <1>1, <1>3 DEF Insert, TreeLinks
<1>8. ref = None => ref \notin Members(kids)
  BY <1>1, <1>3 DEF Members
<1>9. kids = Without(children[node], child)
  BY <1>1, <1>6
<1>10. children'[node] = grown /\ \A p \in Nodes : p # node => children'[p] = Detached(child)[p]
  BY <1>1, <1>2, <1>5
<1>11. ref # None => place \in DOMAIN kids /\ kids[place] = ref
  <2>1. ref \in Members(kids) => Position(kids, ref) \in DOMAIN kids /\ kids[Position(kids, ref)] = ref
    BY DEF Members, Position
  <2> QED BY <1>7, <2>1
<1>12. ref = None => place = Len(kids) + 1
  BY <1>8
<1> HIDE DEF kids, place
<1>13. /\ Position(grown, child) = place
       /\ Without(grown, child) = kids
       /\ Len(grown) = Len(kids) + 1
       /\ \A k \in DOMAIN kids : k = place => Position(grown, kids[k]) = k + 1
  BY <1>3, <1>4, WithoutInserted
<1> HIDE DEF grown
<1>14. ASSUME NEW p \in Pool PROVE Without(children'[p], child) = Without(children[p], child)
  <2>1. CASE p = node
    BY <2>1, <1>9, <1>10, <1>13
  <2>2. CASE p # node
    <3>1. children'[p] = Detached(child)[p] /\ child \notin Members(Detached(child)[p])
      BY <1>1, <1>2, <1>10, <2>2
    <3>2. Without(children'[p], child) = children'[p]
      BY <3>1 DEF Without
    <3> QED BY <1>1, <1>6, <3>1, <3>2
  <2> QED BY <2>1, <2>2
<1>15. CASE ref = None
  <2>1. Position(children'[node], child) = Len(children'[node])
    BY <1>10, <1>12, <1>13, <1>15
  <2> QED BY <1>14, <1>15, <2>1
<1>16. CASE ref # None
  <2>1. Position(children'[node], child) + 1 = Position(children'[node], ref)
    BY <1>10, <1>11, <1>13, <1>16
  <2> QED BY <1>14, <1>16, <2>1
<1> QED
  BY <1>15, <1>16

\* Every move puts the child where insertBefore says and keeps the order of all the
\* other children of every node.
THEOREM OrderIsKept == Spec => MovesKeepOrder
<1> DEFINE Kept ==
       \A node, child \in Pool : parent' = [parent EXCEPT ![child] = node] =>
          \A ref \in Pool \cup {None} : Insert(node, child, ref) =>
              /\ \A p \in Pool : Without(children'[p], child) = Without(children[p], child)
              /\ LET at == Position(children'[node], child)
                 IN  IF ref = None THEN at = Len(children'[node])
                                   ELSE at + 1 = Position(children'[node], ref)
<1>1. Inv => Kept
  BY InsertKeepsOrder
<1> QED
  BY <1>1, InitInv, StepInv, PTL DEF Spec, MovesKeepOrder
===============================================================================
