--------------------------- MODULE Conversions_proofs ---------------------------
(***************************************************************************)
(* The algorithms that turn one form of data into another, each proved     *)
(* about by itself: the deep conversion of JavaScript values               *)
(* (ValueConversion), btoa and atob (Base64), the resolution of URLs (Url) *)
(* and the encoded string of URLSearchParams (UrlParams, which implements  *)
(* ParamList).  What they compute for data of any size is proved by the    *)
(* least counterexample: LeastOf gives it, CountsUp counts to it.          *)
(***************************************************************************)
EXTENDS Conversions, SequenceTheorems, WellFoundedInduction, TLAPS

-------------------------------------------------------------------------------
(* Deep conversion: RecursionBounded, whatever the heap holds and whatever *)
(* getters return and edit.  Only the guards of deep_impl keep the         *)
(* recursion finite.                                                       *)

LEMMA PrefixFacts ==
    ASSUME NEW S, NEW s \in Seq(S), NEW k \in 0..Len(s)
    PROVE  /\ SubSeq(s, 1, k) \in Seq(S)
           /\ Len(SubSeq(s, 1, k)) = k
           /\ DOMAIN SubSeq(s, 1, k) = 1..k
           /\ \A i \in 1..k : SubSeq(s, 1, k)[i] = s[i]
<1>1. SubSeq(s, 1, k) \in Seq(S)
  OBVIOUS
<1>2. Len(SubSeq(s, 1, k)) = k /\ DOMAIN SubSeq(s, 1, k) = 1..k
  OBVIOUS
<1>3. ASSUME NEW i \in 1..k PROVE SubSeq(s, 1, k)[i] = s[i]
  OBVIOUS
<1> QED
  BY <1>1, <1>2, <1>3

\* The ancestors are a sequence, of no matter what, and are bounded.
AncestorsSound == (\E S : ancestors \in Seq(S)) /\ RecursionBounded

\* A container enters only when the depth allows it and it is not already there.
LEMMA EnterInv ==
    ASSUME AncestorsSound, NEW h, NEW o, Len(ancestors) <= MaxDepth, ~InProgress(o), Enter(h, o)
    PROVE  AncestorsSound'
<1>1. PICK S : ancestors \in Seq(S)
  BY DEF AncestorsSound
<1>2. ancestors \in Seq(S \cup {o}) /\ ancestors' = Append(ancestors, o)
  BY <1>1 DEF Enter
<1>3. ancestors' \in Seq(S \cup {o}) /\ Len(ancestors') = Len(ancestors) + 1
  BY <1>2
<1>4. \A i \in DOMAIN ancestors' :
         ancestors'[i] = IF i = Len(ancestors) + 1 THEN o ELSE ancestors[i]
  BY <1>2
<1>5. \A i \in DOMAIN ancestors : ancestors[i] # o
  BY DEF InProgress
<1>6. Len(ancestors') <= MaxDepth + 1
  BY <1>2, <1>3, ConversionAssumption
<1>7. ASSUME NEW i \in DOMAIN ancestors', NEW j \in DOMAIN ancestors', ancestors'[i] = ancestors'[j]
      PROVE  i = j
  BY <1>2, <1>3, <1>4, <1>5, <1>7 DEF AncestorsSound, RecursionBounded
<1> QED
  BY <1>3, <1>6, <1>7 DEF AncestorsSound, RecursionBounded

LEMMA FailInv ==
    ASSUME NEW why, Fail(why)
    PROVE  AncestorsSound'
<1>1. ancestors' = <<>> /\ <<>> \in Seq({})
  BY DEF Fail
<1> QED
  BY <1>1, ConversionAssumption DEF AncestorsSound, RecursionBounded

LEMMA CallInv ==
    ASSUME AncestorsSound, NEW h, NEW v, deep_impl(h, v)
    PROVE  AncestorsSound'
<1>1. CASE UNCHANGED ancestors
  BY <1>1 DEF AncestorsSound, RecursionBounded
<1>2. CASE \E why : Fail(why)
  BY <1>2, FailInv
<1>3. CASE Len(ancestors) <= MaxDepth /\ ~InProgress(v.object) /\ Enter(h, v.object)
  BY <1>3, EnterInv
<1>4. Len(ancestors) \in Nat /\ MaxDepth \in Nat
  BY ConversionAssumption DEF AncestorsSound
<1> QED
  BY <1>1, <1>2, <1>3, <1>4 DEF deep_impl

LEMMA ContainerInv ==
    ASSUME AncestorsSound, Container
    PROVE  AncestorsSound'
<1>1. PICK S : ancestors \in Seq(S)
  BY DEF AncestorsSound
<1>2. ancestors' = SubSeq(ancestors, 1, Len(ancestors) - 1)
  BY DEF Container, Front
<1>3. CASE ancestors = <<>>
  <2>1. ancestors' = <<>> /\ <<>> \in Seq({})
    BY <1>2, <1>3
  <2> QED BY <2>1, ConversionAssumption DEF AncestorsSound, RecursionBounded
<1>4. CASE ancestors # <<>>
  <2>1. Len(ancestors) \in Nat \ {0}
    BY <1>1, <1>4
  <2>2. /\ ancestors' \in Seq(S)
        /\ Len(ancestors') = Len(ancestors) - 1
        /\ \A i \in DOMAIN ancestors' : i \in DOMAIN ancestors /\ ancestors'[i] = ancestors[i]
    <3>1. PICK k \in 0..Len(ancestors) : k = Len(ancestors) - 1
      BY <2>1, SMTT(40)
    <3>2. /\ SubSeq(ancestors, 1, k) \in Seq(S)
          /\ Len(SubSeq(ancestors, 1, k)) = k
          /\ DOMAIN SubSeq(ancestors, 1, k) = 1..k
          /\ \A i \in 1..k : SubSeq(ancestors, 1, k)[i] = ancestors[i]
      BY <1>1, PrefixFacts, Zenon
    <3>3. ancestors' = SubSeq(ancestors, 1, k)
      BY <1>2, <3>1
    <3> QED BY <1>1, <2>1, <3>1, <3>2, <3>3
  <2> QED BY <2>1, <2>2, ConversionAssumption DEF AncestorsSound, RecursionBounded
<1> QED
  BY <1>3, <1>4

\* For every heap, every script and every limit, the conversion recurses at most
\* MaxDepth + 1 deep and never into an object it is converting.
THEOREM RecursionIsBounded == Spec => []RecursionBounded
<1>1. Init => AncestorsSound
  <2> SUFFICES ASSUME Init PROVE AncestorsSound
    OBVIOUS
  <2>1. ancestors = <<Root>> /\ <<Root>> \in Seq({Root})
    BY DEF Init
  <2> QED BY <2>1, ConversionAssumption DEF AncestorsSound, RecursionBounded
<1>2. AncestorsSound /\ [Next]_vars => AncestorsSound'
  <2> SUFFICES ASSUME AncestorsSound, [Next]_vars PROVE AncestorsSound'
    OBVIOUS
  <2>1. CASE Element
    BY <2>1, CallInv DEF Element
  <2>2. ASSUME NEW o, NEW properties, NEW answer, GetterReturns(o, properties, answer)
        PROVE  AncestorsSound'
    BY <2>2, CallInv DEF GetterReturns
  <2>3. CASE GetterThrows
    BY <2>3, FailInv DEF GetterThrows
  <2>4. CASE Container
    BY <2>4, ContainerInv
  <2>5. CASE UNCHANGED vars
    BY <2>5 DEF vars, AncestorsSound, RecursionBounded
  <2> QED BY <2>1, <2>2, <2>3, <2>4, <2>5 DEF Next
<1>3. AncestorsSound => RecursionBounded
  BY DEF AncestorsSound
<1> QED
  BY <1>1, <1>2, <1>3, PTL DEF Spec

-------------------------------------------------------------------------------
(* Deep conversion: ConvertsFaithfully.  While no getter has run, what     *)
(* each activation has built stands, at every place inside it, for what is *)
(* in the heap, and the places they are at lead from the root to the next  *)
(* element.                                                                *)

LEMMA LeastOf ==
    ASSUME NEW S \in SUBSET Nat, S # {}
    PROVE  \E n \in S : \A m \in S : ~(m < n)
<1>1. PICK n \in S : \A m \in S : ~(<<m, n>> \in OpToRel(<, Nat))
  BY NatLessThanWellFounded, WFMin
<1>2. \A m, n2 \in Nat : m < n2 => <<m, n2>> \in OpToRel(<, Nat)
  BY DEF OpToRel
<1> QED
  BY <1>1, <1>2

LEMMA CountsUp ==
    ASSUME NEW n \in Nat, NEW T, 0 \in T, \A k \in 0..(n - 1) : k \in T => k + 1 \in T
    PROVE  \A k \in 0..n : k \in T
<1> DEFINE Missing == {k \in 0..n : k \notin T}
<1>1. SUFFICES ASSUME Missing # {} PROVE FALSE
  OBVIOUS
<1>2. PICK k \in Missing : \A m \in Missing : ~(m < k)
  <2>1. Missing \in SUBSET Nat
    OBVIOUS
  <2> HIDE DEF Missing
  <2> QED BY <1>1, <2>1, LeastOf
<1>3. k - 1 \in 0..(n - 1) /\ k - 1 < k /\ (k - 1) + 1 = k
  BY <1>2
<1>4. k - 1 \in T
  BY <1>2, <1>3
<1> QED
  BY <1>2, <1>3, <1>4

(* Places inside values. *)

\* A walk from v along path.
IsWalk(h, v, path, walk) ==
    walk = [k \in 0..Len(path) |-> IF k = 0 THEN v ELSE Child(h, walk[k - 1], path[k])]

LEMMA WalkExists ==
    ASSUME NEW h, NEW v, NEW path \in Seq(Nat)
    PROVE  \E walk : IsWalk(h, v, path, walk)
<1> DEFINE F(g, k) == IF k = 0 THEN v ELSE Child(h, g[k - 1], path[k])
           T == {n \in 0..Len(path) : \E g : g = [k \in 0..n |-> F(g, k)]}
<1>1. Len(path) \in Nat
  OBVIOUS
<1>2. 0 \in T
  <2>1. PICK g : g = [k \in 0..0 |-> v]
    OBVIOUS
  <2>2. g = [k \in 0..0 |-> F(g, k)]
    BY <2>1
  <2>3. 0 \in 0..Len(path)
    BY <1>1
  <2> QED BY <2>2, <2>3
<1>3. ASSUME NEW n \in 0..(Len(path) - 1), n \in T PROVE n + 1 \in T
  <2>1. PICK g : g = [k \in 0..n |-> F(g, k)]
    BY <1>3
  <2>2. PICK last : last = Child(h, g[n], path[n + 1])
    OBVIOUS
  <2> DEFINE w == [k \in 0..(n + 1) |-> IF k = n + 1 THEN last ELSE g[k]]
  <2>3. ASSUME NEW k \in 0..(n + 1) PROVE w[k] = F(w, k)
    <3>1. CASE k = n + 1
      <4>1. (n + 1) - 1 = n /\ n \in 0..(n + 1) /\ n # n + 1 /\ k # 0
        BY <3>1
      <4>2. w[n] = g[n] /\ w[k] = last
        BY <3>1, <4>1
      <4> QED BY <2>2, <3>1, <4>1, <4>2
    <3>2. CASE k # n + 1 /\ k # 0
      <4>1. k \in 0..n /\ k - 1 \in 0..(n + 1) /\ k - 1 # n + 1
        BY <3>2
      <4>2. w[k] = g[k] /\ w[k - 1] = g[k - 1]
        BY <3>2, <4>1
      <4>3. g[k] = F(g, k)
        BY <2>1, <4>1
      <4> QED BY <3>2, <4>2, <4>3
    <3>3. CASE k = 0
      <4>1. 0 \in 0..n /\ 0 # n + 1
        OBVIOUS
      <4> QED BY <2>1, <3>3, <4>1
    <3> QED BY <3>1, <3>2, <3>3
  <2>4. w = [k \in 0..(n + 1) |-> F(w, k)]
    BY <2>3
  <2>5. n + 1 \in 0..Len(path)
    BY <1>1
  <2> QED BY <2>4, <2>5
<1>4. Len(path) \in T
  <2> HIDE DEF T
  <2>1. \A k \in 0..Len(path) : k \in T
    BY <1>1, <1>2, <1>3, CountsUp
  <2> QED BY <1>1, <2>1
<1> QED
  BY <1>4 DEF IsWalk

LEMMA PlaceOfWalk ==
    ASSUME NEW h, NEW v, NEW path \in Seq(Nat), NEW walk, IsWalk(h, v, path, walk)
    PROVE  Place(h, v, path) = walk[Len(path)]
<1> DEFINE reached == CHOOSE w : w = [k \in 0..Len(path) |->
                                         IF k = 0 THEN v ELSE Child(h, w[k - 1], path[k])]
<1>1. IsWalk(h, v, path, reached)
  BY DEF IsWalk
<1>2. Place(h, v, path) = reached[Len(path)]
  BY Zenon DEF Place
<1> HIDE DEF reached
<1> DEFINE T == {k \in 0..Len(path) : reached[k] = walk[k]}
<1>3. Len(path) \in Nat
  OBVIOUS
<1>4. 0 \in T
  BY <1>1, <1>3 DEF IsWalk
<1>5. ASSUME NEW k \in 0..(Len(path) - 1), k \in T PROVE k + 1 \in T
  <2>1. k + 1 \in 0..Len(path) /\ k + 1 # 0 /\ (k + 1) - 1 = k
    BY <1>3
  <2>2. /\ reached[k + 1] = Child(h, reached[k], path[k + 1])
        /\ walk[k + 1] = Child(h, walk[k], path[k + 1])
    BY <1>1, <2>1 DEF IsWalk
  <2> QED BY <1>5, <2>1, <2>2
<1>6. Len(path) \in T
  <2> HIDE DEF T
  <2>1. \A k \in 0..Len(path) : k \in T
    BY <1>3, <1>4, <1>5, CountsUp
  <2> QED BY <1>3, <2>1
<1> QED
  BY <1>2, <1>6

LEMMA PlaceEmpty ==
    ASSUME NEW h, NEW v
    PROVE  Place(h, v, <<>>) = v
<1>1. PICK path \in Seq(Nat) : path = <<>> /\ Len(path) = 0
  <2>1. <<>> \in Seq(Nat) /\ Len(<<>>) = 0
    OBVIOUS
  <2> QED BY <2>1
<1>2. PICK walk : IsWalk(h, v, path, walk)
  BY WalkExists
<1>3. walk[0] = v
  BY <1>1, <1>2 DEF IsWalk
<1>4. Place(h, v, path) = walk[Len(path)]
  BY <1>2, PlaceOfWalk
<1> QED
  BY <1>1, <1>3, <1>4

LEMMA PlaceInside ==
    ASSUME NEW h, NEW v, NEW path \in Seq(Nat), path # <<>>
    PROVE  Tail(path) \in Seq(Nat) /\ Place(h, v, path) = Place(h, Child(h, v, path[1]), Tail(path))
<1>1. /\ Len(path) \in Nat \ {0} /\ Tail(path) \in Seq(Nat) /\ Len(Tail(path)) = Len(path) - 1
      /\ \A k \in 1..(Len(path) - 1) : Tail(path)[k] = path[k + 1]
  OBVIOUS
<1>2. PICK walk : IsWalk(h, v, path, walk)
  BY WalkExists
<1>3. PICK rest \in Seq(Nat) : rest = Tail(path)
  BY <1>1
<1> DEFINE below == [k \in 0..Len(rest) |-> walk[k + 1]]
<1>4. walk[1] = Child(h, v, path[1])
  <2>1. 0 \in 0..Len(path) /\ 1 \in 0..Len(path) /\ 1 - 1 = 0
    BY <1>1
  <2> QED BY <1>2, <2>1 DEF IsWalk
<1>5. ASSUME NEW k \in 0..Len(rest)
      PROVE  below[k] = IF k = 0 THEN Child(h, v, path[1]) ELSE Child(h, below[k - 1], rest[k])
  <2>1. CASE k = 0
    BY <1>4, <2>1
  <2>2. CASE k # 0
    <3>1. /\ k + 1 \in 0..Len(path) /\ k + 1 # 0 /\ (k + 1) - 1 = k /\ (k - 1) + 1 = k
          /\ k - 1 \in 0..Len(rest) /\ k \in 1..(Len(path) - 1)
      BY <1>1, <1>3, <2>2
    <3>2. walk[k + 1] = Child(h, walk[k], path[k + 1])
      BY <1>2, <3>1 DEF IsWalk
    <3>3. below[k] = walk[k + 1] /\ below[k - 1] = walk[k] /\ rest[k] = path[k + 1]
      BY <1>1, <1>3, <3>1
    <3> QED BY <2>2, <3>2, <3>3
  <2> QED BY <2>1, <2>2
<1>6. IsWalk(h, Child(h, v, path[1]), rest, below)
  BY <1>5 DEF IsWalk
<1>7. below[Len(rest)] = walk[Len(path)]
  BY <1>1, <1>3
<1> HIDE DEF below
<1>8. Place(h, v, path) = walk[Len(path)]
  BY <1>2, PlaceOfWalk
<1>9. Place(h, Child(h, v, path[1]), rest) = below[Len(rest)]
  BY <1>6, PlaceOfWalk
<1> QED
  BY <1>1, <1>3, <1>7, <1>8, <1>9

LEMMA NothingInside ==
    ASSUME NEW h, NEW path \in Seq(Nat)
    PROVE  Place(h, Nothing, path) = Nothing
<1> DEFINE walk == [k \in 0..Len(path) |-> Nothing]
<1>1. \A i : Child(h, Nothing, i) = Nothing
  BY DEF Child, Elements, Nothing
<1>2. IsWalk(h, Nothing, path, walk)
  BY <1>1 DEF IsWalk
<1>3. walk[Len(path)] = Nothing
  OBVIOUS
<1> HIDE DEF walk
<1> QED
  BY <1>2, <1>3, PlaceOfWalk

\* p stands for v in heap h, at every place inside them.
Unfolds(h, p, v) == \A path \in Seq(Nat) : Stands(h, Place(h, p, path), Place(h, v, path))

LEMMA UnfoldsByElement ==
    ASSUME NEW h, NEW p, NEW v, Stands(h, p, v),
           DOMAIN Elements(h, p) = DOMAIN Elements(h, v),
           \A i \in DOMAIN Elements(h, v) : Unfolds(h, Elements(h, p)[i], Elements(h, v)[i])
    PROVE  Unfolds(h, p, v)
<1> SUFFICES ASSUME NEW path \in Seq(Nat)
             PROVE  Stands(h, Place(h, p, path), Place(h, v, path))
  BY DEF Unfolds
<1>1. CASE path = <<>>
  BY <1>1, PlaceEmpty
<1>2. CASE path # <<>> /\ path[1] \in DOMAIN Elements(h, v)
  <2>1. /\ Tail(path) \in Seq(Nat)
        /\ Place(h, p, path) = Place(h, Child(h, p, path[1]), Tail(path))
        /\ Place(h, v, path) = Place(h, Child(h, v, path[1]), Tail(path))
    BY <1>2, PlaceInside
  <2>2. Unfolds(h, Child(h, p, path[1]), Child(h, v, path[1]))
    BY <1>2 DEF Child
  <2> QED BY <2>1, <2>2 DEF Unfolds
<1>3. CASE path # <<>> /\ path[1] \notin DOMAIN Elements(h, v)
  <2>1. /\ Tail(path) \in Seq(Nat)
        /\ Place(h, p, path) = Place(h, Child(h, p, path[1]), Tail(path))
        /\ Place(h, v, path) = Place(h, Child(h, v, path[1]), Tail(path))
    BY <1>3, PlaceInside
  <2>2. Child(h, p, path[1]) = Nothing /\ Child(h, v, path[1]) = Nothing
    BY <1>3 DEF Child
  <2>3. Place(h, p, path) = Nothing /\ Place(h, v, path) = Nothing
    BY <2>1, <2>2, NothingInside
  <2>4. Stands(h, Nothing, Nothing)
    BY DEF Stands, Nothing
  <2> QED BY <2>3, <2>4
<1> QED
  BY <1>1, <1>2, <1>3

(* The parts of a conversion. *)

LEMMA HeapFacts ==
    ASSUME NEW h \in Heaps, NEW o \in Objects
    PROVE  /\ Len(h[o]) \in Nat /\ DOMAIN h[o] = 1..Len(h[o])
           /\ \A i \in DOMAIN h[o] : h[o][i][2] \in JsValues
           /\ o \notin Arrays => \A i, j \in DOMAIN h[o] : h[o][i][1] = h[o][j][1] => i = j
<1>1. h[o] \in Seq(STRING \X JsValues)
  BY HeapsAssumption
<1>2. \A i \in DOMAIN h[o] : h[o][i] \in STRING \X JsValues
  BY <1>1
<1> QED
  BY <1>1, <1>2, HeapsAssumption

LEMMA ChildOfObject ==
    ASSUME NEW h \in Heaps, NEW o \in Objects
    PROVE  /\ DOMAIN Elements(h, Ref(o)) = DOMAIN h[o]
           /\ \A i \in DOMAIN h[o] : Elements(h, Ref(o))[i] = h[o][i][2]
           /\ \A i \in DOMAIN h[o] : Child(h, Ref(o), i) = h[o][i][2]
<1>1. "object" \in DOMAIN Ref(o) /\ Ref(o).object = o
  BY DEF Ref
<1>2. Elements(h, Ref(o)) = [i \in DOMAIN h[o] |-> h[o][i][2]]
  BY <1>1 DEF Elements
<1> QED
  BY <1>2 DEF Child

LEMMA CastInRange ==
    ASSUME NEW n \in Int, -Border <= n, n < Border
    PROVE  Cast(n) = n
<1>1. n + Border \in 0..(2 * Border - 1) /\ 2 * Border \in Nat \ {0}
  BY ConversionAssumption
<1>2. (n + Border) % (2 * Border) = n + Border
  BY <1>1
<1> QED
  BY <1>2, ConversionAssumption DEF Cast

LEMMA PrimitiveUnfolds ==
    ASSUME NEW h, NEW v \in JsValues, IsPrimitive(v)
    PROVE  Unfolds(h, try_convert_primitive(v), v)
<1> DEFINE p == try_convert_primitive(v)
<1>1. v \in [js : {"number"}, halves : Int] \/ v \in [js : {"special", "simple"}, name : STRING]
  BY DEF JsValues, IsPrimitive, Unsupported, Getter
<1>2. "object" \notin DOMAIN v /\ "items" \notin DOMAIN v
  BY <1>1
<1>3. CASE v.js = "simple"
  <2>1. p = PySame(v)
    BY <1>3 DEF try_convert_primitive
  <2>2. Stands(h, p, v) /\ "object" \notin DOMAIN p /\ "items" \notin DOMAIN p
    BY <1>3, <2>1 DEF Stands, PySame
  <2>3. Elements(h, p) = <<>> /\ Elements(h, v) = <<>> /\ DOMAIN <<>> = {}
    BY <1>2, <2>2 DEF Elements
  <2> QED BY <2>2, <2>3, UnfoldsByElement
<1>4. CASE v.js # "simple"
  <2> DEFINE int == /\ v.js = "number" /\ v.halves % 2 = 0
                    /\ v.halves \div 2 >= -Border /\ v.halves \div 2 < Border
  <2>1. CASE int
    <3>1. p = PyInt(Cast(v.halves \div 2))
      BY <1>4, <2>1 DEF try_convert_primitive, convert_number
    <3>2. v.halves \in Int
      BY <1>1, <2>1
    <3>3. v.halves \div 2 \in Int /\ v.halves = 2 * (v.halves \div 2)
      BY <2>1, <3>2
    <3>4. p = PyInt(v.halves \div 2)
      BY <2>1, <3>1, <3>3, CastInRange
    <3>5. p.py = "int" /\ p.int = v.halves \div 2 /\ "object" \notin DOMAIN p /\ "items" \notin DOMAIN p
      BY <3>4 DEF PyInt
    <3>6. Stands(h, p, v)
      BY <2>1, <3>3, <3>5 DEF Stands
    <3>7. Elements(h, p) = <<>> /\ Elements(h, v) = <<>> /\ DOMAIN <<>> = {}
      BY <1>2, <3>5 DEF Elements
    <3> HIDE DEF p
    <3> QED BY <3>6, <3>7, UnfoldsByElement DEF p
  <2>2. CASE ~int
    <3>1. p = PyFloat(v)
      BY <1>4, <2>2 DEF try_convert_primitive, convert_number
    <3>2. p.py = "float" /\ p.of = v /\ "object" \notin DOMAIN p /\ "items" \notin DOMAIN p
      BY <3>1 DEF PyFloat
    <3>3. ASSUME Integral(v), FitsInt64(v) PROVE FALSE
      <4>1. v.js = "number" /\ v.halves % 2 = 0 /\ v.halves >= -2 * Border /\ v.halves < 2 * Border
        BY <3>3 DEF Integral, FitsInt64
      <4>2. v.halves \in Int /\ Border \in Nat
        BY <1>1, <4>1, ConversionAssumption
      <4>3. v.halves = 2 * (v.halves \div 2) /\ v.halves \div 2 \in Int
        BY <4>1, <4>2
      <4>4. v.halves \div 2 >= -Border /\ v.halves \div 2 < Border
        BY <4>1, <4>2, <4>3
      <4> QED BY <2>2, <4>1, <4>4
    <3>4. Stands(h, p, v)
      BY <3>2, <3>3 DEF Stands
    <3>5. Elements(h, p) = <<>> /\ Elements(h, v) = <<>> /\ DOMAIN <<>> = {}
      BY <1>2, <3>2 DEF Elements
    <3> HIDE DEF p
    <3> QED BY <3>4, <3>5, UnfoldsByElement DEF p
  <2> QED BY <2>1, <2>2
<1> QED
  BY <1>3, <1>4

\* The activation f of object o in heap h: what it has built stands for what it has read.
FrameSound(h, o, f) ==
    /\ f = [at |-> f.at, built |-> f.built, keys |-> Frame(h, o).keys]
    /\ f.at \in 1..(Len(h[o]) + 1)
    /\ (\E P : f.built \in Seq(P)) /\ Len(f.built) = f.at - 1
    /\ \A i \in 1..(f.at - 1) : Unfolds(h, f.built[i], h[o][i][2])

\* Each activation is at the element that holds the object of the next one.
StackSound(h, anc, st) ==
    /\ anc \in Seq(Objects) /\ (\E F : st \in Seq(F)) /\ Len(st) = Len(anc)
    /\ Len(anc) \in 1..(MaxDepth + 1) /\ anc[1] = Root
    /\ \A j \in 1..Len(anc) : FrameSound(h, anc[j], st[j])
    /\ \A j \in 1..(Len(anc) - 1) :
          st[j].at <= Len(h[anc[j]]) /\ h[anc[j]][st[j].at][2] = Ref(anc[j + 1])

FaithfulInv ==
    /\ runs \in Nat
    /\ runs = 0 => /\ heap \in Heaps
                   /\ outcome = Running => StackSound(heap, ancestors, stack)
                   /\ ConvertsFaithfully

\* The path leads from the root to the next element, by way of every object before.
WayTo(h, anc, st, path) ==
    /\ Len(path) = Len(anc) /\ \A k \in 1..Len(anc) : path[k] \in DOMAIN h[anc[k]]
    /\ Place(h, Ref(Root), path) = h[anc[Len(anc)]][st[Len(anc)].at][2]
    /\ \A k \in 0..(Len(anc) - 1) : Place(h, Ref(Root), SubSeq(path, 1, k)) = Ref(anc[k + 1])

LEMMA RootPath ==
    ASSUME NEW h \in Heaps, NEW anc, NEW st, StackSound(h, anc, st), NEW n \in Nat, n = Len(anc),
           st[n].at <= Len(h[anc[n]])
    PROVE  \E path \in Seq(Nat) : WayTo(h, anc, st, path)
<1>1. /\ n \in 1..(MaxDepth + 1) /\ anc[1] = Root /\ \A j \in 1..n : anc[j] \in Objects
      /\ \A j \in 1..n : FrameSound(h, anc[j], st[j])
      /\ \A j \in 1..(n - 1) :
            st[j].at <= Len(h[anc[j]]) /\ h[anc[j]][st[j].at][2] = Ref(anc[j + 1])
  BY DEF StackSound
<1>2. ASSUME NEW j \in 1..n PROVE st[j].at \in DOMAIN h[anc[j]] /\ st[j].at \in Nat
  <2>1. st[j].at \in 1..(Len(h[anc[j]]) + 1) /\ Len(h[anc[j]]) \in Nat
        /\ DOMAIN h[anc[j]] = 1..Len(h[anc[j]])
    BY <1>1, HeapFacts DEF FrameSound
  <2>2. st[j].at <= Len(h[anc[j]])
    BY <1>1
  <2> QED BY <2>1, <2>2
<1> DEFINE path == [k \in 1..n |-> st[k].at]
<1>3. path \in Seq(Nat) /\ Len(path) = n /\ \A k \in 1..n : path[k] = st[k].at
  BY <1>2
<1> DEFINE next == h[anc[n]][st[n].at][2]
           At(k) == IF k = n THEN next ELSE Ref(anc[k + 1])
<1>4. ASSUME NEW k \in 1..n PROVE At(k) = Child(h, At(k - 1), path[k])
  <2>1. At(k - 1) = Ref(anc[k])
    <3>1. k - 1 # n /\ (k - 1) + 1 = k
      OBVIOUS
    <3> QED BY <3>1
  <2>2. Child(h, Ref(anc[k]), path[k]) = h[anc[k]][st[k].at][2]
    BY <1>1, <1>2, <1>3, ChildOfObject
  <2>3. CASE k = n
    BY <2>1, <2>2, <2>3
  <2>4. CASE k # n
    <3>1. k \in 1..(n - 1)
      BY <2>4
    <3> QED BY <1>1, <2>1, <2>2, <2>4, <3>1
  <2> QED BY <2>3, <2>4
<1>5. At(0) = Ref(Root)
  BY <1>1
<1> HIDE DEF path, At
<1>6. ASSUME NEW k \in 0..n, NEW p \in Seq(Nat), Len(p) = k, \A j \in 1..k : p[j] = path[j]
      PROVE  Place(h, Ref(Root), p) = At(k)
  <2> DEFINE walk == [j \in 0..k |-> At(j)]
  <2>1. ASSUME NEW j \in 0..k
        PROVE  walk[j] = IF j = 0 THEN Ref(Root) ELSE Child(h, walk[j - 1], p[j])
    <3>1. CASE j = 0
      BY <1>5, <3>1
    <3>2. CASE j # 0
      <4>1. j \in 1..n /\ j \in 1..k /\ j - 1 \in 0..k
        BY <3>2
      <4> QED BY <1>4, <1>6, <3>2, <4>1
    <3> QED BY <3>1, <3>2
  <2>2. IsWalk(h, Ref(Root), p, walk) /\ walk[k] = At(k)
    BY <1>6, <2>1 DEF IsWalk
  <2> HIDE DEF walk
  <2> QED BY <1>6, <2>2, PlaceOfWalk
<1>7. Place(h, Ref(Root), path) = next
  <2>1. Place(h, Ref(Root), path) = At(n)
    BY <1>3, <1>6
  <2> QED BY <2>1 DEF At
<1>8. ASSUME NEW k \in 0..(n - 1)
      PROVE  Place(h, Ref(Root), SubSeq(path, 1, k)) = Ref(anc[k + 1])
  <2>1. k \in 0..Len(path) /\ k \in 0..n /\ k # n
    BY <1>3
  <2>2. PICK p : p = SubSeq(path, 1, k)
    OBVIOUS
  <2>3. p \in Seq(Nat) /\ Len(p) = k /\ \A j \in 1..k : p[j] = path[j]
    BY <1>3, <2>1, <2>2, PrefixFacts
  <2>4. Place(h, Ref(Root), p) = At(k)
    BY <1>6, <2>1, <2>3
  <2>5. At(k) = Ref(anc[k + 1])
    BY <2>1 DEF At
  <2> QED BY <2>2, <2>4, <2>5
<1>9. WayTo(h, anc, st, path)
  BY <1>2, <1>3, <1>7, <1>8 DEF WayTo
<1> QED
  BY <1>3, <1>9

\* The next element of the innermost activation, once converted.
LEMMA ElementBuilt ==
    ASSUME NEW h \in Heaps, NEW anc, NEW st, StackSound(h, anc, st), NEW n \in Nat, n = Len(anc),
           st[n].at <= Len(h[anc[n]]), NEW value, Unfolds(h, value, h[anc[n]][st[n].at][2])
    PROVE  StackSound(h, anc, [st EXCEPT ![n].built = Append(@, value), ![n].at = @ + 1])
<1> DEFINE f == st[n]
           g == [at |-> f.at + 1, built |-> Append(f.built, value), keys |-> f.keys]
<1>0. PICK new : new = [st EXCEPT ![n].built = Append(@, value), ![n].at = @ + 1]
  OBVIOUS
<1>1. /\ n \in 1..(MaxDepth + 1) /\ n \in 1..n /\ anc[n] \in Objects
      /\ \A j \in 1..n : FrameSound(h, anc[j], st[j])
  <2>1. /\ anc \in Seq(Objects) /\ Len(anc) \in 1..(MaxDepth + 1)
        /\ \A j \in 1..Len(anc) : FrameSound(h, anc[j], st[j])
    BY Zenon DEF StackSound
  <2>2. n \in 1..(MaxDepth + 1) /\ n \in 1..n
    BY <2>1
  <2>3. anc[n] \in Objects
    BY <2>1, <2>2
  <2> QED BY <2>1, <2>2, <2>3
<1>2. PICK F : st \in Seq(F) /\ Len(st) = n
  BY DEF StackSound
<1>3. /\ f = [at |-> f.at, built |-> f.built, keys |-> Frame(h, anc[n]).keys]
      /\ f.at \in 1..(Len(h[anc[n]]) + 1) /\ Len(f.built) = f.at - 1
      /\ \A i \in 1..(f.at - 1) : Unfolds(h, f.built[i], h[anc[n]][i][2])
  BY <1>1 DEF FrameSound
<1>4. PICK P : f.built \in Seq(P)
  BY <1>1 DEF FrameSound
<1>5. new = [st EXCEPT ![n] = g]
  <2>1. [f EXCEPT !.built = Append(@, value), !.at = @ + 1] = g
    <3>1. PICK a, b, k : f = [at |-> a, built |-> b, keys |-> k]
      BY <1>3
    <3>2. f.at = a /\ f.built = b /\ f.keys = k
      BY <3>1
    <3>3. [[at |-> a, built |-> b, keys |-> k] EXCEPT !.built = Append(@, value), !.at = @ + 1]
             = [at |-> a + 1, built |-> Append(b, value), keys |-> k]
      <4>1. [at |-> a, built |-> b, keys |-> k].built = b /\ [at |-> a, built |-> b, keys |-> k].at = a
        OBVIOUS
      <4>2. PICK c : c = Append(b, value)
        OBVIOUS
      <4>3. PICK d : d = a + 1
        OBVIOUS
      <4>4. [[at |-> a, built |-> b, keys |-> k] EXCEPT !.built = c] = [at |-> a, built |-> c, keys |-> k]
        OBVIOUS
      <4>5. [[at |-> a, built |-> c, keys |-> k] EXCEPT !.at = d] = [at |-> d, built |-> c, keys |-> k]
        OBVIOUS
      <4>6. [[at |-> a, built |-> b, keys |-> k] EXCEPT !.built = c, !.at = d]
               = [[[at |-> a, built |-> b, keys |-> k] EXCEPT !.built = c] EXCEPT !.at = d]
        OBVIOUS
      <4> QED BY <4>1, <4>2, <4>3, <4>4, <4>5, <4>6
    <3> QED BY <3>1, <3>2, <3>3
  <2>2. n \in DOMAIN st
    BY <1>1, <1>2
  <2>3. new = [st EXCEPT ![n] = [f EXCEPT !.built = Append(@, value), !.at = @ + 1]]
    BY <1>0, <2>2
  <2> QED BY <2>1, <2>3
<1>6. FrameSound(h, anc[n], g)
  <2>1. /\ Append(f.built, value) \in Seq(P \cup {value}) /\ Len(Append(f.built, value)) = f.at
        /\ \A i \in 1..(f.at - 1) : Append(f.built, value)[i] = f.built[i]
        /\ Append(f.built, value)[f.at] = value
    <3>1. f.built \in Seq(P \cup {value})
      BY <1>4
    <3>2. f.at \in Nat /\ Len(f.built) = f.at - 1 /\ Len(f.built) + 1 = f.at
      BY <1>1, <1>3, HeapFacts, SMTT(40)
    <3> QED BY <3>1, <3>2
  <2>2. f.at + 1 \in 1..(Len(h[anc[n]]) + 1) /\ f.at \in Nat /\ (f.at + 1) - 1 = f.at
    BY <1>1, <1>3, HeapFacts, SMTT(40)
  <2>3. ASSUME NEW i \in 1..f.at PROVE Unfolds(h, Append(f.built, value)[i], h[anc[n]][i][2])
    <3>1. CASE i = f.at
      BY <2>1, <3>1
    <3>2. CASE i # f.at
      <4>1. i \in 1..(f.at - 1)
        BY <2>2, <3>2
      <4> QED BY <1>3, <2>1, <4>1
    <3> QED BY <3>1, <3>2
  <2>4. f.keys = Frame(h, anc[n]).keys
    BY <1>3
  <2>5. g.at = f.at + 1 /\ g.built = Append(f.built, value) /\ g.keys = f.keys
    OBVIOUS
  <2> HIDE DEF g, f
  <2>6. g = [at |-> g.at, built |-> g.built, keys |-> Frame(h, anc[n]).keys]
    BY <2>4, <2>5 DEF g
  <2> QED BY <2>1, <2>2, <2>3, <2>5, <2>6 DEF FrameSound
<1> HIDE DEF g
<1>7. /\ new \in Seq(F \cup {g}) /\ Len(new) = n /\ new[n] = g
      /\ \A j \in 1..n : j # n => new[j] = st[j]
  <2>1. st \in Seq(F \cup {g}) /\ DOMAIN st = 1..n
    BY <1>2
  <2> QED BY <1>1, <1>2, <1>5, <2>1
<1>8. \A j \in 1..n : FrameSound(h, anc[j], new[j])
  BY <1>1, <1>6, <1>7
<1>9. \A j \in 1..(n - 1) : new[j] = st[j]
  BY <1>7
<1>10. StackSound(h, anc, new)
  BY <1>7, <1>8, <1>9 DEF StackSound
<1> QED
  BY <1>0, <1>10

LEMMA FreshFrame ==
    ASSUME NEW h \in Heaps, NEW o \in Objects
    PROVE  FrameSound(h, o, Frame(h, o))
<1>1. /\ Frame(h, o).at = 1 /\ Frame(h, o).built = <<>>
      /\ Frame(h, o) = [at |-> 1, built |-> <<>>, keys |-> Frame(h, o).keys]
  BY DEF Frame
<1>2. <<>> \in Seq({}) /\ Len(<<>>) = 0 /\ 1..0 = {} /\ 1 - 1 = 0
  OBVIOUS
<1>3. 1 \in 1..(Len(h[o]) + 1)
  BY HeapFacts
<1> QED
  BY <1>1, <1>2, <1>3 DEF FrameSound

LEMMA Entered ==
    ASSUME NEW h \in Heaps, NEW anc, NEW st, StackSound(h, anc, st), NEW n \in Nat, n = Len(anc),
           st[n].at <= Len(h[anc[n]]), NEW o \in Objects, h[anc[n]][st[n].at][2] = Ref(o),
           n <= MaxDepth
    PROVE  StackSound(h, Append(anc, o), Append(st, Frame(h, o)))
<1> DEFINE newAnc == Append(anc, o)
           newSt == Append(st, Frame(h, o))
<1>1. /\ n \in 1..(MaxDepth + 1) /\ anc \in Seq(Objects) /\ anc[1] = Root /\ Len(st) = n
      /\ \A j \in 1..n : FrameSound(h, anc[j], st[j])
      /\ \A j \in 1..(n - 1) :
            st[j].at <= Len(h[anc[j]]) /\ h[anc[j]][st[j].at][2] = Ref(anc[j + 1])
  BY DEF StackSound
<1>2. PICK F : st \in Seq(F)
  BY DEF StackSound
<1>3. /\ newAnc \in Seq(Objects) /\ Len(newAnc) = n + 1 /\ newAnc[n + 1] = o
      /\ \A j \in 1..n : newAnc[j] = anc[j]
  BY <1>1
<1>4. /\ newSt \in Seq(F \cup {Frame(h, o)}) /\ Len(newSt) = n + 1 /\ newSt[n + 1] = Frame(h, o)
      /\ \A j \in 1..n : newSt[j] = st[j]
  <2>1. st \in Seq(F \cup {Frame(h, o)})
    BY <1>2
  <2> QED BY <1>1, <2>1
<1>5. FrameSound(h, o, Frame(h, o))
  BY FreshFrame
<1> HIDE DEF newAnc, newSt
<1>6. \A j \in 1..(n + 1) : FrameSound(h, newAnc[j], newSt[j])
  <2>1. \A j \in 1..(n + 1) : j = n + 1 \/ j \in 1..n
    OBVIOUS
  <2> QED BY <1>1, <1>3, <1>4, <1>5, <2>1
<1>7. ASSUME NEW j \in 1..n
      PROVE  newSt[j].at <= Len(h[newAnc[j]]) /\ h[newAnc[j]][newSt[j].at][2] = Ref(newAnc[j + 1])
  <2>1. CASE j = n
    BY <1>3, <1>4, <2>1
  <2>2. CASE j # n
    <3>1. j \in 1..(n - 1) /\ j + 1 \in 1..n
      BY <2>2
    <3> QED BY <1>1, <1>3, <1>4, <3>1
  <2> QED BY <2>1, <2>2
<1>8. n + 1 \in 1..(MaxDepth + 1) /\ newAnc[1] = Root /\ (n + 1) - 1 = n
  BY <1>1, <1>3, ConversionAssumption, SMTT(40)
<1>9. StackSound(h, newAnc, newSt)
  BY <1>3, <1>4, <1>6, <1>7, <1>8, Zenon DEF StackSound
<1> QED
  BY <1>9 DEF newAnc, newSt

LEMMA Popped ==
    ASSUME NEW h \in Heaps, NEW anc, NEW st, StackSound(h, anc, st), NEW n \in Nat, n = Len(anc),
           n > 1
    PROVE  /\ StackSound(h, SubSeq(anc, 1, n - 1), SubSeq(st, 1, n - 1))
           /\ Len(SubSeq(anc, 1, n - 1)) = n - 1 /\ Len(SubSeq(st, 1, n - 1)) = n - 1
           /\ SubSeq(anc, 1, n - 1)[n - 1] = anc[n - 1] /\ SubSeq(st, 1, n - 1)[n - 1] = st[n - 1]
           /\ st[n - 1].at <= Len(h[anc[n - 1]]) /\ h[anc[n - 1]][st[n - 1].at][2] = Ref(anc[n])
<1>1. /\ n \in 1..(MaxDepth + 1) /\ anc \in Seq(Objects) /\ anc[1] = Root /\ Len(st) = n
      /\ \A j \in 1..n : FrameSound(h, anc[j], st[j])
      /\ \A j \in 1..(n - 1) :
            st[j].at <= Len(h[anc[j]]) /\ h[anc[j]][st[j].at][2] = Ref(anc[j + 1])
  BY DEF StackSound
<1>2. PICK F : st \in Seq(F)
  BY DEF StackSound
<1>3. PICK k \in Nat : k = n - 1
  OBVIOUS
<1>4. k \in 0..Len(anc) /\ k \in 0..Len(st) /\ k \in 1..k /\ k \in 1..n /\ k + 1 = n
  BY <1>1, <1>3
<1>5. PICK a : a = SubSeq(anc, 1, k)
  OBVIOUS
<1>6. PICK s : s = SubSeq(st, 1, k)
  OBVIOUS
<1>7. a \in Seq(Objects) /\ Len(a) = k /\ \A i \in 1..k : a[i] = anc[i]
  BY <1>1, <1>4, <1>5, PrefixFacts
<1>8. s \in Seq(F) /\ Len(s) = k /\ \A i \in 1..k : s[i] = st[i]
  BY <1>2, <1>4, <1>6, PrefixFacts
<1>9. \A j \in 1..k : FrameSound(h, a[j], s[j])
  BY <1>1, <1>4, <1>7, <1>8
<1>10. ASSUME NEW j \in 1..(k - 1)
       PROVE  s[j].at <= Len(h[a[j]]) /\ h[a[j]][s[j].at][2] = Ref(a[j + 1])
  <2>1. j \in 1..(n - 1) /\ j \in 1..k /\ j + 1 \in 1..k
    BY <1>4
  <2> QED BY <1>1, <1>7, <1>8, <2>1
<1>11. k \in 1..(MaxDepth + 1) /\ a[1] = Root
  BY <1>1, <1>3, <1>4, <1>7, ConversionAssumption, SMTT(40)
<1>12. StackSound(h, a, s)
  BY <1>7, <1>8, <1>9, <1>10, <1>11 DEF StackSound
<1>13. st[k].at <= Len(h[anc[k]]) /\ h[anc[k]][st[k].at][2] = Ref(anc[k + 1])
  BY <1>1, <1>3, <1>4
<1> QED
  BY <1>3, <1>4, <1>5, <1>6, <1>7, <1>8, <1>12, <1>13

\* The container an activation has built once it has read all elements.
LEMMA ContainerUnfolds ==
    ASSUME NEW h \in Heaps, NEW o \in Objects, NEW f, FrameSound(h, o, f), f.at > Len(h[o])
    PROVE  Unfolds(h, IF o \in Arrays THEN PyList(f.built)
                      ELSE PyDict([i \in DOMAIN f.keys |-> <<f.keys[i], f.built[i]>>]), Ref(o))
<1> DEFINE dict == [i \in DOMAIN f.keys |-> <<f.keys[i], f.built[i]>>]
           value == IF o \in Arrays THEN PyList(f.built) ELSE PyDict(dict)
<1>1. /\ f.keys = [i \in DOMAIN h[o] |-> IF o \in Arrays THEN i ELSE h[o][i][1]]
      /\ f.at = Len(h[o]) + 1 /\ f.at - 1 = Len(h[o]) /\ Len(f.built) = Len(h[o])
      /\ DOMAIN h[o] = 1..Len(h[o])
      /\ \A i \in 1..Len(h[o]) : Unfolds(h, f.built[i], h[o][i][2])
  <2>1. f.keys = Frame(h, o).keys
    BY DEF FrameSound
  <2>2. Len(h[o]) \in Nat /\ DOMAIN h[o] = 1..Len(h[o])
    BY HeapFacts
  <2>3. f.at \in 1..(Len(h[o]) + 1) /\ Len(f.built) = f.at - 1
    BY DEF FrameSound
  <2>4. f.at = Len(h[o]) + 1 /\ f.at - 1 = Len(h[o])
    BY <2>2, <2>3
  <2> QED BY <2>1, <2>2, <2>3, <2>4 DEF Frame, FrameSound
<1>2. DOMAIN f.built = DOMAIN h[o]
  <2>1. PICK P : f.built \in Seq(P)
    BY DEF FrameSound
  <2> QED BY <1>1, <2>1
<1>3. "object" \in DOMAIN Ref(o) /\ Ref(o).object = o /\ Ref(o).js = "object"
  BY DEF Ref
<1>4. CASE o \in Arrays
  <2>1. value = PyList(f.built)
    BY <1>4
  <2>2. value.py = "list" /\ "object" \notin DOMAIN value /\ "items" \in DOMAIN value
        /\ value.items = f.built
    BY <2>1 DEF PyList
  <2> HIDE DEF value
  <2>3. Stands(h, value, Ref(o))
    BY <1>3, <1>4, <2>2 DEF Stands
  <2>4. Elements(h, value) = f.built
    BY <2>2 DEF Elements
  <2>5. Unfolds(h, value, Ref(o))
    BY <1>1, <1>2, <2>3, <2>4, ChildOfObject, UnfoldsByElement
  <2> QED BY <2>5 DEF value
<1>5. CASE o \notin Arrays
  <2>1. value = PyDict(dict) /\ DOMAIN f.keys = DOMAIN h[o]
    BY <1>1, <1>5
  <2>2. value.py = "dict" /\ "object" \notin DOMAIN value /\ "items" \in DOMAIN value
        /\ value.items = dict
    <3> HIDE DEF dict, value
    <3> QED BY <2>1 DEF PyDict
  <2> HIDE DEF value
  <2>3. \A i \in DOMAIN h[o] : dict[i][1] = h[o][i][1] /\ dict[i][2] = f.built[i]
    BY <1>1, <1>5
  <2>4. [i \in DOMAIN dict |-> dict[i][1]] = [i \in DOMAIN h[o] |-> h[o][i][1]]
    BY <2>1, <2>3
  <2>5. Stands(h, value, Ref(o))
    BY <1>3, <1>5, <2>2, <2>4 DEF Stands
  <2>6. Elements(h, value) = [i \in DOMAIN dict |-> dict[i][2]]
    BY <2>2 DEF Elements
  <2>7. DOMAIN Elements(h, value) = DOMAIN h[o] /\ \A i \in DOMAIN h[o] : Elements(h, value)[i] = f.built[i]
    BY <2>1, <2>3, <2>6
  <2>8. Unfolds(h, value, Ref(o))
    BY <1>1, <2>5, <2>7, ChildOfObject, UnfoldsByElement
  <2> QED BY <2>8 DEF value
<1> QED
  BY <1>4, <1>5

\* What the loop reads next is what the heap holds there.
LEMMA NextElement ==
    ASSUME heap \in Heaps, StackSound(heap, ancestors, stack)
    PROVE  /\ Len(ancestors) \in 1..(MaxDepth + 1) /\ Len(stack) = Len(ancestors)
           /\ Top = stack[Len(ancestors)] /\ Current \in Objects
           /\ FrameSound(heap, Current, Top) /\ Len(Top.keys) = Len(heap[Current])
           /\ Top.at <= Len(Top.keys) =>
                 Upcoming = heap[Current][Top.at][2] /\ Upcoming \in JsValues
<1> DEFINE n == Len(ancestors)
<1>1. /\ n \in 1..(MaxDepth + 1) /\ n \in 1..n /\ Len(stack) = n /\ ancestors \in Seq(Objects)
      /\ Top = stack[n] /\ Current = ancestors[n] /\ FrameSound(heap, ancestors[n], stack[n])
  BY DEF StackSound, Top, Current
<1>2. Current \in Objects /\ FrameSound(heap, Current, Top)
  BY <1>1
<1>3. /\ Len(heap[Current]) \in Nat /\ DOMAIN heap[Current] = 1..Len(heap[Current])
      /\ \A i \in DOMAIN heap[Current] : heap[Current][i][2] \in JsValues
      /\ Current \notin Arrays =>
            \A i, j \in DOMAIN heap[Current] : heap[Current][i][1] = heap[Current][j][1] => i = j
  BY <1>2, HeapFacts
<1>4. Top.keys = [i \in 1..Len(heap[Current]) |->
                    IF Current \in Arrays THEN i ELSE heap[Current][i][1]]
  <2>1. Top.keys = Frame(heap, Current).keys
    BY <1>2 DEF FrameSound
  <2> QED BY <1>3, <2>1 DEF Frame
<1>5. Len(Top.keys) = Len(heap[Current])
  BY <1>3, <1>4
<1>6. ASSUME Top.at <= Len(Top.keys)
      PROVE  Upcoming = heap[Current][Top.at][2] /\ Upcoming \in JsValues
  <2>1. Top.at \in DOMAIN heap[Current]
    BY <1>2, <1>3, <1>5, <1>6 DEF FrameSound
  <2>2. CASE Current \in Arrays
    <3>1. Top.keys[Top.at] = Top.at
      BY <1>3, <1>4, <2>1, <2>2
    <3> QED BY <1>3, <2>1, <2>2, <3>1 DEF Upcoming, Property
  <2>3. CASE Current \notin Arrays
    <3>1. Top.keys[Top.at] = heap[Current][Top.at][1]
      BY <1>3, <1>4, <2>1, <2>3
    <3>2. {i \in DOMAIN heap[Current] : heap[Current][i][1] = Top.keys[Top.at]} = {Top.at}
      BY <1>3, <2>1, <2>3, <3>1
    <3>3. (CHOOSE i \in {Top.at} : TRUE) = Top.at /\ {Top.at} # {}
      OBVIOUS
    <3>4. Upcoming = heap[Current][Top.at][2]
      BY <2>3, <3>2, <3>3 DEF Upcoming, Property
    <3> QED BY <1>3, <2>1, <3>4
  <2> QED BY <2>2, <2>3
<1> QED
  BY <1>1, <1>2, <1>5, <1>6

LEMMA PathsAreNumbers == ASSUME heap \in Heaps PROVE Paths \subseteq Seq(Nat)
<1>1. Width \subseteq Nat
  BY HeapFacts DEF Width
<1>2. ASSUME NEW k \in 0..(MaxDepth + 1), NEW path \in [1..k -> Width] PROVE path \in Seq(Nat)
  <2>1. k \in Nat
    OBVIOUS
  <2>2. path \in [1..k -> Nat]
    BY <1>1, Zenon
  <2> QED BY <2>1, <2>2
<1> QED
  BY <1>2 DEF Paths

\* Where the next element is: the way to it meets the containers being converted.
LEMMA WayToNext ==
    ASSUME heap \in Heaps, StackSound(heap, ancestors, stack), Top.at <= Len(Top.keys)
    PROVE  \E path \in Paths :
              /\ path \in Seq(Nat) /\ Len(path) = Len(ancestors) /\ InHeap(path) = Upcoming
              /\ \A k \in 0..(Len(ancestors) - 1) : InHeap(SubSeq(path, 1, k)) = Ref(ancestors[k + 1])
<1>0. PICK n : n = Len(ancestors)
  OBVIOUS
<1>1. /\ n \in 1..(MaxDepth + 1) /\ n \in Nat /\ Top = stack[n] /\ Current = ancestors[n]
      /\ Top.at <= Len(heap[Current]) /\ Upcoming = heap[Current][Top.at][2]
  BY <1>0, NextElement, ConversionAssumption DEF Current
<1>2. PICK path \in Seq(Nat) : WayTo(heap, ancestors, stack, path)
  <2>1. stack[n].at <= Len(heap[ancestors[n]])
    BY <1>1, Zenon
  <2>2. n \in Nat
    BY <1>1
  <2> QED BY <1>0, <2>1, <2>2, RootPath, Zenon
<1>3. \A k \in 1..n : path[k] \in Width
  <2>1. \A k \in 1..n : ancestors[k] \in Objects
    BY <1>0, <1>1 DEF StackSound
  <2> QED BY <1>0, <1>2, <2>1 DEF WayTo, Width
<1>4. path \in [1..n -> Width]
  BY <1>0, <1>2, <1>3 DEF WayTo
<1>5. path \in Paths
  <2>1. n \in 0..(MaxDepth + 1)
    BY <1>1
  <2> QED BY <1>4, <2>1 DEF Paths
<1> QED
  BY <1>0, <1>1, <1>2, <1>5 DEF WayTo, InHeap

\* What a failure says of the heap.
Explained(why) ==
    \/ why = "unsupported" /\ \E path \in Paths : InHeap(path) = Unsupported
    \/ why = "property access raised" /\ \E path \in Paths : InHeap(path) = Getter
    \/ why = "depth" /\ \E path \in Paths, o \in Objects : Len(path) = MaxDepth + 1 /\ Leads(path, o)
    \/ /\ why = "cycle"
       /\ \E path \in Paths, o \in Objects : \E k \in 0..(Len(path) - 1) :
             Leads(path, o) /\ Leads(SubSeq(path, 1, k), o)

LEMMA ExplainedFailure ==
    ASSUME NEW why, Explained(why), outcome = Failure(why)
    PROVE  outcome # Running /\ ConvertsFaithfully
<1>1. outcome # Running
  <2>1. Failure(why).py = "failure" /\ Running.py = "running"
    BY DEF Failure, Running
  <2> QED BY <2>1
<1>2. \A w : outcome = Failure(w) => w = why
  <2>1. outcome.why = why
    BY DEF Failure
  <2>2. \A w : Failure(w).why = w
    BY DEF Failure
  <2> QED BY <2>1, <2>2
<1>3. CASE why = "unsupported"
  <2>1. \E path \in Paths : InHeap(path) = Unsupported
    BY <1>3 DEF Explained
  <2>2. /\ outcome = Failure("unsupported") /\ outcome # Failure("property access raised")
        /\ outcome # Failure("depth") /\ outcome # Failure("cycle")
    BY <1>2, <1>3
  <2> QED BY <1>1, <2>1, <2>2 DEF ConvertsFaithfully
<1>4. CASE why = "property access raised"
  <2>1. \E path \in Paths : InHeap(path) = Getter
    BY <1>4 DEF Explained
  <2>2. /\ outcome = Failure("property access raised") /\ outcome # Failure("unsupported")
        /\ outcome # Failure("depth") /\ outcome # Failure("cycle")
    BY <1>2, <1>4
  <2> QED BY <1>1, <2>1, <2>2 DEF ConvertsFaithfully
<1>5. CASE why = "depth"
  <2>1. \E path \in Paths, o \in Objects : Len(path) = MaxDepth + 1 /\ Leads(path, o)
    BY <1>5 DEF Explained
  <2>2. /\ outcome = Failure("depth") /\ outcome # Failure("unsupported")
        /\ outcome # Failure("property access raised") /\ outcome # Failure("cycle")
    BY <1>2, <1>5
  <2> QED BY <1>1, <2>1, <2>2 DEF ConvertsFaithfully
<1>6. CASE why = "cycle"
  <2>1. \E path \in Paths, o \in Objects : \E k \in 0..(Len(path) - 1) :
           Leads(path, o) /\ Leads(SubSeq(path, 1, k), o)
    BY <1>6 DEF Explained
  <2>2. /\ outcome = Failure("cycle") /\ outcome # Failure("unsupported")
        /\ outcome # Failure("property access raised") /\ outcome # Failure("depth")
    BY <1>2, <1>6
  <2> QED BY <1>1, <2>1, <2>2 DEF ConvertsFaithfully
<1> QED
  BY <1>3, <1>4, <1>5, <1>6 DEF Explained

LEMMA UnfoldedResult ==
    ASSUME heap \in Heaps, outcome.py \in {"list", "dict"}, Unfolds(heap, outcome, Ref(Root))
    PROVE  outcome # Running /\ ConvertsFaithfully
<1>1. Running.py = "running" /\ \A why : Failure(why).py = "failure"
  BY DEF Running, Failure
<1>2. outcome # Running /\ \A why : outcome # Failure(why)
  BY <1>1
<1>3. \A path \in Paths : Stands(heap, InResult(path), InHeap(path))
  BY PathsAreNumbers DEF Unfolds, InResult, InHeap
<1> QED
  BY <1>2, <1>3 DEF ConvertsFaithfully

LEMMA FailKeepsFaithful ==
    ASSUME NEW why, heap \in Heaps, heap' = heap, runs = 0, runs' = runs, Explained(why), Fail(why)
    PROVE  FaithfulInv'
<1>1. outcome' = Failure(why)
  BY DEF Fail
<1>2. Explained(why)'
  <2>1. Paths' = Paths /\ \A path : InHeap(path)' = InHeap(path)
    BY DEF Paths, Width, InHeap
  <2> QED BY <2>1 DEF Explained, Leads
<1>3. outcome' # Running /\ ConvertsFaithfully'
  <2>1. (Explained(why) /\ outcome = Failure(why) => outcome # Running /\ ConvertsFaithfully)'
    BY ExplainedFailure, PTL
  <2> QED BY <1>1, <1>2, <2>1
<1> QED
  BY <1>3 DEF FaithfulInv

LEMMA RunningKeepsFaithful ==
    ASSUME heap \in Heaps, heap' = heap, runs = 0, runs' = runs, outcome' = Running,
           StackSound(heap, ancestors', stack')
    PROVE  FaithfulInv'
<1>1. ConvertsFaithfully'
  <2>1. \A why : Failure(why).py = "failure" /\ Running.py = "running"
    BY DEF Failure, Running
  <2>2. \A why : outcome' # Failure(why)
    BY <2>1
  <2> QED BY <2>2 DEF ConvertsFaithfully
<1> QED
  BY <1>1 DEF FaithfulInv
LEMMA StartFaithful ==
    ASSUME Init
    PROVE  FaithfulInv
<1>1. heap \in Heaps /\ runs = 0 /\ outcome = Running /\ ancestors = <<Root>>
      /\ stack = <<Frame(heap, Root)>> /\ Root \in Objects /\ 1 \in 1..(MaxDepth + 1)
  BY ConversionAssumption DEF Init
<1>2. FrameSound(heap, Root, Frame(heap, Root))
  BY <1>1, FreshFrame
<1>3. StackSound(heap, <<Root>>, <<Frame(heap, Root)>>)
  <2>1. /\ <<Root>> \in Seq(Objects) /\ <<Frame(heap, Root)>> \in Seq({Frame(heap, Root)})
        /\ Len(<<Root>>) = 1 /\ Len(<<Frame(heap, Root)>>) = 1 /\ <<Root>>[1] = Root
        /\ <<Frame(heap, Root)>>[1] = Frame(heap, Root) /\ 1..1 = {1} /\ 1..(1 - 1) = {}
    BY <1>1
  <2> QED BY <1>1, <1>2, <2>1 DEF StackSound
<1>4. ConvertsFaithfully
  <2>1. \A why : Failure(why).py = "failure" /\ Running.py = "running"
    BY DEF Failure, Running
  <2>2. \A why : outcome # Failure(why)
    BY <1>1, <2>1
  <2> QED BY <1>1, <2>2 DEF ConvertsFaithfully
<1> QED
  BY <1>1, <1>3, <1>4 DEF FaithfulInv

\* The next element is a primitive value, is refused, or is entered.
LEMMA ElementFaithful ==
    ASSUME FaithfulInv, runs = 0, Element
    PROVE  FaithfulInv'
<1>1. /\ heap \in Heaps /\ StackSound(heap, ancestors, stack) /\ outcome = Running
      /\ Top.at <= Len(Top.keys) /\ Upcoming # Getter /\ deep_impl(heap, Upcoming)
      /\ heap' = heap /\ runs' = runs
  BY DEF FaithfulInv, Element, InLoop
<1>2. PICK n \in Nat : n = Len(ancestors) /\ n \in 1..(MaxDepth + 1)
  BY <1>1, NextElement, ConversionAssumption
<1>3. PICK v : v = Upcoming
  OBVIOUS
<1>4. /\ Len(stack) = n /\ v \in JsValues /\ v # Getter
      /\ stack[n].at <= Len(heap[ancestors[n]]) /\ v = heap[ancestors[n]][stack[n].at][2]
  BY <1>1, <1>2, <1>3, NextElement DEF Current
<1>5. PICK path \in Paths :
         /\ path \in Seq(Nat) /\ Len(path) = n /\ InHeap(path) = v
         /\ \A k \in 0..(n - 1) : InHeap(SubSeq(path, 1, k)) = Ref(ancestors[k + 1])
  BY <1>1, <1>2, <1>3, WayToNext
<1>6. CASE IsPrimitive(v)
  <2>1. /\ ancestors' = ancestors /\ outcome' = Running
        /\ stack' = [stack EXCEPT ![n].built = Append(@, try_convert_primitive(v)), ![n].at = @ + 1]
    <3>1. stack # <<>>
      BY <1>2, <1>4
    <3> QED BY <1>1, <1>3, <1>4, <1>6, <3>1 DEF deep_impl, Return
  <2>2. Unfolds(heap, try_convert_primitive(v), v)
    BY <1>4, <1>6, PrimitiveUnfolds
  <2>3. StackSound(heap, ancestors', stack')
    BY <1>1, <1>2, <1>4, <2>1, <2>2, ElementBuilt
  <2> QED BY <1>1, <2>1, <2>3, RunningKeepsFaithful
<1>7. CASE ~IsPrimitive(v) /\ v.js = "unsupported"
  <2>1. Fail("unsupported")
    BY <1>1, <1>3, <1>7 DEF deep_impl
  <2>2. v = Unsupported
    BY <1>4, <1>7 DEF JsValues, Unsupported, Getter
  <2>3. Explained("unsupported")
    BY <1>5, <2>2 DEF Explained
  <2> QED BY <1>1, <2>1, <2>3, FailKeepsFaithful
<1>8. CASE ~IsPrimitive(v) /\ v.js # "unsupported"
  <2>1. v.js = "object" /\ v.object \in Objects /\ v = Ref(v.object)
    <3>1. v.js \notin {"number", "special", "simple", "unsupported"}
      BY <1>8 DEF IsPrimitive
    <3>2. \A u \in [js : {"number"}, halves : Int] \cup [js : {"special", "simple"}, name : STRING] :
             u.js \in {"number", "special", "simple"}
      OBVIOUS
    <3>3. v # Unsupported
      BY <3>1 DEF Unsupported
    <3>4. v \in [js : {"object"}, object : Objects]
      BY <1>4, <3>1, <3>2, <3>3, Zenon DEF JsValues
    <3> QED BY <3>4 DEF Ref
  <2>2. PICK o \in Objects : o = v.object
    BY <2>1
  <2>3. InHeap(path) = Ref(o)
    BY <1>5, <2>1, <2>2
  <2>4. CASE Len(ancestors) > MaxDepth
    <3>1. Fail("depth")
      BY <1>1, <1>3, <1>8, <2>4 DEF deep_impl
    <3>2. n = MaxDepth + 1
      BY <1>2, <2>4, ConversionAssumption
    <3>3. Explained("depth")
      BY <1>5, <2>3, <3>2 DEF Explained, Leads
    <3> QED BY <1>1, <3>1, <3>3, FailKeepsFaithful
  <2>5. CASE ~(Len(ancestors) > MaxDepth) /\ InProgress(o)
    <3>1. Fail("cycle")
      BY <1>1, <1>3, <1>8, <2>2, <2>5 DEF deep_impl
    <3>2. PICK i \in 1..n : ancestors[i] = o
      <4>1. DOMAIN ancestors = 1..n
        BY <1>1, <1>2 DEF StackSound
      <4> QED BY <2>5, <4>1 DEF InProgress
    <3>3. i - 1 \in 0..(n - 1) /\ (i - 1) + 1 = i
      BY <1>2
    <3>4. InHeap(SubSeq(path, 1, i - 1)) = Ref(o)
      BY <1>5, <3>2, <3>3
    <3>5. \E k \in 0..(Len(path) - 1) : Leads(path, o) /\ Leads(SubSeq(path, 1, k), o)
      BY <1>5, <2>3, <3>3, <3>4 DEF Leads
    <3>6. Explained("cycle")
      BY <1>5, <3>5 DEF Explained
    <3> QED BY <1>1, <3>1, <3>6, FailKeepsFaithful
  <2>6. CASE ~(Len(ancestors) > MaxDepth) /\ ~InProgress(o)
    <3>1. Enter(heap, o)
      BY <1>1, <1>3, <1>8, <2>2, <2>6 DEF deep_impl
    <3>2. /\ ancestors' = Append(ancestors, o) /\ stack' = Append(stack, Frame(heap, o))
          /\ outcome' = Running
      BY <1>1, <3>1 DEF Enter
    <3>3. n <= MaxDepth
      BY <1>2, <2>6, ConversionAssumption
    <3>4. StackSound(heap, ancestors', stack')
      BY <1>1, <1>2, <1>4, <2>1, <2>2, <3>2, <3>3, Entered
    <3> QED BY <1>1, <3>2, <3>4, RunningKeepsFaithful
  <2> QED BY <2>4, <2>5, <2>6
<1> QED
  BY <1>6, <1>7, <1>8

LEMMA ThrowFaithful ==
    ASSUME FaithfulInv, runs = 0, GetterThrows
    PROVE  FaithfulInv'
<1>1. /\ heap \in Heaps /\ StackSound(heap, ancestors, stack) /\ Upcoming = Getter
      /\ Top.at <= Len(Top.keys) /\ heap' = heap /\ runs' = runs /\ Fail("property access raised")
  BY DEF FaithfulInv, GetterThrows, InLoop
<1>2. \E path \in Paths : InHeap(path) = Getter
  BY <1>1, WayToNext
<1>3. Explained("property access raised")
  BY <1>2 DEF Explained
<1> QED
  BY <1>1, <1>3, FailKeepsFaithful

\* The container that is complete is the result, or an element of the one around it.
LEMMA ContainerFaithful ==
    ASSUME FaithfulInv, runs = 0, Container
    PROVE  FaithfulInv'
<1>1. /\ heap \in Heaps /\ StackSound(heap, ancestors, stack) /\ outcome = Running
      /\ Top.at > Len(Top.keys) /\ heap' = heap /\ runs' = runs
  BY DEF FaithfulInv, Container
<1>2. PICK n \in Nat : n = Len(ancestors) /\ n \in 1..(MaxDepth + 1)
  BY <1>1, NextElement, ConversionAssumption
<1>3. /\ Len(stack) = n /\ Top = stack[n] /\ Current = ancestors[n] /\ Current \in Objects
      /\ FrameSound(heap, Current, Top) /\ Top.at > Len(heap[Current])
  BY <1>1, <1>2, NextElement DEF Current
<1>4. PICK value : value = IF Current \in Arrays THEN PyList(Top.built)
                           ELSE PyDict([i \in DOMAIN Top.keys |-> <<Top.keys[i], Top.built[i]>>])
  OBVIOUS
<1>5. Unfolds(heap, value, Ref(Current))
  BY <1>1, <1>3, <1>4, ContainerUnfolds
<1>6. value.py \in {"list", "dict"}
  BY <1>4 DEF PyList, PyDict
<1>7. PICK anc, st : anc = SubSeq(ancestors, 1, n - 1) /\ st = SubSeq(stack, 1, n - 1)
  OBVIOUS
<1>8. ancestors' = anc /\ Return(st, value)
  BY <1>2, <1>3, <1>4, <1>7 DEF Container, Front
<1>9. CASE n = 1
  <2>1. Current = Root
    BY <1>1, <1>3, <1>9 DEF StackSound
  <2>2. st = <<>>
    BY <1>7, <1>9
  <2>3. outcome' = value
    BY <1>8, <2>2 DEF Return
  <2>4. outcome' # Running /\ ConvertsFaithfully'
    <3>1. (heap \in Heaps /\ outcome.py \in {"list", "dict"} /\ Unfolds(heap, outcome, Ref(Root))
             => outcome # Running /\ ConvertsFaithfully)'
      BY UnfoldedResult, PTL
    <3> QED BY <1>1, <1>5, <1>6, <2>1, <2>3, <3>1
  <2> QED BY <1>1, <2>4 DEF FaithfulInv
<1>10. CASE n > 1
  <2>1. PICK m \in Nat : m = n - 1
    BY <1>10
  <2>2. /\ StackSound(heap, anc, st) /\ Len(anc) = m /\ Len(st) = m
        /\ st[m].at <= Len(heap[anc[m]]) /\ heap[anc[m]][st[m].at][2] = Ref(Current)
    BY <1>1, <1>2, <1>3, <1>7, <1>10, <2>1, Popped
  <2>3. /\ stack' = [st EXCEPT ![m].built = Append(@, value), ![m].at = @ + 1]
        /\ outcome' = Running
    <3>1. st # <<>>
      BY <1>10, <2>1, <2>2
    <3> QED BY <1>1, <1>8, <2>2, <3>1 DEF Return
  <2>4. StackSound(heap, ancestors', stack')
    BY <1>1, <1>5, <1>8, <2>2, <2>3, ElementBuilt, ZenonT(60)
  <2> QED BY <1>1, <2>3, <2>4, RunningKeepsFaithful
<1> QED
  BY <1>2, <1>9, <1>10

\* For every heap of any size, every limit and every border of the integers: a
\* conversion that met no getter yields the value's unfolding, each place of it
\* standing for that place of the heap, and fails only for the reason it gives.  Whole
\* Numbers beyond the border may stand as floats.
THEOREM ConversionIsFaithful == Spec => []ConvertsFaithfully
<1>1. Init => FaithfulInv
  BY StartFaithful
<1>2. FaithfulInv /\ [Next]_vars => FaithfulInv'
  <2> SUFFICES ASSUME FaithfulInv, [Next]_vars PROVE FaithfulInv'
    OBVIOUS
  <2>1. CASE runs = 0 /\ Element
    BY <2>1, ElementFaithful
  <2>2. CASE runs = 0 /\ GetterThrows
    BY <2>2, ThrowFaithful
  <2>3. CASE runs = 0 /\ Container
    BY <2>3, ContainerFaithful
  <2>4. ASSUME NEW o, NEW properties, NEW answer, GetterReturns(o, properties, answer)
        PROVE  FaithfulInv'
    <3>1. runs' \in Nat /\ runs' # 0
      BY <2>4 DEF GetterReturns, FaithfulInv
    <3> QED BY <3>1 DEF FaithfulInv, ConvertsFaithfully
  <2>5. CASE runs # 0 /\ (Element \/ GetterThrows \/ Container)
    <3>1. runs' = runs /\ runs \in Nat
      BY <2>5 DEF Element, GetterThrows, Container, FaithfulInv
    <3> QED BY <2>5, <3>1 DEF FaithfulInv, ConvertsFaithfully
  <2>6. CASE UNCHANGED vars
    <3>1. /\ heap' = heap /\ ancestors' = ancestors /\ stack' = stack /\ outcome' = outcome
          /\ runs' = runs
      BY <2>6 DEF vars
    <3>2. ConvertsFaithfully' = ConvertsFaithfully
      BY <3>1 DEF ConvertsFaithfully, Leads, InHeap, InResult, Paths, Width
    <3> QED BY <3>1, <3>2 DEF FaithfulInv
  <2> QED BY <2>1, <2>2, <2>3, <2>4, <2>5, <2>6 DEF Next
<1>3. FaithfulInv => ConvertsFaithfully
  BY DEF FaithfulInv, ConvertsFaithfully
<1> QED
  BY <1>1, <1>2, <1>3, PTL DEF Spec

-------------------------------------------------------------------------------
(* Base64: atob undoes btoa, for byte strings of every length.  The        *)
(* invariant says how far the decoder is: after 4j + r characters it has   *)
(* returned 3j and at most two more of the bytes that were encoded, and    *)
(* the bits pending in its buffer are the upper ones of the next byte.     *)

Types ==
    /\ source \in Seq(Bytes)
    /\ encoded = base64_encode(source)
    /\ text \in Seq(Chars) /\ chars \in Seq(Chars)

\* How the decoder stands in the j-th group of four characters.
Pending(j) ==
    \/ /\ at = 4 * j /\ Len(out) = 3 * j
       /\ bits = 0 /\ buf = 0
    \/ /\ at = 4 * j + 1 /\ Len(out) = 3 * j
       /\ bits = 6 /\ buf = Byte(source, 3 * j + 1) \div 4
    \/ /\ at = 4 * j + 2 /\ Len(out) = 3 * j + 1
       /\ bits = 4 /\ buf = Byte(source, 3 * j + 2) \div 16
    \/ /\ at = 4 * j + 3 /\ Len(out) = 3 * j + 2
       /\ bits = 2 /\ buf = Byte(source, 3 * j + 3) \div 64

Prefix ==
    /\ out \in Seq(Bytes) /\ Len(out) <= Len(source)
    /\ \A i \in 1..Len(out) : out[i] = source[i]

Decoding == at <= Carrying(Len(source)) /\ Prefix /\ \E j \in Nat : Pending(j)

Base64Inv ==
    /\ Types
    /\ phase = "strip" => at = 0 /\ buf = 0 /\ bits = 0 /\ out = <<>>
    /\ chars = encoded => /\ phase # "failed"
                          /\ phase = "decode" => Decoding
                          /\ phase = "done" => out = source

-------------------------------------------------------------------------------
(* The encoder *)

\* The four sextets of a group of three bytes.
LEMMA SextetsOfGroup ==
    ASSUME NEW a \in Bytes, NEW b \in Bytes, NEW c \in Bytes,
           NEW x, x = 65536 * a + 256 * b + c
    PROVE  /\ Sextet(x, 0) = a \div 4
           /\ Sextet(x, 1) = (a % 4) * 16 + b \div 16
           /\ Sextet(x, 2) = (b % 16) * 4 + c \div 64
           /\ Sextet(x, 3) = c % 64
<1>0. a \in 0..255 /\ b \in 0..255 /\ c \in 0..255
  BY DEF Bytes
<1>1. PICK ah \in 0..63, al \in 0..3 : a = 4 * ah + al /\ a \div 4 = ah /\ a % 4 = al
  <2>1. a \div 4 \in 0..63 /\ a % 4 \in 0..3 /\ a = 4 * (a \div 4) + (a % 4)
    BY <1>0
  <2> QED
    BY <2>1
<1>2. PICK bh \in 0..15, bl \in 0..15 : b = 16 * bh + bl /\ b \div 16 = bh /\ b % 16 = bl
  <2>1. b \div 16 \in 0..15 /\ b % 16 \in 0..15 /\ b = 16 * (b \div 16) + (b % 16)
    BY <1>0
  <2> QED
    BY <2>1
<1>3. PICK ch \in 0..3, cl \in 0..63 : c = 64 * ch + cl /\ c \div 64 = ch /\ c % 64 = cl
  <2>1. c \div 64 \in 0..3 /\ c % 64 \in 0..63 /\ c = 64 * (c \div 64) + (c % 64)
    BY <1>0
  <2> QED
    BY <2>1
<1>4. x = 262144 * ah + 4096 * (16 * al + bh) + 64 * (4 * bl + ch) + cl
  BY <1>1, <1>2, <1>3
<1>5. x \div 262144 = ah
  <2>1. PICK y \in Nat : y = 4096 * (16 * al + bh) + 64 * (4 * bl + ch) + cl /\ y < 262144
    OBVIOUS
  <2> QED
    BY <1>4, <2>1
<1>6. (x \div 4096) % 64 = 16 * al + bh
  <2>1. x \div 4096 = 64 * ah + (16 * al + bh)
    BY <1>4
  <2>2. 16 * al + bh \in 0..63
    OBVIOUS
  <2> QED
    BY <2>1, <2>2
<1>7. (x \div 64) % 64 = 4 * bl + ch
  <2>1. x \div 64 = 64 * (64 * ah + 16 * al + bh) + (4 * bl + ch)
    BY <1>4
  <2>2. 4 * bl + ch \in 0..63
    OBVIOUS
  <2> QED
    BY <2>1, <2>2
<1>8. x % 64 = cl
  BY <1>4
<1> QED
  BY <1>1, <1>2, <1>3, <1>5, <1>6, <1>7, <1>8 DEF Sextet

\* Shifting the next sextet into the bits pending completes a byte and leaves the
\* upper bits of the one after it.
LEMMA Shifting ==
    ASSUME NEW a \in Bytes, NEW b \in Bytes, NEW c \in Bytes,
           NEW p1, p1 = (a \div 4) * 64 + ((a % 4) * 16 + b \div 16),
           NEW p2, p2 = (b \div 16) * 64 + ((b % 16) * 4 + c \div 64),
           NEW p3, p3 = (c \div 64) * 64 + (c % 64)
    PROVE  /\ (p1 \div 16) % 256 = a /\ p1 % 16 = b \div 16
           /\ (p2 \div 4) % 256 = b /\ p2 % 4 = c \div 64
           /\ (p3 \div 1) % 256 = c /\ p3 % 1 = 0
<1>0. a \in 0..255 /\ b \in 0..255 /\ c \in 0..255
  BY DEF Bytes
<1>1. PICK ah \in 0..63, al \in 0..3 : a = 4 * ah + al /\ a \div 4 = ah /\ a % 4 = al
  <2>1. a \div 4 \in 0..63 /\ a % 4 \in 0..3 /\ a = 4 * (a \div 4) + (a % 4)
    BY <1>0
  <2> QED
    BY <2>1
<1>2. PICK bh \in 0..15, bl \in 0..15 : b = 16 * bh + bl /\ b \div 16 = bh /\ b % 16 = bl
  <2>1. b \div 16 \in 0..15 /\ b % 16 \in 0..15 /\ b = 16 * (b \div 16) + (b % 16)
    BY <1>0
  <2> QED
    BY <2>1
<1>3. PICK ch \in 0..3, cl \in 0..63 : c = 64 * ch + cl /\ c \div 64 = ch /\ c % 64 = cl
  <2>1. c \div 64 \in 0..3 /\ c % 64 \in 0..63 /\ c = 64 * (c \div 64) + (c % 64)
    BY <1>0
  <2> QED
    BY <2>1
<1>4. (p1 \div 16) % 256 = a /\ p1 % 16 = b \div 16
  <2>1. p1 = 16 * a + bh
    BY <1>1, <1>2
  <2>2. p1 \div 16 = a
    BY <1>0, <2>1
  <2> QED
    BY <1>0, <1>2, <2>1, <2>2
<1>5. (p2 \div 4) % 256 = b /\ p2 % 4 = c \div 64
  <2>1. p2 = 4 * b + ch
    BY <1>2, <1>3
  <2>2. p2 \div 4 = b
    BY <1>0, <2>1
  <2> QED
    BY <1>0, <1>3, <2>1, <2>2
<1>6. (p3 \div 1) % 256 = c /\ p3 % 1 = 0
  <2>1. p3 = c
    BY <1>0, <1>3
  <2> QED
    BY <1>0, <2>1
<1> QED
  BY <1>4, <1>5, <1>6

\* A byte beyond the end counts as zero.
LEMMA ByteType ==
    ASSUME NEW b \in Seq(Bytes), NEW i \in Nat \ {0}
    PROVE  Byte(b, i) \in Bytes
<1>1. CASE i <= Len(b)
  <2>1. i \in 1..Len(b)
    BY <1>1
  <2> QED
    BY <1>1, <2>1 DEF Byte
<1>2. CASE ~(i <= Len(b))
  BY <1>2 DEF Byte, Bytes
<1> QED
  BY <1>1, <1>2

\* The characters of one group that carry bits are below the padding.
LEMMA SextetType ==
    ASSUME NEW b \in Seq(Bytes), NEW j \in Nat, NEW k \in 0..3
    PROVE  Sextet(Group(b, j), k) \in 0..63
<1> DEFINE b1 == Byte(b, 3 * j + 1)
           b2 == Byte(b, 3 * j + 2)
           b3 == Byte(b, 3 * j + 3)
<1>1. b1 \in Bytes /\ b2 \in Bytes /\ b3 \in Bytes
  BY ByteType
<1> HIDE DEF b1, b2, b3
<1>2. Group(b, j) = 65536 * b1 + 256 * b2 + b3
  BY DEF Group, b1, b2, b3
<1>3. /\ b1 \div 4 \in 0..63
      /\ (b1 % 4) * 16 + b2 \div 16 \in 0..63
      /\ (b2 % 16) * 4 + b3 \div 64 \in 0..63
      /\ b3 % 64 \in 0..63
  BY <1>1 DEF Bytes
<1>4. /\ Sextet(Group(b, j), 0) \in 0..63 /\ Sextet(Group(b, j), 1) \in 0..63
      /\ Sextet(Group(b, j), 2) \in 0..63 /\ Sextet(Group(b, j), 3) \in 0..63
  BY <1>1, <1>2, <1>3, SextetsOfGroup
<1>5. k = 0 \/ k = 1 \/ k = 2 \/ k = 3
  OBVIOUS
<1> QED
  BY <1>4, <1>5

\* A text is a sequence of four characters for every three bytes begun.
LEMMA EncodedText ==
    ASSUME NEW b \in Seq(Bytes)
    PROVE  /\ base64_encode(b) \in Seq(Chars)
           /\ Len(base64_encode(b)) = 4 * ((Len(b) + 2) \div 3)
           /\ \A j \in Nat, k \in 0..3 : 4 * j + k + 1 <= Carrying(Len(b)) =>
                 base64_encode(b)[4 * j + k + 1] = Sextet(Group(b, j), k)
           /\ \A i \in 1..Len(base64_encode(b)) :
                 base64_encode(b)[i] = Pad <=> i > Carrying(Len(b))
<1> DEFINE e == base64_encode(b)
           n == Len(b)
           m == 4 * ((n + 2) \div 3)
           C(i) == IF i <= Carrying(n) THEN Sextet(Group(b, (i - 1) \div 4), (i - 1) % 4) ELSE Pad
<1>1. e = [i \in 1..m |-> C(i)]
  BY DEF base64_encode
<1>2. n \in Nat /\ m \in Nat /\ Carrying(n) \in Nat /\ Carrying(n) <= m
  BY DEF Carrying
<1>3. ASSUME NEW i \in 1..m
      PROVE  C(i) \in Chars /\ (C(i) = Pad <=> i > Carrying(n))
  <2>1. (i - 1) \div 4 \in Nat /\ (i - 1) % 4 \in 0..3
    BY <1>2
  <2>2. Sextet(Group(b, (i - 1) \div 4), (i - 1) % 4) \in 0..63
    BY <2>1, SextetType
  <2>3. CASE i <= Carrying(n)
    <3>1. PICK v \in 0..63 : C(i) = v
      BY <2>2, <2>3
    <3>2. v \in Chars /\ v # Pad /\ ~(i > Carrying(n))
      BY <1>2, <2>3 DEF Chars, Pad
    <3> HIDE DEF C
    <3> QED
      BY <3>1, <3>2
  <2>4. CASE ~(i <= Carrying(n))
    BY <1>2, <2>4 DEF Chars, Pad
  <2> QED
    BY <2>3, <2>4
<1>4. ASSUME NEW j \in Nat, NEW k \in 0..3, 4 * j + k + 1 <= Carrying(n)
      PROVE  C(4 * j + k + 1) = Sextet(Group(b, j), k)
  <2>1. (4 * j + k + 1 - 1) \div 4 = j /\ (4 * j + k + 1 - 1) % 4 = k
    OBVIOUS
  <2> QED
    BY <1>4, <2>1
<1> HIDE DEF C
<1>5. e \in Seq(Chars) /\ Len(e) = m
  BY <1>1, <1>2, <1>3
<1> QED
  BY <1>1, <1>2, <1>3, <1>4, <1>5

\* Taking the padding off leaves the characters that carry bits.
LEMMA SignificantOfEncoded ==
    ASSUME NEW b \in Seq(Bytes)
    PROVE  LET s == Unpadded(base64_encode(b)) IN
           /\ Len(s) = Carrying(Len(b)) /\ Len(s) % 4 # 1
           /\ \A j \in Nat, k \in 0..3 : 4 * j + k + 1 <= Len(s) =>
                 s[4 * j + k + 1] = Sextet(Group(b, j), k)
<1> DEFINE e == base64_encode(b)
           n == Len(b)
           s == Unpadded(e)
<1> HIDE DEF e
<1>1. /\ e \in Seq(Chars) /\ Len(e) = 4 * ((n + 2) \div 3)
      /\ \A j \in Nat, k \in 0..3 : 4 * j + k + 1 <= Carrying(n) =>
            e[4 * j + k + 1] = Sextet(Group(b, j), k)
      /\ \A i \in 1..Len(e) : e[i] = Pad <=> i > Carrying(n)
  BY EncodedText DEF e
<1>2. PICK q \in Nat, r \in 0..2 : n = 3 * q + r
  <2>1. n \in Nat /\ n \div 3 \in Nat /\ n % 3 \in 0..2 /\ n = 3 * (n \div 3) + (n % 3)
    OBVIOUS
  <2> QED
    BY <2>1
<1>3. /\ r = 0 => Len(e) = 4 * q /\ Carrying(n) = 4 * q
      /\ r = 1 => Len(e) = 4 * q + 4 /\ Carrying(n) = 4 * q + 2
      /\ r = 2 => Len(e) = 4 * q + 4 /\ Carrying(n) = 4 * q + 3
  BY <1>1, <1>2 DEF Carrying
<1>4. s = SubSeq(e, 1, Carrying(n))
  <2>1. CASE r = 0
    <3>1. s = e
      BY <1>1, <1>3, <2>1 DEF Unpadded
    <3> QED
      BY <1>1, <1>3, <2>1, <3>1
  <2>2. CASE r = 1
    <3>1. Len(e) % 4 = 0 /\ Len(e) # 0 /\ e[Len(e)] = Pad /\ e[Len(e) - 1] = Pad
      BY <1>1, <1>3, <2>2
    <3> QED
      BY <1>3, <2>2, <3>1 DEF Unpadded
  <2>3. CASE r = 2
    <3>1. Len(e) % 4 = 0 /\ Len(e) # 0 /\ e[Len(e)] = Pad /\ e[Len(e) - 1] # Pad
      BY <1>1, <1>3, <2>3
    <3> QED
      BY <1>3, <2>3, <3>1 DEF Unpadded
  <2> QED
    BY <2>1, <2>2, <2>3
<1>5. Carrying(n) \in 0..Len(e) /\ Carrying(n) % 4 # 1
  BY <1>2, <1>3
<1>6. Len(s) = Carrying(n) /\ \A i \in 1..Carrying(n) : s[i] = e[i]
  BY <1>1, <1>4, <1>5
<1> HIDE DEF s
<1>7. ASSUME NEW j \in Nat, NEW k \in 0..3, 4 * j + k + 1 <= Len(s)
      PROVE  s[4 * j + k + 1] = Sextet(Group(b, j), k)
  <2>1. 4 * j + k + 1 \in 1..Carrying(n)
    BY <1>6, <1>7
  <2>2. e[4 * j + k + 1] = Sextet(Group(b, j), k)
    BY <1>1, <1>6, <1>7
  <2> QED
    BY <1>6, <2>1, <2>2
<1> QED
  BY <1>5, <1>6, <1>7 DEF s, e

-------------------------------------------------------------------------------
(* The decoder *)

\* Before any call nothing has been encoded and nothing decoded.
THEOREM Base64Initial == Base64Init => Base64Inv
<1> SUFFICES ASSUME Base64Init PROVE Base64Inv
  OBVIOUS
<1>1. source \in Seq(Bytes) /\ text \in Seq(Chars) /\ chars \in Seq(Chars)
  BY DEF Base64Init
<1>2. encoded = base64_encode(source)
  <2>1. base64_encode(<<>>) = <<>>
    <3>1. <<>> \in Seq(Bytes) /\ Len(<<>>) = 0
      OBVIOUS
    <3>2. base64_encode(<<>>) \in Seq(Chars) /\ Len(base64_encode(<<>>)) = 4 * ((0 + 2) \div 3)
      BY <3>1, EncodedText
    <3>3. Len(base64_encode(<<>>)) = 0
      BY <3>2
    <3> QED
      BY <3>2, <3>3
  <2> QED
    BY <2>1 DEF Base64Init
<1> QED
  BY <1>1, <1>2 DEF Base64Inv, Types, Base64Init

\* What Pending says when one more character, of value v, has been shifted in.
LEMMA DecodeStep ==
    ASSUME Types, chars = encoded, phase = "decode", Decoding, Decode
    PROVE  phase' = "decode" /\ Decoding'
<1> DEFINE n == Len(source)
           v == Significant[at + 1]
           pushed == buf * 64 + v
<1>1. source \in Seq(Bytes) /\ n \in Nat
  BY DEF Types
<1>2. /\ Len(Significant) = Carrying(n)
      /\ \A j \in Nat, k \in 0..3 : 4 * j + k + 1 <= Len(Significant) =>
            Significant[4 * j + k + 1] = Sextet(Group(source, j), k)
  BY <1>1, SignificantOfEncoded DEF Types, Significant
<1>3. PICK j \in Nat : Pending(j)
  BY DEF Decoding
<1>4. PICK a \in Bytes, b \in Bytes, c \in Bytes :
         a = Byte(source, 3 * j + 1) /\ b = Byte(source, 3 * j + 2) /\ c = Byte(source, 3 * j + 3)
  BY <1>1, ByteType
<1>5. /\ Sextet(Group(source, j), 0) = a \div 4
      /\ Sextet(Group(source, j), 1) = (a % 4) * 16 + b \div 16
      /\ Sextet(Group(source, j), 2) = (b % 16) * 4 + c \div 64
      /\ Sextet(Group(source, j), 3) = c % 64
  <2>1. Group(source, j) = 65536 * a + 256 * b + c
    BY <1>4 DEF Group
  <2> QED
    BY <2>1, SextetsOfGroup
<1>6. at \in Nat /\ at + 1 <= Carrying(n) /\ 3 * (at + 1) <= 4 * n + 2
  <2>1. at \in Nat
    BY <1>3 DEF Pending
  <2>2. at < Carrying(n) /\ Carrying(n) \in Nat
    BY <1>1, <1>2 DEF Decode, Carrying
  <2>3. 3 * Carrying(n) <= 4 * n + 2
    BY <1>1 DEF Carrying
  <2> QED
    BY <1>1, <2>1, <2>2, <2>3
<1>7. Prefix
  BY DEF Decoding
<1>8. UNCHANGED <<source, encoded, chars>>
  BY DEF Decode
<1>9. v \in 0..63 =>
         /\ at' = at + 1 /\ phase' = "decode"
         /\ bits + 6 >= 8 => /\ bits' = bits - 2 /\ buf' = pushed % Power(bits - 2)
                             /\ out' = Append(out, (pushed \div Power(bits - 2)) % 256)
         /\ ~(bits + 6 >= 8) => bits' = bits + 6 /\ buf' = pushed /\ out' = out
  <2>1. /\ phase = "decode"
        /\ IF v > 63
           THEN phase' = "failed" /\ UNCHANGED <<at, buf, bits, out>>
           ELSE /\ at' = at + 1
                /\ UNCHANGED phase
                /\ IF bits + 6 >= 8
                   THEN /\ bits' = bits - 2
                        /\ out' = Append(out, (pushed \div Power(bits - 2)) % 256)
                        /\ buf' = pushed % Power(bits - 2)
                   ELSE bits' = bits + 6 /\ buf' = pushed /\ UNCHANGED out
    BY DEF Decode
  <2>2. v \in 0..63 => ~(v > 63)
    OBVIOUS
  <2> HIDE DEF v, pushed
  <2> QED
    BY <2>1, <2>2, Zenon
<1>10. \A k \in 0..3 : at = 4 * j + k => v = Sextet(Group(source, j), k) /\ v \in 0..63
  BY <1>1, <1>2, <1>6, SextetType, ZenonT(60)
<1> HIDE DEF v
\* A step that takes the byte x out.
<1>11. ASSUME NEW x \in Bytes, out' = Append(out, x), Len(out) + 1 <= n, x = source[Len(out) + 1]
      PROVE  Prefix'
  <2>1. out' \in Seq(Bytes) /\ Len(out') = Len(out) + 1
    BY <1>7, <1>11 DEF Prefix
  <2>2. ASSUME NEW i \in 1..Len(out') PROVE out'[i] = source[i]
    <3>1. CASE i = Len(out) + 1
      BY <1>7, <1>11, <3>1 DEF Prefix
    <3>2. CASE i # Len(out) + 1
      <4>1. i \in 1..Len(out)
        BY <1>7, <2>1, <3>2 DEF Prefix
      <4> QED
        BY <1>7, <1>11, <4>1 DEF Prefix
    <3> QED
      BY <3>1, <3>2
  <2> QED
    BY <1>8, <1>11, <2>1, <2>2 DEF Prefix
<1>12. \A i : Byte(source', i) = Byte(source, i)
  BY <1>8
<1>13. CASE at = 4 * j /\ Len(out) = 3 * j /\ bits = 0 /\ buf = 0
  <2>0. at = 4 * j + 0
    BY <1>13
  <2>1. v = a \div 4 /\ v \in 0..63
    BY <1>5, <1>10, <2>0
  <2>2. pushed = v
    BY <1>13, <2>1
  <2>3. at' = 4 * j + 1 /\ bits' = 6 /\ buf' = a \div 4 /\ out' = out /\ phase' = "decode"
    BY <1>13, <1>9, <2>1, <2>2
  <2>4. Pending(j)'
    BY <1>4, <1>8, <1>12, <1>13, <2>3 DEF Pending
  <2> QED
    BY <1>6, <1>7, <1>8, <1>13, <2>3, <2>4 DEF Decoding, Prefix
<1>14. CASE at = 4 * j + 1 /\ Len(out) = 3 * j /\ bits = 6 /\ buf = a \div 4
  <2>1. v = (a % 4) * 16 + b \div 16 /\ v \in 0..63
    BY <1>5, <1>10, <1>14
  <2>2. (pushed \div 16) % 256 = a /\ pushed % 16 = b \div 16
    BY <1>14, <2>1, Shifting
  <2> HIDE DEF pushed
  <2>3. bits + 6 >= 8 /\ Power(bits - 2) = 16
    BY <1>14 DEF Power
  <2>4. /\ at' = 4 * j + 2 /\ bits' = 4 /\ buf' = b \div 16
        /\ out' = Append(out, a) /\ phase' = "decode"
    BY <1>9, <1>14, <2>1, <2>2, <2>3
  <2>5. 3 * j + 1 <= n /\ source[3 * j + 1] = a
    BY <1>1, <1>4, <1>6, <1>14 DEF Byte
  <2>6. Prefix' /\ Len(out') = 3 * j + 1
    BY <1>7, <1>11, <1>14, <2>4, <2>5 DEF Prefix
  <2>7. Pending(j)'
    BY <1>4, <1>8, <1>12, <2>4, <2>6 DEF Pending
  <2> QED
    BY <1>6, <1>8, <1>14, <2>4, <2>6, <2>7 DEF Decoding
<1>15. CASE at = 4 * j + 2 /\ Len(out) = 3 * j + 1 /\ bits = 4 /\ buf = b \div 16
  <2>1. v = (b % 16) * 4 + c \div 64 /\ v \in 0..63
    BY <1>5, <1>10, <1>15
  <2>2. (pushed \div 4) % 256 = b /\ pushed % 4 = c \div 64
    BY <1>15, <2>1, Shifting
  <2> HIDE DEF pushed
  <2>3. bits + 6 >= 8 /\ Power(bits - 2) = 4
    BY <1>15 DEF Power
  <2>4. /\ at' = 4 * j + 3 /\ bits' = 2 /\ buf' = c \div 64
        /\ out' = Append(out, b) /\ phase' = "decode"
    BY <1>9, <1>15, <2>1, <2>2, <2>3
  <2>5. 3 * j + 2 <= n /\ source[3 * j + 2] = b
    BY <1>1, <1>4, <1>6, <1>15 DEF Byte
  <2>6. Prefix' /\ Len(out') = 3 * j + 2
    BY <1>7, <1>11, <1>15, <2>4, <2>5 DEF Prefix
  <2>7. Pending(j)'
    BY <1>4, <1>8, <1>12, <2>4, <2>6 DEF Pending
  <2> QED
    BY <1>6, <1>8, <1>15, <2>4, <2>6, <2>7 DEF Decoding
<1>16. CASE at = 4 * j + 3 /\ Len(out) = 3 * j + 2 /\ bits = 2 /\ buf = c \div 64
  <2>1. v = c % 64 /\ v \in 0..63
    BY <1>5, <1>10, <1>16
  <2>2. (pushed \div 1) % 256 = c /\ pushed % 1 = 0
    BY <1>16, <2>1, Shifting
  <2> HIDE DEF pushed
  <2>3. bits + 6 >= 8 /\ Power(bits - 2) = 1
    BY <1>16 DEF Power
  <2>4. /\ at' = 4 * j + 4 /\ bits' = 0 /\ buf' = 0
        /\ out' = Append(out, c) /\ phase' = "decode"
    BY <1>9, <1>16, <2>1, <2>2, <2>3
  <2>5. 3 * j + 3 <= n /\ source[3 * j + 3] = c
    BY <1>1, <1>4, <1>6, <1>16 DEF Byte
  <2>6. Prefix' /\ Len(out') = 3 * j + 3
    <3>1. Len(out) + 1 = 3 * j + 3 /\ out \in Seq(Bytes)
      BY <1>7, <1>16 DEF Prefix
    <3>2. Prefix'
      BY <1>11, <2>4, <2>5, <3>1
    <3> QED
      BY <2>4, <3>1, <3>2
  <2>7. Pending(j + 1)'
    BY <2>4, <2>6 DEF Pending
  <2> QED
    BY <1>6, <1>8, <1>16, <2>4, <2>6, <2>7 DEF Decoding
<1> QED
  BY <1>3, <1>4, <1>13, <1>14, <1>15, <1>16 DEF Pending

\* When the last character is decoded every byte has been returned.
LEMMA AllReturned ==
    ASSUME Types, Decoding, at = Carrying(Len(source))
    PROVE  out = source
<1>1. PICK j \in Nat : Pending(j)
  BY DEF Decoding
<1>2. source \in Seq(Bytes) /\ out \in Seq(Bytes) /\ Len(source) \in Nat
  BY DEF Types, Decoding, Prefix
<1>3. Len(out) = Len(source)
  BY <1>1, <1>2 DEF Pending, Carrying
<1> QED
  BY <1>2, <1>3 DEF Decoding, Prefix

\* The texts are sequences of characters, and encoded is what source encodes to.
LEMMA StepTypes ==
    ASSUME Types, Base64Next
    PROVE  Types'
<1> USE DEF Types
<1>1. ASSUME NEW units \in Binaries, btoa(units) PROVE Types'
  <2>1. units \in Seq(Nat)
    BY Base64Assumption
  <2>2. units \in Seq(Bytes)
    <3>1. ASSUME NEW i \in 1..Len(units) PROVE units[i] \in Bytes
      <4>1. PICK u \in Nat : u = units[i]
        BY <2>1
      <4>2. u <= 255
        BY <1>1, <2>1, <4>1 DEF btoa
      <4>3. u \in Bytes
        BY <4>2 DEF Bytes
      <4> QED
        BY <4>1, <4>3
    <3> QED
      BY <2>1, <3>1, SMTT(40)
  <2> QED
    BY <1>1, <2>2 DEF btoa, AtobForgotten
<1>2. ASSUME NEW units \in Binaries, BtoaThrows(units) PROVE Types'
  BY <1>2 DEF BtoaThrows, AtobForgotten
<1>3. ASSUME NEW t \in Texts \cup Returned, atob(t) PROVE Types'
  <2>1. encoded \in Seq(Chars)
    BY EncodedText
  <2>2. ASSUME NEW i \in 0..Len(encoded)
        PROVE  SubSeq(encoded, 1, i) \o <<Space>> \o SubSeq(encoded, i + 1, Len(encoded)) \in Seq(Chars)
    <3>1. SubSeq(encoded, 1, i) \in Seq(Chars)
      BY <2>1
    <3>2. SubSeq(encoded, i + 1, Len(encoded)) \in Seq(Chars)
      BY <2>1
    <3>3. <<Space>> \in Seq(Chars)
      BY DEF Space, Chars
    <3> QED
      BY <3>1, <3>2, <3>3
  <2>3. t \in Seq(Chars)
    BY <2>1, <2>2, Base64Assumption DEF Returned
  <2> QED
    BY <1>3, <2>3 DEF atob
<1>4. CASE Keep
  <2>1. Head(text) \in Chars /\ Tail(text) \in Seq(Chars)
    BY <1>4 DEF Keep
  <2> QED
    BY <1>4, <2>1 DEF Keep
<1>5. CASE DropSpace
  BY <1>5 DEF DropSpace
<1>6. CASE EndStrip \/ EndDecode
  BY <1>6 DEF EndStrip, EndDecode, atobVars
<1>7. CASE Decode
  BY <1>7 DEF Decode
<1> QED
  BY <1>1, <1>2, <1>3, <1>4, <1>5, <1>6, <1>7 DEF Base64Next

\* The invariant is inductive.
THEOREM Base64Step == Base64Inv /\ [Base64Next]_base64Vars => Base64Inv'
<1> SUFFICES ASSUME Base64Inv, [Base64Next]_base64Vars PROVE Base64Inv'
  OBVIOUS
<1>1. CASE UNCHANGED base64Vars
  BY <1>1 DEF base64Vars, Base64Inv, Types, Decoding, Prefix, Pending, Byte
<1>2. CASE Base64Next
  <2>1. Types /\ Types'
    BY <1>2, StepTypes DEF Base64Inv
  <2>2. ASSUME NEW units \in Binaries, btoa(units) \/ BtoaThrows(units) PROVE Base64Inv'
    BY <2>1, <2>2 DEF Base64Inv, btoa, BtoaThrows
  <2>3. ASSUME NEW t \in Texts \cup Returned, atob(t) PROVE Base64Inv'
    BY <2>1, <2>3 DEF Base64Inv, atob
  <2>4. CASE Keep \/ DropSpace
    BY <2>1, <2>4 DEF Base64Inv, Keep, DropSpace
  <2>5. CASE EndStrip
    <3>1. chars = encoded => Len(Significant) % 4 # 1
      BY <2>1, SignificantOfEncoded DEF Types, Significant
    <3>2. chars' = encoded' => phase' = "decode"
      BY <2>5, <3>1 DEF EndStrip, atobVars
    <3>3. Decoding'
      <4>1. at' = 0 /\ buf' = 0 /\ bits' = 0 /\ out' = <<>> /\ source' = source
        BY <2>5 DEF EndStrip, atobVars, Base64Inv
      <4>2. Pending(0)'
        BY <4>1 DEF Pending
      <4>3. Prefix' /\ 0 <= Carrying(Len(source))
        BY <2>1, <4>1 DEF Prefix, Types, Carrying
      <4> QED
        BY <4>1, <4>2, <4>3 DEF Decoding
    <3>4. phase' # "strip" /\ phase' # "done"
      BY <2>5 DEF EndStrip
    <3> QED
      BY <2>1, <3>2, <3>3, <3>4 DEF Base64Inv
  <2>6. CASE Decode
    <3>1. CASE chars = encoded
      <4>1. phase' = "decode" /\ Decoding'
        BY <2>1, <2>6, <3>1, DecodeStep DEF Base64Inv, Decode
      <4> QED
        BY <2>1, <4>1 DEF Base64Inv
    <3>2. CASE chars # encoded
      BY <2>1, <2>6, <3>2 DEF Base64Inv, Decode
    <3> QED
      BY <3>1, <3>2
  <2>7. CASE EndDecode
    <3>1. ASSUME chars = encoded PROVE out' = source'
      <4>1. Decoding /\ at = Carrying(Len(source))
        BY <2>1, <2>7, <3>1, SignificantOfEncoded DEF Base64Inv, EndDecode, Significant, Types
      <4> QED
        BY <2>1, <2>7, <4>1, AllReturned DEF EndDecode, atobVars
    <3> QED
      BY <2>1, <2>7, <3>1 DEF Base64Inv, EndDecode, atobVars
  <2> QED
    BY <1>2, <2>2, <2>3, <2>4, <2>5, <2>6, <2>7 DEF Base64Next
<1> QED
  BY <1>1, <1>2

\* Whatever byte string btoa encoded, of whatever length, atob gives it back, and never
\* fails on what btoa returned.
THEOREM AtobUndoesBtoa == Base64Spec => []RoundTrip
<1>1. Base64Inv => RoundTrip
  BY DEF Base64Inv, RoundTrip
<1> QED
  BY <1>1, Base64Initial, Base64Step, PTL DEF Base64Spec
-------------------------------------------------------------------------------
(* URLs: an absolute URL is its origin followed by the rest, and the cut   *)
(* is where the first "/", "?" or "#" after the "//" stands.  What is      *)
(* merged with a base keeps the base up to the cut.                        *)

Enders == {"/", "?", "#"}

\* The origin of s ends with its n-th symbol.
Boundary(s, n) ==
    /\ n \in 4..Len(s)
    /\ \A j \in 5..n : s[j] \notin Enders
    /\ n = Len(s) \/ s[n + 1] \in Enders

(* Cutting sequences. *)

LEMMA SameSequence ==
    ASSUME NEW S, NEW s \in Seq(S), NEW t \in Seq(S), NEW n \in Nat,
           Len(s) = n, Len(t) = n, \A i \in 1..n : s[i] = t[i]
    PROVE  s = t
BY SeqEqual

LEMMA CutFacts ==
    ASSUME NEW S, NEW s \in Seq(S), NEW a \in 1..(Len(s) + 1), NEW b \in (a - 1)..Len(s)
    PROVE  /\ SubSeq(s, a, b) \in Seq(S)
           /\ Len(SubSeq(s, a, b)) = b - a + 1
           /\ \A i \in 1..(b - a + 1) : SubSeq(s, a, b)[i] = s[i + a - 1]
<1>1. a \in Int /\ b \in Int /\ Len(s) \in Nat /\ \A i \in a..b : s[i] \in S
  OBVIOUS
<1>2. /\ SubSeq(s, a, b) \in Seq(S)
      /\ Len(SubSeq(s, a, b)) = IF a <= b THEN b - a + 1 ELSE 0
      /\ \A i \in 1..(b - a + 1) : SubSeq(s, a, b)[i] = s[a + i - 1]
  BY <1>1, SubSeqProperties
<1>3. \A i \in 1..(b - a + 1) : a + i - 1 = i + a - 1
  BY <1>1
<1>4. (IF a <= b THEN b - a + 1 ELSE 0) = b - a + 1
  BY <1>1
<1> QED
  BY <1>2, <1>3, <1>4

LEMMA CutOfTail ==
    ASSUME NEW S, NEW s \in Seq(S), NEW k \in 0..Len(s), NEW r, r = SubSeq(s, k + 1, Len(s)),
           NEW a \in 1..(Len(r) + 1), NEW b \in (a - 1)..Len(r),
           NEW x, NEW y, x = a + k, y = b + k
    PROVE  SubSeq(r, a, b) = SubSeq(s, x, y)
<1>1. /\ r \in Seq(S) /\ Len(r) = Len(s) - k /\ Len(s) \in Nat
      /\ \A i \in 1..(Len(s) - k) : r[i] = s[i + k]
  <2>1. k + 1 \in 1..(Len(s) + 1) /\ Len(s) \in ((k + 1) - 1)..Len(s) /\ Len(s) \in Nat
    OBVIOUS
  <2>2. /\ r \in Seq(S) /\ Len(r) = Len(s) - (k + 1) + 1
        /\ \A i \in 1..(Len(s) - (k + 1) + 1) : r[i] = s[i + (k + 1) - 1]
    BY <2>1, CutFacts
  <2>3. \A i \in 1..(Len(s) - k) : i + (k + 1) - 1 = i + k
    BY <2>1
  <2>4. Len(s) - (k + 1) + 1 = Len(s) - k
    BY <2>1
  <2> QED BY <2>1, <2>2, <2>3, <2>4
<1>2. /\ SubSeq(r, a, b) \in Seq(S) /\ Len(SubSeq(r, a, b)) = b - a + 1
      /\ \A i \in 1..(b - a + 1) : SubSeq(r, a, b)[i] = r[i + a - 1]
  BY <1>1, CutFacts
<1>3. x \in 1..(Len(s) + 1) /\ y \in (x - 1)..Len(s) /\ y - x + 1 = b - a + 1 /\ b - a + 1 \in Nat
  BY <1>1
<1>4. /\ SubSeq(s, x, y) \in Seq(S) /\ Len(SubSeq(s, x, y)) = b - a + 1
      /\ \A i \in 1..(b - a + 1) : SubSeq(s, x, y)[i] = s[i + x - 1]
  <2>1. /\ SubSeq(s, x, y) \in Seq(S) /\ Len(SubSeq(s, x, y)) = y - x + 1
        /\ \A i \in 1..(y - x + 1) : SubSeq(s, x, y)[i] = s[i + x - 1]
    <3>1. x \in 1..(Len(s) + 1) /\ y \in (x - 1)..Len(s)
      BY <1>3
    <3>2. \A c \in 1..(Len(s) + 1) : \A d \in (c - 1)..Len(s) :
            /\ SubSeq(s, c, d) \in Seq(S) /\ Len(SubSeq(s, c, d)) = d - c + 1
            /\ \A i \in 1..(d - c + 1) : SubSeq(s, c, d)[i] = s[i + c - 1]
      BY CutFacts
    <3> QED BY <3>1, <3>2
  <2>2. y - x + 1 = b - a + 1
    BY <1>3
  <2> QED BY <2>1, <2>2
<1>5. ASSUME NEW i \in 1..(b - a + 1) PROVE r[i + a - 1] = s[i + x - 1]
  <2>1. i + a - 1 \in 1..(Len(s) - k) /\ (i + a - 1) + k = i + x - 1
    BY <1>1, <1>3
  <2>2. r[i + a - 1] = s[(i + a - 1) + k]
    BY <1>1, <2>1
  <2> QED BY <2>1, <2>2
<1>6. \A i \in 1..(b - a + 1) : SubSeq(r, a, b)[i] = SubSeq(s, x, y)[i]
  BY <1>2, <1>4, <1>5
<1> QED
  BY <1>2, <1>3, <1>4, <1>6, SameSequence

LEMMA Adjoin ==
    ASSUME NEW S, NEW s \in Seq(S), NEW a \in 1..(Len(s) + 1), NEW k \in (a - 1)..Len(s),
           NEW m, m = k + 1, NEW n \in k..Len(s)
    PROVE  SubSeq(s, a, k) \o SubSeq(s, m, n) = SubSeq(s, a, n)
BY ConcatAdjacentSubSeq

\* FirstOf is where the search that the code makes with find_first_of ends.
LEMMA FirstOfFacts ==
    ASSUME NEW s \in Seq(Symbols), NEW from \in 1..(Len(s) + 1), NEW S,
           NEW k, k = FirstOf(s, from, S)
    PROVE  /\ k \in from..(Len(s) + 1)
           /\ \A j \in from..(k - 1) : s[j] \notin S
           /\ k <= Len(s) => s[k] \in S
<1> DEFINE C == {j \in from..Len(s) : s[j] \in S} \cup {IF from > Len(s) THEN from ELSE Len(s) + 1}
<1>1. C \in SUBSET Nat /\ Len(s) + 1 \in C
  OBVIOUS
<1>2. k \in C /\ (\A y \in C : k <= y) /\ k \in Nat
  <2>1. \E x \in C : \A y \in C : x <= y
    <3> HIDE DEF C
    <3>1. PICK x \in C : \A y \in C : ~(y < x)
      BY <1>1, LeastOf
    <3>2. \A y \in C : x \in Nat /\ y \in Nat
      BY <1>1
    <3> QED BY <3>1, <3>2
  <2>2. k = CHOOSE x \in C : \A y \in C : x =< y
    BY DEF FirstOf, Min
  <2> HIDE DEF C
  <2> QED BY <1>1, <2>1, <2>2
<1>3. k \in from..(Len(s) + 1)
  BY <1>2
<1>4. ASSUME NEW j \in from..(k - 1) PROVE s[j] \notin S
  BY <1>2, <1>3
<1>5. k <= Len(s) => s[k] \in S
  BY <1>2, <1>3
<1> QED
  BY <1>3, <1>4, <1>5

LEMMA BoundaryUnique ==
    ASSUME NEW s \in Seq(Symbols), NEW n, NEW m, Boundary(s, n), Boundary(s, m)
    PROVE  n = m
<1>1. n \in 4..Len(s) /\ m \in 4..Len(s) /\ Len(s) \in Nat
  BY DEF Boundary
<1>2. ~(n < m)
  <2> SUFFICES ASSUME n < m PROVE FALSE
    OBVIOUS
  <2>1. n + 1 \in 5..m /\ n # Len(s)
    BY <1>1
  <2> QED BY <2>1 DEF Boundary
<1>3. ~(m < n)
  <2> SUFFICES ASSUME m < n PROVE FALSE
    OBVIOUS
  <2>1. m + 1 \in 5..n /\ m # Len(s)
    BY <1>1
  <2> QED BY <2>1 DEF Boundary
<1> QED
  BY <1>1, <1>2, <1>3

\* How decompose_url cuts an absolute URL.
LEMMA Cuts ==
    ASSUME NEW s \in Seq(Symbols), url_is_absolute(s)
    PROVE  \E n, q, h \in Nat :
              LET d == decompose_url(s) IN
              /\ Boundary(s, n) /\ n < q /\ q <= h /\ h <= Len(s) + 1
              /\ n + 1 = q \/ s[n + 1] = "/"
              /\ q = h \/ s[q] = "?"
              /\ d.protocol = SubSeq(s, 1, 2)
              /\ d.origin = SubSeq(s, 1, n)
              /\ d.origin = d.protocol \o <<"/", "/">> \o d.host
              /\ d.pathname = SubSeq(s, n + 1, q - 1)
              /\ d.search = SubSeq(s, q, h - 1)
              /\ d.hash = SubSeq(s, h, Len(s))
              /\ d.href = s
<1> DEFINE colon == FirstOf(s, 1, {":"})
           protocol == IF colon <= Len(s) THEN SubSeq(s, 1, colon) ELSE <<>>
           rest == SubSeq(s, Len(protocol) + 1, Len(s))
           authority == IsPrefix(<<"/", "/">>, rest)
           path == IF authority THEN FirstOf(rest, 3, {"/", "?", "#"}) ELSE 1
           host == IF authority THEN SubSeq(rest, 3, path - 1) ELSE <<>>
           hash == FirstOf(rest, path, {"#"})
           query == FirstOf(SubSeq(rest, 1, hash - 1), path, {"?"})
           d == decompose_url(s)
<1>1. /\ d.href = s
      /\ d.protocol = protocol
      /\ d.host = host
      /\ d.origin = IF authority THEN protocol \o <<"/", "/">> \o host ELSE <<>>
      /\ d.pathname = SubSeq(rest, path, query - 1)
      /\ d.search = SubSeq(rest, query, hash - 1)
      /\ d.hash = SubSeq(rest, hash, Len(rest))
  BY DEF decompose_url
<1>2. /\ Len(s) \in Nat /\ Len(s) >= 4
      /\ s[1] # ":" /\ s[2] = ":" /\ s[3] = "/" /\ s[4] = "/"
  <2>1. Len(s) >= 4 /\ s[1] \in SchemeWords /\ SubSeq(s, 2, 4) = <<":", "/", "/">>
    BY DEF url_is_absolute
  <2>2. /\ s[2] = SubSeq(s, 2, 4)[1] /\ s[3] = SubSeq(s, 2, 4)[2] /\ s[4] = SubSeq(s, 2, 4)[3]
    <3>1. 2 \in 1..(Len(s) + 1) /\ 4 \in (2 - 1)..Len(s)
      BY <2>1
    <3>2. \A i \in 1..(4 - 2 + 1) : SubSeq(s, 2, 4)[i] = s[i + 2 - 1]
      BY <3>1, CutFacts
    <3> QED BY <3>2
  <2>3. s[2] = ":" /\ s[3] = "/" /\ s[4] = "/"
    <3>1. PICK w : w = SubSeq(s, 2, 4)
      OBVIOUS
    <3>2. w = <<":", "/", "/">> /\ s[2] = w[1] /\ s[3] = w[2] /\ s[4] = w[3]
      BY <2>1, <2>2, <3>1
    <3> QED BY <3>2
  <2>4. s[1] # ":"
    BY <2>1, UrlAssumption DEF Delimiters
  <2>5. Len(s) \in Nat /\ Len(s) >= 4
    BY <2>1
  <2> QED BY <2>3, <2>4, <2>5
<1>3. colon = 2
  <2> HIDE DEF d
  <2>1. /\ colon \in 1..(Len(s) + 1)
        /\ \A j \in 1..(colon - 1) : s[j] \notin {":"}
        /\ colon <= Len(s) => s[colon] \in {":"}
    <3>1. 1 \in 1..(Len(s) + 1)
      BY <1>2
    <3> QED BY <3>1, FirstOfFacts
  <2> HIDE DEF colon
  <2>2. ~(colon > 2)
    BY <1>2, <2>1
  <2>3. colon # 1
    BY <1>2, <2>1
  <2> QED BY <1>2, <2>1, <2>2, <2>3
<1>4. protocol = SubSeq(s, 1, 2) /\ protocol \in Seq(Symbols) /\ Len(protocol) = 2
  <2>1. protocol = SubSeq(s, 1, 2)
    BY <1>2, <1>3
  <2>2. SubSeq(s, 1, 2) \in Seq(Symbols) /\ Len(SubSeq(s, 1, 2)) = 2
    BY <1>2, CutFacts
  <2> QED BY <2>1, <2>2
<1> HIDE DEF colon, protocol
<1>5. /\ rest = SubSeq(s, 3, Len(s)) /\ rest \in Seq(Symbols) /\ Len(rest) = Len(s) - 2
      /\ \A i \in 1..(Len(s) - 2) : rest[i] = s[i + 2]
  <2>1. rest = SubSeq(s, 3, Len(s))
    BY <1>4
  <2>2. 3 \in 1..(Len(s) + 1) /\ Len(s) \in (3 - 1)..Len(s)
    BY <1>2
  <2> HIDE DEF rest
  <2>3. /\ rest \in Seq(Symbols) /\ Len(rest) = Len(s) - 3 + 1
        /\ \A i \in 1..(Len(s) - 3 + 1) : rest[i] = s[i + 3 - 1]
    BY <2>1, <2>2, CutFacts
  <2> QED BY <1>2, <2>1, <2>3
<1> HIDE DEF d, rest
<1>6. authority
  <2>1. Len(<<"/", "/">>) = 2 /\ SubSeq(<<"/", "/">>, 1, 2) = <<"/", "/">>
    <3>1. <<"/", "/">> \in Seq({"/"}) /\ Len(<<"/", "/">>) = 2
      OBVIOUS
    <3> QED BY <3>1, SubSeqFull
  <2>2. SubSeq(rest, 1, 2) = <<"/", "/">>
    <3>1. rest[1] = "/" /\ rest[2] = "/"
      <4>1. 1 \in 1..(Len(s) - 2) /\ 2 \in 1..(Len(s) - 2) /\ 1 + 2 = 3 /\ 2 + 2 = 4
        BY <1>2
      <4>2. rest[1] = s[1 + 2] /\ rest[2] = s[2 + 2]
        BY <1>5, <4>1
      <4> QED BY <1>2, <4>1, <4>2
    <3>2. 1 \in 1..(Len(rest) + 1) /\ 2 \in (1 - 1)..Len(rest)
      BY <1>2, <1>5
    <3>3. /\ SubSeq(rest, 1, 2) \in Seq(Symbols) /\ Len(SubSeq(rest, 1, 2)) = 2 - 1 + 1
          /\ \A i \in 1..(2 - 1 + 1) : SubSeq(rest, 1, 2)[i] = rest[i + 1 - 1]
      BY <1>5, <3>2, CutFacts
    <3>4. <<"/", "/">> \in Seq(Symbols) /\ Len(<<"/", "/">>) = 2
      BY UrlAssumption DEF Delimiters
    <3>5. \A i \in 1..2 : SubSeq(rest, 1, 2)[i] = <<"/", "/">>[i]
      BY <3>1, <3>3
    <3>6. 2 \in Nat /\ 2 - 1 + 1 = 2
      OBVIOUS
    <3> QED BY <3>3, <3>4, <3>5, <3>6, SameSequence, ZenonT(40)
  <2>3. 2 <= Len(rest)
    BY <1>2, <1>5
  <2> QED BY <2>1, <2>2, <2>3 DEF IsPrefix
<1>7. path = FirstOf(rest, 3, {"/", "?", "#"}) /\ host = SubSeq(rest, 3, path - 1)
  BY <1>6
<1> HIDE DEF authority, path, host
<1>8. /\ path \in 3..(Len(rest) + 1)
      /\ \A j \in 3..(path - 1) : rest[j] \notin {"/", "?", "#"}
      /\ path <= Len(rest) => rest[path] \in {"/", "?", "#"}
  <2>1. 3 \in 1..(Len(rest) + 1)
    BY <1>2, <1>5
  <2>2. path = FirstOf(rest, 3, Enders)
    BY <1>7 DEF Enders
  <2>3. /\ path \in 3..(Len(rest) + 1)
        /\ \A j \in 3..(path - 1) : rest[j] \notin Enders
        /\ path <= Len(rest) => rest[path] \in Enders
    <3>1. PICK from \in 1..(Len(rest) + 1) : from = 3
      BY <2>1
    <3>2. path = FirstOf(rest, from, Enders) /\ rest \in Seq(Symbols)
      BY <2>2, <3>1, <1>5
    <3>3. /\ path \in from..(Len(rest) + 1)
          /\ \A j \in from..(path - 1) : rest[j] \notin Enders
          /\ path <= Len(rest) => rest[path] \in Enders
      BY <3>2, FirstOfFacts
    <3> QED BY <3>1, <3>3
  <2> QED BY <2>3 DEF Enders
<1>9. /\ hash \in path..(Len(rest) + 1)
      /\ \A j \in path..(hash - 1) : rest[j] \notin {"#"}
      /\ hash <= Len(rest) => rest[hash] \in {"#"}
  <2>1. path \in 1..(Len(rest) + 1) /\ hash = FirstOf(rest, path, {"#"})
    BY <1>5, <1>8
  <2> HIDE DEF hash
  <2> QED BY <2>1, <1>5, FirstOfFacts, ZenonT(60)
<1> HIDE DEF hash
<1>10. /\ SubSeq(rest, 1, hash - 1) \in Seq(Symbols) /\ Len(SubSeq(rest, 1, hash - 1)) = hash - 1
       /\ \A i \in 1..(hash - 1) : SubSeq(rest, 1, hash - 1)[i] = rest[i]
  <2>1. /\ 1 \in 1..(Len(rest) + 1) /\ hash - 1 \in (1 - 1)..Len(rest)
        /\ (hash - 1) - 1 + 1 = hash - 1 /\ \A i \in 1..(hash - 1) : i + 1 - 1 = i
    BY <1>5, <1>8, <1>9
  <2>2. /\ SubSeq(rest, 1, hash - 1) \in Seq(Symbols)
        /\ Len(SubSeq(rest, 1, hash - 1)) = (hash - 1) - 1 + 1
        /\ \A i \in 1..((hash - 1) - 1 + 1) : SubSeq(rest, 1, hash - 1)[i] = rest[i + 1 - 1]
    BY <1>5, <2>1, CutFacts
  <2> QED BY <2>1, <2>2
<1>11. /\ query \in path..hash
       /\ \A j \in path..(query - 1) : rest[j] \notin {"?"}
       /\ query < hash => rest[query] \in {"?"}
  <2> DEFINE cut == SubSeq(rest, 1, hash - 1)
  <2>1. path \in 1..(Len(cut) + 1) /\ Len(cut) + 1 = hash
    BY <1>5, <1>8, <1>9, <1>10
  <2>2. /\ query \in path..hash
        /\ \A j \in path..(query - 1) : cut[j] \notin {"?"}
        /\ query <= Len(cut) => cut[query] \in {"?"}
    <3>1. cut \in Seq(Symbols) /\ query = FirstOf(cut, path, {"?"})
      BY <1>10
    <3> HIDE DEF cut, query
    <3> QED BY <2>1, <3>1, FirstOfFacts
  <2>3. \A i \in 1..(hash - 1) : cut[i] = rest[i]
    BY <1>10
  <2> HIDE DEF cut, query
  <2>4. Len(cut) = hash - 1 /\ path \in Nat \ {0} /\ hash \in Nat /\ query \in Nat
    BY <1>8, <1>9, <2>1, <2>2
  <2>5. ASSUME NEW j \in path..(query - 1) PROVE rest[j] \notin {"?"}
    BY <2>2, <2>3, <2>4
  <2>6. query < hash => rest[query] \in {"?"}
    BY <2>2, <2>3, <2>4
  <2> QED BY <2>2, <2>5, <2>6
<1> HIDE DEF query
<1>12. Boundary(s, path + 1)
  <2>1. path + 1 \in 4..Len(s)
    BY <1>2, <1>5, <1>8
  <2>2. ASSUME NEW j \in 5..(path + 1) PROVE s[j] \notin Enders
    <3>1. j - 2 \in 3..(path - 1) /\ j - 2 \in 1..Len(rest)
      BY <1>2, <1>5, <1>8
    <3>2. rest[j - 2] = s[j]
      BY <1>5, <3>1
    <3> QED BY <1>8, <3>1, <3>2 DEF Enders
  <2>3. path + 1 = Len(s) \/ s[path + 2] \in Enders
    BY <1>2, <1>5, <1>8 DEF Enders
  <2> QED BY <2>1, <2>2, <2>3, <1>2, <1>5, <1>8 DEF Boundary
<1>13. protocol \o <<"/", "/">> \o host = SubSeq(s, 1, path + 1)
  <2>1. <<"/", "/">> = SubSeq(s, 3, 4)
    BY <1>2
  <2>2. host = SubSeq(s, 5, path + 1)
    <3>1. /\ 2 \in 0..Len(s) /\ rest = SubSeq(s, 2 + 1, Len(s))
          /\ 3 \in 1..(Len(rest) + 1) /\ path - 1 \in (3 - 1)..Len(rest)
          /\ 5 = 3 + 2 /\ path + 1 = (path - 1) + 2
      BY <1>2, <1>5, <1>8
    <3>2. SubSeq(rest, 3, path - 1) = SubSeq(s, 5, path + 1)
      BY <3>1, CutOfTail
    <3> QED BY <3>2, <1>7
  <2>3. SubSeq(s, 1, 2) \o SubSeq(s, 3, 4) = SubSeq(s, 1, 4)
    <3>1. 1 \in 1..(Len(s) + 1) /\ 2 \in (1 - 1)..Len(s) /\ 3 = 2 + 1 /\ 4 \in 2..Len(s)
      BY <1>2
    <3> QED BY <3>1, Adjoin
  <2>4. SubSeq(s, 1, 4) \o SubSeq(s, 5, path + 1) = SubSeq(s, 1, path + 1)
    <3>1. 1 \in 1..(Len(s) + 1) /\ 4 \in (1 - 1)..Len(s) /\ 5 = 4 + 1 /\ path + 1 \in 4..Len(s)
      BY <1>2, <1>5, <1>8
    <3> QED BY <3>1, Adjoin
  <2> QED BY <1>4, <2>1, <2>2, <2>3, <2>4
<1>14. 2 \in 0..Len(s) /\ rest = SubSeq(s, 2 + 1, Len(s))
  BY <1>2, <1>5
<1>15. /\ d.pathname = SubSeq(s, path + 2, query + 1)
       /\ d.search = SubSeq(s, query + 2, hash + 1)
       /\ d.hash = SubSeq(s, hash + 2, Len(s))
  <2>1. SubSeq(rest, path, query - 1) = SubSeq(s, path + 2, query + 1)
    <3>1. path \in 1..(Len(rest) + 1) /\ query - 1 \in (path - 1)..Len(rest) /\ query + 1 = (query - 1) + 2
      BY <1>5, <1>8, <1>9, <1>11
    <3> QED BY <1>14, <3>1, CutOfTail
  <2>2. SubSeq(rest, query, hash - 1) = SubSeq(s, query + 2, hash + 1)
    <3>1. query \in 1..(Len(rest) + 1) /\ hash - 1 \in (query - 1)..Len(rest) /\ hash + 1 = (hash - 1) + 2
      BY <1>5, <1>8, <1>9, <1>11
    <3> QED BY <1>14, <3>1, CutOfTail
  <2>3. SubSeq(rest, hash, Len(rest)) = SubSeq(s, hash + 2, Len(s))
    <3>1. hash \in 1..(Len(rest) + 1) /\ Len(rest) \in (hash - 1)..Len(rest) /\ Len(s) = Len(rest) + 2
      BY <1>2, <1>5, <1>8, <1>9
    <3> QED BY <1>14, <3>1, CutOfTail
  <2> QED BY <2>1, <2>2, <2>3, <1>1
<1>16. path = query \/ s[path + 2] = "/"
  <2> SUFFICES ASSUME path < query PROVE rest[path] = "/" /\ path \in 1..Len(rest)
    BY <1>5, <1>8, <1>11
  <2>1. path \in path..(query - 1) /\ path \in path..(hash - 1) /\ path \in 1..Len(rest)
    BY <1>5, <1>8, <1>9, <1>11
  <2> QED BY <2>1, <1>8, <1>9, <1>11
<1>17. query = hash \/ s[query + 2] = "?"
  <2> SUFFICES ASSUME query < hash PROVE rest[query] = "?" /\ query \in 1..Len(rest)
    BY <1>5, <1>8, <1>9, <1>11
  <2> QED BY <1>5, <1>8, <1>9, <1>11
<1>18. PICK n, q, h \in Nat : n = path + 1 /\ q = query + 2 /\ h = hash + 2
  BY <1>8, <1>9, <1>11
<1>19. n < q /\ q <= h /\ h <= Len(s) + 1
  BY <1>2, <1>5, <1>8, <1>9, <1>11, <1>18
<1>20. d.origin = SubSeq(s, 1, n) /\ d.origin = d.protocol \o <<"/", "/">> \o d.host
  BY <1>1, <1>6, <1>13, <1>18
<1>21. /\ d.pathname = SubSeq(s, n + 1, q - 1) /\ d.search = SubSeq(s, q, h - 1)
       /\ d.hash = SubSeq(s, h, Len(s))
  <2>1. path + 2 = n + 1 /\ query + 1 = q - 1 /\ query + 2 = q /\ hash + 1 = h - 1 /\ hash + 2 = h
    BY <1>8, <1>9, <1>11, <1>18
  <2> QED BY <1>15, <2>1
<1>22. n + 1 = q \/ s[n + 1] = "/"
  BY <1>16, <1>18, <1>8, <1>11
<1>23. q = h \/ s[q] = "?"
  BY <1>17, <1>18
<1>24. Boundary(s, n) /\ d.protocol = SubSeq(s, 1, 2) /\ d.href = s
  BY <1>1, <1>4, <1>12, <1>18
<1> QED
  BY <1>18, <1>19, <1>20, <1>21, <1>22, <1>23, <1>24 DEF d

\* The parts of an absolute URL, put together, are the URL.
LEMMA PartsMakeWhole ==
    ASSUME NEW s \in Seq(Symbols), url_is_absolute(s), NEW d, d = decompose_url(s)
    PROVE  /\ d.origin \in Seq(Symbols) /\ d.pathname \in Seq(Symbols)
           /\ d.search \in Seq(Symbols) /\ d.hash \in Seq(Symbols)
           /\ d.href = s
           /\ s = d.origin \o d.pathname \o d.search \o d.hash
<1>1. PICK n, q, h \in Nat :
          /\ Boundary(s, n) /\ n < q /\ q <= h /\ h <= Len(s) + 1
          /\ d.origin = SubSeq(s, 1, n)
          /\ d.pathname = SubSeq(s, n + 1, q - 1)
          /\ d.search = SubSeq(s, q, h - 1)
          /\ d.hash = SubSeq(s, h, Len(s))
          /\ d.href = s
  BY Cuts
<1>2. Len(s) \in Nat /\ n \in 4..Len(s)
  BY <1>1 DEF Boundary
<1>3. SubSeq(s, 1, n) \in Seq(Symbols)
  <2>1. 1 \in 1..(Len(s) + 1) /\ n \in (1 - 1)..Len(s)
    BY <1>2
  <2> QED BY <2>1, CutFacts
<1>4. SubSeq(s, n + 1, q - 1) \in Seq(Symbols)
  <2>1. n + 1 \in 1..(Len(s) + 1) /\ q - 1 \in ((n + 1) - 1)..Len(s)
    BY <1>1, <1>2
  <2> QED BY <2>1, CutFacts
<1>5. SubSeq(s, q, h - 1) \in Seq(Symbols)
  <2>1. q \in 1..(Len(s) + 1) /\ h - 1 \in (q - 1)..Len(s)
    BY <1>1, <1>2
  <2> QED BY <2>1, CutFacts
<1>6. SubSeq(s, h, Len(s)) \in Seq(Symbols)
  <2>1. h \in 1..(Len(s) + 1) /\ Len(s) \in (h - 1)..Len(s)
    BY <1>1, <1>2
  <2> QED BY <2>1, CutFacts
<1>7. SubSeq(s, 1, n) \o SubSeq(s, n + 1, q - 1) = SubSeq(s, 1, q - 1)
  <2>1. 1 \in 1..(Len(s) + 1) /\ n \in (1 - 1)..Len(s) /\ q - 1 \in n..Len(s)
    BY <1>1, <1>2
  <2> QED BY <2>1, Adjoin
<1>8. SubSeq(s, 1, q - 1) \o SubSeq(s, q, h - 1) = SubSeq(s, 1, h - 1)
  <2>1. /\ 1 \in 1..(Len(s) + 1) /\ q - 1 \in (1 - 1)..Len(s) /\ q = (q - 1) + 1
        /\ h - 1 \in (q - 1)..Len(s)
    BY <1>1, <1>2
  <2> QED BY <2>1, Adjoin
<1>9. SubSeq(s, 1, h - 1) \o SubSeq(s, h, Len(s)) = s
  <2>1. /\ 1 \in 1..(Len(s) + 1) /\ h - 1 \in (1 - 1)..Len(s) /\ h = (h - 1) + 1
        /\ Len(s) \in (h - 1)..Len(s)
    BY <1>1, <1>2
  <2>2. SubSeq(s, 1, h - 1) \o SubSeq(s, h, Len(s)) = SubSeq(s, 1, Len(s))
    BY <2>1, Adjoin
  <2> QED BY <2>2, SubSeqFull
<1> QED
  BY <1>1, <1>3, <1>4, <1>5, <1>6, <1>7, <1>8, <1>9, Zenon

\* A URL that begins like s up to the end of s's origin, and not beyond, has that origin.
LEMMA SameOrigin ==
    ASSUME NEW s \in Seq(Symbols), url_is_absolute(s), NEW n, Boundary(s, n),
           NEW t \in Seq(Symbols), n <= Len(t), \A i \in 1..n : t[i] = s[i],
           n = Len(t) \/ t[n + 1] \in Enders
    PROVE  url_is_absolute(t) /\ decompose_url(t).origin = SubSeq(s, 1, n)
<1>1. Len(s) \in Nat /\ n \in 4..Len(s) /\ n \in Nat /\ Len(t) \in Nat
  BY DEF Boundary
<1>2. Boundary(t, n)
  <2>1. n \in 4..Len(t)
    BY <1>1
  <2>2. ASSUME NEW j \in 5..n PROVE t[j] \notin Enders
    <3>1. j \in 1..n
      BY <1>1
    <3>2. s[j] \notin Enders
      BY DEF Boundary
    <3> QED BY <3>1, <3>2
  <2> QED BY <2>1, <2>2 DEF Boundary
<1>3. url_is_absolute(t)
  <2>1. t[1] = s[1] /\ Len(t) >= 4
    BY <1>1
  <2>2. SubSeq(t, 2, 4) = SubSeq(s, 2, 4)
    <3>1. 2 \in 1..(Len(s) + 1) /\ 4 \in (2 - 1)..Len(s) /\ 2 \in 1..(Len(t) + 1) /\ 4 \in (2 - 1)..Len(t)
      BY <1>1
    <3>2. /\ SubSeq(s, 2, 4) \in Seq(Symbols) /\ Len(SubSeq(s, 2, 4)) = 4 - 2 + 1
          /\ \A i \in 1..(4 - 2 + 1) : SubSeq(s, 2, 4)[i] = s[i + 2 - 1]
      BY <3>1, CutFacts
    <3>3. /\ SubSeq(t, 2, 4) \in Seq(Symbols) /\ Len(SubSeq(t, 2, 4)) = 4 - 2 + 1
          /\ \A i \in 1..(4 - 2 + 1) : SubSeq(t, 2, 4)[i] = t[i + 2 - 1]
      BY <3>1, CutFacts
    <3>4. \A i \in 1..(4 - 2 + 1) : i + 2 - 1 \in 1..n
      BY <1>1
    <3>5. \A i \in 1..(4 - 2 + 1) : SubSeq(t, 2, 4)[i] = SubSeq(s, 2, 4)[i]
      BY <3>2, <3>3, <3>4
    <3>6. 4 - 2 + 1 \in Nat
      OBVIOUS
    <3> QED BY <3>2, <3>3, <3>5, <3>6, SameSequence, Zenon
  <2> QED BY <2>1, <2>2 DEF url_is_absolute
<1>4. PICK m \in Nat : Boundary(t, m) /\ decompose_url(t).origin = SubSeq(t, 1, m)
  BY <1>3, Cuts, ZenonT(60)
<1>5. m = n
  BY <1>2, <1>4, BoundaryUnique
<1>6. SubSeq(t, 1, n) = SubSeq(s, 1, n)
  <2>1. /\ 1 \in 1..(Len(t) + 1) /\ n \in (1 - 1)..Len(t)
        /\ 1 \in 1..(Len(s) + 1) /\ n \in (1 - 1)..Len(s)
        /\ n - 1 + 1 = n /\ \A i \in 1..n : i + 1 - 1 = i
    BY <1>1
  <2>2. /\ SubSeq(t, 1, n) \in Seq(Symbols) /\ Len(SubSeq(t, 1, n)) = n - 1 + 1
        /\ \A i \in 1..(n - 1 + 1) : SubSeq(t, 1, n)[i] = t[i + 1 - 1]
    BY <2>1, CutFacts
  <2>3. /\ SubSeq(s, 1, n) \in Seq(Symbols) /\ Len(SubSeq(s, 1, n)) = n - 1 + 1
        /\ \A i \in 1..(n - 1 + 1) : SubSeq(s, 1, n)[i] = s[i + 1 - 1]
    BY <2>1, CutFacts
  <2>4. \A i \in 1..n : SubSeq(t, 1, n)[i] = SubSeq(s, 1, n)[i]
    BY <2>1, <2>2, <2>3
  <2> QED BY <1>1, <2>1, <2>2, <2>3, <2>4, SameSequence
<1> QED
  BY <1>3, <1>4, <1>5, <1>6

\* What follows an origin and begins with an ender leaves the origin as it was.
LEMMA OriginKept ==
    ASSUME NEW s \in Seq(Symbols), url_is_absolute(s), NEW u \in Seq(Symbols),
           u = <<>> \/ u[1] \in Enders
    PROVE  LET o == decompose_url(s).origin IN
           /\ o \o u \in Seq(Symbols) /\ url_is_absolute(o \o u)
           /\ decompose_url(o \o u).origin = o
<1>1. PICK n \in Nat : Boundary(s, n) /\ decompose_url(s).origin = SubSeq(s, 1, n)
  BY Cuts, ZenonT(60)
<1>2. Len(s) \in Nat /\ n \in 4..Len(s) /\ Len(u) \in Nat
  BY <1>1 DEF Boundary
<1>3. PICK o \in Seq(Symbols) : o = SubSeq(s, 1, n) /\ Len(o) = n /\ \A i \in 1..n : o[i] = s[i]
  <2>1. 1 \in 1..(Len(s) + 1) /\ n \in (1 - 1)..Len(s) /\ n - 1 + 1 = n /\ \A i \in 1..n : i + 1 - 1 = i
    BY <1>2
  <2>2. /\ SubSeq(s, 1, n) \in Seq(Symbols) /\ Len(SubSeq(s, 1, n)) = n - 1 + 1
        /\ \A i \in 1..(n - 1 + 1) : SubSeq(s, 1, n)[i] = s[i + 1 - 1]
    BY <2>1, CutFacts
  <2> QED BY <2>1, <2>2
<1>4. PICK t \in Seq(Symbols) :
         /\ t = o \o u /\ Len(t) = n + Len(u)
         /\ \A i \in 1..(n + Len(u)) : t[i] = IF i <= n THEN o[i] ELSE u[i - n]
  <2>1. /\ o \o u \in Seq(Symbols) /\ Len(o \o u) = Len(o) + Len(u)
        /\ \A i \in 1..(Len(o) + Len(u)) : (o \o u)[i] = IF i <= Len(o) THEN o[i] ELSE u[i - Len(o)]
    BY ConcatProperties
  <2>2. Len(o) = n
    BY <1>3
  <2>3. /\ o \o u \in Seq(Symbols) /\ Len(o \o u) = n + Len(u)
        /\ \A i \in 1..(n + Len(u)) : (o \o u)[i] = IF i <= n THEN o[i] ELSE u[i - n]
    BY <2>1, <2>2, Zenon
  <2> QED BY <2>3, Zenon
<1>5. n <= Len(t) /\ \A i \in 1..n : t[i] = s[i]
  BY <1>2, <1>3, <1>4
<1>6. n = Len(t) \/ t[n + 1] \in Enders
  <2>1. CASE u = <<>>
    BY <1>2, <1>4, <2>1
  <2>2. CASE u # <<>>
    <3>1. Len(u) # 0
      BY <2>2
    <3>2. n + 1 \in 1..(n + Len(u)) /\ ~(n + 1 <= n) /\ n + 1 - n = 1
      BY <1>2, <3>1
    <3>3. t[n + 1] = u[1]
      BY <1>4, <3>2
    <3> QED BY <2>2, <3>3
  <2> QED BY <2>1, <2>2
<1>7. url_is_absolute(t) /\ decompose_url(t).origin = SubSeq(s, 1, n)
  BY <1>1, <1>5, <1>6, SameOrigin
<1> QED
  BY <1>1, <1>3, <1>4, <1>7

StartsAtEnder(u) == u = <<>> \/ u[1] \in Enders

LEMMA ConcatStarts ==
    ASSUME NEW u \in Seq(Symbols), NEW v \in Seq(Symbols),
           StartsAtEnder(u), u = <<>> => StartsAtEnder(v)
    PROVE  u \o v \in Seq(Symbols) /\ StartsAtEnder(u \o v)
<1>1. /\ u \o v \in Seq(Symbols)
      /\ \A i \in 1..(Len(u) + Len(v)) : (u \o v)[i] = IF i <= Len(u) THEN u[i] ELSE v[i - Len(u)]
  BY ConcatProperties
<1>2. CASE u = <<>>
  <2>1. u \o v = v
    BY <1>2, ConcatEmptySeq
  <2> QED BY <1>1, <2>1
<1>3. CASE u # <<>>
  <2>1. Len(u) \in Nat \ {0} /\ Len(v) \in Nat
    BY <1>3
  <2>2. (u \o v)[1] = u[1]
    BY <1>1, <2>1
  <2> QED BY <1>1, <1>3, <2>2 DEF StartsAtEnder
<1> QED
  BY <1>2, <1>3

\* The fields of an absolute URL that a relative reference keeps.
LEMMA KeptParts ==
    ASSUME NEW s \in Seq(Symbols), url_is_absolute(s), NEW b, b = decompose_url(s)
    PROVE  /\ b.protocol = SubSeq(s, 1, 2)
           /\ b.origin = b.protocol \o <<"/", "/">> \o b.host
           /\ b.pathname \in Seq(Symbols) /\ (b.pathname = <<>> \/ b.pathname[1] = "/")
           /\ b.search \in Seq(Symbols) /\ (b.search = <<>> \/ b.search[1] = "?")
<1>0. \E n, q, h \in Nat :
          LET d == decompose_url(s) IN
          /\ Boundary(s, n) /\ n < q /\ q <= h /\ h <= Len(s) + 1
          /\ n + 1 = q \/ s[n + 1] = "/"
          /\ q = h \/ s[q] = "?"
          /\ d.protocol = SubSeq(s, 1, 2)
          /\ d.origin = SubSeq(s, 1, n)
          /\ d.origin = d.protocol \o <<"/", "/">> \o d.host
          /\ d.pathname = SubSeq(s, n + 1, q - 1)
          /\ d.search = SubSeq(s, q, h - 1)
          /\ d.hash = SubSeq(s, h, Len(s))
          /\ d.href = s
  BY Cuts, Zenon
<1>1. PICK n, q, h \in Nat :
          /\ Boundary(s, n) /\ n < q /\ q <= h /\ h <= Len(s) + 1
          /\ n + 1 = q \/ s[n + 1] = "/"
          /\ q = h \/ s[q] = "?"
          /\ b.protocol = SubSeq(s, 1, 2)
          /\ b.origin = b.protocol \o <<"/", "/">> \o b.host
          /\ b.pathname = SubSeq(s, n + 1, q - 1)
          /\ b.search = SubSeq(s, q, h - 1)
  BY <1>0, Zenon
<1>2. Len(s) \in Nat /\ n \in 4..Len(s)
  BY <1>1 DEF Boundary
<1>3. ASSUME NEW a \in 1..(Len(s) + 1), NEW c \in a..(Len(s) + 1), NEW x, a = c \/ s[a] = x,
             NEW y, y = c - 1
      PROVE  SubSeq(s, a, y) \in Seq(Symbols) /\ (SubSeq(s, a, y) = <<>> \/ SubSeq(s, a, y)[1] = x)
  <2>1. y \in (a - 1)..Len(s)
    BY <1>2, <1>3
  <2>2. /\ SubSeq(s, a, y) \in Seq(Symbols) /\ Len(SubSeq(s, a, y)) = y - a + 1
        /\ \A i \in 1..(y - a + 1) : SubSeq(s, a, y)[i] = s[i + a - 1]
    BY <2>1, CutFacts
  <2>3. CASE a = c
    <3>1. y - a + 1 = 0
      BY <1>3, <2>3
    <3>2. SubSeq(s, a, y) = <<>>
      BY <2>2, <3>1
    <3> QED BY <2>2, <3>2
  <2>4. CASE a # c
    <3>1. 1 \in 1..(y - a + 1) /\ 1 + a - 1 = a
      BY <1>2, <1>3, <2>4
    <3>2. SubSeq(s, a, y)[1] = s[a]
      BY <2>2, <3>1
    <3> QED BY <1>3, <2>2, <2>4, <3>2
  <2> QED BY <2>3, <2>4
<1>4. b.pathname \in Seq(Symbols) /\ (b.pathname = <<>> \/ b.pathname[1] = "/")
  <2>1. n + 1 \in 1..(Len(s) + 1) /\ q \in (n + 1)..(Len(s) + 1)
    BY <1>1, <1>2
  <2> QED BY <1>1, <1>3, <2>1, SMTT(40)
<1>5. b.search \in Seq(Symbols) /\ (b.search = <<>> \/ b.search[1] = "?")
  <2>1. q \in 1..(Len(s) + 1) /\ h \in q..(Len(s) + 1)
    BY <1>1, <1>2
  <2> QED BY <1>1, <1>3, <2>1, SMTT(40)
<1> QED
  BY <1>1, <1>4, <1>5

\* The directory of a path that is empty or rooted is rooted.
LEMMA DirectoryRooted ==
    ASSUME NEW path \in Seq(Symbols), path = <<>> \/ path[1] = "/"
    PROVE  Directory(path) \in Seq(Symbols) /\ Directory(path) # <<>> /\ Directory(path)[1] = "/"
<1> DEFINE slashes == {j \in DOMAIN path : path[j] = "/"}
<1>1. CASE slashes = {}
  <2>1. Directory(path) = <<"/">> /\ "/" \in Symbols
    BY <1>1, UrlAssumption DEF Directory, Delimiters
  <2> QED BY <2>1
<1>2. CASE slashes # {}
  <2>1. slashes \subseteq 1..Len(path) /\ Len(path) \in Nat /\ 1 \in slashes
    BY <1>2
  <2>2. \E x \in slashes : \A y \in slashes : x >= y
    <3> HIDE DEF slashes
    <3> DEFINE Rest == {Len(path) - j : j \in slashes}
    <3>1. Rest \in SUBSET Nat /\ Rest # {}
      BY <1>2, <2>1
    <3>2. PICK m \in Rest : \A k \in Rest : ~(k < m)
      <4> HIDE DEF Rest
      <4> QED BY <3>1, LeastOf
    <3>3. PICK x \in slashes : m = Len(path) - x
      BY <3>2
    <3>4. ASSUME NEW y \in slashes PROVE x >= y
      <4>1. Len(path) - y \in Rest
        OBVIOUS
      <4>2. ~(Len(path) - y < Len(path) - x) /\ x \in Nat /\ y \in Nat
        BY <2>1, <3>2, <3>3, <4>1
      <4> QED BY <2>1, <4>2
    <3> QED BY <3>4
  <2>3. PICK m \in slashes : m = Max(slashes)
    <3> HIDE DEF slashes
    <3> QED BY <2>2 DEF Max
  <2>4. Directory(path) = SubSeq(path, 1, m)
    BY <1>2, <2>3 DEF Directory
  <2>5. 1 \in 1..(Len(path) + 1) /\ m \in (1 - 1)..Len(path) /\ 1 \in 1..(m - 1 + 1)
    BY <2>1
  <2>6. /\ SubSeq(path, 1, m) \in Seq(Symbols) /\ Len(SubSeq(path, 1, m)) = m - 1 + 1
        /\ \A i \in 1..(m - 1 + 1) : SubSeq(path, 1, m)[i] = path[i + 1 - 1]
    BY <2>5, CutFacts
  <2>7. SubSeq(path, 1, m)[1] = path[1] /\ path[1] = "/"
    BY <2>1, <2>5, <2>6
  <2>8. SubSeq(path, 1, m) # <<>>
    BY <2>1, <2>5, <2>6
  <2> QED BY <2>4, <2>6, <2>7, <2>8
<1> QED
  BY <1>1, <1>2

LEMMA Regroup ==
    ASSUME NEW o \in Seq(Symbols), NEW u \in Seq(Symbols), NEW v \in Seq(Symbols)
    PROVE  o \o u \o v = o \o (u \o v)
BY ConcatAssociative

\* A reference that names a host takes nothing but the scheme of the base.
LEMMA SchemeKept ==
    ASSUME NEW s \in Seq(Symbols), url_is_absolute(s), NEW v \in Seq(Symbols),
           IsPrefix(<<"/", "/">>, v)
    PROVE  SubSeq(s, 1, 2) \o v \in Seq(Symbols) /\ url_is_absolute(SubSeq(s, 1, 2) \o v)
<1>1. Len(s) >= 4 /\ Len(s) \in Nat /\ s[1] \in SchemeWords /\ SubSeq(s, 2, 4) = <<":", "/", "/">>
  BY DEF url_is_absolute
<1>2. PICK p \in Seq(Symbols) : p = SubSeq(s, 1, 2) /\ Len(p) = 2 /\ p[1] = s[1] /\ p[2] = ":"
  <2>1. /\ 1 \in 1..(Len(s) + 1) /\ 2 \in (1 - 1)..Len(s)
        /\ 2 \in 1..(Len(s) + 1) /\ 4 \in (2 - 1)..Len(s)
    BY <1>1
  <2>2. /\ SubSeq(s, 1, 2) \in Seq(Symbols) /\ Len(SubSeq(s, 1, 2)) = 2 - 1 + 1
        /\ \A i \in 1..(2 - 1 + 1) : SubSeq(s, 1, 2)[i] = s[i + 1 - 1]
    BY <2>1, CutFacts
  <2>3. \A i \in 1..(4 - 2 + 1) : SubSeq(s, 2, 4)[i] = s[i + 2 - 1]
    BY <2>1, CutFacts
  <2>4. s[2] = ":"
    <3>1. PICK w : w = SubSeq(s, 2, 4)
      OBVIOUS
    <3>2. w[1] = s[2]
      BY <2>3, <3>1
    <3>3. w = <<":", "/", "/">>
      BY <1>1, <3>1
    <3> QED BY <3>2, <3>3
  <2>5. SubSeq(s, 1, 2)[1] = s[1] /\ SubSeq(s, 1, 2)[2] = s[2] /\ Len(SubSeq(s, 1, 2)) = 2
    BY <2>2
  <2>6. SubSeq(s, 1, 2) \in Seq(Symbols)
    BY <2>2
  <2> QED BY <2>4, <2>5, <2>6, Zenon
<1>3. Len(v) \in Nat /\ Len(v) >= 2 /\ v[1] = "/" /\ v[2] = "/"
  <2>1. 2 <= Len(v) /\ SubSeq(<<"/", "/">>, 1, 2) = SubSeq(v, 1, 2) /\ Len(v) \in Nat
    <3>1. Len(<<"/", "/">>) = 2
      OBVIOUS
    <3> QED BY <3>1 DEF IsPrefix
  <2>2. 1 \in 1..(Len(v) + 1) /\ 2 \in (1 - 1)..Len(v)
    BY <2>1
  <2>3. \A i \in 1..(2 - 1 + 1) : SubSeq(v, 1, 2)[i] = v[i + 1 - 1]
    BY <2>2, CutFacts
  <2>4. SubSeq(<<"/", "/">>, 1, 2) = <<"/", "/">>
    <3>1. <<"/", "/">> \in Seq({"/"}) /\ Len(<<"/", "/">>) = 2
      OBVIOUS
    <3> QED BY <3>1, SubSeqFull
  <2>5. PICK w : w = SubSeq(v, 1, 2)
    OBVIOUS
  <2>6. w[1] = v[1] /\ w[2] = v[2]
    BY <2>3, <2>5
  <2>7. w = <<"/", "/">>
    BY <2>1, <2>4, <2>5
  <2> QED BY <2>1, <2>6, <2>7
<1>4. PICK t \in Seq(Symbols) :
         /\ t = p \o v /\ Len(t) = 2 + Len(v)
         /\ \A i \in 1..(2 + Len(v)) : t[i] = IF i <= 2 THEN p[i] ELSE v[i - 2]
  <2>1. /\ p \o v \in Seq(Symbols) /\ Len(p \o v) = Len(p) + Len(v)
        /\ \A i \in 1..(Len(p) + Len(v)) : (p \o v)[i] = IF i <= Len(p) THEN p[i] ELSE v[i - Len(p)]
    BY ConcatProperties
  <2>2. Len(p) = 2
    BY <1>2
  <2>3. /\ p \o v \in Seq(Symbols) /\ Len(p \o v) = 2 + Len(v)
        /\ \A i \in 1..(2 + Len(v)) : (p \o v)[i] = IF i <= 2 THEN p[i] ELSE v[i - 2]
    BY <2>1, <2>2, Zenon
  <2> QED BY <2>3, Zenon
<1>5. t[1] = s[1] /\ t[2] = ":" /\ t[3] = "/" /\ t[4] = "/" /\ Len(t) >= 4
  BY <1>2, <1>3, <1>4
<1>6. SubSeq(t, 2, 4) = <<":", "/", "/">>
  <2>1. 2 \in 1..(Len(t) + 1) /\ 4 \in (2 - 1)..Len(t)
    BY <1>5
  <2>2. /\ SubSeq(t, 2, 4) \in Seq(Symbols) /\ Len(SubSeq(t, 2, 4)) = 4 - 2 + 1
        /\ \A i \in 1..(4 - 2 + 1) : SubSeq(t, 2, 4)[i] = t[i + 2 - 1]
    BY <2>1, CutFacts
  <2>3. <<":", "/", "/">> \in Seq(Symbols) /\ Len(<<":", "/", "/">>) = 3
    BY UrlAssumption DEF Delimiters
  <2>4. \A i \in 1..3 : SubSeq(t, 2, 4)[i] = <<":", "/", "/">>[i]
    BY <1>5, <2>2
  <2>5. 3 \in Nat /\ 4 - 2 + 1 = 3
    OBVIOUS
  <2> QED BY <2>2, <2>3, <2>4, <2>5, SameSequence, ZenonT(40)
<1>7. url_is_absolute(t)
  BY <1>1, <1>5, <1>6 DEF url_is_absolute
<1> QED
  BY <1>2, <1>4, <1>7

\* What becomes of a relative reference is absolute and, unless the reference names a
\* host, has the base's origin.
LEMMA MergedKeepsOrigin ==
    ASSUME NEW s \in Seq(Symbols), url_is_absolute(s), NEW input \in Seq(Symbols),
           NEW b, b = decompose_url(s)
    PROVE  /\ Merged(input, b) \in Seq(Symbols) /\ url_is_absolute(Merged(input, b))
           /\ ~IsPrefix(<<"/", "/">>, input) => decompose_url(Merged(input, b)).origin = b.origin
<1> DEFINE Kept(t) == t \in Seq(Symbols) /\ url_is_absolute(t) /\ decompose_url(t).origin = b.origin
<1>1. /\ b.origin \in Seq(Symbols)
      /\ \A u \in Seq(Symbols) : StartsAtEnder(u) => Kept(b.origin \o u)
  <2>1. b.origin \in Seq(Symbols)
    BY PartsMakeWhole
  <2>2. ASSUME NEW u \in Seq(Symbols), StartsAtEnder(u) PROVE Kept(b.origin \o u)
    BY <2>2, OriginKept DEF StartsAtEnder
  <2> QED BY <2>1, <2>2
<1> HIDE DEF Kept
<1>2. /\ b.protocol = SubSeq(s, 1, 2) /\ b.origin = b.protocol \o <<"/", "/">> \o b.host
      /\ b.pathname \in Seq(Symbols) /\ StartsAtEnder(b.pathname)
      /\ b.search \in Seq(Symbols) /\ StartsAtEnder(b.search)
      /\ b.pathname = <<>> \/ b.pathname[1] = "/"
  BY KeptParts DEF StartsAtEnder, Enders
<1>3. CASE input = <<>>
  <2>1. Merged(input, b) = b.origin \o b.pathname \o b.search
    BY <1>2, <1>3 DEF Merged
  <2>2. Merged(input, b) = b.origin \o (b.pathname \o b.search)
    <3>1. b.origin \in Seq(Symbols) /\ b.pathname \in Seq(Symbols) /\ b.search \in Seq(Symbols)
      BY <1>1, <1>2
    <3>2. b.origin \o b.pathname \o b.search = b.origin \o (b.pathname \o b.search)
      <4>1. PICK o \in Seq(Symbols), u \in Seq(Symbols), v \in Seq(Symbols) :
               o = b.origin /\ u = b.pathname /\ v = b.search
        BY <3>1
      <4>2. o \o u \o v = o \o (u \o v)
        BY Regroup, SMTT(40)
      <4> QED BY <4>1, <4>2
    <3> QED BY <2>1, <3>2, Zenon
  <2>3. b.pathname \o b.search \in Seq(Symbols) /\ StartsAtEnder(b.pathname \o b.search)
    BY <1>2, ConcatStarts
  <2>4. Kept(Merged(input, b))
    BY <1>1, <2>2, <2>3
  <2> QED BY <2>4 DEF Kept
<1>4. CASE input # <<>> /\ input[1] = "#"
  <2>1. Merged(input, b) = b.origin \o b.pathname \o b.search \o input
    BY <1>2, <1>4 DEF Merged
  <2>2. b.pathname \o b.search \in Seq(Symbols) /\ StartsAtEnder(b.pathname \o b.search)
    BY <1>2, ConcatStarts
  <2>3. b.origin \o b.pathname \o b.search = b.origin \o (b.pathname \o b.search)
    <3>1. b.origin \in Seq(Symbols) /\ b.pathname \in Seq(Symbols) /\ b.search \in Seq(Symbols)
      BY <1>1, <1>2
    <3>2. PICK o \in Seq(Symbols), u \in Seq(Symbols), v \in Seq(Symbols) :
             o = b.origin /\ u = b.pathname /\ v = b.search
      BY <3>1
    <3>3. o \o u \o v = o \o (u \o v)
      BY Regroup, SMTT(40)
    <3> QED BY <3>2, <3>3
  <2>4. Merged(input, b) = b.origin \o ((b.pathname \o b.search) \o input)
    <3>1. PICK w \in Seq(Symbols) : w = b.pathname \o b.search
      BY <2>2
    <3>2. b.origin \o w \o input = b.origin \o (w \o input)
      BY <1>1, Regroup, ZenonT(60)
    <3> QED BY <2>1, <2>3, <3>1, <3>2
  <2>5. StartsAtEnder(input)
    BY <1>4 DEF StartsAtEnder, Enders
  <2>6. (b.pathname \o b.search) \o input \in Seq(Symbols) /\ StartsAtEnder((b.pathname \o b.search) \o input)
    BY <2>2, <2>5, ConcatStarts
  <2>7. Kept(Merged(input, b))
    BY <1>1, <2>4, <2>6
  <2> QED BY <2>7 DEF Kept
<1>5. CASE input # <<>> /\ input[1] = "?"
  <2>1. Merged(input, b) = b.origin \o b.pathname \o input
    BY <1>2, <1>5 DEF Merged
  <2>2. Merged(input, b) = b.origin \o (b.pathname \o input)
    <3>1. PICK o \in Seq(Symbols), u \in Seq(Symbols), v \in Seq(Symbols) :
             o = b.origin /\ u = b.pathname /\ v = input
      BY <1>1, <1>2
    <3>2. o \o u \o v = o \o (u \o v)
      BY Regroup, SMTT(40)
    <3> QED BY <2>1, <3>1, <3>2
  <2>3. StartsAtEnder(input)
    BY <1>5 DEF StartsAtEnder, Enders
  <2>4. b.pathname \o input \in Seq(Symbols) /\ StartsAtEnder(b.pathname \o input)
    BY <1>2, <2>3, ConcatStarts
  <2>5. Kept(Merged(input, b))
    BY <1>1, <2>2, <2>4
  <2> QED BY <2>5 DEF Kept
<1>6. CASE input # <<>> /\ input[1] = "/" /\ IsPrefix(<<"/", "/">>, input)
  <2>1. Merged(input, b) = b.protocol \o input
    BY <1>6 DEF Merged
  <2>2. Merged(input, b) = SubSeq(s, 1, 2) \o input
    BY <1>2, <2>1
  <2> QED BY <1>6, <2>2, SchemeKept
<1>7. CASE input # <<>> /\ input[1] = "/" /\ ~IsPrefix(<<"/", "/">>, input)
  <2>1. Merged(input, b) = b.origin \o input
    BY <1>7 DEF Merged
  <2>2. StartsAtEnder(input)
    BY <1>7 DEF StartsAtEnder, Enders
  <2>3. Kept(Merged(input, b))
    BY <1>1, <2>1, <2>2
  <2> QED BY <2>3 DEF Kept
<1>8. CASE input # <<>> /\ input[1] \notin {"#", "?", "/"}
  <2>1. Merged(input, b) = b.origin \o Directory(b.pathname) \o input
    BY <1>8 DEF Merged
  <2>2. Directory(b.pathname) \in Seq(Symbols)
    BY <1>2, DirectoryRooted
  <2>3. StartsAtEnder(Directory(b.pathname)) /\ Directory(b.pathname) # <<>>
    BY <1>2, DirectoryRooted DEF StartsAtEnder, Enders
  <2>4. Merged(input, b) = b.origin \o (Directory(b.pathname) \o input)
    BY <1>1, <2>1, <2>2, Regroup, ZenonT(60)
  <2>5. Directory(b.pathname) \o input \in Seq(Symbols) /\ StartsAtEnder(Directory(b.pathname) \o input)
    BY <2>2, <2>3, ConcatStarts
  <2>6. Kept(Merged(input, b))
    BY <1>1, <2>4, <2>5
  <2> QED BY <2>6 DEF Kept
<1> QED
  BY <1>3, <1>4, <1>5, <1>6, <1>7, <1>8

\* Every URL made is over the symbols, so it may be the base of the next one.
UrlInv == ResolvesWithinOrigin /\ (url.made => url.parts.href \in Seq(Symbols))

\* However many references are resolved against the URLs they led to, whatever the
\* references and the bases, a URL is absolute, is its parts put together and has its
\* base's origin unless the reference names a host.
THEOREM ReferencesStayWithinOrigin == UrlSpec => []ResolvesWithinOrigin
<1>1. UrlInit => UrlInv
  BY DEF UrlInit, NoUrl, UrlInv, ResolvesWithinOrigin
<1>2. UrlInv /\ [UrlNext]_url => UrlInv'
  <2> SUFFICES ASSUME UrlInv, [UrlNext]_url PROVE UrlInv'
    OBVIOUS
  <2>1. CASE UNCHANGED url
    BY <2>1 DEF UrlInv, ResolvesWithinOrigin
  <2>2. ASSUME NEW input \in Inputs, NEW base, InvalidUrl(input, base) PROVE UrlInv'
    BY <2>2 DEF InvalidUrl, NoUrl, UrlInv, ResolvesWithinOrigin
  <2>3. ASSUME NEW input \in Inputs, NEW base \in Bases \cup (IF url.made THEN {url.parts.href} ELSE {}),
               url_constructor(input, base)
        PROVE  UrlInv'
    <3> DEFINE t == resolve_url(input, base)
    <3>1. input \in Seq(Symbols)
      BY UrlAssumption
    <3>2. Usable(base) => base \in Seq(Symbols) /\ url_is_absolute(base)
      BY UrlAssumption DEF Usable, UrlInv
    <3>3. url_is_absolute(input) \/ Usable(base)
      BY <2>3 DEF url_constructor
    <3>4. /\ t \in Seq(Symbols) /\ url_is_absolute(t)
          /\ ~url_is_absolute(input) /\ ~IsPrefix(<<"/", "/">>, input) =>
                decompose_url(t).origin = decompose_url(base).origin
      <4>1. CASE url_is_absolute(input)
        BY <3>1, <4>1 DEF resolve_url
      <4>2. CASE ~url_is_absolute(input)
        <5>1. t = Merged(input, decompose_url(base))
          BY <4>2 DEF resolve_url
        <5>2. base \in Seq(Symbols) /\ url_is_absolute(base)
          BY <3>2, <3>3, <4>2
        <5> HIDE DEF t
        <5> QED BY <3>1, <5>1, <5>2, MergedKeepsOrigin
      <4> QED BY <4>1, <4>2
    <3> HIDE DEF t
    <3>5. PICK d : d = decompose_url(t)
      OBVIOUS
    <3>6. d.href = t /\ t = d.origin \o d.pathname \o d.search \o d.hash
      BY <3>4, <3>5, PartsMakeWhole
    <3>7. url' = [made |-> TRUE, input |-> input, base |-> base, parts |-> d]
      BY <2>3, <3>5 DEF url_constructor, t
    <3>8. url'.parts = d /\ url'.input = input /\ url'.base = base
      BY <3>7
    <3> QED BY <3>4, <3>5, <3>6, <3>8 DEF UrlInv, ResolvesWithinOrigin
  <2> QED BY <2>1, <2>2, <2>3 DEF UrlNext
<1>3. UrlInv => ResolvesWithinOrigin
  BY DEF UrlInv
<1> QED
  BY <1>1, <1>2, <1>3, PTL DEF UrlSpec

-------------------------------------------------------------------------------
-------------------------------------------------------------------------------
(* URLSearchParams: ParamsKeepList.  An object's string always parses to   *)
(* the list that was written to it, because what usp_encode writes is read *)
(* back by usp_decode and holds neither "&" nor "=".                       *)

(* Functions on sequences that take a part off the front and go on with the rest. *)

Peeled(f, S, head, rest) ==
    f = [s \in Seq(S) |-> IF s = <<>> THEN <<>> ELSE head[s] \o f[rest[s]]]

\* f does so for the sequences of at most n elements.
PeeledUpTo(f, n, S, head, rest) ==
    \A s \in Seq(S) : Len(s) <= n => f[s] = IF s = <<>> THEN <<>> ELSE head[s] \o f[rest[s]]

LEMMA PeeledUnique ==
    ASSUME NEW S, NEW head, NEW rest \in [Seq(S) -> Seq(S)],
           \A s \in Seq(S) : s # <<>> => Len(rest[s]) < Len(s),
           NEW n \in Nat, NEW m \in Nat, NEW f, NEW g,
           PeeledUpTo(f, n, S, head, rest), PeeledUpTo(g, m, S, head, rest)
    PROVE  \A s \in Seq(S) : Len(s) <= n /\ Len(s) <= m => f[s] = g[s]
<1> DEFINE Differ == {k \in Nat : \E s \in Seq(S) : Len(s) = k /\ k <= n /\ k <= m /\ f[s] # g[s]}
<1>1. SUFFICES ASSUME Differ # {} PROVE FALSE
  <2>1. \A s \in Seq(S) : Len(s) \in Nat
    OBVIOUS
  <2> QED BY <2>1
<1>2. PICK k \in Differ : \A j \in Differ : ~(j < k)
  <2>1. Differ \in SUBSET Nat
    OBVIOUS
  <2> HIDE DEF Differ
  <2> QED BY <1>1, <2>1, LeastOf
<1>3. PICK s \in Seq(S) : Len(s) = k /\ k <= n /\ k <= m /\ f[s] # g[s]
  OBVIOUS
<1>4. /\ f[s] = (IF s = <<>> THEN <<>> ELSE head[s] \o f[rest[s]])
      /\ g[s] = (IF s = <<>> THEN <<>> ELSE head[s] \o g[rest[s]])
  BY <1>3 DEF PeeledUpTo
<1>5. s # <<>> /\ f[rest[s]] # g[rest[s]]
  BY <1>3, <1>4
<1>6. rest[s] \in Seq(S) /\ Len(rest[s]) \in Nat /\ Len(rest[s]) < k /\ k \in Nat
  <2>1. rest[s] \in Seq(S)
    OBVIOUS
  <2> QED BY <1>3, <1>5, <2>1
<1>7. Len(rest[s]) \in Differ
  <2>1. Len(rest[s]) <= n /\ Len(rest[s]) <= m
    BY <1>3, <1>6
  <2> QED BY <1>5, <1>6, <2>1
<1> QED
  BY <1>2, <1>6, <1>7

LEMMA PeeledExists ==
    ASSUME NEW S, NEW head, NEW rest \in [Seq(S) -> Seq(S)],
           \A s \in Seq(S) : s # <<>> => Len(rest[s]) < Len(s)
    PROVE  \E f : Peeled(f, S, head, rest)
<1> DEFINE F(g, s) == IF s = <<>> THEN <<>> ELSE head[s] \o g[rest[s]]
           T == {n \in Nat : \E g : PeeledUpTo(g, n, S, head, rest)}
<1>1. \A s \in Seq(S) : /\ Len(s) \in Nat
                        /\ s # <<>> => rest[s] \in Seq(S) /\ Len(rest[s]) \in Nat /\ Len(rest[s]) <= Len(s) - 1
  <2>1. ASSUME NEW s \in Seq(S), s # <<>>
        PROVE  rest[s] \in Seq(S) /\ Len(rest[s]) \in Nat /\ Len(rest[s]) <= Len(s) - 1
    <3>1. rest[s] \in Seq(S) /\ Len(s) \in Nat
      OBVIOUS
    <3>2. Len(rest[s]) \in Nat
      BY <3>1
    <3> QED BY <2>1, <3>1, <3>2
  <2>2. \A s \in Seq(S) : Len(s) \in Nat
    OBVIOUS
  <2> QED BY <2>1, <2>2
<1>2. 0 \in T
  <2>1. PICK g : g = [s \in Seq(S) |-> <<>>]
    OBVIOUS
  <2>2. ASSUME NEW s \in Seq(S), Len(s) <= 0 PROVE g[s] = F(g, s)
    <3>1. s = <<>>
      BY <1>1, <2>2
    <3> QED BY <2>1, <3>1
  <2>3. PeeledUpTo(g, 0, S, head, rest)
    BY <2>2 DEF PeeledUpTo
  <2> QED BY <2>3
<1>3. ASSUME NEW n \in Nat, n \in T PROVE n + 1 \in T
  <2>1. PICK g : PeeledUpTo(g, n, S, head, rest)
    BY <1>3
  <2>2. PICK h : h = [s \in Seq(S) |-> F(g, s)]
    OBVIOUS
  <2>3. ASSUME NEW s \in Seq(S), Len(s) <= n + 1 PROVE h[s] = F(h, s)
    <3>1. CASE s = <<>>
      BY <2>2, <3>1
    <3>2. CASE s # <<>>
      <4>1. rest[s] \in Seq(S) /\ Len(rest[s]) <= n
        BY <1>1, <2>3, <3>2
      <4>2. h[rest[s]] = F(g, rest[s]) /\ g[rest[s]] = F(g, rest[s])
        BY <2>1, <2>2, <4>1 DEF PeeledUpTo
      <4>3. h[s] = head[s] \o g[rest[s]]
        BY <2>2, <3>2
      <4> QED BY <3>2, <4>2, <4>3
    <3> QED BY <3>1, <3>2
  <2>4. PeeledUpTo(h, n + 1, S, head, rest)
    BY <2>3 DEF PeeledUpTo
  <2> QED BY <2>4
<1> HIDE DEF T
<1>4. ASSUME NEW n \in Nat PROVE n \in T
  <2>1. \A k \in 0..n : k \in T
    <3>1. \A k \in 0..(n - 1) : k \in T => k + 1 \in T
      BY <1>3
    <3> QED BY <1>2, <3>1, CountsUp
  <2> QED BY <2>1
<1> DEFINE G(n) == CHOOSE g : PeeledUpTo(g, n, S, head, rest)
<1>5. ASSUME NEW n \in Nat PROVE PeeledUpTo(G(n), n, S, head, rest)
  BY <1>4 DEF T
<1> HIDE DEF G
<1>6. PICK f : f = [s \in Seq(S) |-> G(Len(s))[s]]
  OBVIOUS
<1>7. ASSUME NEW s \in Seq(S) PROVE f[s] = F(f, s)
  <2>1. PICK n \in Nat : n = Len(s)
    BY <1>1
  <2>2. PeeledUpTo(G(n), n, S, head, rest) /\ n <= n
    BY <1>5
  <2>3. f[s] = F(G(n), s)
    BY <1>6, <2>1, <2>2 DEF PeeledUpTo
  <2>4. CASE s # <<>>
    <3>1. PICK m \in Nat : m = Len(rest[s]) /\ m <= n /\ m <= m /\ rest[s] \in Seq(S)
      BY <1>1, <2>1, <2>4
    <3>2. f[rest[s]] = G(m)[rest[s]]
      BY <1>6, <3>1
    <3>3. PeeledUpTo(G(m), m, S, head, rest)
      BY <1>5
    <3>4. G(m)[rest[s]] = G(n)[rest[s]]
      <4>1. PICK g, h : g = G(m) /\ h = G(n)
        OBVIOUS
      <4>2. PeeledUpTo(g, m, S, head, rest) /\ PeeledUpTo(h, n, S, head, rest)
        BY <2>2, <3>3, <4>1
      <4>3. \A r \in Seq(S) : Len(r) <= m /\ Len(r) <= n => g[r] = h[r]
        BY <4>2, PeeledUnique
      <4> QED BY <3>1, <4>1, <4>3
    <3> QED BY <2>3, <2>4, <3>2, <3>4
  <2>5. CASE s = <<>>
    BY <2>3, <2>5
  <2> QED BY <2>4, <2>5
<1> QED
  BY <1>6, <1>7 DEF Peeled

LEMMA PeeledType ==
    ASSUME NEW S, NEW P, NEW head \in [Seq(S) -> Seq(P)], NEW rest \in [Seq(S) -> Seq(S)],
           \A s \in Seq(S) : s # <<>> => Len(rest[s]) < Len(s), NEW f, Peeled(f, S, head, rest)
    PROVE  f \in [Seq(S) -> Seq(P)]
<1> DEFINE Wrong == {k \in Nat : \E s \in Seq(S) : Len(s) = k /\ f[s] \notin Seq(P)}
<1>1. \A s \in Seq(S) : f[s] = IF s = <<>> THEN <<>> ELSE head[s] \o f[rest[s]]
  BY DEF Peeled
<1>2. Wrong = {}
  <2>1. SUFFICES ASSUME Wrong # {} PROVE FALSE
    OBVIOUS
  <2>2. PICK k \in Wrong : \A j \in Wrong : ~(j < k)
    <3>1. Wrong \in SUBSET Nat
      OBVIOUS
    <3> HIDE DEF Wrong
    <3> QED BY <2>1, <3>1, LeastOf
  <2>3. PICK s \in Seq(S) : Len(s) = k /\ f[s] \notin Seq(P)
    OBVIOUS
  <2>4. s # <<>>
    <3>1. <<>> \in Seq(P)
      OBVIOUS
    <3> QED BY <1>1, <2>3, <3>1
  <2>5. f[s] = head[s] \o f[rest[s]]
    BY <1>1, <2>4
  <2>6. rest[s] \in Seq(S) /\ head[s] \in Seq(P)
    OBVIOUS
  <2>7. Len(rest[s]) \in Nat /\ Len(rest[s]) < k /\ k \in Nat
    BY <2>3, <2>4, <2>6
  <2>8. f[rest[s]] \in Seq(P)
    BY <2>2, <2>6, <2>7
  <2>9. head[s] \o f[rest[s]] \in Seq(P)
    BY <2>6, <2>8, ConcatProperties, Zenon
  <2> QED BY <2>3, <2>5, <2>9
<1>3. \A s \in Seq(S) : f[s] \in Seq(P)
  <2>1. \A s \in Seq(S) : Len(s) \in Nat
    OBVIOUS
  <2> QED BY <1>2, <2>1
<1>4. f = [s \in Seq(S) |-> f[s]]
  <2>1. \A g : g = [s \in Seq(S) |-> IF s = <<>> THEN <<>> ELSE head[s] \o f[rest[s]]]
                  => g = [s \in Seq(S) |-> g[s]]
    OBVIOUS
  <2> QED BY <2>1 DEF Peeled
<1> QED
  BY <1>3, <1>4

(* FlattenSeq by its partial sums. *)

Sums(F, s, P) ==
    /\ F \in [0..Len(s) -> Seq(P)] /\ F[0] = <<>>
    /\ \A i \in 1..Len(s) : F[i] = F[i - 1] \o s[i]

LEMMA SumsExist ==
    ASSUME NEW P, NEW s \in Seq(Seq(P))
    PROVE  \E F : Sums(F, s, P)
<1> DEFINE n == Len(s)
           Good(F, k) == F \in [0..k -> Seq(P)] /\ F[0] = <<>> /\ \A i \in 1..k : F[i] = F[i - 1] \o s[i]
           T == {k \in 0..n : \E F : Good(F, k)}
<1>1. n \in Nat /\ \A i \in 1..n : s[i] \in Seq(P)
  OBVIOUS
<1>2. 0 \in T
  <2>1. PICK F : F = [i \in 0..0 |-> <<>>]
    OBVIOUS
  <2>2. <<>> \in Seq(P) /\ 0 \in 0..0 /\ 1..0 = {} /\ 0 \in 0..n
    BY <1>1
  <2>3. Good(F, 0)
    BY <2>1, <2>2
  <2> QED BY <2>2, <2>3
<1>3. ASSUME NEW k \in 0..(n - 1), k \in T PROVE k + 1 \in T
  <2>1. PICK F : Good(F, k)
    BY <1>3
  <2>2. k \in 0..k /\ k + 1 \in 1..n /\ k + 1 \in 0..n /\ 0 \in 0..k /\ 0 \in 0..(k + 1) /\ 0 # k + 1
    BY <1>1
  <2>3. PICK last \in Seq(P) : last = F[k] \o s[k + 1]
    <3>1. F[k] \in Seq(P) /\ s[k + 1] \in Seq(P)
      BY <1>1, <2>1, <2>2
    <3> QED BY <3>1, ConcatProperties, Zenon
  <2>4. PICK H : H = [i \in 0..(k + 1) |-> IF i = k + 1 THEN last ELSE F[i]]
    OBVIOUS
  <2>5. \A i \in 0..(k + 1) : i = k + 1 \/ i \in 0..k
    BY <1>1
  <2>6. H \in [0..(k + 1) -> Seq(P)] /\ H[0] = <<>>
    BY <2>1, <2>2, <2>3, <2>4, <2>5
  <2>7. ASSUME NEW i \in 1..(k + 1) PROVE H[i] = H[i - 1] \o s[i]
    <3>1. CASE i = k + 1
      <4>1. i - 1 = k /\ k \in 0..(k + 1) /\ k # k + 1 /\ i \in 0..(k + 1)
        BY <2>2, <3>1
      <4>2. H[i] = last /\ H[i - 1] = F[k]
        BY <2>4, <3>1, <4>1
      <4> QED BY <2>3, <3>1, <4>2
    <3>2. CASE i # k + 1
      <4>1. i \in 1..k /\ i - 1 \in 0..(k + 1) /\ i - 1 # k + 1 /\ i \in 0..(k + 1)
        BY <2>2, <3>2
      <4>2. H[i] = F[i] /\ H[i - 1] = F[i - 1]
        BY <2>4, <3>2, <4>1
      <4> QED BY <2>1, <4>1, <4>2
    <3> QED BY <3>1, <3>2
  <2>8. Good(H, k + 1)
    BY <2>6, <2>7
  <2> QED BY <2>2, <2>8
<1>4. n \in T
  <2> HIDE DEF T
  <2>1. \A k \in 0..n : k \in T
    BY <1>1, <1>2, <1>3, CountsUp
  <2> QED BY <1>1, <2>1
<1> QED
  BY <1>4 DEF Sums

LEMMA SumIsFlat ==
    ASSUME NEW P, NEW s \in Seq(Seq(P)), NEW F, Sums(F, s, P)
    PROVE  FlattenSeq(s) = F[Len(s)]
<1> DEFINE n == Len(s)
<1>1. n \in Nat /\ \A i \in 1..n : s[i] \in Seq(P)
  OBVIOUS
<1>2. F \in [0..n -> Seq(P)] /\ F[0] = <<>> /\ \A i \in 1..n : F[i] = F[i - 1] \o s[i]
  BY DEF Sums
<1>3. CASE n = 0
  <2>1. s = <<>> /\ FlattenSeq(s) = s
    BY <1>3 DEF FlattenSeq
  <2> QED BY <1>2, <1>3, <2>1
<1>4. CASE n # 0
  <2> DEFINE flatten == CHOOSE f : f = [i \in 1..Len(s) |-> IF i = 1 THEN s[i] ELSE f[i - 1] \o s[i]]
  <2>1. PICK g : g = [i \in 1..n |-> F[i]]
    OBVIOUS
  <2>2. F[1] = s[1]
    <3>1. 1 \in 1..n /\ 1 - 1 = 0
      BY <1>1, <1>4
    <3>2. <<>> \o s[1] = s[1]
      BY <1>1, <3>1, ConcatEmptySeq
    <3> QED BY <1>2, <3>1, <3>2
  <2>3. ASSUME NEW i \in 1..n PROVE g[i] = IF i = 1 THEN s[i] ELSE g[i - 1] \o s[i]
    <3>1. CASE i = 1
      BY <2>1, <2>2, <3>1
    <3>2. CASE i # 1
      <4>1. i - 1 \in 1..n
        BY <3>2
      <4> QED BY <1>2, <2>1, <3>2, <4>1
    <3> QED BY <3>1, <3>2
  <2>4. g = [i \in 1..n |-> IF i = 1 THEN s[i] ELSE g[i - 1] \o s[i]]
    BY <2>1, <2>3
  <2>5. flatten = [i \in 1..n |-> IF i = 1 THEN s[i] ELSE flatten[i - 1] \o s[i]]
    BY <2>4
  <2>6. FlattenSeq(s) = flatten[n]
    BY <1>4, Zenon DEF FlattenSeq
  <2> HIDE DEF flatten
  <2> DEFINE T == {k \in 0..n : k = 0 \/ flatten[k] = F[k]}
  <2>7. 0 \in T
    BY <1>1
  <2>8. ASSUME NEW k \in 0..(n - 1), k \in T PROVE k + 1 \in T
    <3>1. k + 1 \in 1..n /\ (k + 1) - 1 = k /\ k + 1 \in 0..n
      BY <1>1
    <3>2. CASE k = 0
      <4>1. flatten[1] = s[1]
        BY <2>5, <3>1, <3>2
      <4> QED BY <2>2, <3>1, <3>2, <4>1
    <3>3. CASE k # 0
      <4>1. k + 1 # 1 /\ flatten[k] = F[k]
        BY <1>1, <2>8, <3>3
      <4>2. flatten[k + 1] = flatten[k] \o s[k + 1]
        BY <2>5, <3>1, <4>1
      <4>3. F[k + 1] = F[k] \o s[k + 1]
        BY <1>2, <3>1
      <4> QED BY <3>1, <4>1, <4>2, <4>3
    <3> QED BY <3>2, <3>3
  <2>9. n \in T
    <3> HIDE DEF T
    <3>1. \A k \in 0..n : k \in T
      BY <1>1, <2>7, <2>8, CountsUp
    <3> QED BY <1>1, <3>1
  <2> QED BY <1>4, <2>6, <2>9
<1> QED
  BY <1>3, <1>4

LEMMA FlatType ==
    ASSUME NEW P, NEW s \in Seq(Seq(P))
    PROVE  FlattenSeq(s) \in Seq(P)
<1>1. PICK F : Sums(F, s, P)
  BY SumsExist
<1>2. F[Len(s)] \in Seq(P)
  <2>1. Len(s) \in 0..Len(s)
    OBVIOUS
  <2> QED BY <1>1, <2>1 DEF Sums
<1>3. FlattenSeq(s) = F[Len(s)]
  BY <1>1, SumIsFlat
<1> QED
  BY <1>2, <1>3

(* What is encoded is decoded. *)

DecodeHead(s) == IF BeginsWithEscape(s) THEN <<16 * usp_hex_val(s[2]) + usp_hex_val(s[3])>>
                 ELSE <<IF s[1] = Plus THEN Blank ELSE s[1]>>
DecodeRest(s) == IF BeginsWithEscape(s) THEN SubSeq(s, 4, Len(s)) ELSE Tail(s)

LEMMA HexValues ==
    ASSUME NEW c \in 0..255
    PROVE  usp_hex_val(c) \in -1..15
<1>1. CASE c \in 48..57 \/ c \in 97..102 \/ c \in 65..70
  BY <1>1 DEF usp_hex_val
<1>2. CASE ~(c \in 48..57 \/ c \in 97..102 \/ c \in 65..70)
  BY <1>2 DEF usp_hex_val
<1> QED
  BY <1>1, <1>2

LEMMA BytesOf ==
    ASSUME NEW s \in Strings
    PROVE  /\ Len(s) \in Nat /\ DOMAIN s = 1..Len(s) /\ \A i \in 1..Len(s) : s[i] \in 0..255
           /\ s # <<>> => Len(s) \in Nat \ {0}
<1>1. PICK S : S = 0..255
  OBVIOUS
<1>2. s \in Seq(S)
  BY <1>1 DEF Strings
<1>3. /\ Len(s) \in Nat /\ DOMAIN s = 1..Len(s) /\ \A i \in 1..Len(s) : s[i] \in S
      /\ s # <<>> => Len(s) \in Nat \ {0}
  BY <1>2
<1> QED
  BY <1>1, <1>3

LEMMA DecodeParts ==
    ASSUME NEW s \in Strings, s # <<>>
    PROVE  DecodeHead(s) \in Strings /\ DecodeRest(s) \in Strings /\ Len(DecodeRest(s)) < Len(s)
<1>1. Len(s) \in Nat \ {0} /\ \A i \in 1..Len(s) : s[i] \in 0..255
  BY BytesOf
<1>2. CASE BeginsWithEscape(s)
  <2>1. Len(s) >= 3 /\ usp_hex_val(s[2]) >= 0 /\ usp_hex_val(s[3]) >= 0
    BY <1>2 DEF BeginsWithEscape
  <2>2. 2 \in 1..Len(s) /\ 3 \in 1..Len(s)
    BY <1>1, <2>1
  <2>3. PICK x, y : x = usp_hex_val(s[2]) /\ y = usp_hex_val(s[3])
    OBVIOUS
  <2>4. PICK b : b = 16 * usp_hex_val(s[2]) + usp_hex_val(s[3])
    OBVIOUS
  <2>5. b \in 0..255
    <3>1. s[2] \in 0..255 /\ s[3] \in 0..255
      BY <1>1, <2>2
    <3>2. usp_hex_val(s[2]) \in -1..15 /\ usp_hex_val(s[3]) \in -1..15
      BY <3>1, HexValues
    <3>3. x \in -1..15 /\ y \in -1..15 /\ x >= 0 /\ y >= 0 /\ b = 16 * x + y
      BY <2>1, <2>3, <2>4, <3>2, Zenon
    <3> QED BY <3>3
  <2>6. DecodeHead(s) \in Strings
    <3>1. DecodeHead(s) = <<b>>
      BY <1>2, <2>4 DEF DecodeHead
    <3> QED BY <2>5, <3>1 DEF Strings
  <2>7. SubSeq(s, 4, Len(s)) \in Strings /\ Len(SubSeq(s, 4, Len(s))) = Len(s) - 3
    <3>1. \A i \in 4..Len(s) : s[i] \in 0..255
      BY <1>1
    <3>2. Len(s) \in Int /\ 4 \in Int
      BY <1>1
    <3>3. /\ SubSeq(s, 4, Len(s)) \in Seq(0..255)
          /\ Len(SubSeq(s, 4, Len(s))) = IF 4 <= Len(s) THEN Len(s) - 4 + 1 ELSE 0
      BY <3>1, <3>2, SubSeqProperties
    <3>4. (IF 4 <= Len(s) THEN Len(s) - 4 + 1 ELSE 0) = Len(s) - 3
      <4>1. \A n \in Nat : n >= 3 => (IF 4 <= n THEN n - 4 + 1 ELSE 0) = n - 3
        OBVIOUS
      <4> QED BY <1>1, <2>1, <4>1
    <3> QED BY <3>3, <3>4 DEF Strings
  <2> QED BY <1>1, <1>2, <2>6, <2>7 DEF DecodeRest
<1>3. CASE ~BeginsWithEscape(s)
  <2>1. PICK b : b = IF s[1] = Plus THEN Blank ELSE s[1]
    OBVIOUS
  <2>2. b \in 0..255
    BY <1>1, <2>1 DEF Blank
  <2>3. DecodeHead(s) = <<b>>
    BY <1>3, <2>1 DEF DecodeHead
  <2>4. Tail(s) \in Strings /\ Len(Tail(s)) = Len(s) - 1
    BY HeadTailProperties DEF Strings
  <2> QED BY <1>1, <1>3, <2>2, <2>3, <2>4 DEF DecodeRest, Strings
<1> QED
  BY <1>2, <1>3

LEMMA QueryDecoding ==
    /\ usp_decode \in [Strings -> Strings]
    /\ usp_decode[<<>>] = <<>>
    /\ \A s \in Strings : s # <<>> => usp_decode[s] = DecodeHead(s) \o usp_decode[DecodeRest(s)]
<1>1. PICK head \in [Strings -> Strings], rest \in [Strings -> Strings] :
         \A s \in Strings : s # <<>> => head[s] = DecodeHead(s) /\ rest[s] = DecodeRest(s)
  <2>1. PICK head : head = [s \in Strings |-> IF s = <<>> THEN <<>> ELSE DecodeHead(s)]
    OBVIOUS
  <2>2. PICK rest : rest = [s \in Strings |-> IF s = <<>> THEN <<>> ELSE DecodeRest(s)]
    OBVIOUS
  <2>3. <<>> \in Strings
    BY DEF Strings
  <2> QED BY <2>1, <2>2, <2>3, DecodeParts, SMTT(40)
<1>2. \A s \in Strings : s # <<>> => Len(rest[s]) < Len(s)
  BY <1>1, DecodeParts
<1>3. ASSUME NEW f
      PROVE  [s \in Strings |->
                IF s = <<>> THEN <<>>
                ELSE IF BeginsWithEscape(s)
                THEN <<16 * usp_hex_val(s[2]) + usp_hex_val(s[3])>> \o f[SubSeq(s, 4, Len(s))]
                ELSE <<IF s[1] = Plus THEN Blank ELSE s[1]>> \o f[Tail(s)]]
             = [s \in Strings |-> IF s = <<>> THEN <<>> ELSE head[s] \o f[rest[s]]]
  <2>1. ASSUME NEW s \in Strings
        PROVE  (IF s = <<>> THEN <<>>
                ELSE IF BeginsWithEscape(s)
                THEN <<16 * usp_hex_val(s[2]) + usp_hex_val(s[3])>> \o f[SubSeq(s, 4, Len(s))]
                ELSE <<IF s[1] = Plus THEN Blank ELSE s[1]>> \o f[Tail(s)])
               = IF s = <<>> THEN <<>> ELSE head[s] \o f[rest[s]]
    BY <1>1, Zenon DEF DecodeHead, DecodeRest
  <2> QED BY <2>1, Zenon
<1>4. PICK f : Peeled(f, 0..255, head, rest)
  BY <1>1, <1>2, PeeledExists, ZenonT(60) DEF Strings
<1>5. Peeled(usp_decode, 0..255, head, rest)
  <2> DEFINE d == CHOOSE g : g = [s \in Strings |->
                    IF s = <<>> THEN <<>>
                    ELSE IF BeginsWithEscape(s)
                    THEN <<16 * usp_hex_val(s[2]) + usp_hex_val(s[3])>> \o g[SubSeq(s, 4, Len(s))]
                    ELSE <<IF s[1] = Plus THEN Blank ELSE s[1]>> \o g[Tail(s)]]
  <2>0. f = [s \in Strings |->
                    IF s = <<>> THEN <<>>
                    ELSE IF BeginsWithEscape(s)
                    THEN <<16 * usp_hex_val(s[2]) + usp_hex_val(s[3])>> \o f[SubSeq(s, 4, Len(s))]
                    ELSE <<IF s[1] = Plus THEN Blank ELSE s[1]>> \o f[Tail(s)]]
    <3>1. f = [s \in Strings |-> IF s = <<>> THEN <<>> ELSE head[s] \o f[rest[s]]]
      BY <1>4 DEF Peeled, Strings
    <3> QED BY <1>3, <3>1, Zenon
  <2>1. d = [s \in Strings |->
                    IF s = <<>> THEN <<>>
                    ELSE IF BeginsWithEscape(s)
                    THEN <<16 * usp_hex_val(s[2]) + usp_hex_val(s[3])>> \o d[SubSeq(s, 4, Len(s))]
                    ELSE <<IF s[1] = Plus THEN Blank ELSE s[1]>> \o d[Tail(s)]]
    BY <2>0, Zenon
  <2>2. usp_decode = d
    BY Zenon DEF usp_decode
  <2> HIDE DEF d
  <2>3. d = [s \in Strings |-> IF s = <<>> THEN <<>> ELSE head[s] \o d[rest[s]]]
    BY <1>3, <2>1, Zenon
  <2> QED BY <2>2, <2>3, Zenon DEF Peeled, Strings
<1>6. usp_decode \in [Strings -> Strings]
  <2>1. head \in [Seq(0..255) -> Seq(0..255)] /\ rest \in [Seq(0..255) -> Seq(0..255)]
    BY <1>1 DEF Strings
  <2>2. \A s \in Seq(0..255) : s # <<>> => Len(rest[s]) < Len(s)
    BY <1>2 DEF Strings
  <2>3. usp_decode \in [Seq(0..255) -> Seq(0..255)]
    BY <1>5, <2>1, <2>2, PeeledType, ZenonT(60)
  <2> QED BY <2>3 DEF Strings
<1>7. \A s \in Strings : usp_decode[s] = IF s = <<>> THEN <<>> ELSE head[s] \o usp_decode[rest[s]]
  BY <1>5, Zenon DEF Peeled, Strings
<1>8. <<>> \in Strings
  BY DEF Strings
<1> QED
  BY <1>1, <1>6, <1>7, <1>8

LEMMA OneInFront ==
    ASSUME NEW S, NEW r \in Seq(S), NEW a \in S
    PROVE  /\ <<a>> \o r \in Seq(S) /\ <<a>> \o r # <<>>
           /\ (<<a>> \o r)[1] = a /\ Tail(<<a>> \o r) = r
<1>1. PICK s : s = <<a>> \o r
  OBVIOUS
<1>2. <<a>> \in Seq(S) /\ Len(<<a>>) = 1 /\ <<a>>[1] = a /\ Len(r) \in Nat
  OBVIOUS
<1>3. /\ s \in Seq(S) /\ Len(s) = 1 + Len(r)
      /\ \A i \in 1..(1 + Len(r)) : s[i] = IF i <= 1 THEN <<a>>[i] ELSE r[i - 1]
  BY <1>1, <1>2, ConcatProperties
<1>4. s # <<>> /\ s[1] = a
  <2>1. 1 \in 1..(1 + Len(r)) /\ 1 + Len(r) # 0
    BY <1>2
  <2> QED BY <1>2, <1>3, <2>1
<1>5. Tail(s) \in Seq(S) /\ Len(Tail(s)) = Len(r) /\ \A i \in 1..Len(r) : Tail(s)[i] = s[i + 1]
  <2>1. /\ Tail(s) \in Seq(S) /\ Len(Tail(s)) = Len(s) - 1
        /\ \A i \in 1..Len(Tail(s)) : Tail(s)[i] = s[i + 1]
    BY <1>3, <1>4, HeadTailProperties
  <2>2. Len(s) - 1 = Len(r)
    BY <1>2, <1>3
  <2> QED BY <2>1, <2>2
<1>6. \A i \in 1..Len(r) : s[i + 1] = r[i]
  <2>1. \A i \in 1..Len(r) : i + 1 \in 1..(1 + Len(r)) /\ ~(i + 1 <= 1) /\ (i + 1) - 1 = i
    BY <1>2
  <2> QED BY <1>3, <2>1
<1>7. Tail(s) = r
  BY <1>5, <1>6, SeqEqual
<1> QED
  BY <1>1, <1>3, <1>4, <1>7

LEMMA ThreeInFront ==
    ASSUME NEW S, NEW r \in Seq(S), NEW a \in S, NEW b \in S, NEW c \in S
    PROVE  LET s == <<a, b, c>> \o r IN
           /\ s \in Seq(S) /\ s # <<>> /\ Len(s) >= 3 /\ s[1] = a /\ s[2] = b /\ s[3] = c
           /\ SubSeq(s, 4, Len(s)) = r
<1>1. PICK s : s = <<a, b, c>> \o r
  OBVIOUS
<1>2. <<a, b, c>> \in Seq(S) /\ Len(<<a, b, c>>) = 3 /\ Len(r) \in Nat
  OBVIOUS
<1>3. /\ s \in Seq(S) /\ Len(s) = 3 + Len(r)
      /\ \A i \in 1..(3 + Len(r)) : s[i] = IF i <= 3 THEN <<a, b, c>>[i] ELSE r[i - 3]
  BY <1>1, <1>2, ConcatProperties
<1>4. s # <<>> /\ Len(s) >= 3 /\ s[1] = a /\ s[2] = b /\ s[3] = c
  <2>1. 1 \in 1..(3 + Len(r)) /\ 2 \in 1..(3 + Len(r)) /\ 3 \in 1..(3 + Len(r)) /\ 3 + Len(r) # 0
        /\ 3 + Len(r) >= 3
    BY <1>2
  <2> QED BY <1>3, <2>1
<1>5. /\ SubSeq(s, 4, Len(s)) \in Seq(S) /\ Len(SubSeq(s, 4, Len(s))) = Len(r)
      /\ \A i \in 1..Len(r) : SubSeq(s, 4, Len(s))[i] = r[i]
  <2>1. \A i \in 4..Len(s) : s[i] \in S
    BY <1>2, <1>3
  <2>2. /\ Len(s) \in Int /\ Len(s) - 4 + 1 = Len(r)
        /\ (IF 4 <= Len(s) THEN Len(s) - 4 + 1 ELSE 0) = Len(r)
    BY <1>2, <1>3
  <2>3. /\ SubSeq(s, 4, Len(s)) \in Seq(S) /\ Len(SubSeq(s, 4, Len(s))) = Len(r)
        /\ \A i \in 1..Len(r) : SubSeq(s, 4, Len(s))[i] = s[4 + i - 1]
    BY <2>1, <2>2, SubSeqProperties
  <2>4. ASSUME NEW i \in 1..Len(r) PROVE s[4 + i - 1] = r[i]
    <3>1. 4 + i - 1 \in 1..(3 + Len(r)) /\ ~(4 + i - 1 <= 3) /\ (4 + i - 1) - 3 = i
      BY <1>2
    <3> QED BY <1>3, <3>1
  <2> QED BY <2>3, <2>4
<1>6. SubSeq(s, 4, Len(s)) = r
  BY <1>5, SeqEqual
<1> QED
  BY <1>1, <1>3, <1>4, <1>6

LEMMA FrontOff ==
    ASSUME NEW S, NEW s \in Seq(S), s # <<>>
    PROVE  \E q \in Seq(S) : s = <<s[1]>> \o q
<1>1. /\ Tail(s) \in Seq(S) /\ Len(Tail(s)) = Len(s) - 1
      /\ \A i \in 1..Len(Tail(s)) : Tail(s)[i] = s[i + 1]
  BY HeadTailProperties
<1>2. Len(s) \in Nat \ {0} /\ s[1] \in S /\ Len(<<s[1]>>) = 1 /\ <<s[1]>>[1] = s[1]
  <2>1. Len(s) \in Nat \ {0}
    BY EmptySeq
  <2>2. s[1] \in S
    BY <2>1, ElementOfSeq
  <2> QED BY <2>1, <2>2
<1>3. PICK t : t = <<s[1]>> \o Tail(s)
  OBVIOUS
<1>4. /\ t \in Seq(S) /\ Len(t) = Len(s)
      /\ \A i \in 1..Len(s) : t[i] = IF i <= 1 THEN <<s[1]>>[i] ELSE Tail(s)[i - 1]
  <2>1. <<s[1]>> \in Seq(S)
    BY <1>2
  <2>2. 1 + Len(Tail(s)) = Len(s)
    BY <1>1, <1>2
  <2> QED BY <1>1, <1>2, <1>3, <2>1, <2>2, ConcatProperties
<1>5. ASSUME NEW i \in 1..Len(s) PROVE t[i] = s[i]
  <2>1. CASE i = 1
    BY <1>2, <1>4, <2>1
  <2>2. CASE i # 1
    <3>1. ~(i <= 1) /\ i - 1 \in 1..Len(Tail(s)) /\ (i - 1) + 1 = i
      BY <1>1, <1>2, <2>2
    <3> QED BY <1>1, <1>4, <3>1
  <2> QED BY <2>1, <2>2
<1>6. t = s
  BY <1>4, <1>5, SeqEqual
<1> QED
  BY <1>1, <1>3, <1>6

Safe == (0..255) \ {Amp, Equals}

\* How usp_encode writes one byte.
Written(c) == IF Unreserved(c) THEN <<c>>
              ELSE IF c = Blank THEN <<Plus>>
              ELSE <<Percent, Hex(c \div 16), Hex(c % 16)>>

LEMMA HexDigits ==
    ASSUME NEW d \in 0..15
    PROVE  Hex(d) \in Safe /\ usp_hex_val(Hex(d)) = d
<1>1. CASE d < 10
  <2>1. Hex(d) = 48 + d
    BY <1>1 DEF Hex
  <2>2. Hex(d) \in 48..57 /\ Hex(d) - 48 = d
    BY <1>1, <2>1
  <2> QED BY <2>2 DEF usp_hex_val, Safe, Amp, Equals
<1>2. CASE ~(d < 10)
  <2>1. Hex(d) = 55 + d
    BY <1>2 DEF Hex
  <2>2. PICK h : h = Hex(d) /\ h \in 65..70 /\ h - 55 = d
    BY <1>2, <2>1
  <2>3. h \notin 48..57 /\ h \notin 97..102
    BY <2>2
  <2>4. usp_hex_val(h) = h - 55
    BY <2>2, <2>3 DEF usp_hex_val
  <2>5. h \in Safe
    BY <2>2 DEF Safe, Amp, Equals
  <2> QED BY <2>2, <2>4, <2>5
<1> QED
  BY <1>1, <1>2

LEMMA StringsRegroup ==
    ASSUME NEW x \in Strings, NEW y \in Strings, NEW z \in Strings
    PROVE  (x \o y) \o z = x \o (y \o z)
BY ConcatAssociative DEF Strings

LEMMA WrittenDecodes ==
    ASSUME NEW c \in 0..255, NEW r \in Strings
    PROVE  /\ Written(c) \in Seq(Safe)
           /\ usp_decode[Written(c) \o r] = <<c>> \o usp_decode[r]
<1>1. r \in Seq(0..255) /\ Len(r) \in Nat /\ DOMAIN r = 1..Len(r)
  BY BytesOf DEF Strings
<1>2. ASSUME NEW b \in 0..255, ~BeginsWithEscape(<<b>> \o r), (IF b = Plus THEN Blank ELSE b) = c
      PROVE  usp_decode[<<b>> \o r] = <<c>> \o usp_decode[r]
  <2>1. PICK s : s = <<b>> \o r
    OBVIOUS
  <2>2. /\ s \in Strings /\ s # <<>> /\ s[1] = b /\ Tail(s) = r
    BY <1>1, <2>1, OneInFront DEF Strings
  <2>3. DecodeHead(s) = <<c>> /\ DecodeRest(s) = r
    BY <1>2, <2>1, <2>2, Zenon DEF DecodeHead, DecodeRest
  <2> QED BY <2>1, <2>2, <2>3, QueryDecoding
<1>3. CASE Unreserved(c)
  <2>1. c \in Safe /\ c # Percent /\ c # Plus
    BY <1>3 DEF Unreserved, Safe, Percent, Plus, Amp, Equals
  <2>2. (<<c>> \o r)[1] = c
    BY <1>1, OneInFront
  <2>3. ~BeginsWithEscape(<<c>> \o r)
    BY <2>1, <2>2 DEF BeginsWithEscape
  <2>4. Written(c) = <<c>> /\ <<c>> \in Seq(Safe)
    BY <1>3, <2>1 DEF Written
  <2> QED BY <1>2, <2>1, <2>3, <2>4
<1>4. CASE ~Unreserved(c) /\ c = Blank
  <2>1. Plus \in Safe /\ Plus # Percent /\ Plus \in 0..255
    BY DEF Safe, Percent, Plus, Amp, Equals
  <2>2. (<<Plus>> \o r)[1] = Plus
    BY <1>1, <2>1, OneInFront
  <2>3. ~BeginsWithEscape(<<Plus>> \o r)
    BY <2>1, <2>2 DEF BeginsWithEscape
  <2>4. Written(c) = <<Plus>> /\ <<Plus>> \in Seq(Safe)
    BY <1>4, <2>1 DEF Written
  <2> QED BY <1>2, <1>4, <2>1, <2>3, <2>4
<1>5. CASE ~Unreserved(c) /\ c # Blank
  <2>1. PICK x \in 0..15, y \in 0..15 : x = c \div 16 /\ y = c % 16 /\ 16 * x + y = c
    OBVIOUS
  <2>2. PICK a, b : /\ a = Hex(x) /\ b = Hex(y) /\ a \in Safe /\ b \in Safe
                    /\ usp_hex_val(a) = x /\ usp_hex_val(b) = y
    BY HexDigits
  <2>3. Written(c) = <<Percent, a, b>>
    BY <1>5, <2>1, <2>2 DEF Written
  <2>4. Percent \in Safe /\ Percent \in 0..255 /\ a \in 0..255 /\ b \in 0..255
    BY <2>2 DEF Safe, Percent, Amp, Equals
  <2>5. PICK s : s = <<Percent, a, b>> \o r
    OBVIOUS
  <2>6. /\ s \in Strings /\ s # <<>> /\ Len(s) >= 3 /\ s[1] = Percent /\ s[2] = a /\ s[3] = b
        /\ SubSeq(s, 4, Len(s)) = r
    BY <1>1, <2>4, <2>5, ThreeInFront DEF Strings
  <2>7. BeginsWithEscape(s)
    BY <2>1, <2>2, <2>6 DEF BeginsWithEscape
  <2>8. DecodeHead(s) = <<c>> /\ DecodeRest(s) = r
    <3>1. 16 * usp_hex_val(s[2]) + usp_hex_val(s[3]) = c
      BY <2>1, <2>2, <2>6
    <3> QED BY <2>6, <2>7, <3>1, Zenon DEF DecodeHead, DecodeRest
  <2>9. usp_decode[s] = <<c>> \o usp_decode[r]
    BY <2>6, <2>8, QueryDecoding
  <2>10. <<Percent, a, b>> \in Seq(Safe)
    BY <2>2, <2>4
  <2> QED BY <2>3, <2>5, <2>9, <2>10
<1> QED
  BY <1>3, <1>4, <1>5

\* Encoded, a string holds neither separator and is read back, whatever follows it.
LEMMA EncodedDecodes ==
    ASSUME NEW s \in Strings
    PROVE  /\ usp_encode(s) \in Seq(Safe)
           /\ \A r \in Strings : usp_decode[usp_encode(s) \o r] = s \o usp_decode[r]
<1> DEFINE n == Len(s)
           parts == [i \in DOMAIN s |-> Written(s[i])]
<1>1. n \in Nat /\ DOMAIN s = 1..n /\ s \in Seq(0..255) /\ \A i \in 1..n : s[i] \in 0..255
  BY BytesOf DEF Strings
<1>2. <<>> \in Strings
  BY DEF Strings
<1>3. \A i \in 1..n : parts[i] \in Seq(Safe)
  BY <1>1, <1>2, WrittenDecodes
<1>4. parts \in Seq(Seq(Safe)) /\ Len(parts) = n
  BY <1>1, <1>3
<1>5. usp_encode(s) = FlattenSeq(parts)
  BY Zenon DEF usp_encode, Written
<1>6. \A i \in 1..n : parts[i] = Written(s[i])
  BY <1>1
<1> HIDE DEF parts
<1>7. PICK F : Sums(F, parts, Safe)
  BY <1>4, SumsExist
<1>8. F \in [0..n -> Seq(Safe)] /\ F[0] = <<>> /\ \A i \in 1..n : F[i] = F[i - 1] \o parts[i]
  BY <1>4, <1>7 DEF Sums
<1>9. usp_encode(s) = F[n] /\ usp_encode(s) \in Seq(Safe)
  BY <1>4, <1>5, <1>7, SumIsFlat, FlatType
<1>10. \A t \in Seq(Safe) : t \in Strings
  BY DEF Safe, Strings
<1>11. PICK T : T = {k \in 0..n : \A r \in Strings : usp_decode[F[k] \o r] = SubSeq(s, 1, k) \o usp_decode[r]}
  OBVIOUS
<1>12. 0 \in T
  <2>1. ASSUME NEW r \in Strings PROVE usp_decode[<<>> \o r] = SubSeq(s, 1, 0) \o usp_decode[r]
    <3>1. <<>> \o r = r
      BY ConcatEmptySeq DEF Strings
    <3>2. usp_decode[r] \in Seq(0..255)
      BY QueryDecoding DEF Strings
    <3>3. <<>> \o usp_decode[r] = usp_decode[r]
      BY <3>2, ConcatEmptySeq
    <3>4. SubSeq(s, 1, 0) = <<>>
      BY SubSeqEmpty
    <3> QED BY <3>1, <3>3, <3>4
  <2>2. \A r \in Strings : usp_decode[F[0] \o r] = SubSeq(s, 1, 0) \o usp_decode[r]
    BY <1>8, <2>1, Zenon
  <2>3. 0 \in 0..n
    BY <1>1
  <2> QED BY <1>11, <2>2, <2>3
<1>13. ASSUME NEW k \in 0..(n - 1), k \in T PROVE k + 1 \in T
  <2>1. k + 1 \in 0..n /\ k + 1 \in 1..n /\ (k + 1) - 1 = k /\ k \in 0..n
    BY <1>1
  <2>2. PICK c \in 0..255 : c = s[k + 1]
    BY <1>1, <2>1
  <2>3. F[k] \in Strings /\ Written(c) \in Strings /\ F[k + 1] = F[k] \o Written(c)
    BY <1>3, <1>6, <1>8, <1>10, <2>1, <2>2
  <2>4. ASSUME NEW r \in Strings
        PROVE  usp_decode[F[k + 1] \o r] = SubSeq(s, 1, k + 1) \o usp_decode[r]
    <3>1. Written(c) \o r \in Strings
      BY <2>3, ConcatProperties DEF Strings
    <3>2. F[k + 1] \o r = F[k] \o (Written(c) \o r)
      <4>1. (F[k] \o Written(c)) \o r = F[k] \o (Written(c) \o r)
        BY <2>3, StringsRegroup, Zenon
      <4> QED BY <2>3, <4>1, Zenon
    <3>3. usp_decode[F[k] \o (Written(c) \o r)] = SubSeq(s, 1, k) \o usp_decode[Written(c) \o r]
      BY <1>11, <1>13, <3>1
    <3>4. usp_decode[Written(c) \o r] = <<c>> \o usp_decode[r]
      BY WrittenDecodes
    <3>5. usp_decode[r] \in Strings /\ SubSeq(s, 1, k) \in Strings /\ <<c>> \in Strings
      <4>1. \A i \in 1..k : s[i] \in 0..255
        BY <1>1, <2>1
      <4>2. SubSeq(s, 1, k) \in Seq(0..255)
        BY <2>1, <4>1, SubSeqProperties
      <4> QED BY <4>2, QueryDecoding DEF Strings
    <3>6. SubSeq(s, 1, k) \o (<<c>> \o usp_decode[r]) = (SubSeq(s, 1, k) \o <<c>>) \o usp_decode[r]
      BY <3>5, StringsRegroup, ZenonT(40)
    <3>7. SubSeq(s, 1, k + 1) = SubSeq(s, 1, k) \o <<c>>
      <4>1. 1 \in 1..Len(s) /\ k + 1 \in 1..Len(s)
        BY <2>1
      <4> QED BY <1>1, <2>1, <2>2, <4>1, SubSeqRecursiveSecond
    <3> QED BY <3>2, <3>3, <3>4, <3>6, <3>7
  <2> QED BY <1>11, <2>1, <2>4
<1>14. n \in T
  <2>1. \A k \in 0..n : k \in T
    BY <1>1, <1>12, <1>13, CountsUp
  <2> QED BY <1>1, <2>1
<1>15. SubSeq(s, 1, n) = s
  BY <1>1, SubSeqFull
<1> QED
  BY <1>9, <1>11, <1>14, <1>15

(* Cutting a string at the first of a character. *)

LEMMA CutAt ==
    ASSUME NEW c, NEW a \in Strings, NEW b \in Strings, \A i \in 1..Len(a) : a[i] # c, c \in 0..255
    PROVE  /\ (a \o <<c>>) \o b \in Strings /\ (a \o <<c>>) \o b # <<>>
           /\ UpTo((a \o <<c>>) \o b, c) = a /\ After((a \o <<c>>) \o b, c) = b
<1>1. PICK s : s = (a \o <<c>>) \o b
  OBVIOUS
<1>2. PICK n \in Nat, m \in Nat : n = Len(a) /\ m = Len(b)
  BY BytesOf
<1>3. PICK S : S = 0..255 /\ Strings = Seq(S) /\ c \in S
  BY DEF Strings
<1>4. /\ a \o <<c>> \in Seq(S) /\ Len(a \o <<c>>) = n + 1
      /\ \A i \in 1..(n + 1) : (a \o <<c>>)[i] = IF i <= n THEN a[i] ELSE <<c>>[i - n]
  <2>1. <<c>> \in Seq(S) /\ Len(<<c>>) = 1
    BY <1>3
  <2> QED BY <1>2, <1>3, <2>1, ConcatProperties
<1>5. /\ s \in Seq(S) /\ Len(s) = n + 1 + m
      /\ \A i \in 1..(n + 1 + m) : s[i] = IF i <= n + 1 THEN (a \o <<c>>)[i] ELSE b[i - (n + 1)]
  BY <1>1, <1>2, <1>3, <1>4, ConcatProperties
<1>6. /\ \A i \in 1..n : s[i] = a[i] /\ s[i] # c
      /\ s[n + 1] = c /\ n + 1 \in 1..(n + 1 + m)
      /\ \A i \in 1..m : s[n + 1 + i] = b[i]
  <2>1. ASSUME NEW i \in 1..n PROVE s[i] = a[i] /\ s[i] # c
    <3>1. i \in 1..(n + 1) /\ i \in 1..(n + 1 + m) /\ i <= n /\ i <= n + 1
      OBVIOUS
    <3> QED BY <1>2, <1>4, <1>5, <3>1
  <2>2. s[n + 1] = c
    <3>1. n + 1 \in 1..(n + 1) /\ n + 1 \in 1..(n + 1 + m) /\ ~(n + 1 <= n) /\ (n + 1) - n = 1
      OBVIOUS
    <3> QED BY <1>4, <1>5, <3>1
  <2>3. ASSUME NEW i \in 1..m PROVE s[n + 1 + i] = b[i]
    <3>1. n + 1 + i \in 1..(n + 1 + m) /\ ~(n + 1 + i <= n + 1) /\ (n + 1 + i) - (n + 1) = i
      OBVIOUS
    <3> QED BY <1>5, <3>1
  <2>4. n + 1 \in 1..(n + 1 + m)
    OBVIOUS
  <2> QED BY <2>1, <2>2, <2>3, <2>4
<1>7. Position(s, c) = n + 1
  <2>1. DOMAIN s = 1..(n + 1 + m)
    BY <1>5
  <2>2. PICK Q : Q = {j \in DOMAIN s : s[j] = c} \cup {Len(s) + 1}
    OBVIOUS
  <2>3. n + 1 \in Q
    BY <1>6, <2>1, <2>2
  <2>4. \A j \in Q : j \in Nat /\ n + 1 <= j
    <3>1. \A j \in 1..(n + 1 + m) : j \notin 1..n => n + 1 <= j
      OBVIOUS
    <3>2. n + 1 <= Len(s) + 1 /\ Len(s) + 1 \in Nat
      BY <1>5
    <3> QED BY <1>6, <2>1, <2>2, <3>1, <3>2
  <2>5. \A x : x \in Q /\ (\A y \in Q : x <= y) => x = n + 1
    BY <2>3, <2>4
  <2>6. Min(Q) = n + 1
    BY <2>3, <2>4, <2>5 DEF Min
  <2> QED BY <2>2, <2>6 DEF Position
<1>8. UpTo(s, c) = a
  <2>1. UpTo(s, c) = SubSeq(s, 1, n)
    BY <1>7 DEF UpTo
  <2>2. \A i \in 1..n : s[i] \in S
    BY <1>2, <1>3, <1>6, SMTT(40)
  <2>3. /\ SubSeq(s, 1, n) \in Seq(S) /\ Len(SubSeq(s, 1, n)) = n
        /\ \A i \in 1..n : SubSeq(s, 1, n)[i] = s[i]
    <3>1. n \in 0..Len(s)
      BY <1>5
    <3> QED BY <1>5, <3>1, PrefixFacts
  <2> QED BY <1>2, <1>3, <1>6, <2>1, <2>3, SeqEqual
<1>9. After(s, c) = b
  <2>1. After(s, c) = SubSeq(s, n + 2, n + 1 + m)
    BY <1>5, <1>7 DEF After
  <2>2. \A i \in (n + 2)..(n + 1 + m) : s[i] \in S
    BY <1>5
  <2>3. /\ n + 2 \in Int /\ n + 1 + m \in Int /\ (n + 1 + m) - (n + 2) + 1 = m
        /\ (IF n + 2 <= n + 1 + m THEN (n + 1 + m) - (n + 2) + 1 ELSE 0) = m
    OBVIOUS
  <2>4. /\ SubSeq(s, n + 2, n + 1 + m) \in Seq(S) /\ Len(SubSeq(s, n + 2, n + 1 + m)) = m
        /\ \A i \in 1..m : SubSeq(s, n + 2, n + 1 + m)[i] = s[n + 2 + i - 1]
    BY <2>2, <2>3, SubSeqProperties
  <2>5. \A i \in 1..m : s[n + 2 + i - 1] = b[i]
    <3>1. \A i \in 1..m : n + 2 + i - 1 = n + 1 + i
      OBVIOUS
    <3> QED BY <1>6, <3>1
  <2>6. PICK t : t = SubSeq(s, n + 2, n + 1 + m)
    OBVIOUS
  <2>7. t \in Seq(S) /\ b \in Seq(S) /\ Len(t) = Len(b) /\ \A i \in 1..Len(t) : t[i] = b[i]
    BY <1>2, <1>3, <2>4, <2>5, <2>6
  <2>8. t = b
    BY <2>7, SeqEqual
  <2> QED BY <2>1, <2>6, <2>8
<1>10. s # <<>>
  BY <1>5
<1> QED
  BY <1>1, <1>3, <1>5, <1>8, <1>9, <1>10

LEMMA NoCut ==
    ASSUME NEW c, NEW a \in Strings, \A i \in 1..Len(a) : a[i] # c
    PROVE  UpTo(a, c) = a /\ After(a, c) = <<>>
<1>1. PICK n \in Nat : n = Len(a) /\ DOMAIN a = 1..n
  BY BytesOf
<1>2. Position(a, c) = n + 1
  <2>1. {j \in DOMAIN a : a[j] = c} \cup {Len(a) + 1} = {n + 1}
    BY <1>1
  <2>2. Min({n + 1}) = n + 1
    BY DEF Min
  <2> QED BY <2>1, <2>2 DEF Position
<1>3. UpTo(a, c) = a
  <2>1. UpTo(a, c) = SubSeq(a, 1, Len(a))
    BY <1>1, <1>2 DEF UpTo
  <2> QED BY <2>1, SubSeqFull DEF Strings
<1>4. After(a, c) = SubSeq(a, n + 2, n)
  BY <1>1, <1>2 DEF After
<1> QED
  BY <1>3, <1>4, SubSeqEmpty

\* Whatever a string holds, cutting it yields strings, and the rest is shorter.
LEMMA CutTypes ==
    ASSUME NEW s \in Strings, NEW c
    PROVE  /\ UpTo(s, c) \in Strings /\ After(s, c) \in Strings
           /\ s # <<>> => Len(After(s, c)) < Len(s)
<1>1. PICK n \in Nat : n = Len(s) /\ DOMAIN s = 1..n /\ \A i \in 1..n : s[i] \in 0..255
  BY BytesOf
<1>2. PICK S : S = 0..255 /\ Strings = Seq(S) /\ \A i \in 1..n : s[i] \in S
  BY <1>1 DEF Strings
<1>3. PICK p \in 1..(n + 1) : p = Position(s, c)
  <2>1. PICK Q : Q = {j \in DOMAIN s : s[j] = c} \cup {Len(s) + 1}
    OBVIOUS
  <2>2. Q \subseteq 1..(n + 1) /\ Q # {} /\ Q \in SUBSET Nat
    BY <1>1, <2>1
  <2>3. PICK x \in Q : \A y \in Q : ~(y < x)
    BY <2>2, LeastOf
  <2>4. x \in Q /\ \A y \in Q : x <= y
    BY <2>2, <2>3
  <2>5. Min(Q) \in Q
    BY <2>4 DEF Min
  <2> QED BY <2>1, <2>2, <2>5 DEF Position
<1>4. UpTo(s, c) \in Strings
  <2>1. \A i \in 1..(p - 1) : s[i] \in S
    BY <1>2
  <2>2. SubSeq(s, 1, p - 1) \in Seq(S)
    BY <2>1, SubSeqProperties
  <2> QED BY <1>2, <1>3, <2>2 DEF UpTo
<1>5. After(s, c) \in Strings /\ (s # <<>> => Len(After(s, c)) < Len(s))
  <2>1. After(s, c) = SubSeq(s, p + 1, n)
    BY <1>1, <1>3 DEF After
  <2>2. \A i \in (p + 1)..n : s[i] \in S
    BY <1>2
  <2>3. /\ SubSeq(s, p + 1, n) \in Seq(S)
        /\ Len(SubSeq(s, p + 1, n)) = IF p + 1 <= n THEN n - (p + 1) + 1 ELSE 0
    BY <2>2, SubSeqProperties
  <2>4. s # <<>> => n > 0
    BY <1>1, BytesOf
  <2>5. n > 0 => (IF p + 1 <= n THEN n - (p + 1) + 1 ELSE 0) < n
    OBVIOUS
  <2> QED BY <1>1, <1>2, <2>1, <2>3, <2>4, <2>5
<1> QED
  BY <1>4, <1>5

(* What is serialized is parsed. *)

Pairs == Strings \X Strings

LEMMA PairTypes ==
    ASSUME NEW t \in Strings
    PROVE  Pair[t] \in Seq(Pairs) /\ (t = <<>> => Pair[t] = <<>>)
<1>1. Pair[t] = IF t = <<>> THEN <<>>
                ELSE <<<<usp_decode[UpTo(t, Equals)], usp_decode[After(t, Equals)]>>>>
  BY Zenon DEF Pair
<1>2. <<usp_decode[UpTo(t, Equals)], usp_decode[After(t, Equals)]>> \in Pairs
  BY CutTypes, QueryDecoding DEF Pairs
<1>3. <<<<usp_decode[UpTo(t, Equals)], usp_decode[After(t, Equals)]>>>> \in Seq(Pairs)
  BY <1>2
<1> QED
  BY <1>1, <1>3

LEMMA Parsing ==
    /\ usp_parse \in [Strings -> Seq(Pairs)]
    /\ usp_parse[<<>>] = <<>>
    /\ \A q \in Strings : q # <<>> => usp_parse[q] = Pair[UpTo(q, Amp)] \o usp_parse[After(q, Amp)]
<1>1. PICK head \in [Strings -> Seq(Pairs)], rest \in [Strings -> Strings] :
         \A q \in Strings : head[q] = Pair[UpTo(q, Amp)] /\ rest[q] = After(q, Amp)
  <2>1. PICK head : head = [q \in Strings |-> Pair[UpTo(q, Amp)]]
    OBVIOUS
  <2>2. PICK rest : rest = [q \in Strings |-> After(q, Amp)]
    OBVIOUS
  <2>3. \A q \in Strings : After(q, Amp) \in Strings
    BY CutTypes
  <2>4. \A q \in Strings : Pair[UpTo(q, Amp)] \in Seq(Pairs)
    BY CutTypes, PairTypes
  <2>5. head \in [Strings -> Seq(Pairs)]
    BY <2>1, <2>4
  <2>6. rest \in [Strings -> Strings]
    BY <2>2, <2>3
  <2> QED BY <2>1, <2>2, <2>5, <2>6
<1>2. \A q \in Strings : q # <<>> => Len(rest[q]) < Len(q)
  BY <1>1, CutTypes
<1>3. ASSUME NEW f
      PROVE  [q \in Strings |-> IF q = <<>> THEN <<>> ELSE Pair[UpTo(q, Amp)] \o f[After(q, Amp)]]
             = [q \in Strings |-> IF q = <<>> THEN <<>> ELSE head[q] \o f[rest[q]]]
  BY <1>1, Zenon
<1>4. PICK f : Peeled(f, 0..255, head, rest)
  BY <1>1, <1>2, PeeledExists DEF Strings
<1>5. Peeled(usp_parse, 0..255, head, rest)
  <2> DEFINE d == CHOOSE g : g = [q \in Strings |->
                    IF q = <<>> THEN <<>> ELSE Pair[UpTo(q, Amp)] \o g[After(q, Amp)]]
  <2>1. f = [q \in Strings |-> IF q = <<>> THEN <<>> ELSE Pair[UpTo(q, Amp)] \o f[After(q, Amp)]]
    <3>1. f = [q \in Strings |-> IF q = <<>> THEN <<>> ELSE head[q] \o f[rest[q]]]
      BY <1>4 DEF Peeled, Strings
    <3> QED BY <1>3, <3>1, Zenon
  <2>2. d = [q \in Strings |-> IF q = <<>> THEN <<>> ELSE Pair[UpTo(q, Amp)] \o d[After(q, Amp)]]
    BY <2>1, Zenon
  <2>3. usp_parse = d
    BY Zenon DEF usp_parse
  <2> HIDE DEF d
  <2>4. d = [q \in Strings |-> IF q = <<>> THEN <<>> ELSE head[q] \o d[rest[q]]]
    BY <1>3, <2>2, Zenon
  <2> QED BY <2>3, <2>4, Zenon DEF Peeled, Strings
<1>6. usp_parse \in [Strings -> Seq(Pairs)]
  <2>1. head \in [Seq(0..255) -> Seq(Pairs)] /\ rest \in [Seq(0..255) -> Seq(0..255)]
    BY <1>1 DEF Strings
  <2>2. \A q \in Seq(0..255) : q # <<>> => Len(rest[q]) < Len(q)
    BY <1>2 DEF Strings
  <2>3. usp_parse \in [Seq(0..255) -> Seq(Pairs)]
    BY <1>5, <2>1, <2>2, PeeledType, ZenonT(60)
  <2> QED BY <2>3 DEF Strings
<1>7. \A q \in Strings : usp_parse[q] = IF q = <<>> THEN <<>> ELSE head[q] \o usp_parse[rest[q]]
  BY <1>5, Zenon DEF Peeled, Strings
<1>8. <<>> \in Strings
  BY DEF Strings
<1> QED
  BY <1>1, <1>6, <1>7, <1>8

\* How usp_serialize writes a pair.
Token(p) == (usp_encode(p[1]) \o <<Equals>>) \o usp_encode(p[2])

LEMMA TokenFacts ==
    ASSUME NEW p \in Pairs
    PROVE  /\ Token(p) \in Strings /\ Token(p) # <<>>
           /\ \A i \in 1..Len(Token(p)) : Token(p)[i] # Amp
           /\ Pair[Token(p)] = <<p>>
<1>1. PICK n \in Strings, v \in Strings : p = <<n, v>> /\ p[1] = n /\ p[2] = v
  BY DEF Pairs
<1>2. PICK a \in Seq(Safe), b \in Seq(Safe) : a = usp_encode(n) /\ b = usp_encode(v)
  BY EncodedDecodes
<1>3. /\ a \in Strings /\ b \in Strings /\ Equals \in 0..255 /\ Equals \notin Safe
      /\ <<>> \in Strings
  BY DEF Safe, Strings, Equals
<1>4. \A i \in 1..Len(a) : a[i] # Equals
  BY <1>3
<1>5. /\ Token(p) = (a \o <<Equals>>) \o b /\ Token(p) \in Strings /\ Token(p) # <<>>
      /\ UpTo(Token(p), Equals) = a /\ After(Token(p), Equals) = b
  BY <1>1, <1>2, <1>3, <1>4, CutAt, ZenonT(60) DEF Token
<1>6. \A i \in 1..Len(Token(p)) : Token(p)[i] # Amp
  <2>1. PICK S : S = Safe \cup {Equals}
    OBVIOUS
  <2>2. a \in Seq(S) /\ b \in Seq(S) /\ <<Equals>> \in Seq(S)
    BY <2>1
  <2>3. a \o <<Equals>> \in Seq(S)
    BY <2>2, ConcatProperties, Zenon
  <2>4. (a \o <<Equals>>) \o b \in Seq(S)
    BY <2>2, <2>3, ConcatProperties, Zenon
  <2>5. Amp \notin S
    BY <2>1 DEF Safe, Amp, Equals
  <2>6. PICK t \in Seq(S) : t = Token(p)
    BY <1>5, <2>4
  <2>7. \A i \in 1..Len(t) : t[i] \in S
    BY <2>6
  <2> QED BY <2>5, <2>6, <2>7
<1>7. usp_decode[a] = n /\ usp_decode[b] = v
  <2>1. ASSUME NEW s \in Strings PROVE usp_decode[usp_encode(s)] = s
    <3>1. usp_encode(s) \in Strings
      BY EncodedDecodes DEF Safe, Strings
    <3>2. usp_decode[usp_encode(s) \o <<>>] = s \o usp_decode[<<>>]
      BY <1>3, EncodedDecodes
    <3>3. usp_encode(s) \o <<>> = usp_encode(s) /\ s \o <<>> = s
      BY <3>1, ConcatEmptySeq DEF Strings
    <3> QED BY <3>2, <3>3, QueryDecoding
  <2> QED BY <1>2, <2>1
<1>8. Pair[Token(p)] = <<<<usp_decode[a], usp_decode[b]>>>>
  BY <1>5, Zenon DEF Pair
<1> QED
  BY <1>1, <1>5, <1>6, <1>7, <1>8

LEMMA SeparatorSkipped ==
    ASSUME NEW q \in Strings
    PROVE  <<Amp>> \o q \in Strings /\ usp_parse[<<Amp>> \o q] = usp_parse[q]
<1>1. Amp \in 0..255 /\ <<>> \in Strings
  BY DEF Amp, Strings
<1>2. (<<>> \o <<Amp>>) \o q = <<Amp>> \o q
  <2>1. <<Amp>> \in Seq(0..255)
    BY <1>1
  <2>2. <<>> \o <<Amp>> = <<Amp>>
    BY <2>1, ConcatEmptySeq
  <2> QED BY <2>2
<1>3. /\ <<Amp>> \o q \in Strings /\ <<Amp>> \o q # <<>>
      /\ UpTo(<<Amp>> \o q, Amp) = <<>> /\ After(<<Amp>> \o q, Amp) = q
  <2>1. \A i \in 1..Len(<<>>) : <<>>[i] # Amp
    OBVIOUS
  <2>2. /\ (<<>> \o <<Amp>>) \o q \in Strings /\ (<<>> \o <<Amp>>) \o q # <<>>
        /\ UpTo((<<>> \o <<Amp>>) \o q, Amp) = <<>> /\ After((<<>> \o <<Amp>>) \o q, Amp) = q
    BY <1>1, <2>1, CutAt
  <2> QED BY <1>2, <2>2, Zenon
<1>4. usp_parse[<<Amp>> \o q] = Pair[<<>>] \o usp_parse[q]
  BY <1>3, Parsing
<1>5. Pair[<<>>] = <<>> /\ usp_parse[q] \in Seq(Pairs)
  BY <1>1, PairTypes, Parsing
<1>6. <<>> \o usp_parse[q] = usp_parse[q]
  BY <1>5, ConcatEmptySeq
<1> QED
  BY <1>3, <1>4, <1>5, <1>6

\* A token is cut off what follows it: nothing, or a separator.
LEMMA TokenParses ==
    ASSUME NEW p \in Pairs, NEW r \in Strings, r = <<>> \/ r[1] = Amp
    PROVE  usp_parse[Token(p) \o r] = <<p>> \o usp_parse[r]
<1>1. /\ Token(p) \in Strings /\ Token(p) # <<>> /\ Amp \in 0..255 /\ <<>> \in Strings
      /\ \A i \in 1..Len(Token(p)) : Token(p)[i] # Amp
      /\ Pair[Token(p)] = <<p>>
  BY TokenFacts DEF Amp, Strings
<1>2. PICK t : t = Token(p)
  OBVIOUS
<1>3. CASE r = <<>>
  <2>1. t \o r = t
    BY <1>1, <1>2, <1>3, ConcatEmptySeq DEF Strings
  <2>2. UpTo(t, Amp) = t /\ After(t, Amp) = <<>>
    BY <1>1, <1>2, NoCut
  <2>3. usp_parse[t] = Pair[t] \o usp_parse[<<>>]
    BY <1>1, <1>2, <2>2, Parsing
  <2> QED BY <1>1, <1>2, <1>3, <2>1, <2>3
<1>4. CASE r # <<>>
  <2>1. PICK q \in Strings : r = <<Amp>> \o q
    BY <1>1, <1>4, FrontOff DEF Strings
  <2>2. t \o r = (t \o <<Amp>>) \o q
    <3>1. <<Amp>> \in Strings
      BY <1>1 DEF Strings
    <3>2. (t \o <<Amp>>) \o q = t \o (<<Amp>> \o q)
      <4>1. t \in Strings
        BY <1>1, <1>2
      <4> QED BY <3>1, <4>1, StringsRegroup, Zenon
    <3> QED BY <2>1, <3>2
  <2>3. usp_parse[t \o r] = Pair[t] \o usp_parse[q]
    <3>1. /\ (t \o <<Amp>>) \o q \in Strings /\ (t \o <<Amp>>) \o q # <<>>
          /\ UpTo((t \o <<Amp>>) \o q, Amp) = t /\ After((t \o <<Amp>>) \o q, Amp) = q
      BY <1>1, <1>2, CutAt
    <3> QED BY <2>2, <3>1, Parsing
  <2>4. usp_parse[r] = usp_parse[q]
    BY <2>1, SeparatorSkipped
  <2> QED BY <1>1, <1>2, <2>3, <2>4
<1> QED
  BY <1>3, <1>4

LEMMA PairsRegroup ==
    ASSUME NEW x \in Seq(Pairs), NEW y \in Seq(Pairs), NEW z \in Seq(Pairs)
    PROVE  (x \o y) \o z = x \o (y \o z)
BY ConcatAssociative

\* What usp_serialize writes, usp_parse reads, for lists of any strings.
LEMMA SerializeParses ==
    ASSUME NEW pairs \in Seq(Pairs)
    PROVE  usp_serialize(pairs) \in Strings /\ usp_parse[usp_serialize(pairs)] = pairs
<1> DEFINE n == Len(pairs)
           parts == [i \in DOMAIN pairs |->
                       (IF i > 1 THEN <<Amp>> ELSE <<>>)
                           \o usp_encode(pairs[i][1]) \o <<Equals>> \o usp_encode(pairs[i][2])]
<1>1. n \in Nat /\ DOMAIN pairs = 1..n /\ \A i \in 1..n : pairs[i] \in Pairs
  OBVIOUS
<1>2. <<>> \in Strings /\ <<Amp>> \in Strings /\ <<Equals>> \in Strings
  BY DEF Strings, Amp, Equals
<1>3. ASSUME NEW i \in 1..n
      PROVE  /\ parts[i] \in Strings
             /\ i = 1 => parts[i] = Token(pairs[i])
             /\ i # 1 => parts[i] = <<Amp>> \o Token(pairs[i])
  <2>1. PICK p \in Pairs : p = pairs[i] /\ p[1] \in Strings /\ p[2] \in Strings
    BY <1>1 DEF Pairs
  <2>2. PICK a \in Strings, b \in Strings : a = usp_encode(p[1]) /\ b = usp_encode(p[2])
    <3>1. usp_encode(p[1]) \in Seq(Safe) /\ usp_encode(p[2]) \in Seq(Safe)
      BY <2>1, EncodedDecodes
    <3>2. Seq(Safe) \subseteq Strings
      BY DEF Safe, Strings
    <3> QED BY <3>1, <3>2
  <2>3. PICK sep \in Strings : sep = IF i > 1 THEN <<Amp>> ELSE <<>>
    BY <1>2
  <2>4. parts[i] = ((sep \o a) \o <<Equals>>) \o b
    BY <1>1, <2>1, <2>2, <2>3
  <2>5. Token(p) = (a \o <<Equals>>) \o b
    BY <2>2 DEF Token
  <2>6. \A x, y \in Strings : x \o y \in Strings
    BY ConcatProperties DEF Strings
  <2>7. ((sep \o a) \o <<Equals>>) \o b = sep \o ((a \o <<Equals>>) \o b)
    <3>1. (sep \o a) \o <<Equals>> = sep \o (a \o <<Equals>>) /\ a \o <<Equals>> \in Strings
      BY <1>2, <2>6, StringsRegroup, ZenonT(40)
    <3>2. (sep \o (a \o <<Equals>>)) \o b = sep \o ((a \o <<Equals>>) \o b)
      BY <3>1, StringsRegroup, Zenon
    <3> QED BY <3>1, <3>2, Zenon
  <2>8. Token(p) \in Strings
    BY <1>2, <2>5, <2>6
  <2>9. <<>> \o Token(p) = Token(p)
    BY <2>8, ConcatEmptySeq DEF Strings
  <2>10. parts[i] = sep \o Token(p) /\ sep \o Token(p) \in Strings
    BY <2>4, <2>5, <2>6, <2>7, <2>8
  <2>11. i = 1 => sep = <<>>
    BY <2>3
  <2>12. i # 1 => sep = <<Amp>>
    BY <2>3
  <2> QED BY <2>1, <2>9, <2>10, <2>11, <2>12, Zenon
<1>4. parts \in Seq(Seq(0..255)) /\ Len(parts) = n
  <2>1. DOMAIN parts = 1..n
    BY <1>1
  <2>2. parts \in Seq(Strings) /\ Len(parts) = n
    <3>1. PICK S : S = Strings /\ \A i \in 1..n : parts[i] \in S
      BY <1>3
    <3>2. parts = [i \in 1..n |-> parts[i]]
      BY <2>1
    <3> HIDE DEF parts
    <3> QED BY <1>1, <3>1, <3>2
  <2> QED BY <2>2 DEF Strings
<1>5. usp_serialize(pairs) = FlattenSeq(parts)
  BY Zenon DEF usp_serialize
<1> HIDE DEF parts
<1>6. PICK F : Sums(F, parts, 0..255)
  BY <1>4, SumsExist
<1>7. F \in [0..n -> Strings] /\ F[0] = <<>> /\ \A i \in 1..n : F[i] = F[i - 1] \o parts[i]
  BY <1>4, <1>6 DEF Sums, Strings
<1>8. usp_serialize(pairs) = F[n] /\ F[n] \in Strings
  <2>1. n \in 0..n
    BY <1>1
  <2> QED BY <1>4, <1>5, <1>6, <1>7, <2>1, SumIsFlat
<1>9. PICK T : T = {k \in 0..n : \/ k = 0
                                 \/ \A r \in Strings : r = <<>> \/ r[1] = Amp =>
                                       usp_parse[F[k] \o r] = SubSeq(pairs, 1, k) \o usp_parse[r]}
  OBVIOUS
<1>10. 0 \in T
  BY <1>1, <1>9
<1>11. ASSUME NEW k \in 0..(n - 1), k \in T PROVE k + 1 \in T
  <2>1. k + 1 \in 0..n /\ k + 1 \in 1..n /\ (k + 1) - 1 = k /\ k \in 0..n
    BY <1>1
  <2>2. PICK p \in Pairs : p = pairs[k + 1] /\ Token(p) \in Strings
    BY <1>1, <2>1, TokenFacts
  <2>3. F[k] \in Strings /\ parts[k + 1] \in Strings /\ F[k + 1] = F[k] \o parts[k + 1]
    BY <1>3, <1>7, <2>1
  <2>4. ASSUME NEW r \in Strings, r = <<>> \/ r[1] = Amp
        PROVE  usp_parse[F[k + 1] \o r] = SubSeq(pairs, 1, k + 1) \o usp_parse[r]
    <3>1. usp_parse[Token(p) \o r] = <<p>> \o usp_parse[r] /\ Token(p) \o r \in Strings
      BY <2>2, <2>4, TokenParses, ConcatProperties DEF Strings
    <3>2. usp_parse[r] \in Seq(Pairs) /\ <<p>> \in Seq(Pairs)
      BY Parsing
    <3>3. CASE k = 0
      <4>1. parts[k + 1] = Token(p) /\ F[k] = <<>>
        BY <1>3, <1>7, <2>1, <2>2, <3>3
      <4>2. <<>> \o Token(p) = Token(p)
        BY <2>2, ConcatEmptySeq DEF Strings
      <4>3. SubSeq(pairs, 1, k + 1) = <<p>>
        <5>1. SubSeq(pairs, 1, 1) = <<pairs[1]>>
          <6>1. 1 \in 1..Len(pairs)
            BY <2>1, <3>3
          <6>2. SubSeq(pairs, 1, 1) = <<pairs[1]>> \o SubSeq(pairs, 2, 1)
            BY <6>1, SubSeqRecursiveFirst
          <6>3. SubSeq(pairs, 2, 1) = <<>>
            BY SubSeqEmpty
          <6>4. <<pairs[1]>> \in Seq(Pairs)
            BY <1>1, <6>1
          <6> QED BY <6>2, <6>3, <6>4, ConcatEmptySeq
        <5> QED BY <2>2, <3>3, <5>1
      <4>4. F[k + 1] = Token(p)
        BY <2>3, <4>1, <4>2
      <4> QED BY <3>1, <4>3, <4>4
    <3>4. CASE k # 0
      <4>1. parts[k + 1] = <<Amp>> \o Token(p)
        <5>1. k + 1 # 1
          BY <2>1, <3>4
        <5> QED BY <1>3, <2>1, <2>2, <5>1
      <4>0. (<<Amp>> \o Token(p)) \o r = <<Amp>> \o (Token(p) \o r)
        <5>1. <<Amp>> \in Strings /\ Token(p) \in Strings /\ r \in Strings
          BY <1>2, <2>2, <2>4
        <5>2. PICK x \in Strings, y \in Strings : x = <<Amp>> /\ y = Token(p)
          BY <5>1, Zenon
        <5>3. (x \o y) \o r = x \o (y \o r)
          BY <5>1, StringsRegroup, ZenonT(40)
        <5> QED BY <5>2, <5>3, Zenon
      <4>2. PICK q \in Strings : q = parts[k + 1] \o r /\ q[1] = Amp
        <5>2. Amp \in 0..255
          BY DEF Amp
        <5>3. /\ <<Amp>> \o (Token(p) \o r) \in Strings
              /\ (<<Amp>> \o (Token(p) \o r))[1] = Amp
          BY <3>1, <5>2, OneInFront DEF Strings
        <5> QED BY <4>0, <4>1, <5>3
      <4>3. usp_parse[q] = <<p>> \o usp_parse[r]
        <5>1. q = <<Amp>> \o (Token(p) \o r)
          BY <4>0, <4>1, <4>2
        <5> QED BY <3>1, <5>1, SeparatorSkipped
      <4>4. F[k + 1] \o r = F[k] \o q
        <5>1. (F[k] \o parts[k + 1]) \o r = F[k] \o (parts[k + 1] \o r)
          BY <2>3, StringsRegroup, Zenon
        <5> QED BY <2>3, <4>2, <5>1
      <4>5. usp_parse[F[k] \o q] = SubSeq(pairs, 1, k) \o usp_parse[q]
        BY <1>9, <1>11, <3>4, <4>2
      <4>6. SubSeq(pairs, 1, k) \in Seq(Pairs)
        <5>1. \A i \in 1..k : pairs[i] \in Pairs
          BY <1>1, <2>1
        <5> QED BY <2>1, <5>1, SubSeqProperties
      <4>7. SubSeq(pairs, 1, k) \o (<<p>> \o usp_parse[r]) = (SubSeq(pairs, 1, k) \o <<p>>) \o usp_parse[r]
        BY <3>2, <4>6, PairsRegroup, Zenon
      <4>8. SubSeq(pairs, 1, k + 1) = SubSeq(pairs, 1, k) \o <<p>>
        <5>1. 1 \in 1..Len(pairs) /\ k + 1 \in 1..Len(pairs)
          BY <2>1
        <5> QED BY <1>1, <2>1, <2>2, <5>1, SubSeqRecursiveSecond
      <4> QED BY <4>3, <4>4, <4>5, <4>7, <4>8
    <3> QED BY <3>3, <3>4
  <2> QED BY <1>9, <2>1, <2>4
<1>12. n \in T
  <2>1. \A k \in 0..n : k \in T
    BY <1>1, <1>10, <1>11, CountsUp
  <2> QED BY <1>1, <2>1
<1>13. usp_parse[F[n]] = pairs
  <2>1. CASE n = 0
    <3>1. pairs = <<>>
      BY <2>1
    <3> QED BY <1>7, <2>1, <3>1, Parsing
  <2>2. CASE n # 0
    <3>1. usp_parse[F[n] \o <<>>] = SubSeq(pairs, 1, n) \o usp_parse[<<>>]
      BY <1>2, <1>9, <1>12, <2>2
    <3>2. F[n] \o <<>> = F[n] /\ pairs \o <<>> = pairs
      BY <1>8, ConcatEmptySeq DEF Strings
    <3>3. SubSeq(pairs, 1, n) = pairs
      BY SubSeqFull
    <3> QED BY <3>1, <3>2, <3>3, Parsing
  <2> QED BY <2>1, <2>2
<1> QED
  BY <1>8, <1>13

(* Flattening by parts. *)

LEMMA FlatConcat ==
    ASSUME NEW P, NEW s \in Seq(Seq(P)), NEW t \in Seq(Seq(P))
    PROVE  FlattenSeq(s \o t) = FlattenSeq(s) \o FlattenSeq(t)
<1>1. PICK n \in Nat, m \in Nat : n = Len(s) /\ m = Len(t)
  OBVIOUS
<1>2. PICK u \in Seq(Seq(P)) : /\ u = s \o t /\ Len(u) = n + m
                               /\ \A i \in 1..(n + m) : u[i] = IF i <= n THEN s[i] ELSE t[i - n]
  <2>1. /\ s \o t \in Seq(Seq(P)) /\ Len(s \o t) = Len(s) + Len(t)
        /\ \A i \in 1..(Len(s) + Len(t)) :
              (s \o t)[i] = IF i <= Len(s) THEN s[i] ELSE t[i - Len(s)]
    BY ConcatProperties
  <2> QED BY <1>1, <2>1
<1>3. /\ \A i \in 1..n : i \in 1..(n + m) /\ u[i] = s[i]
      /\ \A i \in 1..m : n + i \in 1..(n + m) /\ u[n + i] = t[i] /\ t[i] \in Seq(P)
  <2>1. ASSUME NEW i \in 1..m PROVE n + i \in 1..(n + m) /\ u[n + i] = t[i] /\ t[i] \in Seq(P)
    <3>1. n + i \in 1..(n + m) /\ ~(n + i <= n) /\ (n + i) - n = i
      OBVIOUS
    <3> QED BY <1>1, <1>2, <3>1
  <2>2. \A i \in 1..n : i \in 1..(n + m) /\ i <= n
    OBVIOUS
  <2> QED BY <1>2, <2>1, <2>2
<1>4. PICK F : Sums(F, u, P)
  BY SumsExist
<1>5. /\ F \in [0..(n + m) -> Seq(P)] /\ F[0] = <<>>
      /\ \A i \in 1..(n + m) : F[i] = F[i - 1] \o u[i]
  BY <1>2, <1>4 DEF Sums
<1>6. PICK H : H = [i \in 0..n |-> F[i]]
  OBVIOUS
<1>7. Sums(H, s, P)
  <2>1. H \in [0..n -> Seq(P)] /\ H[0] = <<>>
    <3>1. \A i \in 0..n : i \in 0..(n + m)
      OBVIOUS
    <3> QED BY <1>5, <1>6, <3>1
  <2>2. ASSUME NEW i \in 1..n PROVE H[i] = H[i - 1] \o s[i]
    <3>1. i \in 0..n /\ i - 1 \in 0..n /\ i \in 1..(n + m)
      OBVIOUS
    <3> QED BY <1>3, <1>5, <1>6, <3>1
  <2> QED BY <1>1, <2>1, <2>2 DEF Sums
<1>8. PICK G : Sums(G, t, P)
  BY SumsExist
<1>9. /\ G \in [0..m -> Seq(P)] /\ G[0] = <<>>
      /\ \A i \in 1..m : G[i] = G[i - 1] \o t[i]
  BY <1>1, <1>8 DEF Sums
<1>10. F[n] \in Seq(P)
  <2>1. n \in 0..(n + m)
    OBVIOUS
  <2> QED BY <1>5, <2>1
<1>11. PICK T : T = {k \in 0..m : F[n + k] = F[n] \o G[k]}
  OBVIOUS
<1>12. 0 \in T
  <2>1. F[n] \o <<>> = F[n]
    BY <1>10, ConcatEmptySeq
  <2>2. 0 \in 0..m /\ n + 0 = n
    OBVIOUS
  <2> QED BY <1>9, <1>11, <2>1, <2>2
<1>13. ASSUME NEW k \in 0..(m - 1), k \in T PROVE k + 1 \in T
  <2>1. /\ k + 1 \in 0..m /\ k + 1 \in 1..m /\ (k + 1) - 1 = k /\ k \in 0..m
        /\ n + (k + 1) \in 1..(n + m) /\ (n + (k + 1)) - 1 = n + k
    OBVIOUS
  <2>2. F[n + (k + 1)] = F[n + k] \o t[k + 1]
    BY <1>3, <1>5, <2>1
  <2>3. F[n + k] = F[n] \o G[k]
    BY <1>11, <1>13
  <2>4. G[k + 1] = G[k] \o t[k + 1] /\ G[k] \in Seq(P) /\ t[k + 1] \in Seq(P)
    BY <1>3, <1>9, <2>1
  <2>5. (F[n] \o G[k]) \o t[k + 1] = F[n] \o (G[k] \o t[k + 1])
    <3>1. \A x, y, z \in Seq(P) : (x \o y) \o z = x \o (y \o z)
      BY ConcatAssociative, SMTT(40)
    <3> QED BY <1>10, <2>4, <3>1, Zenon
  <2> QED BY <1>11, <2>1, <2>2, <2>3, <2>4, <2>5
<1>14. m \in T
  <2>1. \A k \in 0..m : k \in T
    BY <1>12, <1>13, CountsUp
  <2> QED BY <2>1
<1>15. FlattenSeq(u) = F[n + m] /\ FlattenSeq(s) = H[n] /\ FlattenSeq(t) = G[m]
  BY <1>1, <1>2, <1>4, <1>7, <1>8, SumIsFlat
<1>16. H[n] = F[n]
  <2>1. n \in 0..n
    OBVIOUS
  <2> QED BY <1>6, <2>1
<1> QED
  BY <1>2, <1>11, <1>14, <1>15, <1>16

LEMMA FlatOne ==
    ASSUME NEW P, NEW s \in Seq(P)
    PROVE  <<s>> \in Seq(Seq(P)) /\ FlattenSeq(<<s>>) = s
<1>1. <<s>> \in Seq(Seq(P)) /\ Len(<<s>>) = 1 /\ <<s>>[1] = s
  OBVIOUS
<1>2. PICK F : Sums(F, <<s>>, P)
  BY <1>1, SumsExist
<1>3. F[1] = <<>> \o s
  <2>1. 1 \in 1..1 /\ 1 - 1 = 0
    OBVIOUS
  <2> QED BY <1>1, <1>2, <2>1 DEF Sums
<1>4. FlattenSeq(<<s>>) = F[1]
  BY <1>1, <1>2, SumIsFlat
<1> QED
  BY <1>1, <1>3, <1>4, ConcatEmptySeq

LEMMA FlatNothing ==
    ASSUME NEW P, NEW s \in Seq(Seq(P)), \A i \in 1..Len(s) : s[i] = <<>>
    PROVE  FlattenSeq(s) = <<>>
<1>1. PICK n \in Nat : n = Len(s)
  OBVIOUS
<1>2. PICK F : F = [i \in 0..n |-> <<>>]
  OBVIOUS
<1>3. Sums(F, s, P)
  <2>1. F \in [0..n -> Seq(P)] /\ F[0] = <<>>
    BY <1>2
  <2>2. ASSUME NEW i \in 1..n PROVE F[i] = F[i - 1] \o s[i]
    <3>1. i \in 0..n /\ i - 1 \in 0..n /\ s[i] = <<>>
      BY <1>1
    <3>2. <<>> \o <<>> = <<>>
      OBVIOUS
    <3> QED BY <1>2, <3>1, <3>2
  <2> QED BY <1>1, <2>1, <2>2 DEF Sums
<1>4. F[n] = <<>>
  BY <1>1, <1>2
<1> QED
  BY <1>1, <1>3, <1>4, SumIsFlat

LEMMA FlatSingles ==
    ASSUME NEW P, NEW s \in Seq(P), NEW t, t = [i \in 1..Len(s) |-> <<s[i]>>]
    PROVE  t \in Seq(Seq(P)) /\ FlattenSeq(t) = s
<1>1. PICK n \in Nat : n = Len(s) /\ \A i \in 1..n : s[i] \in P
  OBVIOUS
<1>2. t \in Seq(Seq(P)) /\ Len(t) = n /\ \A i \in 1..n : t[i] = <<s[i]>>
  BY <1>1
<1>3. PICK F : F = [i \in 0..n |-> SubSeq(s, 1, i)]
  OBVIOUS
<1>4. Sums(F, t, P)
  <2>1. ASSUME NEW i \in 0..n PROVE F[i] \in Seq(P)
    <3>1. \A j \in 1..i : s[j] \in P
      BY <1>1
    <3>2. SubSeq(s, 1, i) \in Seq(P)
      BY <3>1, SubSeqProperties
    <3> QED BY <1>3, <3>2
  <2>2. F[0] = <<>>
    <3>1. SubSeq(s, 1, 0) = <<>>
      BY SubSeqEmpty
    <3> QED BY <1>3, <3>1
  <2>3. ASSUME NEW i \in 1..n PROVE F[i] = F[i - 1] \o t[i]
    <3>1. i \in 0..n /\ i - 1 \in 0..n /\ 1 \in 1..Len(s) /\ i \in 1..Len(s)
      BY <1>1
    <3>2. SubSeq(s, 1, i) = SubSeq(s, 1, i - 1) \o <<s[i]>>
      BY <3>1, SubSeqRecursiveSecond
    <3> QED BY <1>2, <1>3, <3>1, <3>2
  <2>4. F \in [0..n -> Seq(P)]
    BY <1>3, <2>1
  <2> QED BY <1>2, <2>2, <2>3, <2>4 DEF Sums
<1>5. F[n] = s
  <2>1. SubSeq(s, 1, n) = s
    BY <1>1, SubSeqFull
  <2> QED BY <1>3, <2>1
<1> QED
  BY <1>2, <1>4, <1>5, SumIsFlat

(* The methods that look for a name. *)

LEMMA FirstNamed ==
    ASSUME NEW p \in Seq(Pairs), NEW n, List!HasName(p, n)
    PROVE  \E f \in 1..Len(p) : p[f][1] = n /\ \A j \in 1..(f - 1) : p[j][1] # n
<1> DEFINE Named == {i \in Nat : i \in 1..Len(p) /\ p[i][1] = n}
<1>1. Named # {} /\ Named \in SUBSET Nat
  BY DEF List!HasName
<1>2. PICK f \in Named : \A j \in Named : ~(j < f)
  <2> HIDE DEF Named
  <2> QED BY <1>1, LeastOf
<1>3. ASSUME NEW j \in 1..(f - 1) PROVE p[j][1] # n
  <2>1. j \in Nat /\ j < f /\ j \in 1..Len(p)
    BY <1>2
  <2> QED BY <1>2, <2>1
<1> QED
  BY <1>2, <1>3

LEMMA OneFirst ==
    ASSUME NEW p \in Seq(Pairs), NEW n, NEW f \in 1..Len(p), NEW g \in 1..Len(p),
           p[f][1] = n, \A j \in 1..(f - 1) : p[j][1] # n,
           p[g][1] = n, \A j \in 1..(g - 1) : p[j][1] # n
    PROVE  f = g
<1>1. ~(f < g)
  <2>1. f < g => f \in 1..(g - 1)
    OBVIOUS
  <2> QED BY <2>1
<1>2. ~(g < f)
  <2>1. g < f => g \in 1..(f - 1)
    OBVIOUS
  <2> QED BY <2>1
<1> QED
  BY <1>1, <1>2

\* The parts that the lists of other pairs and of values are flattened from.
OtherParts(p, n) == [i \in DOMAIN p |-> IF p[i][1] = n THEN <<>> ELSE <<p[i]>>]
ValueParts(p, n) == [i \in DOMAIN p |-> IF p[i][1] = n THEN <<p[i][2]>> ELSE <<>>]

LEMMA FlatParts ==
    ASSUME NEW p, NEW n
    PROVE  /\ List!Others(p, n) = FlattenSeq(OtherParts(p, n))
           /\ List!ValuesOf(p, n) = FlattenSeq(ValueParts(p, n))
<1>1. \A s : List!FlattenSeq(s) = FlattenSeq(s)
  BY Zenon DEF List!FlattenSeq, FlattenSeq
<1> QED
  BY <1>1, Zenon DEF List!Others, List!ValuesOf, OtherParts, ValueParts

LEMMA OthersType ==
    ASSUME NEW p \in Seq(Pairs), NEW n
    PROVE  List!Others(p, n) \in Seq(Pairs)
<1>1. PICK t : t = OtherParts(p, n)
  OBVIOUS
<1>2. ASSUME NEW i \in 1..Len(p) PROVE t[i] \in Seq(Pairs)
  BY <1>1 DEF OtherParts
<1>3. t \in Seq(Seq(Pairs))
  <2>1. PICK S : S = Seq(Pairs)
    OBVIOUS
  <2>2. t = [i \in 1..Len(p) |-> t[i]] /\ \A i \in 1..Len(p) : t[i] \in S
    BY <1>1, <1>2, <2>1 DEF OtherParts
  <2>3. t \in Seq(S)
    BY <2>2
  <2> QED BY <2>1, <2>3
<1>4. FlattenSeq(t) \in Seq(Pairs)
  BY <1>3, FlatType
<1> QED
  BY <1>1, <1>4, FlatParts

\* What flattens to t is what flattens a, the part f, and what flattens b.
Split(P, t, f, a, b) ==
    /\ a \in Seq(Seq(P)) /\ Len(a) = f - 1 /\ \A i \in 1..(f - 1) : a[i] = t[i]
    /\ b \in Seq(Seq(P)) /\ Len(b) = Len(t) - f /\ \A i \in 1..(Len(t) - f) : b[i] = t[f + i]
    /\ t[f] \in Seq(P) /\ FlattenSeq(a) \in Seq(P) /\ FlattenSeq(b) \in Seq(P)
    /\ FlattenSeq(t) = (FlattenSeq(a) \o t[f]) \o FlattenSeq(b)

LEMMA SplitAt ==
    ASSUME NEW P, NEW t \in Seq(Seq(P)), NEW f \in 1..Len(t)
    PROVE  Split(P, t, f, SubSeq(t, 1, f - 1), SubSeq(t, f + 1, Len(t)))
<1>1. PICK n \in Nat : n = Len(t) /\ f \in 1..n /\ n \in 1..n /\ \A i \in 1..n : t[i] \in Seq(P)
  OBVIOUS
<1>2. PICK S : S = Seq(P) /\ t \in Seq(S) /\ \A i \in 1..n : t[i] \in S
  BY <1>1
<1>3. PICK a \in Seq(S) : /\ a = SubSeq(t, 1, f - 1) /\ Len(a) = f - 1
                          /\ \A i \in 1..(f - 1) : a[i] = t[i]
  <2>1. \A i \in 1..(f - 1) : t[i] \in S
    BY <1>1, <1>2
  <2>2. /\ SubSeq(t, 1, f - 1) \in Seq(S)
        /\ Len(SubSeq(t, 1, f - 1)) = IF 1 <= f - 1 THEN f - 1 - 1 + 1 ELSE 0
        /\ \A i \in 1..(f - 1 - 1 + 1) : SubSeq(t, 1, f - 1)[i] = t[1 + i - 1]
    BY <2>1, SubSeqProperties
  <2>3. (IF 1 <= f - 1 THEN f - 1 - 1 + 1 ELSE 0) = f - 1 /\ f - 1 - 1 + 1 = f - 1
    OBVIOUS
  <2>4. \A i \in 1..(f - 1) : 1 + i - 1 = i
    OBVIOUS
  <2> QED BY <2>2, <2>3, <2>4
<1>4. PICK b \in Seq(S) : /\ b = SubSeq(t, f + 1, n) /\ Len(b) = n - f
                          /\ \A i \in 1..(n - f) : b[i] = t[f + i]
  <2>1. \A i \in (f + 1)..n : t[i] \in S
    BY <1>2
  <2>2. /\ SubSeq(t, f + 1, n) \in Seq(S)
        /\ Len(SubSeq(t, f + 1, n)) = IF f + 1 <= n THEN n - (f + 1) + 1 ELSE 0
        /\ \A i \in 1..(n - (f + 1) + 1) : SubSeq(t, f + 1, n)[i] = t[f + 1 + i - 1]
    BY <2>1, SubSeqProperties
  <2>3. (IF f + 1 <= n THEN n - (f + 1) + 1 ELSE 0) = n - f /\ n - (f + 1) + 1 = n - f
    BY <1>1
  <2>4. \A i \in 1..(n - f) : f + 1 + i - 1 = f + i
    OBVIOUS
  <2>5. PICK b : b = SubSeq(t, f + 1, n)
    OBVIOUS
  <2>6. b \in Seq(S) /\ Len(b) = n - f
    BY <2>2, <2>3, <2>5
  <2>7. ASSUME NEW i \in 1..(n - f) PROVE b[i] = t[f + i]
    BY <2>2, <2>3, <2>4, <2>5
  <2> QED BY <2>5, <2>6, <2>7
<1>5. t = (a \o <<t[f]>>) \o b
  <2>1. a \o <<t[f]>> = SubSeq(t, 1, f)
    <3>1. 1 \in 1..Len(t) /\ f \in 1..Len(t)
      BY <1>1
    <3> QED BY <1>2, <1>3, <3>1, SubSeqRecursiveSecond
  <2>2. <<t[f]>> \in Seq(S) /\ Len(<<t[f]>>) = 1
    BY <1>1, <1>2
  <2>3. /\ a \o <<t[f]>> \in Seq(S) /\ Len(a \o <<t[f]>>) = f
        /\ \A i \in 1..f : (a \o <<t[f]>>)[i] = t[i]
    <3>1. /\ a \o <<t[f]>> \in Seq(S) /\ Len(a \o <<t[f]>>) = (f - 1) + 1
          /\ \A i \in 1..((f - 1) + 1) : (a \o <<t[f]>>)[i] = IF i <= f - 1 THEN a[i] ELSE <<t[f]>>[i - (f - 1)]
      <4>1. /\ a \o <<t[f]>> \in Seq(S) /\ Len(a \o <<t[f]>>) = Len(a) + Len(<<t[f]>>)
            /\ \A i \in 1..(Len(a) + Len(<<t[f]>>)) :
                   (a \o <<t[f]>>)[i] = IF i <= Len(a) THEN a[i] ELSE <<t[f]>>[i - Len(a)]
        BY <2>2, ConcatProperties
      <4> QED BY <1>3, <2>2, <4>1
    <3>2. ASSUME NEW i \in 1..f PROVE (a \o <<t[f]>>)[i] = t[i]
      <4>1. i \in 1..((f - 1) + 1)
        OBVIOUS
      <4>2. CASE i <= f - 1
        <5>1. i \in 1..(f - 1)
          BY <4>2
        <5> QED BY <1>3, <3>1, <4>1, <4>2, <5>1
      <4>3. CASE ~(i <= f - 1)
        <5>1. i = f /\ i - (f - 1) = 1
          BY <4>3
        <5>2. <<t[f]>>[1] = t[f]
          OBVIOUS
        <5> QED BY <3>1, <4>1, <4>3, <5>1, <5>2
      <4> QED BY <4>2, <4>3
    <3>3. Len(a \o <<t[f]>>) = f
      BY <3>1
    <3> QED BY <3>1, <3>2, <3>3, Zenon
  <2>4. PICK c \in Seq(S) : c = a \o <<t[f]>> /\ Len(c) = f /\ \A i \in 1..f : c[i] = t[i]
    BY <2>3
  <2>5. PICK w \in Seq(S) : /\ w = c \o b /\ Len(w) = f + (n - f)
                            /\ \A i \in 1..(f + (n - f)) : w[i] = IF i <= f THEN c[i] ELSE b[i - f]
    <3>1. /\ c \o b \in Seq(S) /\ Len(c \o b) = Len(c) + Len(b)
          /\ \A i \in 1..(Len(c) + Len(b)) : (c \o b)[i] = IF i <= Len(c) THEN c[i] ELSE b[i - Len(c)]
      BY ConcatProperties
    <3>2. Len(c) = f /\ Len(b) = n - f
      BY <1>4, <2>4
    <3> QED BY <3>1, <3>2, Zenon
  <2>6. Len(w) = n /\ \A i \in 1..n : w[i] = t[i]
    <3>1. f + (n - f) = n
      BY <1>1
    <3>2. ASSUME NEW i \in 1..n PROVE w[i] = t[i]
      <4>1. CASE i <= f
        <5>1. i \in 1..f
          BY <4>1
        <5> QED BY <2>4, <2>5, <3>1, <4>1, <5>1
      <4>2. CASE ~(i <= f)
        <5>1. i - f \in 1..(n - f) /\ f + (i - f) = i
          BY <1>1, <4>2
        <5> QED BY <1>4, <2>5, <3>1, <4>2, <5>1
      <4> QED BY <4>1, <4>2
    <3> QED BY <2>5, <3>1, <3>2
  <2>7. w = t
    BY <1>1, <1>2, <2>6, SeqEqual
  <2> QED BY <2>4, <2>5, <2>7
<1>6. PICK d : d = a \o <<t[f]>>
  OBVIOUS
<1>7. <<t[f]>> \in Seq(S) /\ FlattenSeq(<<t[f]>>) = t[f] /\ t[f] \in Seq(P)
  BY <1>1, <1>2, FlatOne
<1>8. d \in Seq(S) /\ FlattenSeq(d) = FlattenSeq(a) \o t[f]
  <2>1. d \in Seq(S)
    BY <1>6, <1>7, ConcatProperties
  <2>2. FlattenSeq(a \o <<t[f]>>) = FlattenSeq(a) \o FlattenSeq(<<t[f]>>)
    BY <1>2, <1>7, FlatConcat
  <2> QED BY <1>6, <1>7, <2>1, <2>2
<1>9. FlattenSeq(t) = FlattenSeq(d) \o FlattenSeq(b)
  <2>1. FlattenSeq(d \o b) = FlattenSeq(d) \o FlattenSeq(b)
    BY <1>2, <1>8, FlatConcat
  <2> QED BY <1>5, <1>6, <2>1
<1>10. FlattenSeq(a) \in Seq(P) /\ FlattenSeq(b) \in Seq(P)
  BY <1>2, FlatType
<1> QED
  BY <1>1, <1>2, <1>3, <1>4, <1>7, <1>8, <1>9, <1>10 DEF Split

LEMMA ValuesType ==
    ASSUME NEW p \in Seq(Pairs), NEW n, NEW t, t = ValueParts(p, n)
    PROVE  /\ t \in Seq(Seq(Strings)) /\ Len(t) = Len(p)
           /\ \A i \in 1..Len(p) : t[i] = IF p[i][1] = n THEN <<p[i][2]>> ELSE <<>>
<1>1. t = ValueParts(p, n)
  OBVIOUS
<1>2. ASSUME NEW i \in 1..Len(p)
      PROVE  t[i] \in Seq(Strings) /\ t[i] = IF p[i][1] = n THEN <<p[i][2]>> ELSE <<>>
  <2>1. p[i] \in Pairs
    OBVIOUS
  <2>2. p[i][2] \in Strings
    BY <2>1 DEF Pairs
  <2> QED BY <1>1, <2>2 DEF ValueParts
<1>3. PICK S : S = Seq(Strings)
  OBVIOUS
<1>4. t = [i \in 1..Len(p) |-> t[i]] /\ \A i \in 1..Len(p) : t[i] \in S
  <2>1. t = [i \in 1..Len(p) |-> t[i]]
    BY <1>1 DEF ValueParts
  <2> QED BY <1>2, <1>3, <2>1
<1>5. t \in Seq(S) /\ Len(t) = Len(p)
  BY <1>4
<1> QED
  BY <1>1, <1>2, <1>3, <1>5, Zenon

\* get answers with the first value of the name, and nothing if there is none.
LEMMA GetFindsFirst ==
    ASSUME NEW p \in Seq(Pairs), NEW n
    PROVE  /\ ~List!HasName(p, n) => List!ValuesOf(p, n) = <<>>
           /\ \A f \in 1..Len(p) : p[f][1] = n /\ (\A j \in 1..(f - 1) : p[j][1] # n) =>
                 List!ValuesOf(p, n) # <<>> /\ Head(List!ValuesOf(p, n)) = p[f][2]
<1>0. PICK t : t = ValueParts(p, n)
  OBVIOUS
<1>1. /\ t \in Seq(Seq(Strings)) /\ t = ValueParts(p, n) /\ Len(t) = Len(p)
      /\ \A i \in 1..Len(p) : t[i] = IF p[i][1] = n THEN <<p[i][2]>> ELSE <<>>
  <2>1. /\ t \in Seq(Seq(Strings)) /\ Len(t) = Len(p)
        /\ \A i \in 1..Len(p) : t[i] = IF p[i][1] = n THEN <<p[i][2]>> ELSE <<>>
    BY <1>0, ValuesType
  <2> QED BY <1>0, <2>1, Zenon
<1>2. List!ValuesOf(p, n) = FlattenSeq(t)
  BY <1>1, FlatParts, Zenon
<1>3. ASSUME ~List!HasName(p, n) PROVE FlattenSeq(t) = <<>>
  <2>1. \A i \in 1..Len(p) : p[i][1] # n
    BY <1>3 DEF List!HasName
  <2>2. \A i \in 1..Len(t) : t[i] = <<>>
    BY <1>1, <2>1
  <2> QED BY <1>1, <2>2, FlatNothing
<1>4. ASSUME NEW f \in 1..Len(p), p[f][1] = n, \A j \in 1..(f - 1) : p[j][1] # n
      PROVE  FlattenSeq(t) # <<>> /\ Head(FlattenSeq(t)) = p[f][2]
  <2>1. f \in 1..Len(t) /\ Len(t) \in Nat /\ t[f] = <<p[f][2]>>
    <3>1. f \in 1..Len(p) /\ Len(p) \in Nat
      OBVIOUS
    <3>2. t[f] = <<p[f][2]>>
      BY <1>1, <1>4, <3>1, Zenon
    <3> QED BY <1>1, <3>1, <3>2, Zenon
  <2> DEFINE a == SubSeq(t, 1, f - 1)
             d == SubSeq(t, f + 1, Len(t))
             b == FlattenSeq(d)
  <2>0. Split(Strings, t, f, a, d)
    BY <1>1, <2>1, SplitAt, Zenon
  <2> HIDE DEF a, d
  <2>2. /\ a \in Seq(Seq(Strings)) /\ Len(a) = f - 1 /\ \A i \in 1..(f - 1) : a[i] = t[i]
        /\ b \in Seq(Strings) /\ t[f] \in Seq(Strings)
        /\ FlattenSeq(t) = (FlattenSeq(a) \o t[f]) \o b
    BY <2>0 DEF Split
  <2> HIDE DEF b
  <2>3. FlattenSeq(a) = <<>>
    <3>1. \A i \in 1..(f - 1) : i \in 1..Len(p)
      BY <2>1, <1>1
    <3>2. \A i \in 1..Len(a) : a[i] = <<>>
      BY <1>1, <1>4, <2>2, <3>1
    <3> QED BY <2>2, <3>2, FlatNothing
  <2>4. <<>> \o t[f] = t[f]
    BY <2>2, ConcatEmptySeq
  <2>5. FlattenSeq(t) = <<p[f][2]>> \o b
    BY <2>1, <2>2, <2>3, <2>4
  <2>6. p[f][2] \in Strings
    <3>1. p[f] \in Pairs
      OBVIOUS
    <3> QED BY <3>1 DEF Pairs
  <2>7. PICK v \in Strings : v = p[f][2]
    BY <2>6
  <2>8. <<v>> \o b # <<>> /\ Head(<<v>> \o b) = v
    <3>1. /\ <<v>> \o b \in Seq(Strings) /\ Len(<<v>> \o b) = 1 + Len(b)
          /\ (<<v>> \o b)[1] = v
      BY <2>2
    <3>2. Len(b) \in Nat
      BY <2>2
    <3> QED BY <3>1, <3>2
  <2> QED BY <2>5, <2>7, <2>8
<1> QED
  BY <1>2, <1>3, <1>4

LEMMA ListedOnce ==
    ASSUME NEW n \in Nat, NEW S, NEW t \in [1..n -> S]
    PROVE  t \in Seq(S) /\ Len(t) = n
OBVIOUS

NamedIn(p, n) == {i \in DOMAIN p : p[i][1] = n}
SetParts(p, same, n, v) ==
    [i \in DOMAIN p |-> IF i \notin same THEN <<p[i]>>
                        ELSE IF i = Min(same) THEN <<<<n, v>>>> ELSE <<>>]
SetAt(p, f, n, v) ==
    (SubSeq(p, 1, f - 1) \o <<<<n, v>>>>) \o List!Others(SubSeq(p, f + 1, Len(p)), n)

\* set puts the pair where the first of its name is and drops the others.
LEMMA SetReplaces ==
    ASSUME NEW p \in Seq(Pairs), NEW n \in Strings, NEW v \in Strings,
           NEW f \in 1..Len(p), p[f][1] = n, \A j \in 1..(f - 1) : p[j][1] # n
    PROVE  /\ NamedIn(p, n) # {}
           /\ FlattenSeq(SetParts(p, NamedIn(p, n), n, v)) \in Seq(Pairs)
           /\ FlattenSeq(SetParts(p, NamedIn(p, n), n, v)) = SetAt(p, f, n, v)
<1>a. PICK same : same = NamedIn(p, n)
  OBVIOUS
<1>b. PICK t : t = SetParts(p, same, n, v)
  OBVIOUS
<1>0. /\ t = [i \in DOMAIN p |-> IF i \notin same THEN <<p[i]>>
                                 ELSE IF i = Min(same) THEN <<<<n, v>>>> ELSE <<>>]
      /\ same = {i \in DOMAIN p : p[i][1] = n}
  BY <1>a, <1>b DEF SetParts, NamedIn
<1>1. PICK N \in Nat : N = Len(p) /\ DOMAIN p = 1..N /\ f \in 1..N /\ \A i \in 1..N : p[i] \in Pairs
  OBVIOUS
<1>2. f \in same /\ \A i \in same : i \in Nat /\ f <= i
  <2>1. ASSUME NEW i \in 1..N, i < f PROVE i \in 1..(f - 1)
    BY <2>1
  <2> QED BY <1>0, <1>1, <2>1
<1>3. Min(same) = f
  <2>1. \A x : x \in same /\ (\A y \in same : x <= y) => x = f
    BY <1>2
  <2> QED BY <1>2, <2>1 DEF Min
<1>4. /\ t = [i \in 1..N |-> t[i]] /\ t[f] = <<<<n, v>>>>
      /\ \A i \in 1..(f - 1) : i \in 1..N /\ t[i] = <<p[i]>>
      /\ \A i \in (f + 1)..N : i \in 1..N /\ t[i] = IF p[i][1] = n THEN <<>> ELSE <<p[i]>>
  <2>1. t = [i \in 1..N |-> t[i]] /\ t[f] = <<<<n, v>>>>
    BY <1>0, <1>1, <1>2, <1>3
  <2>2. ASSUME NEW i \in 1..(f - 1) PROVE i \in 1..N /\ t[i] = <<p[i]>>
    <3>1. i \in 1..N /\ i \notin same
      <4>1. i \in 1..N /\ ~(f <= i)
        BY <1>1
      <4> QED BY <1>2, <4>1
    <3> QED BY <1>0, <1>1, <3>1
  <2>3. ASSUME NEW i \in (f + 1)..N
        PROVE  i \in 1..N /\ t[i] = IF p[i][1] = n THEN <<>> ELSE <<p[i]>>
    <3>1. i \in 1..N /\ i # f
      BY <1>1
    <3> QED BY <1>0, <1>1, <1>3, <3>1
  <2> QED BY <2>1, <2>2, <2>3, Zenon
<1>5. <<n, v>> \in Pairs
  BY DEF Pairs
<1>6. t \in Seq(Seq(Pairs)) /\ Len(t) = N
  <2>1. PICK S : S = Seq(Pairs)
    OBVIOUS
  <2>2. ASSUME NEW i \in 1..N PROVE t[i] \in S
    <3>1. t[i] = <<p[i]>> \/ t[i] = <<<<n, v>>>> \/ t[i] = <<>>
      BY <1>0, <1>1
    <3>2. <<p[i]>> \in Seq(Pairs) /\ <<<<n, v>>>> \in Seq(Pairs) /\ <<>> \in Seq(Pairs)
      BY <1>1, <1>5
    <3> QED BY <2>1, <3>1, <3>2
  <2>3. t \in Seq(S) /\ Len(t) = N
    <3>1. t = [i \in 1..N |-> t[i]]
      BY <1>4
    <3>2. t \in [1..N -> S]
      BY <2>2, <3>1
    <3>3. N \in Nat
      BY <1>1
    <3> QED BY <3>2, <3>3, ListedOnce, Zenon
  <2> QED BY <2>1, <2>3
<1> DEFINE a == SubSeq(t, 1, f - 1)
           b == SubSeq(t, f + 1, Len(t))
<1>7. /\ a \in Seq(Seq(Pairs)) /\ Len(a) = f - 1 /\ \A i \in 1..(f - 1) : a[i] = t[i]
      /\ b \in Seq(Seq(Pairs)) /\ Len(b) = N - f /\ \A i \in 1..(N - f) : b[i] = t[f + i]
      /\ FlattenSeq(t) = (FlattenSeq(a) \o t[f]) \o FlattenSeq(b)
  <2>1. f \in 1..Len(t)
    BY <1>1, <1>6
  <2>2. Split(Pairs, t, f, a, b)
    BY <1>6, <2>1, SplitAt, Zenon
  <2> HIDE DEF a, b
  <2> QED BY <1>6, <2>2 DEF Split
<1> HIDE DEF a, b
<1>8. FlattenSeq(a) = SubSeq(p, 1, f - 1)
  <2>1. PICK c : c = SubSeq(p, 1, f - 1) /\ c \in Seq(Pairs) /\ Len(c) = f - 1
                 /\ \A i \in 1..(f - 1) : c[i] = p[i]
    <3>1. f - 1 \in 0..Len(p)
      BY <1>1
    <3>2. PICK c : c = SubSeq(p, 1, f - 1)
      OBVIOUS
    <3>3. c \in Seq(Pairs) /\ Len(c) = f - 1 /\ \A i \in 1..(f - 1) : c[i] = p[i]
      BY <3>1, <3>2, PrefixFacts
    <3> QED BY <3>2, <3>3
  <2>2. a = [i \in 1..Len(c) |-> <<c[i]>>]
    <3>1. a = [i \in 1..(f - 1) |-> a[i]]
      BY <1>7
    <3>2. \A i \in 1..(f - 1) : a[i] = <<c[i]>>
      BY <1>4, <1>7, <2>1
    <3> QED BY <2>1, <3>1, <3>2
  <2> QED BY <2>1, <2>2, FlatSingles
<1>9. FlattenSeq(b) = List!Others(SubSeq(p, f + 1, N), n)
  <2>1. PICK c : c = SubSeq(p, f + 1, N) /\ c \in Seq(Pairs) /\ Len(c) = N - f
                 /\ \A i \in 1..(N - f) : c[i] = p[f + i]
    <3>1. \A i \in (f + 1)..N : p[i] \in Pairs
      BY <1>1
    <3>2. /\ SubSeq(p, f + 1, N) \in Seq(Pairs)
          /\ Len(SubSeq(p, f + 1, N)) = IF f + 1 <= N THEN N - (f + 1) + 1 ELSE 0
          /\ \A i \in 1..(N - (f + 1) + 1) : SubSeq(p, f + 1, N)[i] = p[f + 1 + i - 1]
      BY <3>1, SubSeqProperties
    <3>3. (IF f + 1 <= N THEN N - (f + 1) + 1 ELSE 0) = N - f /\ N - (f + 1) + 1 = N - f
      BY <1>1
    <3>4. \A i \in 1..(N - f) : f + 1 + i - 1 = f + i
      OBVIOUS
    <3>5. PICK c : c = SubSeq(p, f + 1, N)
      OBVIOUS
    <3>6. c \in Seq(Pairs) /\ Len(c) = N - f
      BY <3>2, <3>3, <3>5
    <3>7. ASSUME NEW i \in 1..(N - f) PROVE c[i] = p[f + i]
      BY <3>2, <3>3, <3>4, <3>5
    <3> QED BY <3>5, <3>6, <3>7
  <2>2. b = OtherParts(c, n)
    <3>1. b = [i \in 1..Len(b) |-> b[i]] /\ Len(b) = N - f
      BY <1>7
    <3>2. DOMAIN c = 1..Len(c)
      BY <2>1
    <3>3. ASSUME NEW i \in 1..(N - f) PROVE b[i] = IF c[i][1] = n THEN <<>> ELSE <<c[i]>>
      <4>1. f + i \in (f + 1)..N
        BY <1>1
      <4>2. t[f + i] = IF p[f + i][1] = n THEN <<>> ELSE <<p[f + i]>>
        BY <1>4, <4>1
      <4>3. b[i] = t[f + i] /\ c[i] = p[f + i]
        BY <1>7, <2>1
      <4> QED BY <4>2, <4>3
    <3> QED BY <2>1, <3>1, <3>2, <3>3 DEF OtherParts
  <2>3. List!Others(c, n) = FlattenSeq(OtherParts(c, n))
    BY FlatParts, Zenon
  <2> QED BY <2>1, <2>2, <2>3
<1>10. FlattenSeq(t) \in Seq(Pairs)
  BY <1>6, FlatType
<1> QED
  BY <1>a, <1>b, <1>1, <1>2, <1>4, <1>7, <1>8, <1>9, <1>10 DEF SetAt

(* URLSearchParams implements the list of pairs. *)

\* Every slot holds a string of bytes, or nothing.
ParamsInv == state \in [SearchParams -> {NoState} \cup {Slot(s) : s \in Strings}]

LEMMA Reading ==
    ASSUME ParamsInv, NEW o \in SearchParams
    PROVE  /\ usp_read_state(o) \in Strings /\ Parsed(o) \in Seq(Pairs)
           /\ List!Pairs(o) = Parsed(o)
           /\ state[o] = NoState => Shown[o] = List!NoList
           /\ state[o].slot => Shown[o] # List!NoList
<1>1. <<>> \in Strings /\ usp_parse[<<>>] = <<>> /\ usp_parse \in [Strings -> Seq(Pairs)]
  BY Parsing DEF Strings
<1>2. /\ Shown[o] = IF state[o].slot THEN [list |-> TRUE, pairs |-> Parsed(o)] ELSE [list |-> FALSE]
      /\ Parsed(o) = usp_parse[usp_read_state(o)]
      /\ usp_read_state(o) = IF state[o].slot THEN state[o].string ELSE <<>>
  BY DEF Shown, Parsed, usp_read_state
<1>3. CASE state[o] = NoState
  <2>1. ~state[o].slot /\ state[o].slot = FALSE
    BY <1>3 DEF NoState
  <2>2. usp_read_state(o) = <<>> /\ Shown[o] = [list |-> FALSE]
    BY <1>2, <2>1
  <2>3. List!Pairs(o) = <<>>
    BY <2>2 DEF List!Pairs
  <2> QED BY <1>1, <1>2, <2>1, <2>2, <2>3 DEF List!NoList
<1>4. CASE state[o] # NoState
  <2>1. PICK s \in Strings : state[o] = Slot(s)
    BY <1>4 DEF ParamsInv
  <2>2. state[o].slot /\ state[o].slot = TRUE /\ state[o].string = s
    BY <2>1 DEF Slot
  <2>3. /\ usp_read_state(o) = s /\ Parsed(o) = usp_parse[s]
        /\ Shown[o] = [list |-> TRUE, pairs |-> Parsed(o)]
    BY <1>2, <2>2
  <2>4. Shown[o].list /\ Shown[o].list = TRUE /\ Shown[o].pairs = Parsed(o)
    BY <2>3
  <2>5. List!Pairs(o) = Parsed(o)
    BY <2>4 DEF List!Pairs
  <2>6. Shown[o] # List!NoList
    <3>1. List!NoList.list = FALSE
      BY DEF List!NoList
    <3> QED BY <2>4, <3>1
  <2> QED BY <1>1, <1>4, <2>3, <2>5, <2>6
<1> QED
  BY <1>3, <1>4

LEMMA Writing ==
    ASSUME ParamsInv, NEW o \in SearchParams, NEW s \in Strings, usp_write_state(o, s)
    PROVE  ParamsInv' /\ Shown' = [Shown EXCEPT ![o] = List!ListOf(usp_parse[s])]
<1>1. state' = [state EXCEPT ![o] = Slot(s)]
  BY DEF usp_write_state
<1>2. ParamsInv'
  BY <1>1 DEF ParamsInv
<1>3. Shown' = [x \in SearchParams |->
                  IF state'[x].slot THEN [list |-> TRUE, pairs |-> Parsed(x)'] ELSE [list |-> FALSE]]
  BY DEF Shown
<1>4. Shown = [x \in SearchParams |->
                  IF state[x].slot THEN [list |-> TRUE, pairs |-> Parsed(x)] ELSE [list |-> FALSE]]
  BY DEF Shown
<1>5. ASSUME NEW x \in SearchParams, x # o PROVE Shown'[x] = Shown[x]
  <2>1. state'[x] = state[x]
    BY <1>1, <1>5 DEF ParamsInv
  <2>2. Parsed(x)' = Parsed(x)
    BY <2>1 DEF Parsed, usp_read_state
  <2> QED BY <1>3, <1>4, <2>1, <2>2
<1>6. Shown'[o] = List!ListOf(usp_parse[s])
  <2>1. state'[o] = Slot(s)
    BY <1>1 DEF ParamsInv
  <2>2. state'[o].slot = TRUE /\ state'[o].string = s
    BY <2>1 DEF Slot
  <2>3. Parsed(o)' = usp_parse[s]
    BY <2>2 DEF Parsed, usp_read_state
  <2> QED BY <1>3, <2>2, <2>3 DEF List!ListOf
<1>7. Shown' = [x \in SearchParams |-> Shown'[x]] /\ Shown = [x \in SearchParams |-> Shown[x]]
  BY <1>3, <1>4
<1> QED
  BY <1>2, <1>5, <1>6, <1>7

LEMMA WritingList ==
    ASSUME ParamsInv, NEW o \in SearchParams, NEW pairs \in Seq(Pairs),
           usp_write_state(o, usp_serialize(pairs)), Returns(<<>>), call'[1] # "toString"
    PROVE  ParamsInv' /\ List!Becomes(o, pairs)
<1>1. PICK s \in Strings : s = usp_serialize(pairs) /\ usp_parse[s] = pairs
  BY SerializeParses
<1>2. ParamsInv' /\ Shown' = [Shown EXCEPT ![o] = List!ListOf(pairs)]
  BY <1>1, Writing
<1>3. Answer' = <<>>
  BY DEF Answer, Returns
<1> QED
  BY <1>2, <1>3 DEF List!Becomes

LEMMA Arguments ==
    ASSUME NEW a \in Names \cup Values
    PROVE  usp_arg_string(a) \in Strings
<1>1. a \in Strings \cup {Throws} /\ <<>> \in Strings
  BY ParamsAssumption DEF Strings
<1> QED
  BY <1>1 DEF usp_arg_string

LEMMA ConstructRefines ==
    ASSUME ParamsInv, NEW o \in SearchParams, NEW q \in Queries, Construct(o, q)
    PROVE  ParamsInv' /\ List!Next
<1>1. PICK s \in Strings : Canonical(q) = usp_parse[s]
  <2>1. q \in Strings
    BY ParamsAssumption
  <2>2. ASSUME q # <<>> PROVE Tail(q) \in Strings
    BY <2>1, <2>2 DEF Strings
  <2> QED BY <2>1, <2>2 DEF Canonical
<1>2. Canonical(q) \in Seq(Pairs)
  BY <1>1, Parsing
<1>3. /\ call' = <<"new", o>> /\ Returns(<<>>) /\ state[o] = NoState
      /\ usp_write_state(o, usp_serialize(Canonical(q)))
  BY DEF Construct
<1>4. call'[1] = "new" /\ call'[2] = o
  BY <1>3
<1>5. ParamsInv' /\ List!Becomes(o, Canonical(q))
  <2>1. call'[1] # "toString"
    BY <1>4
  <2> QED BY <1>2, <1>3, <2>1, WritingList
<1>6. Shown[o] = List!NoList
  BY <1>3, Reading
<1>7. List!New(o)
  BY <1>5, <1>6 DEF List!New
<1> QED
  BY <1>4, <1>5, <1>7 DEF List!Next

LEMMA CopyRefines ==
    ASSUME ParamsInv, NEW o \in SearchParams, NEW p \in SearchParams, ConstructCopy(o, p)
    PROVE  ParamsInv' /\ List!Next
<1>1. /\ call' = <<"copy", o, p>> /\ Returns(<<>>) /\ state[o] = NoState /\ state[p].slot
      /\ usp_write_state(o, usp_read_state(p))
  BY DEF ConstructCopy
<1>2. call'[1] = "copy" /\ call'[2] = o /\ call'[3] = p
  BY <1>1
<1>3. usp_read_state(p) \in Strings /\ usp_parse[usp_read_state(p)] = List!Pairs(p)
  BY Reading DEF Parsed
<1>4. ParamsInv' /\ Shown' = [Shown EXCEPT ![o] = List!ListOf(List!Pairs(p))]
  BY <1>1, <1>3, Writing
<1>5. Answer' = <<>>
  BY <1>1, <1>2 DEF Answer, Returns
<1>6. Shown[o] = List!NoList /\ Shown[p] # List!NoList
  BY <1>1, Reading
<1>7. List!Copy(o, p)
  BY <1>4, <1>5, <1>6 DEF List!Copy, List!Becomes
<1> QED
  BY <1>2, <1>4, <1>7 DEF List!Next

LEMMA AppendRefines ==
    ASSUME ParamsInv, NEW o \in SearchParams, NEW name \in Names, NEW value \in Values,
           usp_append(o, name, value)
    PROVE  ParamsInv' /\ List!Next
<1>1. PICK n \in Strings, v \in Strings : n = usp_arg_string(name) /\ v = usp_arg_string(value)
  BY Arguments
<1>2. /\ call' = <<"append", o, n, v>> /\ Returns(<<>>)
      /\ usp_write_state(o, usp_serialize(Append(Parsed(o), <<n, v>>)))
  BY <1>1 DEF usp_append
<1>3. call'[1] = "append" /\ call'[2] = o /\ call'[3] = n /\ call'[4] = v
  BY <1>2
<1>4. Append(Parsed(o), <<n, v>>) \in Seq(Pairs)
  <2>1. Parsed(o) \in Seq(Pairs) /\ <<n, v>> \in Pairs
    BY Reading DEF Pairs
  <2> QED BY <2>1
<1>5. ParamsInv' /\ List!Becomes(o, Append(Parsed(o), <<n, v>>))
  <2>1. call'[1] # "toString"
    BY <1>3
  <2> QED BY <1>2, <1>4, <2>1, WritingList
<1>6. List!AddPair(o, n, v)
  BY <1>5, Reading DEF List!AddPair
<1> QED
  BY <1>3, <1>5, <1>6 DEF List!Next

LEMMA SetRefines ==
    ASSUME ParamsInv, NEW o \in SearchParams, NEW name \in Names, NEW value \in Values,
           usp_set(o, name, value)
    PROVE  ParamsInv' /\ List!Next
<1>1. PICK n \in Strings, v \in Strings : n = usp_arg_string(name) /\ v = usp_arg_string(value)
  BY Arguments
<1>2. PICK p \in Seq(Pairs) : p = Parsed(o) /\ List!Pairs(o) = p
  BY Reading
<1>3. PICK same : same = NamedIn(p, n)
  OBVIOUS
<1>4. PICK t : t = SetParts(p, same, n, v)
  OBVIOUS
<1>5. /\ call' = <<"set", o, n, v>> /\ Returns(<<>>)
      /\ usp_write_state(o, usp_serialize(
            IF same = {} THEN Append(p, <<n, v>>) ELSE FlattenSeq(t)))
  BY <1>1, <1>2, <1>3, <1>4, Zenon DEF usp_set, SetParts, NamedIn
<1>6. call'[1] = "set" /\ call'[2] = o /\ call'[3] = n /\ call'[4] = v /\ call'[1] # "toString"
  BY <1>5
<1>7. CASE ~List!HasName(p, n)
  <2>1. same = {}
    BY <1>3, <1>7 DEF List!HasName, NamedIn
  <2>2. Append(p, <<n, v>>) \in Seq(Pairs)
    BY DEF Pairs
  <2>3. ParamsInv' /\ List!Becomes(o, Append(p, <<n, v>>))
    BY <1>5, <1>6, <2>1, <2>2, WritingList
  <2>4. List!SetPair(o, n, v)
    BY <1>2, <1>7, <2>3 DEF List!SetPair
  <2> QED BY <1>6, <2>3, <2>4 DEF List!Next
<1>8. CASE List!HasName(p, n)
  <2>1. PICK f \in 1..Len(p) : p[f][1] = n /\ \A j \in 1..(f - 1) : p[j][1] # n
    BY <1>8, FirstNamed
  <2>2. same # {} /\ FlattenSeq(t) \in Seq(Pairs) /\ FlattenSeq(t) = SetAt(p, f, n, v)
    BY <1>3, <1>4, <2>1, SetReplaces
  <2>3. ParamsInv' /\ List!Becomes(o, FlattenSeq(t))
    BY <1>5, <1>6, <2>2, WritingList
  <2> DEFINE first == CHOOSE i \in DOMAIN List!Pairs(o) :
                List!Pairs(o)[i][1] = n /\ \A j \in 1..(i - 1) : List!Pairs(o)[j][1] # n
  <2>4. first = f
    <3>1. first \in 1..Len(p) /\ p[first][1] = n /\ \A j \in 1..(first - 1) : p[j][1] # n
      <4>1. DOMAIN List!Pairs(o) = 1..Len(p) /\ List!Pairs(o) = p
        BY <1>2
      <4> QED BY <2>1, <4>1
    <3> HIDE DEF first
    <3> QED BY <2>1, <3>1, OneFirst
  <2>5. List!Becomes(o, (SubSeq(List!Pairs(o), 1, first - 1) \o <<<<n, v>>>>)
                            \o List!Others(SubSeq(List!Pairs(o), first + 1, Len(List!Pairs(o))), n))
    <3> HIDE DEF first
    <3> QED BY <1>2, <2>2, <2>3, <2>4 DEF SetAt
  <2>6. List!HasName(List!Pairs(o), n)
    BY <1>2, <1>8
  <2>7. List!SetPair(o, n, v)
    BY <2>5, <2>6, Zenon DEF List!SetPair
  <2> QED BY <1>6, <2>3, <2>7 DEF List!Next
<1> QED
  BY <1>7, <1>8

LEMMA DeleteRefines ==
    ASSUME ParamsInv, NEW o \in SearchParams, NEW name \in Names, usp_delete(o, name)
    PROVE  ParamsInv' /\ List!Next
<1>1. PICK n \in Strings : n = usp_arg_string(name)
  BY Arguments
<1>2. PICK p \in Seq(Pairs) : p = Parsed(o) /\ List!Pairs(o) = p
  BY Reading
<1>3. /\ call' = <<"delete", o, n>> /\ Returns(<<>>)
      /\ usp_write_state(o, usp_serialize(FlattenSeq(OtherParts(p, n))))
  BY <1>1, <1>2, Zenon DEF usp_delete, OtherParts
<1>4. call'[1] = "delete" /\ call'[2] = o /\ call'[3] = n /\ call'[1] # "toString"
  BY <1>3
<1>5. /\ List!Others(p, n) \in Seq(Pairs)
      /\ usp_write_state(o, usp_serialize(List!Others(p, n)))
  BY <1>3, OthersType, FlatParts
<1>6. ParamsInv' /\ List!Becomes(o, List!Others(p, n))
  BY <1>3, <1>4, <1>5, WritingList
<1>7. List!Delete(o, n)
  BY <1>2, <1>6 DEF List!Delete
<1> QED
  BY <1>4, <1>6, <1>7 DEF List!Next

\* The methods that only read.
LEMMA NothingWritten ==
    ASSUME ParamsInv, UNCHANGED state
    PROVE  ParamsInv' /\ UNCHANGED Shown
BY DEF ParamsInv, Shown, Parsed, usp_read_state

LEMMA ReadRefines ==
    ASSUME ParamsInv, NEW o \in SearchParams, NEW name \in Names,
           usp_get(o, name) \/ usp_get_all(o, name) \/ usp_has(o, name)
    PROVE  ParamsInv' /\ List!Next
<1>1. PICK n \in Strings : n = usp_arg_string(name)
  BY Arguments
<1>2. PICK p \in Seq(Pairs) : p = Parsed(o) /\ List!Pairs(o) = p
  BY Reading
<1>3. UNCHANGED state
  BY DEF usp_get, usp_get_all, usp_has
<1>4. ParamsInv' /\ UNCHANGED Shown
  BY <1>3, NothingWritten
<1>5. ValuesNamed(o, n) = List!ValuesOf(p, n)
  <2>1. ValuesNamed(o, n) = FlattenSeq(ValueParts(p, n))
    BY <1>2, Zenon DEF ValuesNamed, ValueParts
  <2> QED BY <2>1, FlatParts
<1>6. CASE usp_get(o, name)
  <2>1. /\ call' = <<"get", o, n>>
        /\ result' = IF List!ValuesOf(p, n) = <<>> THEN <<>> ELSE <<Head(List!ValuesOf(p, n))>>
    BY <1>1, <1>5, <1>6 DEF usp_get, Returns
  <2>2. call'[1] = "get" /\ call'[2] = o /\ call'[3] = n
    BY <2>1
  <2>3. Answer' = result'
    BY <2>2 DEF Answer
  <2>4. CASE ~List!HasName(p, n)
    <3>1. result' = <<>>
      BY <2>1, <2>4, GetFindsFirst
    <3>2. List!Get(o, n)
      BY <1>2, <1>4, <2>3, <2>4, <3>1 DEF List!Get, List!Read
    <3> QED BY <1>4, <2>2, <3>2 DEF List!Next
  <2>5. CASE List!HasName(p, n)
    <3>1. PICK f \in 1..Len(p) : p[f][1] = n /\ \A j \in 1..(f - 1) : p[j][1] # n
      BY <2>5, FirstNamed
    <3>2. result' = <<p[f][2]>>
      <4>1. List!ValuesOf(p, n) # <<>> /\ Head(List!ValuesOf(p, n)) = p[f][2]
        BY <3>1, GetFindsFirst
      <4> QED BY <2>1, <4>1
    <3>3. f \in DOMAIN p
      BY <3>1
    <3>4. List!Get(o, n)
      BY <1>2, <1>4, <2>3, <2>5, <3>1, <3>2, <3>3 DEF List!Get, List!Read
    <3> QED BY <1>4, <2>2, <3>4 DEF List!Next
  <2> QED BY <2>4, <2>5
<1>7. CASE usp_get_all(o, name)
  <2>1. call' = <<"getAll", o, n>> /\ result' = List!ValuesOf(p, n)
    BY <1>1, <1>5, <1>7 DEF usp_get_all, Returns
  <2>2. call'[1] = "getAll" /\ call'[2] = o /\ call'[3] = n
    BY <2>1
  <2>3. Answer' = result'
    BY <2>2 DEF Answer
  <2>4. List!GetAll(o, n)
    BY <1>2, <1>4, <2>1, <2>3 DEF List!GetAll, List!Read
  <2> QED BY <1>4, <2>2, <2>4 DEF List!Next
<1>8. CASE usp_has(o, name)
  <2>1. call' = <<"has", o, n>> /\ result' = <<List!HasName(p, n)>>
    BY <1>1, <1>2, <1>8 DEF usp_has, Returns, List!HasName
  <2>2. call'[1] = "has" /\ call'[2] = o /\ call'[3] = n
    BY <2>1
  <2>3. Answer' = result'
    BY <2>2 DEF Answer
  <2>4. List!Has(o, n)
    BY <1>2, <1>4, <2>1, <2>3 DEF List!Has, List!Read
  <2> QED BY <1>4, <2>2, <2>4 DEF List!Next
<1> QED
  BY <1>6, <1>7, <1>8

LEMMA ToStringRefines ==
    ASSUME ParamsInv, NEW o \in SearchParams, usp_to_string(o)
    PROVE  ParamsInv' /\ List!Next
<1>1. call' = <<"toString", o>> /\ result' = <<usp_read_state(o)>> /\ UNCHANGED state
  BY DEF usp_to_string, Returns
<1>2. call'[1] = "toString" /\ call'[2] = o /\ result'[1] = usp_read_state(o)
  BY <1>1
<1>3. ParamsInv' /\ UNCHANGED Shown
  BY <1>1, NothingWritten
<1>4. Answer' = List!Pairs(o)
  <2>1. Answer' = usp_parse[usp_read_state(o)]
    BY <1>2 DEF Answer
  <2> QED BY <2>1, Reading DEF Parsed
<1>5. List!Written(o)
  BY <1>3, <1>4 DEF List!Written, List!Read
<1> QED
  BY <1>2, <1>3, <1>5 DEF List!Next

LEMMA ParamsStep ==
    ASSUME ParamsInv, [ParamsNext]_paramsVars
    PROVE  ParamsInv' /\ [List!Next]_(List!vars)
<1>1. CASE ParamsNext
  <2>1. PICK o \in SearchParams :
           \/ \E q \in Queries : Construct(o, q)
           \/ \E p \in SearchParams : ConstructCopy(o, p)
           \/ \E n \in Names, v \in Values : usp_append(o, n, v) \/ usp_set(o, n, v)
           \/ \E n \in Names : \/ usp_delete(o, n) \/ usp_get(o, n)
                               \/ usp_get_all(o, n) \/ usp_has(o, n)
           \/ usp_to_string(o)
    BY <1>1 DEF ParamsNext
  <2> QED
    BY <2>1, ConstructRefines, CopyRefines, AppendRefines, SetRefines, DeleteRefines,
       ReadRefines, ToStringRefines
<1>2. CASE UNCHANGED paramsVars
  <2>1. UNCHANGED <<state, call, result>>
    BY <1>2 DEF paramsVars
  <2>2. ParamsInv' /\ UNCHANGED Shown
    BY <2>1, NothingWritten
  <2>3. UNCHANGED Answer
    BY <2>1 DEF Answer
  <2> QED BY <2>1, <2>2, <2>3 DEF List!vars
<1> QED
  BY <1>1, <1>2

LEMMA ParamsStart ==
    ParamsInit => ParamsInv /\ List!Init
<1>1. ASSUME ParamsInit PROVE ParamsInv /\ List!Init
  <2>1. state = [o \in SearchParams |-> NoState] /\ call = <<"none">> /\ result = <<>>
    BY <1>1 DEF ParamsInit
  <2>2. ParamsInv
    BY <2>1 DEF ParamsInv
  <2>3. Shown = [o \in SearchParams |-> List!NoList]
    <3>1. \A o \in SearchParams : ~state[o].slot
      BY <2>1 DEF NoState
    <3> QED BY <3>1 DEF Shown, List!NoList
  <2>4. Answer = <<>>
    BY <2>1 DEF Answer
  <2> QED BY <2>1, <2>2, <2>3, <2>4 DEF List!Init
<1> QED
  BY <1>1

\* A URLSearchParams object, the string it keeps encoded and parsed at every call, behaves as
\* the list of pairs of texts that the documentation describes, for every query, name and
\* value: bytes of every kind, the characters that have a meaning in a query among them.
THEOREM ParamsAreLists ==
    EncodingSpec => ParamsKeepList
<1>1. EncodingInit => ParamsInit
  BY DEF EncodingInit
<1>2. [EncodingNext]_encodingVars => [ParamsNext]_paramsVars
  BY DEF EncodingNext, encodingVars, paramsVars
<1>3. ParamsInv /\ [ParamsNext]_paramsVars => ParamsInv' /\ [List!Next]_(List!vars)
  BY ParamsStep
<1> QED
  BY <1>1, <1>2, <1>3, ParamsStart, PTL DEF EncodingSpec, ParamsKeepList, List!Spec

\* The scripts of a page, whichever of the encoding globals they call, have from atob what
\* they gave to btoa.
THEOREM PageAtobUndoesBtoa ==
    EncodingSpec => []RoundTrip
<1>1. EncodingInit => Base64Init
  BY DEF EncodingInit
<1>2. [EncodingNext]_encodingVars => [Base64Next]_base64Vars
  BY DEF EncodingNext, encodingVars
<1> QED
  BY <1>1, <1>2, AtobUndoesBtoa, PTL DEF EncodingSpec, Base64Spec

\* And a URL that a page makes is absolute, is its parts put together and has its base's
\* origin unless the reference names a host.
THEOREM PageReferencesStayWithinOrigin ==
    EncodingSpec => []ResolvesWithinOrigin
<1>1. EncodingInit => UrlInit
  BY DEF EncodingInit
<1>2. [EncodingNext]_encodingVars => [UrlNext]_url
  BY DEF EncodingNext, encodingVars
<1> QED
  BY <1>1, <1>2, ReferencesStayWithinOrigin, PTL DEF EncodingSpec, UrlSpec

\* What a page converts behaves as either specification says, whichever a behaviour is
\* about: all theorems of this module hold of Conversions.
THEOREM PagesConvert ==
    ConversionsSpec => Spec /\ EncodingSpec
<1>1. ConversionsInit => Init /\ EncodingInit
  BY DEF ConversionsInit
<1>2. [ConversionsNext]_conversionsVars => [Next]_vars /\ [EncodingNext]_encodingVars
  BY DEF ConversionsNext, conversionsVars
<1> QED
  BY <1>1, <1>2, PTL DEF ConversionsSpec, Spec, EncodingSpec
===============================================================================
