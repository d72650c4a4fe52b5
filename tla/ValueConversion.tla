----------------------------- MODULE ValueConversion -----------------------------
(***************************************************************************)
(* to_python_deep (src/src/core/value_converter.cpp): the recursive        *)
(* conversion of a JavaScript value that to_py=True and JSValue.to_py()    *)
(* run under the operation guard.  The length of an array and the keys of  *)
(* an object are read once, when the conversion comes to them; each        *)
(* element is read when its turn comes, and a getter that this runs may    *)
(* throw, return anything and edit any object of the heap.                 *)
(*                                                                         *)
(* A value is a tagged record.  A number is counted in halves, so that it  *)
(* may have a fraction; the border of std::int64_t is a parameter.         *)
(***************************************************************************)
EXTENDS Integers, Sequences, SequencesExt, FiniteSets

CONSTANTS Objects,     \* arrays and plain objects
          Arrays,      \* those of Objects that are arrays
          Root,        \* the object converted
          Heaps,       \* the heaps a conversion may begin with
          Edits,       \* what a getter may make of an object: sequences of properties
          Answers,     \* the values a getter may return
          MaxDepth,    \* kMaxConversionDepth
          Border,      \* 2^63: where std::int64_t ends
          MaxRuns      \* bound on the getters that run to their end

ASSUME ConversionAssumption ==
    /\ Root \in Objects /\ Arrays \subseteq Objects
    /\ MaxDepth \in Nat /\ Border \in Nat \ {0} /\ MaxRuns \in Nat

VARIABLES heap,      \* object -> its properties in order: <<key, value>>
          ancestors, \* the containers being converted, each inside the one before
          stack,     \* for each of them its activation of deep_impl
          outcome,   \* what the conversion has come to: Running, a Python value or a Failure
          runs       \* getters that have run

vars == <<heap, ancestors, stack, outcome, runs>>

(* JavaScript values *)
Ref(o) == [js |-> "object", object |-> o]
Number(n) == [js |-> "number", halves |-> n]
Special(name) == [js |-> "special", name |-> name]    \* NaN, the infinities, -0
Simple(name) == [js |-> "simple", name |-> name]      \* undefined, null, Booleans, strings, BigInts
Unsupported == [js |-> "unsupported"]                 \* functions, Maps, Dates, Symbols, ...
Getter == [js |-> "getter"]
Undefined == Simple("undefined")

JsValues == [js : {"object"}, object : Objects] \cup [js : {"number"}, halves : Int]
            \cup [js : {"special", "simple"}, name : STRING] \cup {Unsupported, Getter}

\* An object has no key twice.
ASSUME HeapsAssumption ==
    \A h \in Heaps :
        /\ h \in [Objects -> Seq(STRING \X JsValues)]
        /\ \A o \in Objects \ Arrays : \A i, j \in DOMAIN h[o] : h[o][i][1] = h[o][j][1] => i = j

(* Python values, and failures: a ConversionError of one wording each *)
PyInt(n) == [py |-> "int", int |-> n]
PyFloat(v) == [py |-> "float", of |-> v]
PySame(v) == [py |-> "same", of |-> v]
PyList(s) == [py |-> "list", items |-> s]
PyDict(s) == [py |-> "dict", items |-> s]
Failure(why) == [py |-> "failure", why |-> why]
Running == [py |-> "running"]

-------------------------------------------------------------------------------
(* Primitives *)

\* static_cast<std::int64_t>: what the hardware makes of n, which is n within the border.
Cast(n) == ((n + Border) % (2 * Border)) - Border

\* Mutant: the upper end of the range is taken to belong to it.
convert_number_closed(v) ==
    IF v.js = "number" /\ v.halves % 2 = 0 /\ v.halves \div 2 >= -Border /\ v.halves \div 2 <= Border
    THEN PyInt(Cast(v.halves \div 2)) ELSE PyFloat(v)

convert_number(v) ==
    IF v.js = "number" /\ v.halves % 2 = 0 /\ v.halves \div 2 >= -Border /\ v.halves \div 2 < Border
    THEN PyInt(Cast(v.halves \div 2)) ELSE PyFloat(v)

IsPrimitive(v) == v.js \in {"number", "special", "simple"}

try_convert_primitive(v) == IF v.js = "simple" THEN PySame(v) ELSE convert_number(v)

-------------------------------------------------------------------------------
(* deep_impl *)

Frame(h, o) ==
    [at |-> 1, built |-> <<>>,
     keys |-> [i \in DOMAIN h[o] |-> IF o \in Arrays THEN i ELSE h[o][i][1]]]

Top == stack[Len(stack)]
Current == ancestors[Len(ancestors)]

\* Mutant: an object on the way is found only when it is the innermost.
InProgressInnermost(o) == ancestors # <<>> /\ Current = o

InProgress(o) == \E i \in DOMAIN ancestors : ancestors[i] = o

\* The activation on top has its next element, or the whole conversion its result.
Return(frames, value) ==
    IF frames = <<>> THEN stack' = <<>> /\ outcome' = value
    ELSE LET n == Len(frames) IN
         /\ stack' = [frames EXCEPT ![n].built = Append(@, value), ![n].at = @ + 1]
         /\ UNCHANGED outcome

Fail(why) == ancestors' = <<>> /\ stack' = <<>> /\ outcome' = Failure(why)

Enter(h, o) ==
    /\ ancestors' = Append(ancestors, o)
    /\ stack' = Append(stack, Frame(h, o))
    /\ UNCHANGED outcome

\* deep_impl(v) in heap h, at depth Len(ancestors), up to its loop.
deep_impl(h, v) ==
    IF IsPrimitive(v) THEN Return(stack, try_convert_primitive(v)) /\ UNCHANGED ancestors
    ELSE IF v.js = "unsupported" THEN Fail("unsupported")
    ELSE IF Len(ancestors) > MaxDepth THEN Fail("depth")
    ELSE IF InProgress(v.object) THEN Fail("cycle")
    ELSE Enter(h, v.object)

\* array->Get(index), object->Get(key): undefined when it has gone since.
Property(o, key) ==
    IF o \in Arrays THEN IF key \in DOMAIN heap[o] THEN heap[o][key][2] ELSE Undefined
    ELSE LET same == {i \in DOMAIN heap[o] : heap[o][i][1] = key} IN
         IF same = {} THEN Undefined ELSE heap[o][CHOOSE i \in same : TRUE][2]

Init ==
    /\ heap \in Heaps
    /\ ancestors = <<Root>>
    /\ stack = <<Frame(heap, Root)>>
    /\ outcome = Running
    /\ runs = 0

InLoop == outcome = Running /\ Top.at <= Len(Top.keys)
Upcoming == Property(Current, Top.keys[Top.at])

\* The next element is a data property.
Element ==
    /\ InLoop /\ Upcoming # Getter
    /\ deep_impl(heap, Upcoming)
    /\ UNCHANGED <<heap, runs>>

\* It is a getter: it runs, may edit an object, and returns.
GetterReturns(o, properties, answer) ==
    /\ InLoop /\ Upcoming = Getter /\ runs < MaxRuns
    /\ heap' = [heap EXCEPT ![o] = properties]
    /\ runs' = runs + 1
    /\ deep_impl(heap', answer)

GetterThrows ==
    /\ InLoop /\ Upcoming = Getter
    /\ Fail("property access raised")
    /\ UNCHANGED <<heap, runs>>

\* The loop is over: the container is handed to the activation that asked for it.
Container ==
    /\ outcome = Running /\ Top.at > Len(Top.keys)
    /\ ancestors' = Front(ancestors)
    /\ Return(Front(stack), IF Current \in Arrays THEN PyList(Top.built)
                            ELSE PyDict([i \in DOMAIN Top.keys |-> <<Top.keys[i], Top.built[i]>>]))
    /\ UNCHANGED <<heap, runs>>

Next ==
    \/ Element
    \/ \E o \in Objects, answer \in Answers : \E properties \in Edits \cup {heap[o]} :
          GetterReturns(o, properties, answer)
    \/ GetterThrows
    \/ Container

Spec == Init /\ [][Next]_vars
-------------------------------------------------------------------------------
(* Properties *)

\* Whatever getters do to the heap, the recursion is at most MaxDepth + 1 deep and no
\* object is converted inside its own conversion: the native stack is safe.
RecursionBounded ==
    /\ Len(ancestors) <= MaxDepth + 1
    /\ \A i, j \in DOMAIN ancestors : ancestors[i] = ancestors[j] => i = j

Width == UNION {DOMAIN heap[o] : o \in Objects}
Paths == UNION {[1..k -> Width] : k \in 0..(MaxDepth + 1)}
Nothing == [py |-> "nothing", js |-> "nothing"]

\* What a JavaScript or Python value holds in heap h, and what is at a place inside it.
Elements(h, v) ==
    IF "object" \in DOMAIN v THEN [i \in DOMAIN h[v.object] |-> h[v.object][i][2]]
    ELSE IF "items" \notin DOMAIN v THEN <<>>
    ELSE IF v.py = "list" THEN v.items ELSE [i \in DOMAIN v.items |-> v.items[i][2]]
Child(h, v, i) == IF i \in DOMAIN Elements(h, v) THEN Elements(h, v)[i] ELSE Nothing
Place(h, v, path) ==
    LET reached[k \in 0..Len(path)] ==
            IF k = 0 THEN v ELSE Child(h, reached[k - 1], path[k])
    IN  reached[Len(path)]

InHeap(path) == Place(heap, Ref(Root), path)
InResult(path) == Place(heap, outcome, path)

\* docs/api_contract.md 4.1 tells whole Numbers, which become ints, from the others, which
\* become floats.  The code departs from it beyond std::int64_t, where a whole Number
\* becomes a float too: Stands allows that, IntegralsAreInts does not.
Integral(v) == v.js = "number" /\ v.halves % 2 = 0
FitsInt64(v) == v.halves >= -2 * Border /\ v.halves < 2 * Border

\* The Python value p is the JavaScript value v, with the elements of both left aside.
Stands(h, p, v) ==
    CASE p.py = "int" -> v.js = "number" /\ v.halves = 2 * p.int
      [] p.py = "float" -> /\ p.of = v
                           /\ ~(Integral(v) /\ FitsInt64(v))
      [] p.py = "same" -> p.of = v /\ v.js = "simple"
      [] p.py = "list" -> v.js = "object" /\ v.object \in Arrays
      [] p.py = "dict" -> /\ v.js = "object" /\ v.object \notin Arrays
                          /\ [i \in DOMAIN p.items |-> p.items[i][1]]
                                = [i \in DOMAIN h[v.object] |-> h[v.object][i][1]]
      [] OTHER -> p = Nothing /\ v = Nothing

Leads(path, o) == InHeap(path) = Ref(o)

\* A conversion that ran no getter to its end yields the value's unfolding, every place
\* in it standing for the same place in the heap; an object met twice but not inside
\* itself is no cycle.  It fails only for the reason that it gives.  Within std::int64_t
\* whole Numbers are ints and exact; beyond it a float is accepted, as the code returns one.
ConvertsFaithfully ==
    runs = 0 =>
        CASE outcome = Running -> TRUE
          [] outcome = Failure("unsupported") -> \E path \in Paths : InHeap(path) = Unsupported
          [] outcome = Failure("property access raised") ->
                \E path \in Paths : InHeap(path) = Getter
          [] outcome = Failure("depth") ->
                \E path \in Paths, o \in Objects : Len(path) = MaxDepth + 1 /\ Leads(path, o)
          [] outcome = Failure("cycle") ->
                \E path \in Paths, o \in Objects : \E k \in 0..(Len(path) - 1) :
                    Leads(path, o) /\ Leads(SubSeq(path, 1, k), o)
          [] OTHER -> \A path \in Paths : Stands(heap, InResult(path), InHeap(path))

\* docs/api_contract.md 4.1: an "exact integral Number" becomes an int, wherever it is in
\* the value.  convert_number does not do so at 2^63 and beyond, or below -2^63.
IntegralsAreInts ==
    runs = 0 /\ outcome.py \in {"list", "dict"} =>
        \A path \in Paths : Integral(InHeap(path)) => InResult(path).py = "int"
================================================================================
