-------------------------------- MODULE ParamList --------------------------------
(***************************************************************************)
(* What docs/m8_summary.md ("Query-parameter object") promises of a        *)
(* URLSearchParams object: a list of pairs of texts, with no word on how   *)
(* it is kept.  An object without a list is one that scripts made          *)
(* otherwise.                                                              *)
(***************************************************************************)
EXTENDS Integers, Sequences, SequencesExt

CONSTANTS Objects,
          Lists        \* what strings given to the constructor parse to

VARIABLES lists, \* object -> its pairs, or NoList
          call,  \* the last call: its name, its object, its arguments as strings
          reply  \* and what it returned: a sequence of results

vars == <<lists, call, reply>>

NoList == [list |-> FALSE]
ListOf(pairs) == [list |-> TRUE, pairs |-> pairs]
Pairs(o) == IF lists[o].list THEN lists[o].pairs ELSE <<>>

Init == lists = [o \in Objects |-> NoList] /\ call = <<"none">> /\ reply = <<>>

Becomes(o, pairs) == lists' = [lists EXCEPT ![o] = ListOf(pairs)] /\ reply' = <<>>

New(o) ==
    /\ lists[o] = NoList
    /\ \E pairs \in Lists : Becomes(o, pairs)

\* The copy and the original are two lists from then on.
Copy(o, p) ==
    /\ lists[o] = NoList /\ lists[p] # NoList
    /\ Becomes(o, Pairs(p))

AddPair(o, n, v) == Becomes(o, Append(Pairs(o), <<n, v>>))

Others(pairs, n) ==
    FlattenSeq([i \in DOMAIN pairs |-> IF pairs[i][1] = n THEN <<>> ELSE <<pairs[i]>>])
ValuesOf(pairs, n) ==
    FlattenSeq([i \in DOMAIN pairs |-> IF pairs[i][1] = n THEN <<pairs[i][2]>> ELSE <<>>])
HasName(pairs, n) == \E i \in DOMAIN pairs : pairs[i][1] = n

\* The first pair of that name takes the value, the others of the name go.
SetPair(o, n, v) ==
    LET pairs == Pairs(o) IN
    IF ~HasName(pairs, n) THEN Becomes(o, Append(pairs, <<n, v>>))
    ELSE LET first == CHOOSE i \in DOMAIN pairs :
                          pairs[i][1] = n /\ \A j \in 1..(i - 1) : pairs[j][1] # n
         IN  Becomes(o, SubSeq(pairs, 1, first - 1) \o <<<<n, v>>>>
                            \o Others(SubSeq(pairs, first + 1, Len(pairs)), n))

Delete(o, n) == Becomes(o, Others(Pairs(o), n))

Read(results) == reply' = results /\ UNCHANGED lists

\* The value of the first pair of that name.
Get(o, n) ==
    LET pairs == Pairs(o) IN
    IF ~HasName(pairs, n) THEN Read(<<>>)
    ELSE \E i \in DOMAIN pairs :
            pairs[i][1] = n /\ (\A j \in 1..(i - 1) : pairs[j][1] # n) /\ Read(<<pairs[i][2]>>)

GetAll(o, n) == Read(ValuesOf(Pairs(o), n))

Has(o, n) == Read(<<HasName(Pairs(o), n)>>)

\* A string that parses to the list.
Written(o) == Read(Pairs(o))

Next ==
    LET Called(name) == call'[1] = name
        o == call'[2]
        n == call'[3]
    IN  \/ Called("new") /\ New(o)
        \/ Called("copy") /\ Copy(o, n)
        \/ Called("append") /\ AddPair(o, n, call'[4])
        \/ Called("set") /\ SetPair(o, n, call'[4])
        \/ Called("delete") /\ Delete(o, n)
        \/ Called("get") /\ Get(o, n)
        \/ Called("getAll") /\ GetAll(o, n)
        \/ Called("has") /\ Has(o, n)
        \/ Called("toString") /\ Written(o)

Spec == Init /\ [][Next]_vars
===================================================================================
