------------------------------- MODULE MCConversion -------------------------------
(***************************************************************************)
(* ValueConversion for TLC: three objects.  The root has any two elements; *)
(* below it there is room for sharing, cycles and one level too many, and  *)
(* getters may push, delete and link.                                      *)
(***************************************************************************)
EXTENDS ValueConversion

CONSTANTS o1, o2, o3

Properties(values, n) ==
    UNION {[1..k -> values] : k \in 0..n}
Named(values) == [i \in DOMAIN values |-> <<IF i = 1 THEN "a" ELSE "b", values[i]>>]

\* Whole numbers at both ends of the range and just beyond, and a fraction.
Numbers == {Number(n) : n \in {2 * Border, 2 * Border - 2, 2 * Border - 1, -2 * Border, -2 * Border - 2}}

MCHeaps ==
    {[o \in {o1, o2, o3} |-> Named(CASE o = o1 -> a [] o = o2 -> b [] o = o3 -> c)] :
        a \in Properties({Number(2), Ref(o2), Ref(o3), Getter}, 2),
        b \in Properties({Special("-0"), Ref(o1), Ref(o3), Unsupported}, 2),
        c \in Properties({Undefined, Ref(o1), Ref(o2), Getter}, 1)}
    \cup {[o \in {o1, o2, o3} |-> IF o = o1 THEN Named(<<v>>) ELSE <<>>] : v \in Numbers}

MCEdits == {<<>>, Named(<<Ref(o1)>>), Named(<<Getter, Ref(o3)>>)}
MCAnswers == {Undefined, Ref(o2), Ref(o3)}
===================================================================================
