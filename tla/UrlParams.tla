-------------------------------- MODULE UrlParams --------------------------------
(***************************************************************************)
(* URLSearchParams (src/src/core/page_state.cpp).  An object keeps its     *)
(* parameters as one encoded string in a private slot; every method parses *)
(* the string, and those that change it edit the list and write it back.   *)
(* Strings are sequences of bytes, here the UTF-8 bytes the code works on. *)
(***************************************************************************)
EXTENDS Integers, Sequences, SequencesExt, FiniteSetsExt

CONSTANTS SearchParams,  \* the objects
          Queries,       \* strings given to the constructor
          Names, Values  \* arguments of the methods: strings, or Throws

Strings == Seq(0..255)
Throws == <<-1>>        \* an argument whose conversion to a string throws

ASSUME ParamsAssumption ==
    /\ Queries \subseteq Strings
    /\ Names \cup Values \subseteq Strings \cup {Throws}

VARIABLES state,  \* object -> the string in its private slot, or NoState
          call,   \* the last call, with its arguments as the method saw them
          result  \* what the method returned: a sequence of results

paramsVars == <<state, call, result>>

NoState == [slot |-> FALSE]
Slot(s) == [slot |-> TRUE, string |-> s]

\* The bytes with a meaning.
Percent == 37
Amp == 38
Plus == 43
Equals == 61
Question == 63
Blank == 32

-------------------------------------------------------------------------------
(* Percent-encoding *)

usp_hex_val(c) ==
    CASE c \in 48..57 -> c - 48 [] c \in 97..102 -> c - 87 [] c \in 65..70 -> c - 55
      [] OTHER -> -1

Hex(d) == IF d < 10 THEN 48 + d ELSE 55 + d

\* "i + 2 < s.size()" and two hexadecimal digits.
BeginsWithEscape(s) ==
    s[1] = Percent /\ Len(s) >= 3 /\ usp_hex_val(s[2]) >= 0 /\ usp_hex_val(s[3]) >= 0

usp_decode[s \in Strings] ==
    IF s = <<>> THEN <<>>
    ELSE IF BeginsWithEscape(s)
    THEN <<16 * usp_hex_val(s[2]) + usp_hex_val(s[3])>> \o usp_decode[SubSeq(s, 4, Len(s))]
    ELSE <<IF s[1] = Plus THEN Blank ELSE s[1]>> \o usp_decode[Tail(s)]

\* Mutant: what stands for a space is let through, too.
UnreservedAndPlus(c) ==
    c \in (48..57) \cup (65..90) \cup (97..122) \cup {42, 45, 46, 95, Plus}

\* [A-Za-z0-9*-._]
Unreserved(c) == c \in (48..57) \cup (65..90) \cup (97..122) \cup {42, 45, 46, 95}

usp_encode(s) ==
    FlattenSeq([i \in DOMAIN s |->
        IF Unreserved(s[i]) THEN <<s[i]>>
        ELSE IF s[i] = Blank THEN <<Plus>>
        ELSE <<Percent, Hex(s[i] \div 16), Hex(s[i] % 16)>>])

Position(s, c) == Min({j \in DOMAIN s : s[j] = c} \cup {Len(s) + 1})

UpTo(s, c) == SubSeq(s, 1, Position(s, c) - 1)
After(s, c) == SubSeq(s, Position(s, c) + 1, Len(s))

\* Empty tokens are skipped; a token without "=" has an empty value.
Pair[token \in Strings] ==
    IF token = <<>> THEN <<>>
    ELSE <<<<usp_decode[UpTo(token, Equals)], usp_decode[After(token, Equals)]>>>>

usp_parse[q \in Strings] ==
    IF q = <<>> THEN <<>> ELSE Pair[UpTo(q, Amp)] \o usp_parse[After(q, Amp)]

usp_serialize(pairs) ==
    FlattenSeq([i \in DOMAIN pairs |->
        (IF i > 1 THEN <<Amp>> ELSE <<>>)
            \o usp_encode(pairs[i][1]) \o <<Equals>> \o usp_encode(pairs[i][2])])

-------------------------------------------------------------------------------
(* The object *)

usp_read_state(o) == IF state[o].slot THEN state[o].string ELSE <<>>
usp_write_state(o, s) == state' = [state EXCEPT ![o] = Slot(s)]

\* The call goes on with the empty string; the exception waits until it returns.
usp_arg_string(a) == IF a = Throws THEN <<>> ELSE a

Parsed(o) == usp_parse[usp_read_state(o)]
Returns(results) == result' = results

ParamsInit ==
    /\ state = [o \in SearchParams |-> NoState]
    /\ call = <<"none">> /\ result = <<>>

\* A leading "?" is dropped.
Canonical(q) ==
    usp_parse[IF q # <<>> /\ q[1] = Question THEN Tail(q) ELSE q]

Construct(o, q) ==
    /\ state[o] = NoState
    /\ call' = <<"new", o>>
    /\ usp_write_state(o, usp_serialize(Canonical(q)))
    /\ Returns(<<>>)

\* A copy of another object; one without a string to copy is a TypeError.
ConstructCopy(o, p) ==
    /\ state[o] = NoState /\ state[p].slot
    /\ call' = <<"copy", o, p>>
    /\ usp_write_state(o, usp_read_state(p))
    /\ Returns(<<>>)

usp_append(o, name, value) ==
    LET n == usp_arg_string(name)
        v == usp_arg_string(value) IN
    /\ call' = <<"append", o, n, v>>
    /\ usp_write_state(o, usp_serialize(Append(Parsed(o), <<n, v>>)))
    /\ Returns(<<>>)

usp_set(o, name, value) ==
    LET n == usp_arg_string(name)
        v == usp_arg_string(value)
        same == {i \in DOMAIN Parsed(o) : Parsed(o)[i][1] = n}
    IN  /\ call' = <<"set", o, n, v>>
        /\ usp_write_state(o, usp_serialize(
             IF same = {} THEN Append(Parsed(o), <<n, v>>)
             ELSE FlattenSeq([i \in DOMAIN Parsed(o) |->
                    IF i \notin same THEN <<Parsed(o)[i]>>
                    ELSE IF i = Min(same) THEN <<<<n, v>>>> ELSE <<>>])))
        /\ Returns(<<>>)

usp_delete(o, name) ==
    LET n == usp_arg_string(name) IN
    /\ call' = <<"delete", o, n>>
    /\ usp_write_state(o, usp_serialize(
         FlattenSeq([i \in DOMAIN Parsed(o) |->
             IF Parsed(o)[i][1] = n THEN <<>> ELSE <<Parsed(o)[i]>>])))
    /\ Returns(<<>>)

ValuesNamed(o, n) ==
    FlattenSeq([i \in DOMAIN Parsed(o) |->
        IF Parsed(o)[i][1] = n THEN <<Parsed(o)[i][2]>> ELSE <<>>])

usp_get(o, name) ==
    LET n == usp_arg_string(name) IN
    /\ call' = <<"get", o, n>>
    /\ Returns(IF ValuesNamed(o, n) = <<>> THEN <<>> ELSE <<Head(ValuesNamed(o, n))>>)
    /\ UNCHANGED state

usp_get_all(o, name) ==
    LET n == usp_arg_string(name) IN
    /\ call' = <<"getAll", o, n>>
    /\ Returns(ValuesNamed(o, n))
    /\ UNCHANGED state

usp_has(o, name) ==
    LET n == usp_arg_string(name) IN
    /\ call' = <<"has", o, n>>
    /\ Returns(<<\E i \in DOMAIN Parsed(o) : Parsed(o)[i][1] = n>>)
    /\ UNCHANGED state

usp_to_string(o) ==
    /\ call' = <<"toString", o>>
    /\ Returns(<<usp_read_state(o)>>)
    /\ UNCHANGED state

ParamsNext ==
    \E o \in SearchParams :
        \/ \E q \in Queries : Construct(o, q)
        \/ \E p \in SearchParams : ConstructCopy(o, p)
        \/ \E n \in Names, v \in Values : usp_append(o, n, v) \/ usp_set(o, n, v)
        \/ \E n \in Names : usp_delete(o, n) \/ usp_get(o, n) \/ usp_get_all(o, n) \/ usp_has(o, n)
        \/ usp_to_string(o)

-------------------------------------------------------------------------------
(* Properties *)

\* The list an object's string stands for, and a reply that is such a string read.
Shown ==
    [o \in SearchParams |-> IF state[o].slot THEN [list |-> TRUE, pairs |-> Parsed(o)]
                           ELSE [list |-> FALSE]]
Answer == IF call[1] = "toString" THEN usp_parse[result[1]] ELSE result

List == INSTANCE ParamList WITH
    Objects <- SearchParams, lists <- Shown, reply <- Answer,
    Lists <- {Canonical(q) : q \in Queries}

\* Whatever names and values hold, an object is the list of pairs that
\* docs/m8_summary.md describes: nothing is lost, merged or changed on the way through the
\* encoded string, and a copy is a list of its own.
ParamsKeepList == List!Spec
===================================================================================
