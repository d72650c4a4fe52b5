----------------------------------- MODULE Url -----------------------------------
(***************************************************************************)
(* The URL global and the decomposition behind location:                   *)
(* decompose_url, url_is_absolute, resolve_url and the constructor         *)
(* (src/src/core/page_state.cpp).  A string is a sequence of symbols: the  *)
(* delimiters, and words for runs of other characters.                     *)
(***************************************************************************)
EXTENDS Integers, Sequences, SequencesExt, FiniteSetsExt

CONSTANTS Symbols,     \* what strings are made of
          SchemeWords, \* words of letters, digits, "+", "-" and "." that begin with a letter
          Inputs,      \* what scripts pass to new URL(input, base)
          Bases

VARIABLE url  \* what the last construction was given and what it made of it

NoBase == <<"no base">>
NoUrl == [made |-> FALSE]
Delimiters == {":", "/", "?", "#"}

\* A delimiter stands for itself alone; no more is asked of the strings.
ASSUME UrlAssumption ==
    /\ Delimiters \subseteq Symbols /\ SchemeWords \subseteq Symbols \ Delimiters
    /\ Inputs \subseteq Seq(Symbols)
    /\ Bases \subseteq Seq(Symbols) \cup {NoBase}

\* The first position from `from' on that holds a member of S, or the end.
FirstOf(s, from, S) ==
    Min({j \in from..Len(s) : s[j] \in S} \cup {IF from > Len(s) THEN from ELSE Len(s) + 1})

decompose_url(s) ==
    LET colon == FirstOf(s, 1, {":"})
        protocol == IF colon <= Len(s) THEN SubSeq(s, 1, colon) ELSE <<>>
        rest == SubSeq(s, Len(protocol) + 1, Len(s))
        authority == IsPrefix(<<"/", "/">>, rest)
        path == IF authority THEN FirstOf(rest, 3, {"/", "?", "#"}) ELSE 1
        host == IF authority THEN SubSeq(rest, 3, path - 1) ELSE <<>>
        hash == FirstOf(rest, path, {"#"})
        query == FirstOf(SubSeq(rest, 1, hash - 1), path, {"?"})
    IN  [href |-> s, protocol |-> protocol, host |-> host,
         hostname |-> SubSeq(host, 1, FirstOf(host, 1, {":"}) - 1),
         origin |-> IF authority THEN protocol \o <<"/", "/">> \o host ELSE <<>>,
         pathname |-> SubSeq(rest, path, query - 1),
         search |-> SubSeq(rest, query, hash - 1),
         hash |-> SubSeq(rest, hash, Len(rest))]

\* A scheme is one word.
url_is_absolute(s) == Len(s) >= 4 /\ s[1] \in SchemeWords /\ SubSeq(s, 2, 4) = <<":", "/", "/">>

\* Mutant: a base without a path contributes no "/".
DirectoryOrNothing(path) ==
    SubSeq(path, 1, Max({0} \cup {j \in DOMAIN path : path[j] = "/"}))

\* The path up to its last "/".
Directory(path) ==
    LET slashes == {j \in DOMAIN path : path[j] = "/"} IN
    IF slashes = {} THEN <<"/">> ELSE SubSeq(path, 1, Max(slashes))

\* What becomes of a relative reference.
Merged(input, b) ==
    IF input = <<>> THEN b.protocol \o <<"/", "/">> \o b.host \o b.pathname \o b.search
    ELSE CASE input[1] = "#" ->
                 b.protocol \o <<"/", "/">> \o b.host \o b.pathname \o b.search \o input
           [] input[1] = "?" -> b.protocol \o <<"/", "/">> \o b.host \o b.pathname \o input
           [] input[1] = "/" ->
                 IF IsPrefix(<<"/", "/">>, input) THEN b.protocol \o input
                 ELSE b.origin \o input
           [] OTHER -> b.origin \o Directory(b.pathname) \o input

Usable(base) == base # NoBase /\ url_is_absolute(base) /\ decompose_url(base).origin # <<>>

resolve_url(input, base) ==
    IF url_is_absolute(input) THEN input ELSE Merged(input, decompose_url(base))

\* new URL(input, base); a relative input without a usable base is a TypeError and makes
\* nothing.  toString() and toJSON() return href.
url_constructor(input, base) ==
    /\ url_is_absolute(input) \/ Usable(base)
    /\ url' = [made |-> TRUE, input |-> input, base |-> base,
               parts |-> decompose_url(resolve_url(input, base))]

InvalidUrl(input, base) ==
    /\ ~url_is_absolute(input) /\ ~Usable(base)
    /\ url' = NoUrl

UrlInit == url = NoUrl

\* A URL may be the base of the next one.
UrlNext ==
    \E input \in Inputs :
    \E base \in Bases \cup (IF url.made THEN {url.parts.href} ELSE {}) :
        url_constructor(input, base) \/ InvalidUrl(input, base)

UrlSpec == UrlInit /\ [][UrlNext]_url

-------------------------------------------------------------------------------
(* Properties *)

\* However often relative references are resolved against the URLs they led to, a URL is
\* absolute and has its base's origin, unless the reference names a host itself; and its
\* parts put together are its href ("the fields match it exactly", docs/m8_summary.md).
ResolvesWithinOrigin ==
    url.made =>
        LET p == url.parts IN
        /\ url_is_absolute(p.href)
        /\ p.href = p.origin \o p.pathname \o p.search \o p.hash
        /\ ~url_is_absolute(url.input) /\ ~IsPrefix(<<"/", "/">>, url.input) =>
              p.origin = decompose_url(url.base).origin
===============================================================================
