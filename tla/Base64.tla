---------------------------------- MODULE Base64 ----------------------------------
(***************************************************************************)
(* btoa and atob (src/src/core/page_state.cpp).  btoa is one step.  atob   *)
(* is a loop over its input that drops white space, the padding rules, and *)
(* a loop that shifts six bits a turn into a buffer and takes bytes out;   *)
(* each turn is a step.                                                    *)
(*                                                                         *)
(* A character of the alphabet is named by its value, 0..63, so that       *)
(* base64_val is a lookup; the other characters have numbers beyond.       *)
(***************************************************************************)
EXTENDS Integers, Sequences

CONSTANTS Binaries,  \* what scripts give to btoa: sequences of UTF-16 code units
          Texts      \* what they give to atob besides btoa's answers

Pad == 64
Space == 65
Foreign == 66
Chars == 0..66
Bytes == 0..255

\* Texts are made of characters; no more is asked of them.
ASSUME Base64Assumption ==
    /\ Texts \subseteq Seq(Chars)
    /\ \A b \in Binaries : b \in Seq(Nat)

VARIABLES source,  \* the bytes btoa encoded last
          encoded, \* what it returned
          phase,   \* where atob is, or how the last call ended
          text,    \* what atob has yet to read of its argument
          chars,   \* s: the characters kept
          at,      \* the characters of s decoded so far
          buf, bits, out

base64Vars == <<source, encoded, phase, text, chars, at, buf, bits, out>>
atobVars == <<text, chars, at, buf, bits, out>>

Base64Init ==
    /\ source = <<>> /\ encoded = <<>> /\ phase = "idle"
    /\ text = <<>> /\ chars = <<>> /\ at = 0
    /\ buf = 0 /\ bits = 0 /\ out = <<>>

-------------------------------------------------------------------------------
(* base64_encode *)

Byte(b, i) == IF i <= Len(b) THEN b[i] ELSE 0

\* x of the group that begins after j times three bytes.
Group(b, j) == 65536 * Byte(b, 3 * j + 1) + 256 * Byte(b, 3 * j + 2) + Byte(b, 3 * j + 3)

Sextet(x, k) ==
    CASE k = 0 -> x \div 262144
      [] k = 1 -> (x \div 4096) % 64
      [] k = 2 -> (x \div 64) % 64
      [] OTHER -> x % 64

\* How many characters carry bits; the rest of the last group is padding.
Carrying(n) == (4 * n + 2) \div 3

base64_encode(b) ==
    [k \in 1..(4 * ((Len(b) + 2) \div 3)) |->
        IF k <= Carrying(Len(b)) THEN Sextet(Group(b, (k - 1) \div 4), (k - 1) % 4) ELSE Pad]

-------------------------------------------------------------------------------
(* btoa *)

Between == phase \in {"idle", "done", "failed", "refused"}

\* The locals of an earlier atob are gone.
AtobForgotten ==
    /\ text' = <<>> /\ chars' = <<>> /\ at' = 0
    /\ buf' = 0 /\ bits' = 0 /\ out' = <<>>

btoa(units) ==
    /\ Between /\ \A i \in DOMAIN units : units[i] <= 255
    /\ source' = units /\ encoded' = base64_encode(units)
    /\ phase' = "idle"
    /\ AtobForgotten

\* "characters outside the Latin1 range": a TypeError.
BtoaThrows(units) ==
    /\ Between /\ \E i \in DOMAIN units : units[i] > 255
    /\ phase' = "refused"
    /\ AtobForgotten
    /\ UNCHANGED <<source, encoded>>

-------------------------------------------------------------------------------
(* atob *)

atob(t) ==
    /\ Between
    /\ phase' = "strip" /\ text' = t /\ chars' = <<>> /\ at' = 0
    /\ buf' = 0 /\ bits' = 0 /\ out' = <<>>
    /\ UNCHANGED <<source, encoded>>

Keep ==
    /\ phase = "strip" /\ text # <<>> /\ Head(text) # Space
    /\ chars' = Append(chars, Head(text)) /\ text' = Tail(text)
    /\ UNCHANGED <<source, encoded, phase, at, buf, bits, out>>

DropSpace ==
    /\ phase = "strip" /\ text # <<>> /\ Head(text) = Space
    /\ text' = Tail(text)
    /\ UNCHANGED <<source, encoded, phase, chars, at, buf, bits, out>>

\* Mutant: padding is taken off one character at most.
UnpaddedOnce(s) ==
    IF Len(s) % 4 = 0 /\ s # <<>> /\ s[Len(s)] = Pad THEN SubSeq(s, 1, Len(s) - 1) ELSE s

\* "ONLY when the length is a multiple of 4, remove up to two trailing '='".
Unpadded(s) ==
    LET n == Len(s) IN
    IF n % 4 # 0 \/ n = 0 \/ s[n] # Pad THEN s
    ELSE IF s[n - 1] # Pad THEN SubSeq(s, 1, n - 1)
    ELSE SubSeq(s, 1, n - 2)

Significant == Unpadded(chars)

\* The argument is read: decode, unless the length is wrong.
EndStrip ==
    /\ phase = "strip" /\ text = <<>>
    /\ phase' = IF Len(Significant) % 4 = 1 THEN "failed" ELSE "decode"
    /\ UNCHANGED <<source, encoded, atobVars>>

\* 2^b, for the bits that may be pending.
Power(b) == CASE b = 0 -> 1 [] b = 2 -> 4 [] b = 4 -> 16 [] OTHER -> 64

Decode ==
    /\ phase = "decode" /\ at < Len(Significant)
    /\ LET v == Significant[at + 1]
           pushed == buf * 64 + v
       IN  IF v > 63
           THEN phase' = "failed" /\ UNCHANGED <<at, buf, bits, out>>
           ELSE /\ at' = at + 1
                /\ UNCHANGED phase
                /\ IF bits + 6 >= 8
                   THEN /\ bits' = bits - 2
                        /\ out' = Append(out, (pushed \div Power(bits - 2)) % 256)
                        /\ buf' = pushed % Power(bits - 2)
                   ELSE bits' = bits + 6 /\ buf' = pushed /\ UNCHANGED out
    /\ UNCHANGED <<source, encoded, text, chars>>

EndDecode ==
    /\ phase = "decode" /\ at = Len(Significant)
    /\ phase' = "done"
    /\ UNCHANGED <<source, encoded, atobVars>>

\* What btoa returned, as it is and with white space somewhere in it.
Returned ==
    {encoded} \cup {SubSeq(encoded, 1, i) \o <<Space>> \o SubSeq(encoded, i + 1, Len(encoded)) :
                       i \in 0..Len(encoded)}

Base64Next ==
    \/ \E b \in Binaries : btoa(b) \/ BtoaThrows(b)
    \/ \E t \in Texts \cup Returned : atob(t)
    \/ Keep \/ DropSpace \/ EndStrip \/ Decode \/ EndDecode

Base64Spec == Base64Init /\ [][Base64Next]_base64Vars

-------------------------------------------------------------------------------
(* Properties *)

\* atob undoes btoa: given what btoa returned, with any white space in it, atob does not
\* fail and returns the bytes btoa was given, whatever their number
\* (docs/m8_summary.md, "Base64 tools").
RoundTrip ==
    chars = encoded => /\ phase # "failed"
                       /\ phase = "done" => out = source
===============================================================================
