------------------------------- MODULE MCConversions -------------------------------
(***************************************************************************)
(* Conversions for TLC: the heaps of MCConversion; byte strings of every   *)
(* length up to five, so that the last group has one, two and three bytes; *)
(* malformed Base64; references of every form; names and values made of    *)
(* the characters that have a meaning in a query.                          *)
(***************************************************************************)
EXTENDS Conversions, MCConversion

CONSTANTS p1, p2

MCBinaries ==
    {<<>>, <<0>>, <<255>>, <<107, 251>>, <<255, 0, 255>>, <<1, 254, 3, 128>>,
     <<255, 255, 255, 127, 64>>, <<233, 256>>}

\* A stray pad, pads at a wrong length, a foreign character, one character, three pads.
MCTexts ==
    {<<Pad>>, <<0, 16, Pad>>, <<0, Pad, 1, 2>>, <<0, 1, Foreign, 3>>, <<5>>, <<0, Pad, Pad, Pad>>,
     <<0, 17>>, <<0, 1, 2>>, <<Space, 0, 1, Space, Space, Pad, Pad, Space>>}

MCSymbols == {"http", "ws", ":", "/", "?", "#", "a", "b", "c", "f", "g", "h", "q", "8"}
Authority == <<"http", ":", "/", "/", "h">>

MCInputs ==
    {<<>>, <<"#", "f">>, <<"#">>, <<"?", "q">>, <<"?", "q", "#", "?">>, <<"/", "a", "/", "b">>,
     <<"/", "/", "g", ":", "8">>, <<"/", "/", "?", "/">>, <<"c">>, <<"c", "/", "?", "q", "/">>,
     <<"http", ":", "c">>, <<"8", ":", "/", "/", "g">>, <<"ws", ":", "/", "/", "g", "/", "c">>}
MCBases ==
    {NoBase, <<"a">>, <<"http", ":", "/", "/">>, Authority, Authority \o <<"?", "q">>,
     Authority \o <<"#", "/">>, Authority \o <<":", "8", "/", "a", "/", "b", "?", "/", "#", "f">>}

\* "a", "%41"; "", "=&", "+ " and a letter beyond ASCII
MCNames == {<<97>>, <<37, 52, 49>>, Throws}
MCValues == {<<>>, <<61, 38>>, <<43, 32, 195, 137>>}

\* "", "?", "a=b&a", "&=&?=+", "a=%2b%4&%41=%"
MCQueries ==
    {<<>>, <<63>>, <<97, 61, 98, 38, 97>>, <<38, 61, 38, 63, 61, 43>>,
     <<97, 61, 37, 50, 98, 37, 52, 38, 37, 52, 49, 61, 37>>}
===================================================================================
