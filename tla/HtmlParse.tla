------------------------------- MODULE HtmlParse -------------------------------
(***************************************************************************)
(* parse_html and parse_attributes (src/src/core/page_state.cpp): one pass *)
(* over the source of a page that feeds the element tree of DomTree.  Each *)
(* turn of parse_html's loop is an action; a start tag takes one more per  *)
(* turn of parse_attributes' loop, and one to link its node.               *)
(*                                                                         *)
(* A source is a sequence of symbols: the characters the parser looks for, *)
(* and words, which stand for runs of other characters.                    *)
(***************************************************************************)
EXTENDS DomTree, SequencesExt

CONSTANTS Pages,        \* [html |-> source, scripted |-> do scripts edit it afterwards]
          UpperCase     \* word -> the word it becomes in lower case, where it differs

ASSUME PagesAssumption == \A page \in Pages : page.html \in Seq(STRING)

VARIABLES html,           \* the source
          scripted,
          pos,            \* parse_html's i
          tag,            \* the start tag whose attributes are being read, or NoTag
          tags,           \* node -> tag name, a run of symbols
          attributes,     \* node -> attribute name -> value; id and class included
          content_start,  \* node -> where its inner HTML begins
          content_end,    \*      -> and ends (exclusive)
          scripts         \* the ScriptRecords

pageVars == <<html, scripted>>
nodeVars == <<tags, attributes, content_start, content_end>>
treeVars == vars
parseVars == <<vars, pageVars, pos, tag, nodeVars, scripts>>

NoTag == [name |-> <<>>]
NoAttributes == [a \in {} |-> <<>>]
Space == {" "}
Quote == {"\""}

ascii_lower(run) ==
    [i \in DOMAIN run |-> IF run[i] \in DOMAIN UpperCase THEN UpperCase[run[i]] ELSE run[i]]

is_void_element(name) ==
    \E v \in {"area", "base", "br", "col", "embed", "hr", "img", "input", "link", "meta",
              "param", "source", "track", "wbr"} : name = <<v>>

ParseInit ==
    /\ Init
    /\ \E page \in Pages : html = page.html /\ scripted = page.scripted
    /\ pos = 1 /\ tag = NoTag
    /\ tags = [n \in Nodes |-> <<>>]
    /\ attributes = [n \in Nodes |-> NoAttributes]
    /\ content_start = [n \in Nodes |-> 0] /\ content_end = [n \in Nodes |-> 0]
    /\ scripts = <<>>

-------------------------------------------------------------------------------
(* Scanning *)

\* "while (j < n && s[j] not in S) j++", and the complement.
Find(s, from, S) ==
    Min({j \in from..Len(s) : s[j] \in S} \cup {IF from > Len(s) THEN from ELSE Len(s) + 1})
FindNot(s, from, S) ==
    Min({j \in from..Len(s) : s[j] \notin S} \cup {IF from > Len(s) THEN from ELSE Len(s) + 1})

\* "if (j < n) j++"
Past(s, j) == IF j <= Len(s) THEN j + 1 ELSE j

\* The first "</script" at or after from, in any case, or the end of the source.
find_script_close(from) ==
    Min({p \in from..(Len(html) - 2) : ascii_lower(SubSeq(html, p, p + 2)) = <<"<", "/", "script">>}
        \cup {Len(html) + 1})

\* Every <...> dropped.
strip_tags(s) ==
    LET InTag(i) == \E b \in 1..i : s[b] = "<" /\ \A j \in b..(i - 1) : s[j] # ">"
        kept == {i \in DOMAIN s : s[i] # ">" /\ ~InTag(i)}
    IN  [k \in 1..Cardinality(kept) |->
            s[CHOOSE i \in kept : Cardinality({j \in kept : j <= i}) = k]]

-------------------------------------------------------------------------------
(* parse_attributes *)

\* What a turn reads at i: a name (may be empty), its value, where the next turn begins.
Attribute(s, i) ==
    LET begin == FindNot(s, i, Space)
        end == Find(s, begin, {"=", "/"} \cup Space)
        mark == FindNot(s, end, Space)
        hasValue == mark <= Len(s) /\ s[mark] = "="
        at == FindNot(s, mark + 1, Space)
        quoted == at <= Len(s) /\ s[at] \in Quote
        stop == IF quoted THEN Find(s, at + 1, {s[at]}) ELSE Find(s, at, {"/"} \cup Space)
    IN  [name |-> ascii_lower(SubSeq(s, begin, end - 1)),
         value |-> IF ~hasValue THEN <<>>
                   ELSE IF quoted THEN SubSeq(s, at + 1, stop - 1)
                   ELSE SubSeq(s, at, stop - 1),
         next |-> IF ~hasValue THEN mark ELSE IF quoted THEN Past(s, stop) ELSE stop]

\* One turn of the loop.  An empty name is skipped; a repeated one keeps the last value.
AttributeTurn ==
    /\ tag # NoTag /\ tag.at <= Len(tag.body)
    /\ LET a == Attribute(tag.body, tag.at) IN
       tag' = [tag EXCEPT !.at = a.next,
                          !.attributes = IF a.name = <<>> THEN @ ELSE (a.name :> a.value) @@ @]
    /\ UNCHANGED <<vars, pageVars, pos, nodeVars, scripts>>

-------------------------------------------------------------------------------
(* parse_html *)

InText == parsing /\ tag = NoTag /\ pos <= Len(html)
AtTag == InText /\ html[pos] = "<" /\ pos < Len(html)

SkipText ==
    /\ InText /\ html[pos] # "<"
    /\ pos' = pos + 1
    /\ UNCHANGED <<vars, pageVars, tag, nodeVars, scripts>>

\* "</name ...>": the innermost open element of that name, if any, and all inside it close.
ReadEndTag ==
    /\ AtTag /\ html[pos + 1] = "/"
    /\ LET end == Find(html, pos + 2, {">"} \cup Space)
           name == ascii_lower(SubSeq(html, pos + 2, end - 1))
           same == {k \in DOMAIN open : tags[open[k]] = name}
       IN  /\ pos' = Past(html, Find(html, end, {">"}))
           /\ IF same = {}
              THEN UNCHANGED <<vars, content_end>>
              ELSE /\ EndTag(Max(same))
                   /\ content_end' = [content_end EXCEPT ![open[Max(same)]] = pos]
    /\ UNCHANGED <<pageVars, tag, tags, attributes, content_start, scripts>>

SkipComment ==
    /\ AtTag /\ html[pos + 1] = "!"
    /\ pos' = Past(html, Find(html, pos + 2, {">"}))
    /\ UNCHANGED <<vars, pageVars, tag, nodeVars, scripts>>

\* "<name ...>" up to parse_attributes; nothing becomes of an empty name.
ReadStartTag ==
    /\ AtTag /\ html[pos + 1] \notin {"/", "!"}
    /\ LET end == Find(html, pos + 1, {">", "/"} \cup Space)
           close == Find(html, end, {">"})
           name == ascii_lower(SubSeq(html, pos + 1, end - 1))
           raw == SubSeq(html, end, close - 1)
           self_closing == raw # <<>> /\ Last(raw) = "/"
       IN  /\ pos' = Past(html, close)
           /\ tag' = IF name = <<>> THEN NoTag
                     ELSE [name |-> name, self_closing |-> self_closing,
                           body |-> IF self_closing THEN Front(raw) ELSE raw,
                           at |-> 1, attributes |-> NoAttributes]
    /\ UNCHANGED <<vars, pageVars, nodeVars, scripts>>

RawText == tag.name = <<"script">> /\ ~tag.self_closing

\* The node is linked; a script's body is captured and skipped.
LinkNode ==
    /\ tag # NoTag /\ tag.at > Len(tag.body)
    /\ StartTag(~tag.self_closing /\ ~RawText /\ ~is_void_element(tag.name))
    /\ LET n == count + 1
           end == IF RawText THEN find_script_close(pos) ELSE pos
           has_src == <<"src">> \in DOMAIN tag.attributes
       IN  /\ tags' = [tags EXCEPT ![n] = tag.name]
           /\ attributes' = [attributes EXCEPT ![n] = tag.attributes]
           /\ content_start' = [content_start EXCEPT ![n] = pos]
           /\ content_end' = [content_end EXCEPT ![n] = end]
           /\ scripts' = IF ~RawText THEN scripts
                         ELSE Append(scripts, [node |-> n, has_src |-> has_src,
                                  code |-> IF has_src THEN <<>> ELSE SubSeq(html, pos, end - 1)])
           /\ pos' = IF RawText THEN Past(html, Find(html, end, {">"})) ELSE pos
    /\ tag' = NoTag
    /\ UNCHANGED pageVars

\* The loop ends at the end of the source or at a "<" that is its last character.
ParseEnds ==
    /\ EndOfInput
    /\ tag = NoTag /\ pos >= Len(html)
    /\ pos = Len(html) => html[pos] = "<"
    /\ UNCHANGED <<pageVars, pos, tag, nodeVars, scripts>>

-------------------------------------------------------------------------------
(* Properties *)

Below(n, e) == n # e /\ is_self_or_ancestor(e, n)

\* While a page is parsed, the descendants of an element are the elements found in the
\* source between its tags: what textContent collects is the text of its own subtree.
RangeIsSubtree ==
    parsing => \A e \in Pool : content_end[e] > content_start[e] =>
        \A n \in Pool : Below(n, e) <=> content_start[n] > content_start[e]
                                        /\ content_start[n] <= content_end[e]

\* "malformed: ignore an empty attribute name" (page_state.cpp:518): whatever a tag
\* holds, the source is read to its end.
SourceIsRead == <>~parsing
===============================================================================
