--------------------------- MODULE FormControls_proofs ---------------------------
(***************************************************************************)
(* A page that is parsed and then edited by its scripts does to the        *)
(* element tree what DomTree allows, so DomTree's theorems hold for it,    *)
(* whatever its source, its scripts and the number of its elements; the    *)
(* ranges of its source are those of its subtrees; and what form, elements *)
(* and reset read off the tree by walking it agrees with what the tree is: *)
(* the walks visit the controls of a form and no others.                   *)
(***************************************************************************)
EXTENDS FormControls, DomTree_proofs, FiniteSetTheorems, WellFoundedInduction, TLAPS

LEMMA ReadPageEditsTree ==
    ASSUME ReadPage
    PROVE  [Next]_treeVars
<1>1. CASE SkipText \/ SkipComment \/ ReadStartTag \/ AttributeTurn
  BY <1>1 DEF SkipText, SkipComment, ReadStartTag, AttributeTurn, treeVars
<1>2. CASE ReadEndTag
  <2>1. CASE UNCHANGED vars
    BY <2>1 DEF treeVars
  <2>2. ASSUME NEW k, EndTag(k) PROVE Next
    BY <2>2 DEF EndTag, Next
  <2> QED BY <1>2, <2>1, <2>2 DEF ReadEndTag
<1>3. ASSUME NEW leftOpen \in BOOLEAN, StartTag(leftOpen) PROVE Next
  BY <1>3 DEF Next
<1>4. CASE SeedAndLink
  <2> DEFINE leftOpen == ~tag.self_closing /\ ~RawText /\ ~is_void_element(tag.name)
  <2>1. StartTag(leftOpen) /\ leftOpen \in BOOLEAN
    BY <1>4 DEF SeedAndLink, LinkNode
  <2> QED BY <1>3, <2>1
<1>5. CASE DocumentBuilt
  BY <1>5 DEF DocumentBuilt, ParseEnds, Next
<1> QED
  BY <1>1, <1>2, <1>4, <1>5 DEF ReadPage

LEMMA RunScriptEditsTree ==
    ASSUME RunScript
    PROVE  [Next]_treeVars
<1>1. ASSUME NEW name, CreateElement(name) PROVE Next
  BY <1>1 DEF CreateElement, Next
<1>2. CASE EditTree
  BY <1>2 DEF EditTree, Next
<1>3. ASSUME NEW n \in Pool, NEW v, SetText(n, v) PROVE Next
  BY <1>3 DEF SetText, Next
<1>4. ASSUME NEW new, SlotsBecome(new) PROVE UNCHANGED treeVars
  BY <1>4 DEF SlotsBecome, treeUnchanged
<1>5. ASSUME NEW n \in Pool, NEW v, SetValue(n, v) \/ SelectValue(n, v) PROVE UNCHANGED treeVars
  BY <1>4, <1>5 DEF SetValue, SelectValue
<1>6. ASSUME NEW n \in Pool, NEW b, SetSelected(n, b) \/ SetChecked(n, b) PROVE UNCHANGED treeVars
  BY <1>4, <1>6 DEF SetSelected, SetChecked
<1>7. ASSUME NEW n \in Pool, reset(n) PROVE UNCHANGED treeVars
  BY <1>4, <1>7 DEF reset
<1>8. ASSUME NEW n \in Pool, NEW v, SetValueAttribute(n, v) PROVE UNCHANGED treeVars
  BY <1>8 DEF SetValueAttribute, treeUnchanged
<1>9. ASSUME NEW n \in Pool, RemoveValueAttribute(n) PROVE UNCHANGED treeVars
  BY <1>9 DEF RemoveValueAttribute, treeUnchanged
<1>10. ASSUME NEW n \in Pool, NEW s, NEW v, SetSubmission(n, s, v) PROVE UNCHANGED treeVars
  BY <1>10 DEF SetSubmission, treeUnchanged
<1> QED
  BY <1>1, <1>2, <1>3, <1>5, <1>6, <1>7, <1>8, <1>9, <1>10 DEF RunScript

\* The parser and the scripts of a page implement the element tree of DomTree.
THEOREM PagesImplementTree == FormSpec => Spec
<1>1. FormInit => Init
  BY DEF FormInit, ParseInit
<1>2. [FormNext]_formVars => [Next]_vars
  <2>1. UNCHANGED formVars => UNCHANGED vars
    BY DEF formVars, parseVars
  <2>2. FormNext => [Next]_vars
    BY ReadPageEditsTree, RunScriptEditsTree DEF FormNext, treeVars
  <2> QED BY <2>1, <2>2
<1> QED
  BY <1>1, <1>2, PTL DEF FormSpec, Spec

\* In every page the two pointers of every link agree, whatever its scripts do.
THEOREM PageLinks == FormSpec => []TreeLinks
  BY PagesImplementTree, LinksAgree, PTL

\* In every page every walk up or down the tree ends, among them the walks of
\* control.form, form.elements, select.value and form.reset().
THEOREM PageAcyclic == FormSpec => []Acyclic
  BY PagesImplementTree, NoCycles, PTL

\* In every page a tree edit, a parser's append or a text write keeps the order of the
\* children it does not move: what form.elements and the options of a select list.
THEOREM PageOrder == FormSpec => MovesKeepOrder
  BY PagesImplementTree, OrderIsKept, PTL

\* In every page an element that reports isConnected is one that queries find, and so are
\* the controls form.elements collects.
THEOREM PageConnected == FormSpec => []ConnectedIsQueried
  BY PagesImplementTree, ConnectedAreFound, PTL

-------------------------------------------------------------------------------
(* RangeIsSubtree.  The ranges of the source nest as the elements do,      *)
(* because the stack of open elements is a branch of the tree and all that *)
(* is read while an element is open ends up below it.                      *)

\* The open elements are a branch of the tree, allocated from the outside in.
Branch ==
    \A j \in DOMAIN open :
        /\ \A i \in DOMAIN open : i < j => open[i] < open[j]
        /\ parent[open[j]] = IF j = 1 THEN None ELSE open[j - 1]

\* No range reaches past what is read; a start tag being read lies behind all of them.
RangesRead ==
    /\ content_start \in [Nodes -> Nat] /\ content_end \in [Nodes -> Nat]
    /\ \A n \in Pool :
          /\ content_start[n] <= pos /\ content_end[n] <= pos
          /\ tag # NoTag => content_start[n] < pos /\ content_end[n] < pos

\* All that was read since an element opened is below it, and what was read when it
\* closed is all there is below.
RangesNest ==
    \A e \in Pool :
        /\ e \in Members(open) =>
              /\ content_end[e] = content_start[e]
              /\ \A n \in Pool : Below(n, e) <=> content_start[n] > content_start[e]
        /\ content_end[e] > content_start[e] =>
              \A n \in Pool : Below(n, e) <=> content_start[n] > content_start[e]
                                              /\ content_start[n] <= content_end[e]

ParserInv ==
    /\ html \in Seq(STRING)
    /\ parsing => pos \in 1..(Len(html) + 1) /\ Branch /\ RangesRead /\ RangesNest

(* Scanning moves forward and stays within the source. *)

LEMMA LeastFound ==
    ASSUME NEW S \in SUBSET Nat, S # {}
    PROVE  Min(S) \in S /\ \A m \in S : Min(S) <= m
<1>1. PICK n \in S : \A m \in S : ~(<<m, n>> \in OpToRel(<, Nat))
  BY NatLessThanWellFounded, WFMin
<1>2. \A m, k \in Nat : m < k => <<m, k>> \in OpToRel(<, Nat)
  BY DEF OpToRel
<1>3. ASSUME NEW m \in S PROVE n <= m
  <2>1. m \in Nat /\ n \in Nat
    OBVIOUS
  <2>2. ~(m < n)
    BY <1>1, <1>2, <2>1
  <2> QED BY <2>1, <2>2
<1> QED
  BY <1>3 DEF Min

LEMMA FindBounds ==
    ASSUME NEW s \in Seq(STRING), NEW from \in 1..(Len(s) + 1), NEW S
    PROVE  Find(s, from, S) \in from..(Len(s) + 1)
<1> DEFINE at == {j \in from..Len(s) : s[j] \in S} \cup {IF from > Len(s) THEN from ELSE Len(s) + 1}
<1>1. Len(s) \in Nat
  OBVIOUS
<1>2. at \in SUBSET Nat /\ at # {} /\ \A j \in at : j \in from..(Len(s) + 1)
  BY <1>1
<1>3. Find(s, from, S) = Min(at)
  BY DEF Find
<1> HIDE DEF at
<1> QED
  BY <1>2, <1>3, LeastFound

LEMMA CloseBounds ==
    ASSUME html \in Seq(STRING), NEW from \in 1..(Len(html) + 1)
    PROVE  find_script_close(from) \in from..(Len(html) + 1)
<1> DEFINE at == {p \in from..(Len(html) - 2) :
                     ascii_lower(SubSeq(html, p, p + 2)) = <<"<", "/", "script">>}
                 \cup {Len(html) + 1}
<1>1. Len(html) \in Nat
  OBVIOUS
<1>2. at \in SUBSET Nat /\ at # {} /\ \A j \in at : j \in from..(Len(html) + 1)
  BY <1>1
<1>3. find_script_close(from) = Min(at)
  BY DEF find_script_close
<1> HIDE DEF at
<1> QED
  BY <1>2, <1>3, LeastFound

LEMMA PastBounds ==
    ASSUME NEW s \in Seq(STRING), NEW j \in 1..(Len(s) + 1)
    PROVE  /\ Past(s, j) \in j..(Len(s) + 1)
           /\ j <= Len(s) => Past(s, j) = j + 1
<1>1. Len(s) \in Nat
  OBVIOUS
<1> QED
  BY <1>1 DEF Past

(* Linking a node changes the walk of no other; its own leads up the open elements. *)

LEMMA SameWalks ==
    ASSUME UNCHANGED parent
    PROVE  \A n, e : Below(n, e)' <=> Below(n, e)
BY DEF Below, is_self_or_ancestor, ClosedUp

LEMMA StartTagWalks ==
    ASSUME Inv, Branch, NEW leftOpen \in BOOLEAN, StartTag(leftOpen), NEW c, c = count'
    PROVE  /\ \A n, e \in Pool : Below(n, e)' <=> Below(n, e)
           /\ \A e \in Pool : Below(c, e)' <=> e \in Members(open)
           /\ \A n \in Pool : ~Below(n, c)'
<1>1. /\ c \in Nodes /\ c \notin Pool /\ Pool \subseteq Nodes /\ None \notin Nodes
      /\ open \in Seq(Pool) /\ parent \in [Nodes -> Pool \cup {None}] /\ parent[c] = None
      /\ None \notin Pool
  BY PoolGrows, PoolInNodes, Unallocated DEF Inv, TypeOK, StartTag
<1>2. DOMAIN open = 1..Len(open) /\ Len(open) \in Nat /\ \A j \in 1..Len(open) : open[j] \in Pool
  BY <1>1
<1>3. \A n \in Pool : parent'[n] = parent[n] /\ parent[n] \in Pool \cup {None}
  BY <1>1 DEF StartTag
<1>4. parent'[c] = IF open = <<>> THEN None ELSE open[Len(open)]
  BY <1>1 DEF StartTag
<1>5. open # <<>> => Len(open) \in 1..Len(open)
  BY <1>1, <1>2
<1>6. open = <<>> => Members(open) = {}
  BY DEF Members
<1> PICK old \in SUBSET Nodes : old = Pool
  BY <1>1
<1>7. ASSUME NEW n \in Pool, NEW e \in Pool
      PROVE  is_self_or_ancestor(e, n)' <=> is_self_or_ancestor(e, n)
  <2>1. ASSUME is_self_or_ancestor(e, n)', NEW S \in SUBSET Nodes, n \in S, ClosedUp(S)
        PROVE  e \in S
    <3>1. ClosedUp(S \cap old)' /\ S \cap old \in SUBSET Nodes /\ n \in S \cap old
      BY <1>3, <2>1 DEF ClosedUp
    <3> QED BY <2>1, <3>1 DEF is_self_or_ancestor
  <2>2. ASSUME is_self_or_ancestor(e, n), NEW S \in SUBSET Nodes, n \in S, ClosedUp(S)'
        PROVE  e \in S
    <3>1. ClosedUp(S \cap old)
      BY <1>3, <2>2 DEF ClosedUp
    <3>2. S \cap old \in SUBSET Nodes /\ n \in S \cap old
      BY <2>2
    <3> QED BY <2>2, <3>1, <3>2 DEF is_self_or_ancestor
  <2> QED BY <2>1, <2>2 DEF is_self_or_ancestor
<1>8. ASSUME NEW e \in Pool, Below(c, e)' PROVE e \in Members(open)
  <2>1. PICK S \in SUBSET Nodes : S = {c} \cup Members(open)
    BY <1>1, <1>2 DEF Members
  <2>2. ASSUME NEW m \in S, parent'[m] # None PROVE parent'[m] \in S
    <3>1. CASE m = c
      BY <1>2, <1>4, <1>5, <2>1, <2>2, <3>1 DEF Members
    <3>2. CASE m # c
      <4>1. PICK j \in 1..Len(open) : m = open[j]
        BY <1>2, <2>1, <3>2 DEF Members
      <4>2. parent'[m] = parent[open[j]] /\ j # 1 /\ j - 1 \in 1..Len(open)
        BY <1>2, <1>3, <2>2, <4>1 DEF Branch
      <4>3. parent'[m] = open[j - 1]
        BY <1>2, <4>1, <4>2 DEF Branch
      <4> QED BY <1>2, <2>1, <4>2, <4>3 DEF Members
    <3> QED BY <3>1, <3>2
  <2>3. ClosedUp(S)'
    BY <2>2 DEF ClosedUp
  <2>4. e \in S
    BY <1>8, <2>1, <2>3 DEF Below, is_self_or_ancestor
  <2> QED BY <1>1, <2>1, <2>4
<1>9. ASSUME NEW e \in Members(open), NEW S \in SUBSET Nodes, c \in S, ClosedUp(S)' PROVE e \in S
  <2> DEFINE From == {k \in 1..Len(open) : \A j \in k..Len(open) : open[j] \in S}
  <2>1. PICK i \in 1..Len(open) : e = open[i]
    BY <1>2, <1>9 DEF Members
  <2>2. open # <<>> /\ Len(open) \in 1..Len(open)
    BY <1>2, <2>1
  <2>3. open[Len(open)] \in S
    BY <1>1, <1>2, <1>4, <1>9, <2>2 DEF ClosedUp
  <2>4. Len(open) \in From
    BY <1>2, <2>2, <2>3
  <2>5. From \in SUBSET Nat /\ From # {}
    BY <1>2, <2>4
  <2>6. Min(From) \in From /\ \A k \in From : Min(From) <= k
    BY <2>5, LeastFound
  <2>7. PICK k \in From : \A l \in From : k <= l
    BY <2>6
  <2>8. ASSUME k # 1 PROVE FALSE
    <3>1. k \in 1..Len(open) /\ k - 1 \in 1..Len(open) /\ open[k] \in S /\ open[k] \in Pool
      BY <1>2, <2>8
    <3>2. parent'[open[k]] = open[k - 1]
      BY <1>2, <1>3, <2>8, <3>1 DEF Branch
    <3>3. open[k - 1] \in S
      BY <1>1, <1>2, <1>9, <3>1, <3>2 DEF ClosedUp
    <3>4. k - 1 \in From
      BY <1>2, <3>1, <3>3
    <3> QED BY <2>7, <3>1, <3>4
  <2> QED BY <1>2, <2>1, <2>7, <2>8
<1>10. ASSUME NEW e \in Members(open) PROVE Below(c, e)'
  <2>1. e \in Pool
    BY <1>2 DEF Members
  <2> QED BY <1>1, <1>9, <2>1 DEF Below, is_self_or_ancestor
<1>11. ASSUME NEW n \in Pool PROVE ~Below(n, c)'
  <2>1. ClosedUp(old)'
    BY <1>3 DEF ClosedUp
  <2> QED BY <1>1, <2>1 DEF Below, is_self_or_ancestor
<1>12. \A n, e \in Pool : Below(n, e)' <=> Below(n, e)
  BY <1>7 DEF Below
<1> QED
  BY <1>8, <1>10, <1>11, <1>12

(* The steps of the parser. *)

\* A step that moves on in the source and touches neither tree nor ranges.
LEMMA MovingOn ==
    ASSUME Inv, ParserInv, UNCHANGED <<vars, html, content_start, content_end>>,
           parsing => pos' \in pos..(Len(html) + 1) /\ (tag' # NoTag => tag # NoTag \/ pos' > pos)
    PROVE  ParserInv'
<1>1. /\ html' = html /\ parsing' = parsing /\ open' = open /\ count' = count /\ parent' = parent
      /\ content_start' = content_start /\ content_end' = content_end /\ Pool' = Pool
  BY DEF vars, Pool
<1>2. \A n, e : Below(n, e)' <=> Below(n, e)
  BY <1>1, SameWalks
<1>3. SUFFICES ASSUME parsing
               PROVE  pos' \in 1..(Len(html) + 1) /\ Branch' /\ RangesRead' /\ RangesNest'
  BY <1>1 DEF ParserInv
<1>4. /\ html \in Seq(STRING) /\ Len(html) \in Nat /\ pos \in 1..(Len(html) + 1)
      /\ Branch /\ RangesRead /\ RangesNest /\ Pool \subseteq Nodes
  BY <1>3, PoolInNodes DEF ParserInv, Inv
<1>5. pos' \in pos..(Len(html) + 1) /\ (tag' # NoTag => tag # NoTag \/ pos' > pos)
  BY <1>3
<1>6. pos' \in 1..(Len(html) + 1) /\ pos <= pos' /\ pos \in Nat /\ pos' \in Nat
  BY <1>4, <1>5
<1>7. Branch'
  BY <1>1, <1>4 DEF Branch
<1>8. RangesRead'
  <2>1. ASSUME NEW n \in Pool
        PROVE  /\ content_start[n] <= pos' /\ content_end[n] <= pos'
               /\ tag' # NoTag => content_start[n] < pos' /\ content_end[n] < pos'
    BY <1>4, <1>5, <1>6 DEF RangesRead
  <2> QED BY <1>1, <1>4, <2>1 DEF RangesRead
<1>9. RangesNest'
  BY <1>1, <1>2, <1>4 DEF RangesNest
<1> QED
  BY <1>6, <1>7, <1>8, <1>9

LEMMA ScanningKeepsRanges ==
    ASSUME Inv, ParserInv, SkipText \/ SkipComment \/ ReadStartTag \/ AttributeTurn
    PROVE  ParserInv'
<1>1. SUFFICES ASSUME parsing
               PROVE  pos' \in pos..(Len(html) + 1) /\ (tag' # NoTag => tag # NoTag \/ pos' > pos)
  BY MovingOn DEF SkipText, SkipComment, ReadStartTag, AttributeTurn, pageVars, nodeVars
<1>2. html \in Seq(STRING) /\ Len(html) \in Nat /\ pos \in 1..(Len(html) + 1)
  BY <1>1 DEF ParserInv
<1>3. CASE SkipText
  BY <1>2, <1>3 DEF SkipText, InText
<1>4. CASE AttributeTurn
  BY <1>2, <1>4 DEF AttributeTurn
<1>5. CASE SkipComment
  <2>1. pos + 2 \in 1..(Len(html) + 1) /\ tag' = tag
    BY <1>2, <1>5 DEF SkipComment, AtTag, InText
  <2>2. Find(html, pos + 2, {">"}) \in (pos + 2)..(Len(html) + 1)
    BY <1>2, <2>1, FindBounds
  <2>3. PICK f \in (pos + 2)..(Len(html) + 1) : pos' = Past(html, f)
    BY <1>5, <2>2 DEF SkipComment
  <2>4. pos' \in f..(Len(html) + 1)
    BY <1>2, <2>3, PastBounds
  <2> QED BY <1>2, <2>1, <2>3, <2>4
<1>6. CASE ReadStartTag
  <2> DEFINE end == Find(html, pos + 1, {">", "/"} \cup Space)
  <2>1. pos + 1 \in 1..(Len(html) + 1)
    BY <1>2, <1>6 DEF ReadStartTag, AtTag, InText
  <2>2. end \in (pos + 1)..(Len(html) + 1)
    BY <1>2, <2>1, FindBounds
  <2>3. pos' = Past(html, Find(html, end, {">"}))
    BY <1>6 DEF ReadStartTag
  <2> HIDE DEF end
  <2>4. Find(html, end, {">"}) \in end..(Len(html) + 1)
    BY <1>2, <2>2, FindBounds
  <2>5. PICK f \in end..(Len(html) + 1) : pos' = Past(html, f)
    BY <2>3, <2>4
  <2>6. pos' \in f..(Len(html) + 1)
    BY <1>2, <2>2, <2>5, PastBounds
  <2> QED BY <1>2, <2>2, <2>5, <2>6
<1> QED
  BY <1>3, <1>4, <1>5, <1>6

\* An end tag gives its element the range of all that was read since it opened.
LEMMA EndTagKeepsRanges ==
    ASSUME Inv, ParserInv, ReadEndTag
    PROVE  ParserInv'
<1>1. /\ html \in Seq(STRING) /\ Len(html) \in Nat /\ pos \in 1..(Len(html) + 1) /\ pos \in Nat
      /\ parsing /\ tag = NoTag /\ pos + 2 \in 1..(Len(html) + 1) /\ Pool \subseteq Nodes
      /\ Branch /\ RangesRead /\ RangesNest /\ TypeOK
  BY PoolInNodes DEF ParserInv, ReadEndTag, AtTag, InText, Inv
<1>2. UNCHANGED <<html, tag, content_start>>
  BY DEF ReadEndTag, pageVars
<1>3. pos' \in (pos + 1)..(Len(html) + 1)
  <2> DEFINE end == Find(html, pos + 2, {">"} \cup Space)
  <2>1. end \in (pos + 2)..(Len(html) + 1)
    BY <1>1, FindBounds
  <2>2. pos' = Past(html, Find(html, end, {">"}))
    BY DEF ReadEndTag
  <2> HIDE DEF end
  <2>3. Find(html, end, {">"}) \in end..(Len(html) + 1)
    BY <1>1, <2>1, FindBounds
  <2>4. PICK f \in end..(Len(html) + 1) : pos' = Past(html, f)
    BY <2>2, <2>3
  <2>5. pos' \in f..(Len(html) + 1)
    BY <1>1, <2>1, <2>4, PastBounds
  <2> QED BY <1>1, <2>1, <2>4, <2>5
<1>4. CASE UNCHANGED <<vars, content_end>>
  <2>1. pos' \in pos..(Len(html) + 1) /\ UNCHANGED <<vars, html, content_start, content_end>>
    BY <1>1, <1>2, <1>3, <1>4
  <2> QED BY <1>1, <1>2, <2>1, MovingOn
<1>5. CASE \E k \in DOMAIN open :
              EndTag(k) /\ content_end' = [content_end EXCEPT ![open[k]] = pos]
  <2>1. PICK k \in DOMAIN open :
               EndTag(k) /\ content_end' = [content_end EXCEPT ![open[k]] = pos]
    BY <1>5
  <2>2. /\ open' = SubSeq(open, 1, k - 1) /\ parsing' /\ count' = count /\ parent' = parent
        /\ Pool' = Pool
    BY <1>1, <2>1 DEF EndTag, Pool
  <2>3. /\ open \in Seq(Pool) /\ Len(open) \in Nat /\ DOMAIN open = 1..Len(open)
        /\ k \in 1..Len(open) /\ open[k] \in Pool /\ open[k] \in Nodes
    BY <1>1 DEF TypeOK
  <2>4. DOMAIN open' = 1..(k - 1) /\ \A i \in 1..(k - 1) : i \in DOMAIN open /\ open'[i] = open[i]
    BY <2>2, <2>3
  <2>5. Branch'
    <3>1. ASSUME NEW j \in 1..(k - 1)
          PROVE  parent'[open'[j]] = IF j = 1 THEN None ELSE open'[j - 1]
      <4>1. j \in DOMAIN open /\ parent'[open'[j]] = parent[open[j]]
        BY <2>2, <2>4
      <4>2. j # 1 => j - 1 \in 1..(k - 1)
        BY <2>3
      <4>3. j # 1 => open'[j - 1] = open[j - 1]
        BY <2>4, <4>2
      <4> QED BY <1>1, <4>1, <4>3 DEF Branch
    <3>2. ASSUME NEW i \in 1..(k - 1), NEW j \in 1..(k - 1), i < j
          PROVE  open'[i] < open'[j]
      BY <1>1, <2>4, <3>2 DEF Branch
    <3> QED BY <2>4, <3>1, <3>2 DEF Branch
  <2>6. Members(open') \subseteq Members(open) /\ open[k] \notin Members(open')
        /\ open[k] \in Members(open)
    <3>1. \A i \in 1..(k - 1) : i < k /\ open[i] < open[k] /\ open[i] \in Pool
      BY <1>1, <2>3, <2>4 DEF Branch
    <3>2. \A i \in 1..(k - 1) : open[i] # open[k]
      BY <2>3, <3>1 DEF Pool
    <3> QED BY <2>3, <2>4, <3>2 DEF Members
  <2>7. /\ content_end' \in [Nodes -> Nat]
        /\ \A e \in Pool : content_end'[e] = IF e = open[k] THEN pos ELSE content_end[e]
    BY <1>1, <2>1, <2>3 DEF RangesRead
  <2>8. \A n \in Pool : content_start[n] \in Nat /\ content_end[n] \in Nat
                        /\ content_start[n] <= pos /\ content_end[n] <= pos
    BY <1>1 DEF RangesRead
  <2>9. RangesRead'
    <3>1. ASSUME NEW n \in Pool
          PROVE  content_start[n] <= pos' /\ content_end'[n] <= pos'
      BY <1>1, <1>3, <2>7, <2>8
    <3> QED BY <1>1, <1>2, <2>2, <2>7, <3>1 DEF RangesRead
  <2>10. \A n, e : Below(n, e)' <=> Below(n, e)
    BY <2>2, SameWalks
  <2>11. ASSUME NEW e \in Pool, e \in Members(open')
         PROVE  /\ content_end'[e] = content_start[e]
                /\ \A n \in Pool : Below(n, e)' <=> content_start[n] > content_start[e]
    BY <1>1, <2>6, <2>7, <2>10, <2>11 DEF RangesNest
  <2>12. ASSUME NEW e \in Pool, content_end'[e] > content_start[e], NEW n \in Pool
         PROVE  Below(n, e)' <=> content_start[n] > content_start[e]
                                 /\ content_start[n] <= content_end'[e]
    <3>1. CASE e = open[k]
      BY <1>1, <2>6, <2>7, <2>8, <2>10, <3>1 DEF RangesNest
    <3>2. CASE e # open[k]
      BY <1>1, <2>7, <2>10, <2>12, <3>2 DEF RangesNest
    <3> QED BY <3>1, <3>2
  <2>13. RangesNest'
    BY <1>2, <2>2, <2>11, <2>12 DEF RangesNest
  <2>14. html' \in Seq(STRING) /\ pos' \in 1..(Len(html') + 1)
    BY <1>1, <1>2, <1>3
  <2> QED BY <2>5, <2>9, <2>13, <2>14 DEF ParserInv
<1> QED
  BY <1>4, <1>5 DEF ReadEndTag, EndTag

\* A start tag links a node below all open elements and behind all ranges; a script
\* has its range at once, and nothing below it.
LEMMA LinkKeepsRanges ==
    ASSUME Inv, ParserInv, LinkNode
    PROVE  ParserInv'
<1> DEFINE leftOpen == ~tag.self_closing /\ ~RawText /\ ~is_void_element(tag.name)
           end == IF RawText THEN find_script_close(pos) ELSE pos
<1>1. /\ html \in Seq(STRING) /\ Len(html) \in Nat /\ pos \in 1..(Len(html) + 1) /\ pos \in Nat
      /\ parsing /\ tag # NoTag /\ tag' = NoTag /\ html' = html /\ Pool \subseteq Nodes
      /\ Branch /\ RangesRead /\ RangesNest /\ TypeOK /\ parsing'
  BY PoolInNodes DEF ParserInv, LinkNode, StartTag, Inv, pageVars
<1>2. StartTag(leftOpen) /\ leftOpen \in BOOLEAN
  BY DEF LinkNode
<1>3. PICK c : c = count'
  OBVIOUS
<1>4. /\ c = count + 1 /\ c \in Nodes /\ c \notin Pool /\ Pool' = Pool \cup {c}
      /\ \A n \in Pool : n < c
  BY <1>1, <1>2, <1>3, PoolGrows, MaxNodesAssumption, SMTT(40) DEF StartTag, TypeOK, Pool
<1>5. end \in pos..(Len(html) + 1) /\ (leftOpen => end = pos)
  BY <1>1, CloseBounds
<1>6. pos' \in end..(Len(html) + 1)
  <2>1. CASE RawText
    <3>1. PICK f \in end..(Len(html) + 1) : pos' = Past(html, f)
      <4>1. pos' = Past(html, Find(html, end, {">"}))
        BY <2>1 DEF LinkNode
      <4>2. end \in 1..(Len(html) + 1)
        BY <1>1, <1>5
      <4> HIDE DEF end
      <4> QED BY <1>1, <4>1, <4>2, FindBounds
    <3>2. f \in 1..(Len(html) + 1)
      BY <1>1, <1>5
    <3>3. pos' \in f..(Len(html) + 1)
      BY <1>1, <3>1, <3>2, PastBounds
    <3> HIDE DEF end
    <3> QED BY <1>1, <1>5, <3>1, <3>2, <3>3
  <2>2. CASE ~RawText
    BY <1>1, <2>2 DEF LinkNode
  <2> QED BY <2>1, <2>2
<1>7. /\ content_start' = [content_start EXCEPT ![c] = pos]
      /\ content_end' = [content_end EXCEPT ![c] = end]
  BY <1>4 DEF LinkNode
<1>8. open' = IF leftOpen THEN Append(open, c) ELSE open
  BY <1>2, <1>3 DEF StartTag
<1>9. /\ parent' \in [Nodes -> Pool \cup {None, c}]
      /\ \A n \in Pool : parent'[n] = parent[n]
      /\ parent'[c] = IF open = <<>> THEN None ELSE open[Len(open)]
  <2>1. parent[c] = None
    BY <1>4, Unallocated
  <2>2. open # <<>> => open[Len(open)] \in Pool
    BY <1>1 DEF TypeOK
  <2> QED BY <1>1, <1>2, <1>3, <1>4, <2>1, <2>2 DEF StartTag, TypeOK
<1>10. /\ \A n, e \in Pool : Below(n, e)' <=> Below(n, e)
       /\ \A e \in Pool : Below(c, e)' <=> e \in Members(open)
       /\ \A n \in Pool : ~Below(n, c)'
       /\ ~Below(c, c)'
  BY <1>1, <1>2, <1>3, StartTagWalks, Zenon DEF Below
<1> HIDE DEF leftOpen, end
<1>11. /\ open \in Seq(Pool) /\ Len(open) \in Nat /\ DOMAIN open = 1..Len(open)
       /\ \A i \in 1..Len(open) : open[i] \in Pool
  BY <1>1 DEF TypeOK
<1>12. Branch'
  <2>1. CASE ~leftOpen
    <3>1. open' = open /\ \A j \in DOMAIN open : parent'[open[j]] = parent[open[j]]
      BY <1>8, <1>9, <1>11, <2>1
    <3> QED BY <1>1, <3>1 DEF Branch
  <2>2. CASE leftOpen
    <3>1. /\ DOMAIN open' = 1..(Len(open) + 1) /\ open'[Len(open) + 1] = c
          /\ \A j \in 1..Len(open) : open'[j] = open[j]
      BY <1>8, <1>11, <2>2
    <3>2. ASSUME NEW i \in 1..(Len(open) + 1), NEW j \in 1..(Len(open) + 1), i < j
          PROVE  open'[i] < open'[j]
      <4>1. i \in 1..Len(open) /\ open'[i] = open[i] /\ open[i] \in Pool
        BY <1>11, <3>1, <3>2
      <4>2. CASE j = Len(open) + 1
        BY <1>4, <3>1, <4>1, <4>2
      <4>3. CASE j \in 1..Len(open)
        BY <1>1, <1>11, <3>1, <3>2, <4>1, <4>3 DEF Branch
      <4> QED BY <1>11, <4>2, <4>3
    <3>3. ASSUME NEW j \in 1..(Len(open) + 1)
          PROVE  parent'[open'[j]] = IF j = 1 THEN None ELSE open'[j - 1]
      <4>1. CASE j = Len(open) + 1
        <5>1. open = <<>> <=> Len(open) = 0
          BY <1>11
        <5>2. j # 1 => j - 1 \in 1..Len(open) /\ j - 1 = Len(open)
          BY <1>11, <4>1
        <5> QED BY <1>9, <1>11, <3>1, <4>1, <5>1, <5>2
      <4>2. CASE j \in 1..Len(open)
        <5>1. parent'[open'[j]] = parent[open[j]]
          BY <1>9, <1>11, <3>1, <4>2
        <5>2. j # 1 => j - 1 \in 1..Len(open) /\ open'[j - 1] = open[j - 1]
          BY <1>11, <3>1, <4>2
        <5> QED BY <1>1, <1>11, <4>2, <5>1, <5>2 DEF Branch
      <4> QED BY <1>11, <4>1, <4>2
    <3> QED BY <3>1, <3>2, <3>3 DEF Branch
  <2> QED BY <2>1, <2>2
<1>13. /\ Members(open') \subseteq Members(open) \cup {c} /\ Members(open) \subseteq Pool
       /\ c \in Members(open') => leftOpen
  BY <1>4, <1>8, <1>11, AppendMembers DEF Members
<1>14. /\ content_start' \in [Nodes -> Nat] /\ content_end' \in [Nodes -> Nat]
       /\ content_start'[c] = pos /\ content_end'[c] = end
       /\ \A n \in Pool : content_start'[n] = content_start[n] /\ content_end'[n] = content_end[n]
  BY <1>1, <1>4, <1>5, <1>7 DEF RangesRead
<1>15. \A n \in Pool : /\ content_start[n] \in Nat /\ content_end[n] \in Nat
                       /\ content_start[n] < pos /\ content_end[n] < pos
  BY <1>1 DEF RangesRead
<1>16. RangesRead'
  <2>1. ASSUME NEW n \in Pool \cup {c}
        PROVE  content_start'[n] <= pos' /\ content_end'[n] <= pos'
    BY <1>1, <1>5, <1>6, <1>14, <1>15, SMTT(40)
  <2> QED BY <1>1, <1>4, <1>14, <2>1 DEF RangesRead
<1>17. ASSUME NEW e \in Pool \cup {c}, e \in Members(open')
       PROVE  /\ content_end'[e] = content_start'[e]
              /\ \A n \in Pool \cup {c} : Below(n, e)' <=> content_start'[n] > content_start'[e]
  <2>1. CASE e = c
    BY <1>1, <1>5, <1>10, <1>13, <1>14, <1>15, <1>17, <2>1
  <2>2. CASE e \in Pool
    <3>1. e \in Members(open)
      BY <1>4, <1>13, <1>17, <2>2
    <3> QED BY <1>1, <1>10, <1>14, <1>15, <2>2, <3>1 DEF RangesNest
  <2> QED BY <2>1, <2>2
<1>18. ASSUME NEW e \in Pool \cup {c}, content_end'[e] > content_start'[e], NEW n \in Pool \cup {c}
       PROVE  Below(n, e)' <=> content_start'[n] > content_start'[e]
                               /\ content_start'[n] <= content_end'[e]
  <2>1. CASE e = c
    BY <1>1, <1>10, <1>14, <1>15, <2>1, SMTT(40)
  <2>2. CASE e \in Pool /\ n \in Pool
    BY <1>1, <1>10, <1>14, <1>18, <2>2 DEF RangesNest
  <2>3. CASE e \in Pool /\ n = c
    <3>1. e \notin Members(open)
      BY <1>1, <1>14, <1>15, <1>18, <2>3 DEF RangesNest
    <3> QED BY <1>1, <1>10, <1>14, <1>15, <2>3, <3>1
  <2> QED BY <2>1, <2>2, <2>3
<1>19. RangesNest'
  BY <1>4, <1>17, <1>18 DEF RangesNest
<1>20. pos' \in 1..(Len(html) + 1)
  BY <1>1, <1>5, <1>6
<1> QED BY <1>1, <1>12, <1>16, <1>19, <1>20 DEF ParserInv

LEMMA PageKeepsRanges ==
    ASSUME Inv, ParserInv, [FormNext]_formVars
    PROVE  ParserInv'
<1>1. CASE UNCHANGED formVars
  <2>1. UNCHANGED <<vars, html, content_start, content_end, pos, tag>>
    BY <1>1 DEF formVars, parseVars, pageVars, nodeVars
  <2> QED BY <2>1, MovingOn DEF ParserInv
<1>2. CASE (SkipText \/ ReadEndTag \/ SkipComment \/ ReadStartTag \/ AttributeTurn)
              /\ UNCHANGED controlVars
  BY <1>2, ScanningKeepsRanges, EndTagKeepsRanges
<1>3. CASE SeedAndLink
  BY <1>3, LinkKeepsRanges DEF SeedAndLink
<1>4. CASE DocumentBuilt
  BY <1>4 DEF DocumentBuilt, ParseEnds, EndOfInput, pageVars, ParserInv
<1>5. CASE RunScript
  <2>1. Scripted /\ UNCHANGED html
    BY <1>5 DEF RunScript, CreateElement, EditTree, SetText, SetValueAttribute,
       RemoveValueAttribute, SetValue, SelectValue, SetSelected, SetChecked, reset,
       SetSubmission, SlotsBecome, pageUnchanged, pageVars
  <2>2. parsing' = parsing
    BY <1>5, RunScriptEditsTree, ZenonT(60) DEF RunScript, CreateElement, createElement, EditTree,
       removeChild, Insert, SetText, setTextContent, SetValueAttribute, RemoveValueAttribute,
       SetValue, SelectValue, SetSelected, SetChecked, reset, SetSubmission, SlotsBecome,
       treeUnchanged, treeVars, vars
  <2> QED BY <2>1, <2>2 DEF ParserInv, Scripted
<1> QED
  BY <1>1, <1>2, <1>3, <1>4, <1>5 DEF FormNext, ReadPage

\* While a page is parsed, the text range of an element is that of its subtree: a node is
\* below it just when it was read between its tags, whatever tags are missing or doubled.
THEOREM RangesAreSubtrees == FormSpec => []RangeIsSubtree
<1>1. FormInit => ParserInv
  <2> SUFFICES ASSUME FormInit PROVE ParserInv
    OBVIOUS
  <2>1. html \in Seq(STRING) /\ Len(html) \in Nat /\ pos = 1 /\ open = <<>> /\ count = 0
    BY PagesAssumption DEF FormInit, ParseInit, Init
  <2>2. Pool = {} /\ DOMAIN open = {}
    BY <2>1 DEF Pool
  <2>3. content_start \in [Nodes -> Nat] /\ content_end \in [Nodes -> Nat]
    BY DEF FormInit, ParseInit
  <2> QED BY <2>1, <2>2, <2>3 DEF ParserInv, Branch, RangesRead, RangesNest
<1>2. FormInit => Inv
  BY InitInv DEF FormInit, ParseInit
<1>3. Inv /\ [FormNext]_formVars => Inv'
  <2>1. [FormNext]_formVars => [Next]_vars
    <3>1. UNCHANGED formVars => UNCHANGED vars
      BY DEF formVars, parseVars
    <3>2. FormNext => [Next]_vars
      BY ReadPageEditsTree, RunScriptEditsTree DEF FormNext, treeVars
    <3> QED BY <3>1, <3>2
  <2> QED BY <2>1, StepInv
<1>4. ParserInv => RangeIsSubtree
  BY DEF ParserInv, RangesNest, RangeIsSubtree
<1> QED
  BY <1>1, <1>2, <1>3, <1>4, PageKeepsRanges, PTL DEF FormSpec

-------------------------------------------------------------------------------
(* Reading the tree: what a walk down from an element collects is what     *)
(* walks up lead from to it.                                               *)

LEMMA JoinedSet ==
    ASSUME NEW P, NEW s \in Seq(P), NEW t \in Seq(P)
    PROVE  s \o t \in Seq(P) /\ ToSet(s \o t) = ToSet(s) \cup ToSet(t)
<1>1. /\ Len(s) \in Nat /\ Len(t) \in Nat /\ DOMAIN s = 1..Len(s) /\ DOMAIN t = 1..Len(t)
      /\ DOMAIN (s \o t) = 1..(Len(s) + Len(t)) /\ s \o t \in Seq(P)
      /\ \A i \in 1..Len(s) : (s \o t)[i] = s[i]
      /\ \A i \in (Len(s) + 1)..(Len(s) + Len(t)) : (s \o t)[i] = t[i - Len(s)]
  OBVIOUS
<1>2. ASSUME NEW i \in 1..(Len(s) + Len(t)) PROVE (s \o t)[i] \in ToSet(s) \cup ToSet(t)
  <2>1. CASE i \in 1..Len(s)
    BY <1>1, <2>1 DEF ToSet
  <2>2. CASE i \notin 1..Len(s)
    <3>1. i \in (Len(s) + 1)..(Len(s) + Len(t)) /\ i - Len(s) \in 1..Len(t)
      BY <1>1, <2>2
    <3> QED BY <1>1, <3>1 DEF ToSet
  <2> QED BY <2>1, <2>2
<1>3. ASSUME NEW i \in 1..Len(s) PROVE s[i] \in ToSet(s \o t)
  <2>1. i \in 1..(Len(s) + Len(t))
    BY <1>1
  <2> QED BY <1>1, <2>1 DEF ToSet
<1>4. ASSUME NEW i \in 1..Len(t) PROVE t[i] \in ToSet(s \o t)
  <2>1. /\ i + Len(s) \in (Len(s) + 1)..(Len(s) + Len(t)) /\ (i + Len(s)) - Len(s) = i
        /\ i + Len(s) \in 1..(Len(s) + Len(t))
    BY <1>1
  <2>2. (s \o t)[i + Len(s)] = t[i]
    BY <1>1, <2>1
  <2> QED BY <1>1, <2>1, <2>2 DEF ToSet
<1> QED
  BY <1>1, <1>2, <1>3, <1>4, ZenonT(60) DEF ToSet

LEMMA Flattened ==
    ASSUME NEW P, NEW s \in Seq(Seq(P))
    PROVE  /\ FlattenSeq(s) \in Seq(P)
           /\ ToSet(FlattenSeq(s)) = UNION {ToSet(s[i]) : i \in DOMAIN s}
<1>1. Len(s) \in Nat /\ DOMAIN s = 1..Len(s) /\ \A i \in 1..Len(s) : s[i] \in Seq(P)
  OBVIOUS
<1>2. CASE Len(s) = 0
  <2>1. s = <<>> /\ FlattenSeq(s) = s
    BY <1>2 DEF FlattenSeq
  <2>2. DOMAIN s = {} /\ s \in Seq(P) /\ ToSet(s) = {}
    BY <2>1 DEF ToSet
  <2>3. UNION {ToSet(s[i]) : i \in DOMAIN s} = {}
    BY <2>2
  <2> QED BY <2>1, <2>2, <2>3
<1>3. CASE Len(s) # 0
  <2> DEFINE n == Len(s)
             F(g, i) == IF i = 1 THEN s[i] ELSE g[i - 1] \o s[i]
             Up(k) == UNION {ToSet(s[i]) : i \in 1..k}
             NoFun == {k \in 1..n : ~\E g \in [1..k -> Seq(P)] : \A i \in 1..k : g[i] = F(g, i)}
  <2>1. NoFun = {}
    <3>1. SUFFICES ASSUME NoFun # {} PROVE FALSE
      OBVIOUS
    <3>2. PICK k \in NoFun : \A m \in NoFun : k <= m
      <4>1. NoFun \in SUBSET Nat
        BY <1>1
      <4> HIDE DEF NoFun
      <4> QED BY <3>1, <4>1, LeastFound
    <3>3. CASE k = 1
      <4>1. [i \in 1..1 |-> s[1]] \in [1..k -> Seq(P)]
        BY <1>1, <1>3, <3>3
      <4>2. \A i \in 1..k : [j \in 1..1 |-> s[1]][i] = F([j \in 1..1 |-> s[1]], i)
        BY <3>3
      <4> QED BY <4>1, <4>2
    <3>4. CASE k # 1
      <4>1. k - 1 \in 1..n /\ k - 1 \notin NoFun /\ k \in Nat
        <5>1. k \in 1..n /\ ~(k <= k - 1)
          BY <1>1
        <5> HIDE DEF NoFun
        <5> QED BY <1>1, <3>2, <3>4, <5>1
      <4>2. PICK g \in [1..(k - 1) -> Seq(P)] : \A i \in 1..(k - 1) : g[i] = F(g, i)
        BY <4>1
      <4>3. g[k - 1] \in Seq(P) /\ s[k] \in Seq(P)
        BY <1>1, <4>1
      <4>4. PICK last \in Seq(P) : last = g[k - 1] \o s[k]
        BY <4>3, JoinedSet, Zenon
      <4> DEFINE h == [i \in 1..k |-> IF i = k THEN last ELSE g[i]]
      <4>5. h \in [1..k -> Seq(P)]
        BY <4>1, <4>4
      <4>6. ASSUME NEW i \in 1..k PROVE h[i] = F(h, i)
        <5>1. CASE i = k
          <6>1. k - 1 \in 1..k /\ k \in 1..k /\ k - 1 # k
            BY <4>1
          <6>2. h[k - 1] = g[k - 1] /\ h[k] = last
            BY <6>1
          <6> QED BY <3>4, <4>4, <5>1, <6>2
        <5>2. CASE i # k /\ i = 1
          <6>1. i \in 1..(k - 1) /\ h[i] = g[i]
            BY <4>1, <5>2
          <6>2. g[i] = s[i]
            BY <4>2, <5>2, <6>1
          <6> QED BY <5>2, <6>1, <6>2
        <5>3. CASE i # k /\ i # 1
          <6>1. i \in 1..(k - 1) /\ i - 1 \in 1..k /\ i - 1 # k
            BY <4>1, <5>3
          <6>2. h[i - 1] = g[i - 1] /\ h[i] = g[i]
            BY <5>3, <6>1
          <6>3. g[i] = g[i - 1] \o s[i]
            BY <4>2, <5>3, <6>1
          <6> QED BY <5>3, <6>2, <6>3
        <5> QED BY <5>1, <5>2, <5>3
      <4> QED BY <4>5, <4>6
    <3> QED BY <3>3, <3>4
  <2>2. n \in 1..n
    BY <1>1, <1>3
  <2>3. PICK g \in [1..n -> Seq(P)] : \A i \in 1..n : g[i] = F(g, i)
    BY <2>1, <2>2
  <2>4. g = [i \in 1..n |-> F(g, i)]
    BY <2>3
  <2> DEFINE flatten == CHOOSE f : f = [i \in 1..Len(s) |-> IF i = 1 THEN s[i] ELSE f[i - 1] \o s[i]]
  <2>5. flatten = [i \in 1..n |-> F(flatten, i)]
    BY <2>4
  <2>6. FlattenSeq(s) = flatten[n]
    BY <1>3, Zenon DEF FlattenSeq
  <2> HIDE DEF flatten
  <2> DEFINE Bad == {k \in 1..n : ~(flatten[k] \in Seq(P) /\ ToSet(flatten[k]) = Up(k))}
  <2>7. Bad = {}
    <3>1. SUFFICES ASSUME Bad # {} PROVE FALSE
      OBVIOUS
    <3>2. PICK k \in Bad : \A m \in Bad : k <= m
      <4>1. Bad \in SUBSET Nat
        BY <1>1
      <4> HIDE DEF Bad
      <4> QED BY <3>1, <4>1, LeastFound
    <3>3. k \in 1..n /\ s[k] \in Seq(P) /\ k \in Nat
      BY <1>1
    <3>4. CASE k = 1
      <4>1. flatten[k] = s[1] /\ Up(k) = ToSet(s[1])
        BY <2>2, <2>5, <3>3, <3>4
      <4> QED BY <1>1, <1>3, <3>4, <4>1
    <3>5. CASE k # 1
      <4>1. k - 1 \in 1..n /\ k - 1 \notin Bad
        <5>1. ~(k <= k - 1)
          BY <3>3
        <5> HIDE DEF Bad
        <5> QED BY <1>1, <3>2, <3>3, <3>5, <5>1
      <4>2. flatten[k - 1] \in Seq(P) /\ ToSet(flatten[k - 1]) = Up(k - 1)
        BY <4>1
      <4>3. flatten[k] = flatten[k - 1] \o s[k]
        BY <2>5, <3>3, <3>5
      <4>4. flatten[k] \in Seq(P) /\ ToSet(flatten[k]) = ToSet(flatten[k - 1]) \cup ToSet(s[k])
        BY <3>3, <4>2, <4>3, JoinedSet, SMTT(40)
      <4>5. Up(k) = Up(k - 1) \cup ToSet(s[k])
        <5>1. 1..k = (1..(k - 1)) \cup {k}
          BY <3>3
        <5> QED BY <5>1
      <4> QED BY <4>2, <4>4, <4>5
    <3> QED BY <3>4, <3>5
  <2>8. flatten[n] \in Seq(P) /\ ToSet(flatten[n]) = Up(n)
    BY <2>2, <2>7
  <2> QED BY <1>1, <2>6, <2>8
<1> QED
  BY <1>2, <1>3

(* Walks up: reflexive, transitive, antisymmetric, and any two ancestors of a node are *)
(* on one line.                                                                        *)

LEMMA WalkSteps ==
    ASSUME Inv, NEW b \in Nodes, NEW x \in Nodes
    PROVE  is_self_or_ancestor(b, x) <=> \/ b = x
                                         \/ parent[x] # None /\ is_self_or_ancestor(b, parent[x])
<1>1. parent[x] # None => parent[x] \in Nodes
  BY PoolInNodes DEF Inv, TypeOK
<1>2. is_self_or_ancestor(x, x)
  BY DEF is_self_or_ancestor
<1>3. ASSUME parent[x] # None, is_self_or_ancestor(b, parent[x])
      PROVE  is_self_or_ancestor(b, x)
  BY <1>3 DEF is_self_or_ancestor, ClosedUp
<1>4. ASSUME is_self_or_ancestor(b, x), b # x
      PROVE  parent[x] # None /\ is_self_or_ancestor(b, parent[x])
  <2>1. CASE parent[x] = None
    <3>1. ClosedUp({x})
      BY <2>1 DEF ClosedUp
    <3> QED BY <1>4, <3>1 DEF is_self_or_ancestor
  <2>2. ASSUME parent[x] # None, NEW S \in SUBSET Nodes, parent[x] \in S, ClosedUp(S) PROVE b \in S
    <3>1. ClosedUp(S \cup {x})
      BY <2>2 DEF ClosedUp
    <3>2. b \in S \cup {x}
      BY <1>4, <3>1 DEF is_self_or_ancestor
    <3> QED BY <1>4, <3>2
  <2> QED BY <2>1, <2>2 DEF is_self_or_ancestor
<1> QED
  BY <1>2, <1>3, <1>4

LEMMA WalksCompose ==
    ASSUME NEW a, NEW b, NEW c, is_self_or_ancestor(a, b), is_self_or_ancestor(b, c)
    PROVE  is_self_or_ancestor(a, c)
BY DEF is_self_or_ancestor

LEMMA OneLine ==
    ASSUME Inv, NEW a \in Nodes, NEW b \in Nodes, NEW c \in Nodes,
           is_self_or_ancestor(a, c), is_self_or_ancestor(b, c)
    PROVE  is_self_or_ancestor(a, b) \/ is_self_or_ancestor(b, a)
<1> DEFINE S == {x \in Nodes : is_self_or_ancestor(b, x) \/ is_self_or_ancestor(x, b)}
<1>1. ASSUME NEW x \in S, parent[x] # None PROVE parent[x] \in S
  <2>1. x \in Nodes /\ parent[x] \in Nodes
    BY <1>1, PoolInNodes DEF Inv, TypeOK
  <2>2. is_self_or_ancestor(parent[x], x)
    BY <1>1, <2>1 DEF is_self_or_ancestor, ClosedUp
  <2>3. CASE is_self_or_ancestor(x, b)
    BY <2>1, <2>2, <2>3, WalksCompose
  <2>4. CASE is_self_or_ancestor(b, x)
    <3>1. b = x \/ is_self_or_ancestor(b, parent[x])
      BY <2>1, <2>4, WalkSteps
    <3> QED BY <2>1, <2>2, <3>1
  <2> QED BY <1>1, <2>3, <2>4
<1>2. ClosedUp(S)
  BY <1>1 DEF ClosedUp
<1>3. c \in S /\ S \in SUBSET Nodes
  OBVIOUS
<1>4. a \in S
  BY <1>2, <1>3 DEF is_self_or_ancestor
<1> QED
  BY <1>4

LEMMA NotBoth ==
    ASSUME Inv, Acyclic, NEW f \in Nodes, NEW g \in Nodes,
           is_self_or_ancestor(f, g), is_self_or_ancestor(g, f)
    PROVE  f = g
<1> DEFINE S == {x \in Nodes : is_self_or_ancestor(x, f) /\ is_self_or_ancestor(f, x)}
<1>1. SUFFICES ASSUME f # g PROVE FALSE
  OBVIOUS
<1>2. ASSUME NEW x \in S PROVE parent[x] \in S
  <2>1. parent[x] # None => parent[x] \in Nodes /\ is_self_or_ancestor(parent[x], x)
    BY PoolInNodes DEF Inv, TypeOK, is_self_or_ancestor, ClosedUp
  <2>2. parent[x] # None /\ is_self_or_ancestor(f, parent[x])
    <3>1. CASE x = f
      <4>1. parent[f] # None /\ is_self_or_ancestor(g, parent[f])
        BY <1>1, WalkSteps
      <4> QED BY <3>1, <4>1, WalksCompose
    <3>2. CASE x # f
      BY <3>2, WalkSteps
    <3> QED BY <3>1, <3>2
  <2> QED BY <2>1, <2>2, WalksCompose
<1>3. f \in S
  BY DEF is_self_or_ancestor
<1> QED
  BY <1>2, <1>3 DEF Acyclic

\* Below an element is what is below its children.
LEMMA WalkDown ==
    ASSUME Inv, NEW r \in Nodes, NEW x \in Nodes
    PROVE  is_self_or_ancestor(r, x) <=>
               r = x \/ \E c \in Members(children[r]) : is_self_or_ancestor(c, x)
<1>1. \A c \in Members(children[r]) : c \in Nodes /\ parent[c] = r
  BY PoolInNodes DEF Inv, TypeOK, TreeLinks, Members
<1>2. r # None
  BY DEF Nodes, None
<1>3. ASSUME NEW c \in Members(children[r]), is_self_or_ancestor(c, x)
      PROVE  is_self_or_ancestor(r, x)
  BY <1>1, <1>2, <1>3 DEF is_self_or_ancestor, ClosedUp
<1>4. ASSUME is_self_or_ancestor(r, x), r # x,
             \A c \in Members(children[r]) : ~is_self_or_ancestor(c, x)
      PROVE  FALSE
  <2> DEFINE S == {y \in Nodes : is_self_or_ancestor(y, x) /\ y # r}
  <2>1. ASSUME NEW y \in S, parent[y] # None PROVE parent[y] \in S
    <3>1. y \in Nodes /\ parent[y] \in Nodes
      BY <2>1, PoolInNodes DEF Inv, TypeOK
    <3>2. is_self_or_ancestor(parent[y], x)
      BY <2>1 DEF is_self_or_ancestor, ClosedUp
    <3>3. parent[y] # r
      BY <1>4, <3>1 DEF Inv, TreeLinks
    <3> QED BY <3>1, <3>2, <3>3
  <2>2. x \in S /\ S \in SUBSET Nodes /\ ClosedUp(S)
    BY <1>4, <2>1 DEF is_self_or_ancestor, ClosedUp
  <2>3. r \in S
    BY <1>4, <2>2 DEF is_self_or_ancestor
  <2> QED BY <2>3
<1> QED
  BY <1>3, <1>4 DEF is_self_or_ancestor

\* The tree is built up from below: what holds of no element, and of a set of elements
\* with one more whose children it has, holds of all.
LEMMA BuiltUp ==
    ASSUME Inv, Acyclic, NEW Q, {} \in Q,
           \A S \in SUBSET Nodes : \A r \in Nodes \ S :
               S \in Q /\ ClosedDown(S) /\ Members(children[r]) \subseteq S => S \cup {r} \in Q
    PROVE  Nodes \in Q
<1> DEFINE Open == {S \in SUBSET Nodes : ClosedDown(S) /\ S \notin Q}
           Sizes == {Cardinality(S) : S \in Open}
<1>1. IsFiniteSet(Nodes)
  BY MaxNodesAssumption, FS_Interval DEF Nodes
<1>2. \A S \in SUBSET Nodes : IsFiniteSet(S) /\ Cardinality(S) \in Nat
  BY <1>1, FS_Subset, FS_CardinalityType
<1>3. ClosedDown(Nodes)
  BY PoolInNodes DEF Inv, TypeOK, ClosedDown, Members
<1>4. SUFFICES ASSUME Nodes \notin Q PROVE FALSE
  OBVIOUS
<1>5. Sizes \in SUBSET Nat /\ Sizes # {}
  BY <1>2, <1>3, <1>4
<1>6. PICK k \in Sizes : \A m \in Sizes : k <= m
  <2> HIDE DEF Sizes
  <2> QED BY <1>5, LeastFound
<1>7. PICK T \in Open : k = Cardinality(T)
  OBVIOUS
<1>8. T # {} /\ T \in SUBSET Nodes /\ ClosedDown(T)
  OBVIOUS
<1>9. PICK r \in T : parent[r] \notin T
  BY <1>8 DEF Acyclic
<1>10. PICK S \in SUBSET Nodes : S = T \ {r}
  BY <1>8
<1>11. \A m \in Nodes : \A c \in Members(children[m]) : parent[c] = m
  BY PoolInNodes DEF Inv, TypeOK, TreeLinks, Members
<1>12. ClosedDown(S)
  BY <1>8, <1>9, <1>10, <1>11 DEF ClosedDown
<1>13. Members(children[r]) \subseteq S
  BY <1>8, <1>9, <1>10, <1>11 DEF ClosedDown
<1>14. Cardinality(S) = Cardinality(T) - 1 /\ Cardinality(T) \in Nat /\ Cardinality(S) \in Nat
  BY <1>2, <1>8, <1>10, FS_RemoveElement
<1>15. S \in Q
  BY <1>6, <1>7, <1>12, <1>14
<1>16. T = S \cup {r} /\ r \in Nodes \ S
  BY <1>8, <1>10
<1> QED
  BY <1>7, <1>12, <1>13, <1>15, <1>16

\* What collect_matching finds: the elements of those names below n and n itself.
LEMMA Collected ==
    ASSUME Inv, Acyclic, NEW names, NEW n \in Nodes
    PROVE  /\ collect_matching(n, names) \in Seq(Nodes)
           /\ ToSet(collect_matching(n, names)) =
                  {m \in Nodes : is_self_or_ancestor(n, m) /\ IsA(m, names)}
<1> DEFINE Own(m) == IF IsA(m, names) THEN <<m>> ELSE <<>>
           Below1(g, m) == [i \in DOMAIN children[m] |-> g[children[m][i]]]
           F(g, m) == Own(m) \o FlattenSeq(Below1(g, m))
           Found(m) == {x \in Nodes : is_self_or_ancestor(m, x) /\ IsA(x, names)}
           Q == {S \in SUBSET Nodes : \E g \in [S -> Seq(Nodes)] : \A m \in S : g[m] = F(g, m)}
<1>1. \A m \in Nodes : Own(m) \in Seq(Nodes) /\ ToSet(Own(m)) = {x \in {m} : IsA(x, names)}
  BY DEF ToSet
<1>2. \A m \in Nodes : /\ children[m] \in Seq(Nodes)
                       /\ Members(children[m]) \subseteq Nodes
                       /\ Members(children[m]) = {children[m][i] : i \in DOMAIN children[m]}
  <2>1. \A m \in Nodes : children[m] \in Seq(Pool) /\ Pool \subseteq Nodes
    BY PoolInNodes DEF Inv, TypeOK
  <2>2. \A m \in Nodes : children[m] \in Seq(Nodes)
    BY <2>1, SeqMonotonic
  <2> QED BY <2>2 DEF Members
<1>3. ASSUME NEW S \in SUBSET Nodes, NEW g \in [S -> Seq(Nodes)], NEW m \in Nodes,
             Members(children[m]) \subseteq S
      PROVE  /\ Below1(g, m) \in Seq(Seq(Nodes))
             /\ F(g, m) \in Seq(Nodes)
             /\ ToSet(F(g, m)) = ToSet(Own(m)) \cup UNION {ToSet(g[c]) : c \in Members(children[m])}
  <2>1. PICK k \in Nat : DOMAIN children[m] = 1..k
    BY <1>2
  <2>2. \A i \in 1..k : g[children[m][i]] \in Seq(Nodes)
    BY <1>2, <1>3, <2>1
  <2>3. Below1(g, m) \in Seq(Seq(Nodes)) /\ DOMAIN Below1(g, m) = 1..k
    BY <2>1, <2>2
  <2>4. PICK below \in Seq(Seq(Nodes)) : below = Below1(g, m)
    BY <2>3
  <2>5. /\ FlattenSeq(below) \in Seq(Nodes)
        /\ ToSet(FlattenSeq(below)) = UNION {ToSet(below[i]) : i \in DOMAIN below}
    BY Flattened
  <2>6. UNION {ToSet(below[i]) : i \in DOMAIN below} = UNION {ToSet(g[c]) : c \in Members(children[m])}
    <3>1. \A i \in 1..k : below[i] = g[children[m][i]]
      BY <2>1, <2>4
    <3>2. DOMAIN below = 1..k /\ Members(children[m]) = {children[m][i] : i \in 1..k}
      BY <1>2, <2>1, <2>3, <2>4
    <3>3. {ToSet(below[i]) : i \in DOMAIN below} = {ToSet(g[c]) : c \in Members(children[m])}
      <4>1. ASSUME NEW i \in 1..k PROVE ToSet(below[i]) \in {ToSet(g[c]) : c \in Members(children[m])}
        BY <3>1, <3>2
      <4>2. ASSUME NEW c \in Members(children[m])
            PROVE  ToSet(g[c]) \in {ToSet(below[i]) : i \in DOMAIN below}
        <5>1. PICK i \in 1..k : c = children[m][i]
          BY <3>2
        <5>2. g[c] = below[i] /\ i \in DOMAIN below
          BY <3>1, <3>2, <5>1
        <5> QED BY <5>2
      <4> QED BY <3>2, <4>1, <4>2
    <3> QED BY <3>3
  <2>7. F(g, m) \in Seq(Nodes) /\ ToSet(F(g, m)) = ToSet(Own(m)) \cup ToSet(FlattenSeq(below))
    <3>1. Own(m) \in Seq(Nodes) /\ F(g, m) = Own(m) \o FlattenSeq(below)
      BY <1>1, <2>4
    <3> HIDE DEF Own, F
    <3> QED BY <2>5, <3>1, JoinedSet
  <2> QED BY <2>3, <2>5, <2>6, <2>7
<1>4. Nodes \in Q
  <2>1. {} \in Q
    <3>1. [x \in {} |-> <<>>] \in [{} -> Seq(Nodes)]
      OBVIOUS
    <3> QED BY <3>1
  <2>2. ASSUME NEW S \in SUBSET Nodes, NEW r \in Nodes \ S, S \in Q, ClosedDown(S),
               Members(children[r]) \subseteq S
        PROVE  S \cup {r} \in Q
    <3>1. PICK g \in [S -> Seq(Nodes)] : \A m \in S : g[m] = F(g, m)
      BY <2>2
    <3>2. PICK new \in Seq(Nodes) : new = F(g, r)
      BY <1>3, <2>2, ZenonT(60)
    <3> DEFINE h == [x \in S \cup {r} |-> IF x = r THEN new ELSE g[x]]
    <3>3. h \in [S \cup {r} -> Seq(Nodes)]
      BY <3>2
    <3>4. ASSUME NEW m \in S \cup {r} PROVE Below1(h, m) = Below1(g, m)
      <4>1. Members(children[m]) \subseteq S /\ r \notin S
        BY <2>2 DEF ClosedDown
      <4>2. \A i \in DOMAIN children[m] : h[children[m][i]] = g[children[m][i]]
        <5>1. ASSUME NEW i \in DOMAIN children[m]
            PROVE  children[m][i] \in S /\ children[m][i] # r
          <6>1. m \in Nodes
            OBVIOUS
          <6>2. children[m][i] \in Members(children[m])
            BY <5>1, <6>1 DEF Members
          <6> QED BY <4>1, <6>2
        <5> QED BY <5>1
      <4> QED BY <4>2
    <3>5. ASSUME NEW m \in S \cup {r} PROVE h[m] = F(h, m)
      <4>1. F(h, m) = F(g, m)
        BY <3>4
      <4>2. m # r => h[m] = g[m] /\ g[m] = F(g, m)
        BY <3>1
      <4>3. m = r => h[m] = F(g, m)
        BY <3>2
      <4> HIDE DEF h, F
      <4> QED BY <4>1, <4>2, <4>3
    <3> QED BY <3>3, <3>5
  <2> HIDE DEF Q
  <2> QED BY <2>1, <2>2, BuiltUp
<1>5. PICK g \in [Nodes -> Seq(Nodes)] : \A m \in Nodes : g[m] = F(g, m)
  BY <1>4
<1> DEFINE walk == CHOOSE f : f = [m \in Nodes |-> F(f, m)]
<1>6. walk = [m \in Nodes |-> F(walk, m)]
  <2>1. g = [m \in Nodes |-> F(g, m)]
    BY <1>5
  <2> HIDE DEF F
  <2> QED BY <2>1
<1>7. collect_matching(n, names) = walk[n]
  BY Zenon DEF collect_matching
<1> HIDE DEF walk
<1> DEFINE R == {S \in SUBSET Nodes :
                    \A m \in S : walk[m] \in Seq(Nodes) /\ ToSet(walk[m]) = Found(m)}
<1>8. Nodes \in R
  <2>1. {} \in R
    OBVIOUS
  <2>2. ASSUME NEW S \in SUBSET Nodes, NEW r \in Nodes \ S, S \in R, ClosedDown(S),
               Members(children[r]) \subseteq S
        PROVE  S \cup {r} \in R
    <3>1. PICK g2 \in [S -> Seq(Nodes)] : g2 = [m \in S |-> walk[m]]
      BY <2>2
    <3>2. Below1(g2, r) = Below1(walk, r)
      BY <1>2, <2>2, <3>1, ZenonT(60)
    <3>3. walk[r] = F(g2, r)
      BY <1>6, <3>2
    <3>4. /\ walk[r] \in Seq(Nodes)
          /\ ToSet(walk[r]) = ToSet(Own(r)) \cup UNION {ToSet(g2[c]) : c \in Members(children[r])}
      <4>1. F(g2, r) \in Seq(Nodes) /\ ToSet(F(g2, r)) =
               ToSet(Own(r)) \cup UNION {ToSet(g2[c]) : c \in Members(children[r])}
        <5> HIDE DEF F, Own, Below1
        <5> QED BY <1>3, <2>2
      <4> QED BY <3>3, <4>1, Zenon
    <3>5. \A c \in Members(children[r]) : ToSet(g2[c]) = Found(c)
      BY <2>2, <3>1
    <3>6. ToSet(walk[r]) = {x \in {r} : IsA(x, names)} \cup UNION {Found(c) : c \in Members(children[r])}
      BY <1>1, <3>4, <3>5
    <3>7. ToSet(walk[r]) = Found(r)
      BY <3>6, WalkDown
    <3> QED BY <2>2, <3>4, <3>7
  <2> HIDE DEF R
  <2> QED BY <2>1, <2>2, BuiltUp
<1> QED
  BY <1>7, <1>8

-------------------------------------------------------------------------------
(* OwnersAgree: the nearest form above a control is below every other.     *)

LEMMA NearestForm ==
    ASSUME Inv, Acyclic, NEW n \in Pool, NEW f \in Pool, f # n, IsA(f, {"form"}),
           is_self_or_ancestor(f, n)
    PROVE  /\ form_of(n) \in Pool /\ form_of(n) # None /\ is_self_or_ancestor(form_of(n), n)
           /\ is_self_or_ancestor(f, form_of(n))
<1> DEFINE forms == {g \in Pool \ {n} : IsA(g, {"form"}) /\ is_self_or_ancestor(g, n)}
           Innermost(g) == \A h \in forms : is_self_or_ancestor(g, h) => h = g
           Q == {S \in SUBSET Nodes : S \cap forms = {} \/ \E g \in S \cap forms : Innermost(g)}
<1>1. Pool \subseteq Nodes /\ None \notin Nodes
  BY PoolInNodes DEF Inv
<1>2. Nodes \in Q
  <2>1. {} \in Q
    OBVIOUS
  <2>2. ASSUME NEW S \in SUBSET Nodes, NEW r \in Nodes \ S, S \in Q, ClosedDown(S),
               Members(children[r]) \subseteq S
        PROVE  S \cup {r} \in Q
    <3>1. CASE S \cap forms # {}
      BY <2>2, <3>1
    <3>2. CASE S \cap forms = {} /\ r \notin forms
      BY <3>2
    <3>3. CASE S \cap forms = {} /\ r \in forms
      <4>1. ASSUME NEW h \in forms, is_self_or_ancestor(r, h), h # r PROVE FALSE
        <5>1. PICK c \in Members(children[r]) : is_self_or_ancestor(c, h)
          BY <1>1, <4>1, WalkDown
        <5>2. ClosedDown(S) /\ c \in S /\ c \in Nodes
          BY <2>2
        <5>3. \A x \in Nodes, y \in S : is_self_or_ancestor(y, x) => x \in S
          <6> DEFINE R == {T \in SUBSET Nodes :
                              \A y \in T \cap S : \A x \in Nodes : is_self_or_ancestor(y, x) => x \in S}
          <6>1. {} \in R
            OBVIOUS
          <6>2. ASSUME NEW T \in SUBSET Nodes, NEW q \in Nodes \ T, T \in R, ClosedDown(T),
                       Members(children[q]) \subseteq T
                PROVE  T \cup {q} \in R
            <7>1. ASSUME q \in S, NEW x \in Nodes, is_self_or_ancestor(q, x) PROVE x \in S
              <8>1. CASE q = x
                BY <7>1, <8>1
              <8>2. ASSUME NEW d \in Members(children[q]), is_self_or_ancestor(d, x) PROVE x \in S
                BY <5>2, <6>2, <7>1, <8>2 DEF ClosedDown
              <8> QED BY <7>1, <8>1, <8>2, WalkDown
            <7> QED BY <6>2, <7>1
          <6>3. Nodes \in R
            <7> HIDE DEF R
            <7> QED BY <6>1, <6>2, BuiltUp
          <6> QED BY <6>3
        <5>4. h \in S
          BY <1>1, <5>1, <5>2, <5>3
        <5> QED BY <3>3, <5>4
      <4> QED BY <3>3, <4>1
    <3> QED BY <3>1, <3>2, <3>3
  <2> HIDE DEF Q
  <2> QED BY <2>1, <2>2, BuiltUp
<1>3. f \in forms
  OBVIOUS
<1>4. PICK g \in forms : Innermost(g)
  BY <1>1, <1>2, <1>3
<1>5. \A h \in forms : is_self_or_ancestor(h, g)
  <2> SUFFICES ASSUME NEW h \in forms PROVE is_self_or_ancestor(h, g)
    OBVIOUS
  <2>1. is_self_or_ancestor(g, h) \/ is_self_or_ancestor(h, g)
    BY <1>1, OneLine
  <2>2. is_self_or_ancestor(g, g)
    BY DEF is_self_or_ancestor
  <2> QED BY <1>4, <2>1, <2>2
<1>6. form_of(n) = CHOOSE x \in forms : \A h \in forms : is_self_or_ancestor(h, x)
  BY <1>3 DEF form_of
<1>7. form_of(n) \in forms /\ \A h \in forms : is_self_or_ancestor(h, form_of(n))
  BY <1>5, <1>6
<1> QED
  BY <1>1, <1>3, <1>7

LEMMA OwnersFollow ==
    ASSUME Inv, Acyclic
    PROVE  OwnersAgree
<1> DEFINE names == {"input", "button", "select", "textarea"}
<1> SUFFICES ASSUME NEW c \in Pool, NEW f \in Pool, IsA(c, names), IsA(f, {"form"})
             PROVE  /\ form_of(c) = f => c \in ToSet(elements(f))
                    /\ c \in ToSet(elements(f)) =>
                          form_of(c) # None /\ is_self_or_ancestor(f, form_of(c))
  BY DEF OwnersAgree
<1>1. Pool \subseteq Nodes /\ None \notin Nodes
  BY PoolInNodes DEF Inv
<1>2. c \in ToSet(elements(f)) <=> is_self_or_ancestor(f, c)
  BY <1>1, Collected DEF elements
<1>3. c # f
  BY DEF IsA
<1>4. ASSUME form_of(c) = f PROVE is_self_or_ancestor(f, c)
  <2> DEFINE forms == {g \in Pool \ {c} : IsA(g, {"form"}) /\ is_self_or_ancestor(g, c)}
  <2>1. forms # {}
    BY <1>1, <1>4 DEF form_of
  <2>2. PICK g \in forms : TRUE
    BY <2>1
  <2> QED BY <1>4, <2>2, NearestForm
<1>5. ASSUME is_self_or_ancestor(f, c)
      PROVE  form_of(c) # None /\ is_self_or_ancestor(f, form_of(c))
  BY <1>3, <1>5, NearestForm
<1> QED
  BY <1>2, <1>4, <1>5

-------------------------------------------------------------------------------
(* ResetRestores and SelectShowsAssigned: what a select shows depends on   *)
(* its list of options and their slots only, and what was loaded stays     *)
(* what those lists showed under the initial slots.                        *)

\* What a list of options shows when s are the slots of the nodes.
ShownIn(options, s) ==
    LET fit == {i \in DOMAIN options : s[options[i][1]].selected}
    IN  IF fit = {} THEN <<>> ELSE options[Min(fit)][2]

IsSlot(r) == r = [value |-> r.value, checked |-> r.checked, selected |-> r.selected]

SlotsTyped ==
    /\ slots = [n \in Nodes |-> slots[n]] /\ initial = [n \in Nodes |-> initial[n]]
    /\ \A n \in Nodes : IsSlot(slots[n]) /\ IsSlot(initial[n])

\* What elements read when the page was built is what they read under the initial slots.
LoadedInv ==
    ~parsing => \A n \in DOMAIN loaded :
        /\ loaded[n].live = initial[n]
        /\ loaded[n].shown = ShownIn(loaded[n].options, initial)

LEMMA OptionFound ==
    ASSUME Inv, Acyclic, NEW n \in Nodes, NEW fit \in SUBSET DOMAIN collect_options(n), fit # {}
    PROVE  /\ Min(fit) \in fit
           /\ collect_options(n)[Min(fit)] \in ToSet(collect_options(n))
           /\ collect_options(n)[Min(fit)] \in Nodes
           /\ collect_options(n)[Min(fit)] # None
<1> DEFINE options == collect_options(n)
<1>1. options \in Seq(Nodes) /\ None \notin Nodes
  BY Collected, PoolInNodes DEF collect_options, Inv
<1> HIDE DEF options
<1>2. DOMAIN options \subseteq Nat /\ \A i \in DOMAIN options : options[i] \in Nodes
  BY <1>1
<1>3. Min(fit) \in fit
  <2>1. fit \in SUBSET Nat
    BY <1>2 DEF options
  <2> QED BY <2>1, LeastFound
<1> QED
  BY <1>1, <1>2, <1>3 DEF ToSet, options

LEMMA ShownByList ==
    ASSUME Inv, Acyclic, NEW n \in Nodes, NEW s
    PROVE  Shown(n, s) = ShownIn(Reading(n).options, s)
<1> DEFINE options == collect_options(n)
           fit == {i \in DOMAIN options : s[options[i]].selected}
           first == IF fit = {} THEN None ELSE options[Min(fit)]
           list == Reading(n).options
<1>1. list = [i \in DOMAIN options |-> <<options[i], option_value_of(options[i])>>]
  BY DEF Reading
<1>2. fit = {i \in DOMAIN list : s[list[i][1]].selected}
  BY <1>1
<1>3. fit # {} => Min(fit) \in fit /\ options[Min(fit)] # None
  BY OptionFound
<1>4. Shown(n, s) = IF first = None THEN <<>> ELSE option_value_of(first)
  BY DEF Shown, FirstOption
<1>5. ShownIn(list, s) = IF fit = {} THEN <<>> ELSE list[Min(fit)][2]
  BY <1>2 DEF ShownIn
<1>6. fit # {} => list[Min(fit)][2] = option_value_of(options[Min(fit)])
  BY <1>1, <1>3
<1> QED
  BY <1>3, <1>4, <1>5, <1>6

LEMMA ReadingsShown ==
    Inv /\ Acyclic =>
        \A n \in Pool : /\ Readings[n].live = slots[n]
                        /\ Readings[n].shown = ShownIn(Readings[n].options, slots)
<1> SUFFICES ASSUME Inv, Acyclic, NEW n \in Pool
             PROVE  /\ Readings[n].live = slots[n]
                    /\ Readings[n].shown = ShownIn(Readings[n].options, slots)
  OBVIOUS
<1>1. Readings[n] = Reading(n) /\ n \in Nodes
  BY PoolInNodes DEF Readings, Inv
<1>2. Reading(n).shown = Shown(n, slots) /\ Reading(n).live = slots[n]
  BY DEF Reading, select_value
<1> QED
  BY <1>1, <1>2, ShownByList

LEMMA ReadingsShownNext ==
    (Inv /\ Acyclic)' =>
        (\A n \in Pool : /\ Readings[n].live = slots[n]
                         /\ Readings[n].shown = ShownIn(Readings[n].options, slots))'
BY ReadingsShown, PTL

LEMMA ScriptsKeepLoaded ==
    ASSUME RunScript
    PROVE  UNCHANGED <<parsing, initial, loaded>>
<1>1. ASSUME NEW new, SlotsBecome(new) PROVE UNCHANGED <<parsing, initial, loaded>>
  BY <1>1 DEF SlotsBecome, treeUnchanged, treeVars, vars
<1> QED
  BY <1>1 DEF RunScript, CreateElement, createElement, EditTree, removeChild, Insert, SetText,
     setTextContent, SetValueAttribute, RemoveValueAttribute, SetValue, SelectValue, SetSelected,
     SetChecked, reset, SetSubmission, treeUnchanged, treeVars, vars, controlVars

LEMMA LoadedKept ==
    ASSUME Inv', Acyclic', LoadedInv, [FormNext]_formVars
    PROVE  LoadedInv'
<1>1. ASSUME UNCHANGED <<parsing, initial, loaded>> PROVE LoadedInv'
  <2>1. parsing' = parsing /\ initial' = initial /\ loaded' = loaded
    BY <1>1
  <2> QED BY <2>1 DEF LoadedInv
<1>2. CASE UNCHANGED formVars
  BY <1>1, <1>2 DEF formVars, parseVars, controlVars, vars
<1>3. CASE (SkipText \/ ReadEndTag \/ SkipComment \/ ReadStartTag \/ AttributeTurn)
              /\ UNCHANGED controlVars
  BY <1>1, <1>3 DEF SkipText, ReadEndTag, EndTag, SkipComment, ReadStartTag, AttributeTurn,
     controlVars, vars
<1>4. CASE SeedAndLink
  BY <1>1, <1>4 DEF SeedAndLink, LinkNode, StartTag
<1>5. CASE DocumentBuilt
  <2>1. loaded' = Readings' /\ initial' = slots'
    BY <1>5 DEF DocumentBuilt
  <2>2. DOMAIN Readings' = Pool'
    BY DEF Readings
  <2>3. ASSUME NEW n \in Pool'
        PROVE  /\ Readings'[n].live = slots'[n]
               /\ Readings'[n].shown = ShownIn(Readings'[n].options, slots')
    BY ReadingsShownNext, <2>3 DEF ShownIn
  <2>4. ASSUME NEW n \in DOMAIN loaded'
        PROVE  /\ loaded'[n].live = initial'[n]
               /\ loaded'[n].shown = ShownIn(loaded'[n].options, initial')
    BY <2>1, <2>2, <2>3, <2>4
  <2> QED BY <2>4 DEF LoadedInv, ShownIn
<1>6. CASE RunScript
  BY <1>1, <1>6, ScriptsKeepLoaded
<1> QED
  BY <1>2, <1>3, <1>4, <1>5, <1>6 DEF FormNext, ReadPage

LEMMA SlotsKept ==
    ASSUME SlotsTyped, [FormNext]_formVars
    PROVE  SlotsTyped'
<1>1. ASSUME UNCHANGED <<slots, initial>> PROVE SlotsTyped'
  BY <1>1 DEF SlotsTyped, IsSlot
<1>2. CASE UNCHANGED formVars
  BY <1>1, <1>2 DEF formVars, controlVars
<1>3. CASE (SkipText \/ ReadEndTag \/ SkipComment \/ ReadStartTag \/ AttributeTurn)
              /\ UNCHANGED controlVars
  BY <1>1, <1>3 DEF controlVars
<1>4. CASE SeedAndLink
  <2>1. /\ slots' = [slots EXCEPT ![count + 1] = Seeded(tag.name, tag.attributes)]
        /\ initial' = initial
    BY <1>4 DEF SeedAndLink
  <2>2. IsSlot(Seeded(tag.name, tag.attributes))
    BY DEF IsSlot, Seeded
  <2>3. PICK new : new = Seeded(tag.name, tag.attributes)
    OBVIOUS
  <2> QED BY <2>1, <2>2, <2>3 DEF SlotsTyped, IsSlot
<1>5. CASE DocumentBuilt
  <2>1. PICK kept : slots' = [n \in Nodes |->
                        [slots[n] EXCEPT !.selected = n \in kept,
                             !.value = IF IsA(n, {"textarea"}) THEN text_content(n) ELSE @]]
    BY <1>5 DEF DocumentBuilt
  <2>2. ASSUME NEW r, IsSlot(r), NEW v, NEW b
        PROVE  IsSlot([r EXCEPT !.selected = b, !.value = v])
    <3>1. PICK old : old = [r EXCEPT !.selected = b]
      OBVIOUS
    <3>2. IsSlot(old) /\ [r EXCEPT !.selected = b, !.value = v] = [old EXCEPT !.value = v]
      BY <2>2, <3>1 DEF IsSlot
    <3>3. IsSlot([old EXCEPT !.value = v])
      BY <3>2 DEF IsSlot
    <3> QED BY <3>2, <3>3
  <2>3. initial' = slots'
    BY <1>5 DEF DocumentBuilt
  <2> QED BY <2>1, <2>2, <2>3 DEF SlotsTyped, IsSlot
<1>6. ASSUME NEW new, SlotsBecome(new), new = [n \in Nodes |-> new[n]],
             \A n \in Nodes : IsSlot(new[n])
      PROVE  SlotsTyped'
  BY <1>6 DEF SlotsBecome, SlotsTyped, IsSlot
<1>7. ASSUME NEW r, IsSlot(r), NEW v
      PROVE  /\ IsSlot([r EXCEPT !.value = v]) /\ IsSlot([r EXCEPT !.selected = v])
             /\ IsSlot([r EXCEPT !.checked = v])
  BY <1>7 DEF IsSlot
<1>8. CASE RunScript
  <2>1. ASSUME NEW n \in Pool, NEW v, SetValue(n, v) PROVE SlotsTyped'
    <3>1. PICK new : new = [slots EXCEPT ![n].value = v]
      OBVIOUS
    <3>2. new = [m \in Nodes |-> new[m]] /\ \A m \in Nodes : IsSlot(new[m])
      BY <1>7, <3>1 DEF SlotsTyped
    <3> QED BY <1>6, <2>1, <3>1, <3>2 DEF SetValue
  <2>2. ASSUME NEW n \in Pool, NEW b, SetSelected(n, b) PROVE SlotsTyped'
    <3>1. PICK new : new = [slots EXCEPT ![n].selected = b]
      OBVIOUS
    <3>2. new = [m \in Nodes |-> new[m]] /\ \A m \in Nodes : IsSlot(new[m])
      BY <1>7, <3>1 DEF SlotsTyped
    <3> QED BY <1>6, <2>2, <3>1, <3>2 DEF SetSelected
  <2>3. ASSUME NEW n \in Pool, NEW b, SetChecked(n, b) PROVE SlotsTyped'
    <3>1. PICK new : new = [slots EXCEPT ![n].checked = b]
      OBVIOUS
    <3>2. new = [m \in Nodes |-> new[m]] /\ \A m \in Nodes : IsSlot(new[m])
      BY <1>7, <3>1 DEF SlotsTyped
    <3> QED BY <1>6, <2>3, <3>1, <3>2 DEF SetChecked
  <2>4. ASSUME NEW n \in Pool, NEW v, SelectValue(n, v) PROVE SlotsTyped'
    <3>1. PICK new : new = OneSelected(n, v)
      OBVIOUS
    <3>2. new = [m \in Nodes |-> new[m]] /\ \A m \in Nodes : IsSlot(new[m])
      BY <1>7, <3>1 DEF SlotsTyped, OneSelected
    <3> QED BY <1>6, <2>4, <3>1, <3>2 DEF SelectValue
  <2>5. ASSUME NEW n \in Pool, reset(n) PROVE SlotsTyped'
    <3>1. PICK new : new = Restored(n)
      OBVIOUS
    <3>2. new = [m \in Nodes |-> new[m]] /\ \A m \in Nodes : IsSlot(new[m])
      BY <3>1 DEF SlotsTyped, Restored
    <3> QED BY <1>6, <2>5, <3>1, <3>2 DEF reset
  <2> QED BY <1>1, <1>8, <2>1, <2>2, <2>3, <2>4, <2>5 DEF RunScript, CreateElement, EditTree,
        SetText, SetValueAttribute, RemoveValueAttribute, SetSubmission, controlVars
<1> QED
  BY <1>2, <1>3, <1>4, <1>5, <1>8 DEF FormNext, ReadPage

LEMMA ResetFollows ==
    ASSUME Inv, Acyclic, LoadedInv
    PROVE  ResetRestores
<1> DEFINE listed == {"input", "button", "select", "textarea"}
           restored == {"input", "textarea", "button", "option"}
<1>1. SUFFICES ASSUME ~parsing, NEW f \in Pool, IsA(f, {"form"})
               PROVE  /\ \A c \in ToSet(elements(f)) \cap DOMAIN loaded :
                            IF IsA(c, {"select"})
                            THEN Reading(c).options = loaded[c].options
                                    => Shown(c, Restored(f)) = loaded[c].shown
                            ELSE Restored(f)[c] = loaded[c].live
                      /\ \A c \in Pool : ~is_self_or_ancestor(f, c) => Restored(f)[c] = slots[c]
  BY Zenon DEF ResetRestores
<1>2. Pool \subseteq Nodes /\ f \in Nodes
  BY PoolInNodes DEF Inv
<1>3. ToSet(elements(f)) = {m \in Nodes : is_self_or_ancestor(f, m) /\ IsA(m, listed)}
  BY <1>2, Collected DEF elements
<1>4. \A m \in Nodes : Restored(f)[m] = IF is_self_or_ancestor(f, m) /\ IsA(m, restored)
                                        THEN initial[m] ELSE slots[m]
  BY <1>2, Collected DEF Restored
<1>5. ASSUME NEW c \in ToSet(elements(f)) \cap DOMAIN loaded, ~IsA(c, {"select"})
      PROVE  Restored(f)[c] = loaded[c].live
  <2>1. c \in Nodes /\ is_self_or_ancestor(f, c) /\ IsA(c, restored)
    BY <1>3, <1>5 DEF IsA
  <2> QED BY <1>1, <1>4, <2>1 DEF LoadedInv
<1>6. ASSUME NEW c \in ToSet(elements(f)) \cap DOMAIN loaded,
             Reading(c).options = loaded[c].options
      PROVE  Shown(c, Restored(f)) = loaded[c].shown
  <2>1. c \in Nodes /\ is_self_or_ancestor(f, c)
    BY <1>3
  <2> DEFINE options == collect_options(c)
             list == Reading(c).options
  <2>2. ToSet(options) = {m \in Nodes : is_self_or_ancestor(c, m) /\ IsA(m, {"option"})}
    BY <2>1, Collected DEF collect_options
  <2>3. \A o \in ToSet(options) : Restored(f)[o] = initial[o]
    BY <1>4, <2>1, <2>2, WalksCompose DEF IsA
  <2>4. list = [i \in DOMAIN options |-> <<options[i], option_value_of(options[i])>>]
    BY DEF Reading
  <2>5. \A i \in DOMAIN list : Restored(f)[list[i][1]] = initial[list[i][1]]
    BY <2>3, <2>4 DEF ToSet
  <2> HIDE DEF list
  <2>6. {i \in DOMAIN list : Restored(f)[list[i][1]].selected} =
            {i \in DOMAIN list : initial[list[i][1]].selected}
    BY <2>5
  <2>7. ShownIn(list, Restored(f)) = ShownIn(list, initial)
    BY <2>6 DEF ShownIn
  <2>8. loaded[c].shown = ShownIn(list, initial)
    BY <1>1, <1>6 DEF LoadedInv, list
  <2>9. Shown(c, Restored(f)) = ShownIn(list, Restored(f))
    BY <2>1, ShownByList DEF list
  <2> QED BY <2>7, <2>8, <2>9
<1>7. ASSUME NEW c \in Pool, ~is_self_or_ancestor(f, c) PROVE Restored(f)[c] = slots[c]
  BY <1>2, <1>4, <1>7
<1> QED
  BY <1>5, <1>6, <1>7

LEMMA SelectFollows ==
    ASSUME Inv, Acyclic, SlotsTyped
    PROVE  SelectShowsAssigned
<1> SUFFICES ASSUME NEW n \in Pool, NEW v \in Values, IsA(n, {"select"}), Match(n, v) # None
             PROVE  /\ Shown(n, OneSelected(n, v)) = v
                    /\ Cardinality({o \in ToSet(collect_options(n)) :
                                       OneSelected(n, v)[o].selected}) = 1
  BY Zenon DEF SelectShowsAssigned
<1> DEFINE options == collect_options(n)
           fit == {i \in DOMAIN options : option_value_of(options[i]) = v}
           picked == {i \in DOMAIN options : OneSelected(n, v)[options[i]].selected}
           match == Match(n, v)
<1>1. n \in Nodes
  BY PoolInNodes DEF Inv
<1>2. options \in Seq(Nodes) /\ ToSet(options) \subseteq Nodes
  BY <1>1, Collected DEF collect_options
<1>3. match = IF fit = {} THEN None ELSE options[Min(fit)]
  BY DEF Match, FirstOption
<1>4. fit # {} /\ match \in ToSet(options) /\ match \in Nodes /\ option_value_of(match) = v
  BY <1>1, <1>3, OptionFound
<1>5. ASSUME NEW o \in ToSet(options) PROVE OneSelected(n, v)[o].selected <=> o = match
  <2>1. OneSelected(n, v)[o] = [slots[o] EXCEPT !.selected = o = match]
    BY <1>2, <1>5 DEF OneSelected
  <2>2. IsSlot(slots[o])
    BY <1>2, <1>5 DEF SlotsTyped
  <2> QED BY <2>1, <2>2 DEF IsSlot
<1>6. \A i \in DOMAIN options : options[i] \in ToSet(options)
  BY DEF ToSet
<1>7. picked = {i \in DOMAIN options : options[i] = match}
  BY <1>5, <1>6
<1>8. picked # {}
  <2>1. \E i \in DOMAIN options : options[i] = match
    BY <1>4 DEF ToSet
  <2> QED BY <1>7, <2>1
<1>9. Min(picked) \in picked
  <2>1. picked \in SUBSET DOMAIN collect_options(n)
    OBVIOUS
  <2> HIDE DEF picked
  <2> QED BY <1>1, <1>8, <2>1, OptionFound
<1>10. options[Min(picked)] = match
  BY <1>7, <1>9
<1> DEFINE first == IF picked = {} THEN None ELSE options[Min(picked)]
<1>11. Shown(n, OneSelected(n, v)) = IF first = None THEN <<>> ELSE option_value_of(first)
  BY DEF Shown, FirstOption
<1>12. Shown(n, OneSelected(n, v)) = v
  BY <1>4, <1>8, <1>10, <1>11
<1>13. {o \in ToSet(options) : OneSelected(n, v)[o].selected} = {match}
  BY <1>4, <1>5
<1>14. Cardinality({match}) = 1
  BY FS_Singleton
<1> QED
  BY <1>12, <1>13, <1>14

LEMMA FormsInv == FormSpec => [](Inv /\ Acyclic /\ SlotsTyped /\ LoadedInv)
<1>1. FormSpec => []Inv
  BY PagesImplementTree, InitInv, StepInv, PTL DEF Spec
<1>2. FormInit => SlotsTyped /\ LoadedInv
  BY DEF FormInit, ParseInit, Init, SlotsTyped, LoadedInv, IsSlot, Blank
<1> QED
  BY <1>1, <1>2, PageAcyclic, SlotsKept, LoadedKept, PTL DEF FormSpec

\* control.form and form.elements agree in every page, after any sequence of tree edits: the
\* nearest form up from a control lists it, and a form that lists it contains that one.
THEOREM OwnersAlwaysAgree == FormSpec => []OwnersAgree
BY FormsInv, OwnersFollow, PTL

\* form.reset() restores what was loaded in every page, whatever its scripts assigned and
\* moved: the controls below the form, among them the options of each of its selects.
THEOREM ResetsRestore == FormSpec => []ResetRestores
BY FormsInv, ResetFollows, PTL

\* In every page select.value = v leaves a select showing v with one option selected.
THEOREM SelectsShowAssigned == FormSpec => []SelectShowsAssigned
BY FormsInv, SelectFollows, PTL
===================================================================================
