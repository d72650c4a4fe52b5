------------------------------ MODULE FormControls ------------------------------
(***************************************************************************)
(* The form controls of a document generation (src/src/core/               *)
(* page_state.cpp): what the DocumentHost constructor makes of the parsed  *)
(* page, and then the methods and writable properties of elements, in any  *)
(* order a page's scripts may call them, tree edits included.  A control's *)
(* value, checked and selected are slots, seeded when the page is parsed   *)
(* and no longer tied to the attributes; its form, a form's elements, a    *)
(* select's and an option's value are read off the tree at every call.     *)
(***************************************************************************)
EXTENDS HtmlParse

CONSTANTS Created,     \* tag names given to createElement
          Values,      \* strings that scripts assign
          Submission   \* attributes whose slots of a form scripts assign

VARIABLES text,         \* option -> text_content (nothing here reads another element's)
          slots,        \* node -> [value, checked, selected]
          initial,      \* node -> the same, as form.reset() restores them
          submission,   \* node -> [method, action, enctype, target, novalidate]
          loaded        \* history: what each element read when the page was built

controlVars == <<text, slots, initial, submission, loaded>>
formVars == <<parseVars, controlVars>>

Blank == [value |-> <<>>, checked |-> FALSE, selected |-> FALSE]
UrlEncoded == <<"application/x-www-form-urlencoded">>
NewForm == [method |-> <<"get">>, action |-> <<>>, enctype |-> UrlEncoded, target |-> <<>>,
            novalidate |-> FALSE]

FormInit ==
    /\ ParseInit
    /\ text = [n \in Nodes |-> <<>>]
    /\ slots = [n \in Nodes |-> Blank] /\ initial = [n \in Nodes |-> Blank]
    /\ submission = [n \in Nodes |-> NewForm]
    /\ loaded = <<>>

IsA(n, names) == \E t \in names : tags[n] = <<t>>
Has(n, a) == <<a>> \in DOMAIN attributes[n]
AttributeOf(n, a) == IF Has(n, a) THEN attributes[n][<<a>>] ELSE <<>>

-------------------------------------------------------------------------------
(* Reading the tree *)

\* The elements of some tag names in the subtree of n, itself included, in document order.
collect_matching(n, names) ==
    LET walk[m \in Nodes] ==
            (IF IsA(m, names) THEN <<m>> ELSE <<>>)
                \o FlattenSeq([i \in DOMAIN children[m] |-> walk[children[m][i]]])
    IN  walk[n]

collect_options(n) == collect_matching(n, {"option"})

\* Mutant: a button is not a control of its form.
elements_without_buttons(form) == collect_matching(form, {"input", "select", "textarea"})

elements(form) == collect_matching(form, {"input", "button", "select", "textarea"})

\* control.form: the nearest ancestor that is a form.
form_of(n) ==
    LET forms == {f \in Pool \ {n} : IsA(f, {"form"}) /\ is_self_or_ancestor(f, n)}
    IN  IF forms = {} THEN None
        ELSE CHOOSE f \in forms : \A g \in forms : is_self_or_ancestor(g, f)

option_value_of(n) == IF Has(n, "value") THEN AttributeOf(n, "value") ELSE text[n]

\* The first of a sequence of options that satisfies Test, or None.
FirstOption(options, Test(_)) ==
    LET fit == {i \in DOMAIN options : Test(options[i])}
    IN  IF fit = {} THEN None ELSE options[Min(fit)]

\* What a select shows when s are the slots of the nodes.
Shown(n, s) ==
    LET first == FirstOption(collect_options(n), LAMBDA o : s[o].selected)
    IN  IF first = None THEN <<>> ELSE option_value_of(first)

select_value(n) == Shown(n, slots)

\* What a script reads: a control's state, or the options of a select and the one it shows.
Reading(n) ==
    [live |-> slots[n], options |-> LET o == collect_options(n) IN
                                    [i \in DOMAIN o |-> <<o[i], option_value_of(o[i])>>],
     shown |-> select_value(n)]
Readings == [n \in Pool |-> Reading(n)]

-------------------------------------------------------------------------------
(* The constructor of DocumentHost *)

normalize_form_method(raw) ==
    IF ascii_lower(raw) \in {<<"get">>, <<"post">>} THEN ascii_lower(raw) ELSE <<"get">>
normalize_form_enctype(raw) ==
    IF ascii_lower(raw) \in {<<"multipart/form-data">>, <<"text/plain">>}
    THEN ascii_lower(raw) ELSE UrlEncoded

\* What a form's slot becomes when raw is assigned.
Assigned(slot, raw) ==
    CASE slot = "method" -> normalize_form_method(raw)
      [] slot = "enctype" -> normalize_form_enctype(raw)
      [] OTHER -> raw

\* The slots of a node as its start tag seeds them.
Seeded(name, attrs) ==
    [value |-> IF name \in {<<"input">>, <<"button">>} /\ <<"value">> \in DOMAIN attrs
               THEN attrs[<<"value">>] ELSE <<>>,
     checked |-> name = <<"input">> /\ <<"checked">> \in DOMAIN attrs,
     selected |-> name = <<"option">> /\ <<"selected">> \in DOMAIN attrs]

SeedAndLink ==
    /\ LinkNode
    /\ slots' = [slots EXCEPT ![count + 1] = Seeded(tag.name, tag.attributes)]
    /\ UNCHANGED <<text, initial, submission, loaded>>

text_content(n) == strip_tags(SubSeq(html, content_start[n], content_end[n] - 1))

\* A select, in document order, keeps the first of its selected options only.
SingleSelected(picked, select) ==
    LET first == FirstOption(collect_options(select), LAMBDA o : o \in picked)
    IN  picked \ (ToSet(collect_options(select)) \ {first})

\* parse_html's last loop and the constructor's: texts, textarea values, single
\* selection, submission slots of forms, and then the defaults.
DocumentBuilt ==
    /\ ParseEnds
    /\ text' = [n \in Nodes |-> IF IsA(n, {"option"}) THEN text_content(n) ELSE <<>>]
    /\ LET picked == {n \in Pool : slots[n].selected}
           selects == SelectSeq([n \in 1..count |-> n], LAMBDA n : IsA(n, {"select"}))
           kept == FoldLeft(SingleSelected, picked, selects)
       IN  slots' = [n \in Nodes |->
                        [slots[n] EXCEPT !.selected = n \in kept,
                             !.value = IF IsA(n, {"textarea"}) THEN text_content(n) ELSE @]]
    /\ submission' = [n \in Nodes |->
           IF ~IsA(n, {"form"}) THEN NewForm
           ELSE [s \in DOMAIN NewForm |->
                    IF s = "novalidate" THEN Has(n, s)
                    ELSE IF Has(n, s) THEN Assigned(s, AttributeOf(n, s)) ELSE NewForm[s]]]
    /\ initial' = slots'
    /\ loaded' = Readings'

-------------------------------------------------------------------------------
(* Methods and writable properties.  submit() and requestSubmit() do nothing. *)

Scripted == scripted /\ ~parsing
pageUnchanged == UNCHANGED <<pageVars, pos, tag, content_start, content_end, scripts>>
treeUnchanged == UNCHANGED treeVars

CreateElement(name) ==
    /\ Scripted /\ createElement
    /\ tags' = [tags EXCEPT ![count + 1] = <<name>>]
    /\ pageUnchanged /\ UNCHANGED <<attributes, controlVars>>

EditTree ==
    /\ Scripted
    /\ \E node, child \in Pool :
          removeChild(node, child) \/ \E ref \in Pool \cup {None} : Insert(node, child, ref)
    /\ pageUnchanged /\ UNCHANGED <<tags, attributes, controlVars>>

SetText(n, v) ==
    /\ Scripted /\ setTextContent(n)
    /\ text' = [text EXCEPT ![n] = IF IsA(n, {"option"}) THEN v ELSE @]
    /\ pageUnchanged /\ UNCHANGED <<tags, attributes, slots, initial, submission, loaded>>

\* setAttribute("value", v), removeAttribute("value") of an option, whose value follows
\* them; that of a control does not.
SetValueAttribute(n, v) ==
    /\ Scripted /\ IsA(n, {"option"})
    /\ attributes' = [attributes EXCEPT ![n] = (<<"value">> :> v) @@ @]
    /\ treeUnchanged /\ pageUnchanged /\ UNCHANGED <<tags, controlVars>>

RemoveValueAttribute(n) ==
    /\ Scripted /\ IsA(n, {"option"})
    /\ attributes' = [attributes EXCEPT ![n] = [a \in DOMAIN @ \ {<<"value">>} |-> @[a]]]
    /\ treeUnchanged /\ pageUnchanged /\ UNCHANGED <<tags, controlVars>>

SlotsBecome(new) ==
    /\ Scripted
    /\ slots' = new
    /\ treeUnchanged /\ pageUnchanged /\ UNCHANGED <<tags, attributes, text, initial, submission, loaded>>

SetValue(n, v) ==
    /\ IsA(n, {"input", "textarea", "button"})
    /\ SlotsBecome([slots EXCEPT ![n].value = v])

Match(n, v) == FirstOption(collect_options(n), LAMBDA o : option_value_of(o) = v)

\* Mutant: the other options keep their state.
OneAlsoSelected(n, v) == [slots EXCEPT ![Match(n, v)].selected = TRUE]

\* The slots once the first option of value v, and no other, is selected.
OneSelected(n, v) ==
    [m \in Nodes |-> IF m \in ToSet(collect_options(n))
                     THEN [slots[m] EXCEPT !.selected = m = Match(n, v)]
                     ELSE slots[m]]

\* select.value = v; without such an option nothing changes.
SelectValue(n, v) ==
    /\ IsA(n, {"select"})
    /\ Match(n, v) # None
    /\ SlotsBecome(OneSelected(n, v))

SetSelected(n, b) ==
    /\ IsA(n, {"option"})
    /\ SlotsBecome([slots EXCEPT ![n].selected = b])

SetChecked(n, b) ==
    /\ IsA(n, {"input"})
    /\ SlotsBecome([slots EXCEPT ![n].checked = b])

\* Mutant: options are not controls, so a select keeps what it shows.
RestoredButOptions(n) ==
    LET controls == collect_matching(n, {"input", "textarea", "button"})
    IN  [m \in Nodes |-> IF m \in ToSet(controls) THEN initial[m] ELSE slots[m]]

\* The slots once the controls now below a form have their defaults, wherever they were
\* when the page was parsed.
Restored(n) ==
    LET controls == collect_matching(n, {"input", "textarea", "button", "option"})
    IN  [m \in Nodes |-> IF m \in ToSet(controls) THEN initial[m] ELSE slots[m]]

reset(n) ==
    /\ IsA(n, {"form"})
    /\ SlotsBecome(Restored(n))

SetSubmission(n, s, v) ==
    /\ Scripted /\ IsA(n, {"form"})
    /\ submission' = [submission EXCEPT ![n][s] = IF s = "novalidate" THEN v # <<>>
                                                  ELSE Assigned(s, v)]
    /\ treeUnchanged /\ pageUnchanged /\ UNCHANGED <<tags, attributes, text, slots, initial, loaded>>

-------------------------------------------------------------------------------
ReadPage ==
    \/ (SkipText \/ ReadEndTag \/ SkipComment \/ ReadStartTag \/ AttributeTurn)
          /\ UNCHANGED controlVars
    \/ SeedAndLink
    \/ DocumentBuilt

RunScript ==
    \/ \E name \in Created : CreateElement(name)
    \/ EditTree
    \/ \E n \in Pool :
          \/ RemoveValueAttribute(n)
          \/ \E v \in Values :
                \/ SetText(n, v) \/ SetValueAttribute(n, v) \/ SetValue(n, v) \/ SelectValue(n, v)
                \/ \E s \in Submission : SetSubmission(n, s, v)
          \/ \E b \in BOOLEAN : SetSelected(n, b) \/ SetChecked(n, b)
          \/ reset(n)

FormNext == ReadPage \/ RunScript

\* Parsing is one call that nothing interrupts.
FormSpec == FormInit /\ [][FormNext]_formVars /\ WF_formVars(ReadPage)

-------------------------------------------------------------------------------
(* Properties *)

\* At any time form.reset() makes every control now in the form read as when the page
\* was built, whatever scripts assigned, and a select show what it showed then if it still
\* has the same options; controls outside keep their state (docs/m6_1_form_reset.md).
ResetRestores ==
    ~parsing => \A f \in Pool : IsA(f, {"form"}) =>
        /\ \A c \in ToSet(elements(f)) \cap DOMAIN loaded :
              IF IsA(c, {"select"})
              THEN Reading(c).options = loaded[c].options
                      => Shown(c, Restored(f)) = loaded[c].shown
              ELSE Restored(f)[c] = loaded[c].live
        /\ \A c \in Pool : ~is_self_or_ancestor(f, c) => Restored(f)[c] = slots[c]

\* At any time select.value = v, when some option has that value, makes the select show v
\* and leaves one of its options selected, wherever those options and their states came
\* from (docs/m5_5_select_value.md).
SelectShowsAssigned ==
    \A n \in Pool, v \in Values : IsA(n, {"select"}) /\ Match(n, v) # None =>
        /\ Shown(n, OneSelected(n, v)) = v
        /\ Cardinality({o \in ToSet(collect_options(n)) : OneSelected(n, v)[o].selected}) = 1

\* control.form and form.elements, one read up the tree and one down, agree after any
\* edit: a control is listed by its form, and by no form that does not contain it.
OwnersAgree ==
    \A c, f \in Pool : IsA(c, {"input", "button", "select", "textarea"}) /\ IsA(f, {"form"}) =>
        /\ form_of(c) = f => c \in ToSet(elements(f))
        /\ c \in ToSet(elements(f)) => form_of(c) # None /\ is_self_or_ancestor(f, form_of(c))
================================================================================
