--------------------------------- MODULE MCDom ---------------------------------
(***************************************************************************)
(* FormControls for TLC: pages put together from a few pieces of source,   *)
(* each read and left alone, and three pages of up to three elements each  *)
(* whose scripts add a fourth and edit them in every way.                  *)
(***************************************************************************)
EXTENDS FormControls

CONSTANT MaxPieces   \* bound on the pieces of a page

Start(name) == <<"<", name, ">">>
End(name) == <<"<", "/", name, ">">>
Attr(name, value) == <<" ", name, "=", value>>

\* Text, quotes, odd tags, comments, raw text, upper case.
Pieces ==
    {<<"t">>, Start("p"), End("p"), Start("b"), End("b"), Start("br"), Start("script"),
     End("SCRIPT"), <<"<", "!", "p", ">">>, <<"<", ">">>, <<"<">>,
     <<"<", "p", " ", "id", " ", "=", "\"", "a", " ", "/", "\"", "x", "/", ">">>}

StaticSources == {FlattenSeq(p) : p \in UNION {[1..k -> Pieces] : k \in 0..MaxPieces}}

ScriptedSources ==
    {Start("form") \o <<"<", "input">> \o Attr("value", "a") \o <<" ", "checked", ">">>
        \o Start("button"),
     Start("select") \o <<"<", "option", " ", "selected", ">", "b">> \o End("option")
        \o <<"<", "option", " ", "selected">> \o Attr("value", "a") \o <<">", "a">> \o End("option"),
     <<"<", "form">> \o Attr("method", "POST") \o <<">">> \o End("form")
        \o Start("p") \o Start("textarea") \o <<"a">> \o End("textarea") \o End("p")}

MCUpperCase == [w \in {"SCRIPT", "POST"} |-> IF w = "SCRIPT" THEN "script" ELSE "post"]
MCValues == {<<"a">>}

MCPages ==
    {[html |-> s, scripted |-> FALSE] : s \in StaticSources} \cup
    {[html |-> s, scripted |-> TRUE] : s \in ScriptedSources}

\* <p href=/x>: an unquoted value that begins with a slash.
SlashPages == {[html |-> <<"<", "p">> \o Attr("href", "/") \o <<"x", ">">>, scripted |-> FALSE]}

===============================================================================
