----------------------------- MODULE ProgramsMC -----------------------------
(***************************************************************************)
(* A corpus of small programs for Programs.  A case names a family and a   *)
(* variation of each of its parts; most variations are wrong somewhere, so *)
(* that the compiler has to tell them apart.                               *)
(***************************************************************************)
EXTENDS Programs

S(text) == <<"string", text>>
I(n) == <<"int", 2 * n>>
Half == <<"float", 1>>
B(b) == <<"bool", b>>
Null == <<"null", None>>
P(name, value) == [name |-> name, value |-> value]
Node(name, args, props, kids) == [name |-> name, args |-> args, props |-> props, kids |-> kids]
Leaf(name, args) == Node(name, args, <<>>, <<>>)
Type(t) == P("type", S(t))

MCNames == {"a", "b", "f", "g", "t", "u", "trim"}
MCRootNames == MCNames \cup {"m", "x-1"}
MCDates == {"2025", "2026"}
MCSelectors == {"p", "q", "li"}
MCCaptures == ("(.)" :> 1) @@ ("." :> 0)
MCHalfRange ==
    [i \in Integers |-> CASE i \in {"i8", "u8"} -> 4 [] i \in {"i16", "u16"} -> 16
                          [] i \in {"i32", "u32"} -> 64 [] OTHER -> 128]

-----------------------------------------------------------------------------
Header == <<P("version", S("2025")), P("language-version", S("2026"))>>
Fetch(mode, url) == Node("fetch", <<>>, <<P("mode", S(mode)), P("url", S(url))>>, <<>>)
Source(fetch, more) == Node("source", <<S("html")>>, <<>>, <<fetch>> \o more)
Http == Source(Fetch("http", <<"http://h/">>), <<>>)
Browser(more) == Source(Fetch("browser", <<"http://h/">>), more)
Document(kids) == Node("extractor", <<S("x-1")>>, Header, kids)
Single(kids) == "main" :> <<Document(kids)>>

Select(selector) == Leaf("select", <<S(selector)>>)
Text1 == Leaf("value", <<S("text")>>)
Script(returns) ==
    Node("evaluate-js", <<S("js")>>, <<P("scope", S("document")), P("returns", S(returns))>>, <<>>)
Apply(parts, args, props) == Node("apply", <<S(parts)>> \o args, props, <<>>)
Field(name, props, kids) == Node("field", <<S(name)>>, props, kids)
Plain1 == Field("f", <<Type(<<"string">>)>>, <<Select("p"), Text1>>)

-----------------------------------------------------------------------------
(* Headers and modules.                                                    *)
Headers == <<
    Header, <<>>, Tail(Header), <<Header[1]>>, Header \o <<Header[1]>>,
    <<P("version", S("never")), Header[2]>>, <<Header[1], P("language-version", S("2025"))>>,
    <<Header[1], P("language-version", I(1))>>, Header \o <<P("title", S("a"))>>>>
RootArgs == << <<S("x-1")>>, <<S("X")>>, <<>>, <<I(1)>>, <<S("a"), S("b")>> >>

Module(kids) == <<Node("module", <<S("m")>>, Header, kids)>>
Import(args, props) == Node("import", args, props, <<>>)
As(alias) == P("as", S(alias))
ImportLists == <<
    <<Import(<<S("m1")>>, <<As("a")>>)>>,
    <<Import(<<S("m1")>>, <<As("a")>>), Import(<<S("m2")>>, <<As("b")>>)>>,
    <<Import(<<S("m1")>>, <<As("a")>>), Import(<<S("m2")>>, <<As("a")>>)>>,
    <<Import(<<S("m1")>>, <<>>)>>, <<Import(<<S("m1")>>, <<As("X")>>)>>,
    <<Import(<<S("https")>>, <<As("a")>>)>>, <<Import(<<>>, <<As("a")>>)>>,
    <<Import(<<S("main2")>>, <<As("a")>>)>> >>
Uses == << <<"a", "t">>, <<"b", "u">>, <<"t">>, <<"a", "u">>, <<"a", "b", "t">> >>

Declare(name, from, to, kids) ==
    Node("transform", <<S(name)>>, <<P("input", S(from)), P("output", S(to))>>, kids)
Pipeline(applies) == Node("pipeline", <<>>, <<>>, applies)
Trim == Apply(<<"trim">>, <<>>, <<>>)
Word == <<"string">>
Modules ==
    "m1" :> Module(<<Declare("t", Word, Word, <<Pipeline(<<Trim>>)>>)>>)
    @@ "m2" :> (<<Import(<<S("m1")>>, <<As("a")>>)>>
                   \o Module(<<Declare("u", Word, Word, <<Pipeline(<<Apply(<<"a", "t">>, <<>>, <<>>)>>)>>)>>))
    @@ "main2" :> <<Document(<<Http, Plain1>>)>>

-----------------------------------------------------------------------------
(* Inputs and templates.                                                   *)
InputProps == <<
    <<>>, <<P("required", B(FALSE))>>, <<P("required", B(FALSE)), P("default", S("s"))>>,
    <<P("required", B(FALSE)), P("default", I(1))>>, <<P("required", B(FALSE)), P("default", Half)>>,
    <<P("default", I(1))>>, <<P("required", I(1))>> >>
InputKinds == <<"string", "bool", "int", "float", "object">>
URLs == <<
    <<"http://h/", "{", "a", "}">>, <<"http://", "{", "a", "}">>, <<"http://h/", "{", "{", "a", "}", "}">>,
    <<"http://h/", "{", "b", "}">>, <<"http://h/", "{", "a">>, <<"http://h/", "a", "}">>,
    <<"{", "a", "}">>, <<"http://">>, <<>> >>

Input(name, kind, props) == Node("input", <<S(name)>>, <<Type(<<kind>>)>> \o props, <<>>)

-----------------------------------------------------------------------------
(* Sources: sessions and workflows, in both modes.                         *)
Step(name, args, props) == Node(name, args, props, <<>>)
Timeout(n) == P("timeout-ms", I(n))
Steps == <<
    Step("click", <<S("p")>>, <<>>), Step("click", <<S("p >> q")>>, <<>>), Step("click", <<S("]")>>, <<>>),
    Step("click", <<>>, <<>>), Step("fill", <<S("p"), S("v")>>, <<Timeout(1)>>),
    Step("press", <<S("p"), S("Enter")>>, <<Timeout(0)>>), Step("press", <<S("p")>>, <<Timeout(9)>>),
    Step("scroll", <<I(0), Half>>, <<>>), Step("scroll", <<I(0), S("v")>>, <<>>),
    Step("wait-for", <<S("p")>>, <<P("state", S("hidden"))>>),
    Step("wait-for", <<S("p")>>, <<P("state", S("ready"))>>), Step("wait-for", <<S("p")>>, <<>>),
    Step("wait-for-network-idle", <<>>, <<P("idle-ms", I(0))>>),
    Step("wait-for-network-idle", <<>>, <<P("idle-ms", I(1)), Timeout(2)>>),
    Step("evaluate-js", <<S("js")>>, <<>>), Step("hover", <<S("p")>>, <<>>)>>
Sessions == << <<>>, <<S("none")>>, <<S("optional")>>, <<S("required")>>, <<S("always")>> >>
Session(i) == IF Sessions[i] = <<>> THEN <<>>
              ELSE <<Node("session", <<>>, <<P("policy", Sessions[i][1])>>, <<>>)>>
Modes == <<"http", "browser", "file">>

-----------------------------------------------------------------------------
(* Fields.                                                                 *)
Texts == <<
    <<"string">>, <<"string", "?">>, <<"string", "[]">>, <<"string", "[]", "?">>, <<"int">>, <<"i8">>,
    <<"float">>, <<"bool">>, <<"object">>, <<"unknown">>, <<"(", "int", ")">>, <<"string", "?", "?">>, <<"date">>,
    <<"int", "?">>, <<"f32", "[]">>, <<"unknown", "?">> >>
FieldProps == <<
    <<>>, <<P("required", B(TRUE))>>, <<P("default", S("d"))>>, <<P("default", I(1))>>,
    <<P("default", Half)>>, <<P("default", Null)>>, <<P("default", B(TRUE))>>,
    <<P("required", B(TRUE)), P("default", S("d"))>>, <<P("title", S("a"))>> >>
Policies1 == << <<>>, <<S("fail")>>, <<S("null")>>, <<S("warn")>>, <<S("default")>>, <<S("ignore")>>, <<I(1)>> >>
OnError1(i) == IF Policies1[i] = <<>> THEN <<>> ELSE <<Leaf("on-error", Policies1[i])>>

Evaluate(scope, returns, props) ==
    Node("evaluate-js", <<S("js")>>, <<P("scope", S(scope)), P("returns", S(returns))>> \o props, <<>>)
Values == <<
    <<Text1>>, <<Leaf("value", <<S("html")>>)>>, <<Leaf("value", <<S("attr")>>)>>,
    <<Node("value", <<S("attr")>>, <<P("name", S("href"))>>, <<>>)>>, <<Leaf("value", <<S("style")>>)>>,
    <<Evaluate("document", Word, <<>>)>>, <<Evaluate("current", Word, <<Timeout(1)>>)>>,
    <<Evaluate("page", Word, <<>>)>>, <<Evaluate("document", <<"date">>, <<>>)>>,
    <<Evaluate("document", Word, <<Timeout(0)>>)>>, <<>>, <<Text1, Evaluate("document", Word, <<>>)>> >>
Selects1 == <<
    <<>>, <<Select("p")>>, <<Select("p >> q")>>, <<Select("]")>>, <<Select("p"), Select("q")>>,
    <<Node("select", <<S("p")>>, <<P("match", S("first"))>>, <<>>)>>,
    <<Node("select", <<S("p")>>, <<P("match", S("all"))>>, <<>>)>> >>

Collection(props, kids) == Node("collection", <<S("g")>>, props, <<Select("li")>> \o kids)

-----------------------------------------------------------------------------
(* Calls of built-ins, by what their arguments get wrong.                  *)
Bare(name) == Apply(<<name>>, <<>>, <<>>)
With(name, props) == Apply(<<name>>, <<>>, props)
Big == 100
Calls == <<
    Bare("trim"), With("trim", <<P("value", S("v"))>>), Apply(<<"trim">>, <<S("v")>>, <<>>),
    With("append", <<P("value", S("v"))>>), Bare("append"), With("append", <<P("value", I(1))>>),
    With("append", <<P("value", S("v")), P("value", S("v"))>>),
    With("replace", <<P("old", S("o")), P("new", S("n"))>>),
    With("replace", <<P("old", S("o")), P("new", S("n")), P("count", I(Big))>>),
    With("replace", <<P("old", S("o")), P("new", S("n")), P("count", I(0 - 1))>>),
    With("regex-replace", <<P("pattern", S(".")), P("replacement", S("r")), P("flags", S(<<"i", "m">>))>>),
    With("regex-replace", <<P("pattern", S(".")), P("replacement", S("r")), P("flags", S(<<"U">>))>>),
    With("regex-replace", <<P("pattern", S(".")), P("replacement", S("r")), P("flags", S(<<"i", "i">>))>>),
    With("regex-capture", <<P("pattern", S("(.)")), P("group", I(1))>>),
    With("regex-capture", <<P("pattern", S(".")), P("group", I(1))>>),
    With("regex-capture", <<P("pattern", S("("))>>), With("regex-capture", <<P("pattern", S("."))>>),
    With("substring", <<P("start", I(0)), P("end", I(0 - 1))>>), With("substring", <<P("end", I(1))>>),
    With("split", <<P("separator", S("s")), P("limit", I(2))>>), Bare("split"),
    With("join", <<P("separator", S("s"))>>),
    With("parse-int", <<P("as", S(<<"int">>))>>), With("parse-int", <<P("as", S(<<"u8">>)), P("radix", I(0))>>),
    With("parse-int", <<P("as", S(<<"u8">>)), P("radix", I(36))>>),
    With("parse-int", <<P("as", S(<<"i8">>)), P("radix", I(37))>>),
    With("parse-int", <<P("as", S(<<"float">>))>>), With("parse-int", <<P("as", S(<<"(", "int", ")">>))>>),
    With("parse-float", <<P("as", S(<<"f32">>))>>), With("parse-float", <<P("as", S(<<"(", "float", ")">>))>>),
    Bare("parse-bool"), With("parse-bool", <<P("true", S("v")), P("false", S("v"))>>),
    Bare("to-string"), Bare("empty-to-null"),
    With("coalesce", <<P("value", S("v"))>>), With("coalesce", <<P("value", I(1))>>),
    With("coalesce", <<P("value", Null)>>), Bare("coalesce"),
    With("url-resolve", <<P("base", S("http://b"))>>), With("url-resolve", <<P("base", S("b"))>>),
    With("url-query", <<P("name", S("n"))>>), With("url-query", <<P("name", S("n")), P("index", I(0))>>),
    Bare("url-path"), With("path-segment", <<P("index", I(0 - 1))>>),
    With("assert-matches", <<P("pattern", S("."))>>), Apply(<<"assert-enum">>, <<S("v")>>, <<>>),
    Apply(<<"assert-enum">>, <<I(1)>>, <<>>), Bare("assert-enum"),
    With("assert-min", <<P("value", I(1))>>), With("assert-max", <<P("value", Half)>>),
    Apply(<<"a", "t">>, <<>>, <<>>), Bare("t"), Node("apply", <<I(1)>>, <<>>, <<>>),
    Node("apply", <<>>, <<>>, <<>>)>>

-----------------------------------------------------------------------------
(* Declared transforms.                                                    *)
Case(when, then) == Leaf("case", <<when, then>>)
Matched(cases) == Node("match", <<>>, <<>>, cases)
Otherwise(v) == Leaf("default", <<v>>)
External(props) == Node("external", <<>>, props, <<>>)
Bodies1 == <<
    Pipeline(<<Trim>>), Pipeline(<<>>), Pipeline(<<Bare("u")>>), Pipeline(<<Bare("t")>>),
    Pipeline(<<Trim, With("parse-int", <<P("as", S(<<"int">>))>>)>>),
    Matched(<<Otherwise(S("d"))>>), Matched(<<Case(S("w"), S("v")), Otherwise(Null)>>),
    Matched(<<Case(S("w"), I(1)), Otherwise(I(2))>>), Matched(<<Case(S("w"), I(1)), Otherwise(S("d"))>>), Matched(<<Case(S("w"), I(1)), Otherwise(Half)>>),
    Matched(<<Case(S("w"), S("v")), Case(S("w"), S("z")), Otherwise(S("d"))>>),
    Matched(<<Case(S("w"), S("v"))>>), Matched(<<Leaf("case", <<S("w")>>), Otherwise(S("d"))>>),
    Matched(<<Case(S("w"), B(TRUE)), Otherwise(B(FALSE))>>), Matched(<<Case(Null, S("v")), Otherwise(S("d"))>>),
    External(<<P("symbol", S("host"))>>), External(<<>>), External(<<P("symbol", S(""))>>)>>
Types2 == << Word, <<"int">>, <<"string", "?">>, <<"bool">>, <<"unknown">>, <<"string", "[]">>, <<"date">>, <<"f32">> >>
Names == <<"t", "trim", "T">>

-----------------------------------------------------------------------------
(* Collections.                                                            *)
CollectionProps == <<
    <<>>, <<P("required", B(TRUE))>>, <<P("min-items", I(2)), P("max-items", I(1))>>,
    <<P("required", B(TRUE)), P("max-items", I(0))>>, <<P("max-items", I(1))>>,
    <<P("on-row-error", S("skip"))>>, <<P("on-row-error", S("stop"))>> >>
Rows == <<
    <<>>, <<Plain1>>, <<Field("f", <<Type(Word)>>, <<Text1>>)>>,
    <<Field("f", <<Type(Word), P("required", B(TRUE))>>, <<Text1>>)>>,
    <<Field("f", <<Type(Word)>>, <<Evaluate("current", Word, <<>>)>>)>>,
    <<Field("f", <<Type(Word)>>, <<Select("q"), Evaluate("current", Word, <<>>)>>)>>,
    <<Plain1, Plain1>>, <<Collection(<<>>, <<Plain1>>)>>, <<Leaf("note", <<>>)>> >>
SourceOf(mode) == IF mode = "http" THEN Http ELSE Browser(<<>>)

-----------------------------------------------------------------------------
(* The number of variations of each part of a family.                      *)
Tuples(name, a, b, c, d) ==
    {<<name, i, j, k, l>> : i \in 1..a, j \in 1..b, k \in 1..c, l \in 1..d}

MCCorpus ==
    Tuples("header", Len(Headers), Len(RootArgs), 1, 1)
    \cup Tuples("import", Len(ImportLists), Len(Uses), 1, 1)
    \cup Tuples("input", Len(InputKinds), Len(InputProps), Len(URLs), 1)
    \cup Tuples("inputs", Len(InputKinds), Len(InputKinds), 1, 1)
    \cup Tuples("source", 3, Len(Sessions), Len(Steps) + 1, 1)
    \cup Tuples("typed", Len(Texts), Len(FieldProps), Len(Policies1), 1)
    \cup Tuples("scripted", Len(Texts), Len(Texts), 1, 1)
    \cup Tuples("read", Len(Values), Len(Selects1), 2, 2)
    \cup Tuples("call", Len(Texts), Len(Calls), 1, 1)
    \cup Tuples("calls", Len(Calls), Len(Calls), 1, 1)
    \cup Tuples("transform", Len(Types2), Len(Types2), Len(Bodies1), 1)
    \cup Tuples("named", Len(Names), Len(Bodies1), Len(Bodies1), 1)
    \cup Tuples("collection", Len(CollectionProps), Len(Rows), 2, 1)

MCWritten(c) ==
    CASE c[1] = "header" ->
            "main" :> <<Node("extractor", RootArgs[c[3]], Headers[c[2]], <<Http, Plain1>>)>>
      [] c[1] = "import" ->
            "main" :> Append(ImportLists[c[2]],
                             Document(<<Http, Field("f", <<Type(Word)>>, <<Select("p"), Text1,
                                                      Apply(Uses[c[3]], <<>>, <<>>)>>)>>)) @@ Modules
      [] c[1] = "input" ->
            Single(<<Input("a", InputKinds[c[2]], InputProps[c[3]]),
                     Source(Fetch("http", URLs[c[4]]), <<>>), Plain1>>)
      [] c[1] = "inputs" ->
            Single(<<Input("a", InputKinds[c[2]], <<>>), Input("a", InputKinds[c[3]], <<>>), Http, Plain1>>)
      [] c[1] = "source" ->
            Single(<<Source(Fetch(Modes[c[2]], <<"http://h/">>),
                            Session(c[3]) \o IF c[4] > Len(Steps) THEN <<>>
                                             ELSE <<Node("workflow", <<>>, <<>>, <<Steps[c[4]]>>)>>), Plain1>>)
      [] c[1] = "typed" ->
            Single(<<Http, Field("f", <<Type(Texts[c[2]])>> \o FieldProps[c[3]],
                                 <<Select("p"), Text1>> \o OnError1(c[4]))>>)
      [] c[1] = "scripted" ->
            Single(<<Browser(<<>>), Field("f", <<Type(Texts[c[2]])>>, <<Script(Texts[c[3]])>>)>>)
      [] c[1] = "read" ->
            LET field == Field("f", <<Type(Word)>>, Selects1[c[3]] \o Values[c[2]])
            IN  Single(<<SourceOf(Modes[c[4]]),
                         IF c[5] = 1 THEN field ELSE Collection(<<>>, <<field>>)>>)
      [] c[1] = "call" ->
            Single(<<Browser(<<>>), Field("f", <<Type(<<"unknown">>)>>, <<Script(Texts[c[2]]), Calls[c[3]]>>)>>)
      [] c[1] = "calls" ->
            Single(<<Http, Field("f", <<Type(<<"unknown", "?">>)>>,
                                 <<Select("p"), Text1, Calls[c[2]], Calls[c[3]]>>)>>)
      [] c[1] = "transform" ->
            Single(<<Http, Declare("t", Types2[c[2]], Types2[c[3]], <<Bodies1[c[4]]>>),
                     Field("f", <<Type(<<"unknown", "?">>)>>, <<Select("p"), Text1, Bare("t")>>)>>)
      [] c[1] = "named" ->
            Single(<<Http, Declare(Names[c[2]], Word, Word, <<Bodies1[c[3]]>>),
                     Declare("u", Word, Word, <<Bodies1[c[4]]>>),
                     Field("f", <<Type(Word), P("required", B(TRUE))>>, <<Select("p"), Text1, Bare("t")>>)>>)
      [] c[1] = "collection" ->
            Single(<<SourceOf(Modes[c[4]]), Collection(CollectionProps[c[2]], Rows[c[3]])>>)

-----------------------------------------------------------------------------
(* A host that has everything, and hosts that lack one thing.              *)
Host(entry) ==
    [entry |-> entry, browser |-> TRUE, javascript |-> TRUE, session |-> TRUE, forbidden |-> FALSE,
     canceled |-> FALSE, externals |-> {"host"}, inputs |-> <<>>]

Widest == 2 * HalfRange["i64"]
Given1 ==
    {S("s"), <<"bool">>, <<"decimal", 1>>}
        \cup {<<k, h>> : k \in {"int64", "number"}, h \in {2, Widest - 2}}
        \cup {<<"float64", h>> : h \in {1, 2, -Widest, Widest}} \cup {<<"number", Widest>>}

MCRequests ==
    LET host == Host("extract")
    IN  {Host(e) : e \in {"extract", "html", "snapshot"}}
        \cup {[host EXCEPT !.browser = FALSE], [host EXCEPT !.javascript = FALSE],
              [host EXCEPT !.session = FALSE], [host EXCEPT !.forbidden = TRUE],
              [host EXCEPT !.externals = {}], [Host("html") EXCEPT !.canceled = TRUE],
              [Host("snapshot") EXCEPT !.canceled = TRUE, !.externals = {}]}
        \cup {[host EXCEPT !.inputs = "a" :> v] : v \in Given1}
        \cup {[host EXCEPT !.inputs = "b" :> S("s")]}

MCAnswers ==
    {Nil, <<"string">>, <<"bool">>, <<"object">>, <<"number", 1>>, <<"number", 2>>, <<"number", 500>>,
     <<"strings">>, <<"list", {Nil}>>, <<"list", {<<"number", 1>>}>>, <<"i64">>, <<"nonfinite">>,
     <<"unsupported">>}
=============================================================================
