------------------------------ MODULE Compiler ------------------------------
(***************************************************************************)
(* The semantic compiler (internal/compiler): documents in, the IR or a    *)
(* set of diagnostics out.  A program is a function from the paths of its  *)
(* documents to their top-level nodes; imports are acyclic and every path  *)
(* is there (ImportLoader models loading).  Diagnostics are codes, without *)
(* place or wording.  The IR is built only of documents without flaws.     *)
(***************************************************************************)
EXTENDS BuiltIns

CONSTANTS
    Main,               \* the path of the entry document
    Remote,             \* import paths that are not relative
    LanguageVersion,    \* the one that is supported
    IRVersion,
    MaxMilliseconds     \* limits.MaxMilliseconds, in halves, scaled down

ASSUME CompilerAssumption == LanguageVersion \in Dates /\ MaxMilliseconds \in Nat

Panic == "!panic"       \* not a diagnostic: the compiler panics
Named(nodes, names) == SelectSeq(nodes, LAMBDA n : n.name \in names)
Default(value, default) == IF value = None THEN default ELSE value

-----------------------------------------------------------------------------
(* Documents: imports, the root and its header, declared transforms.       *)
Roots(doc) == Named(doc, {"extractor", "module"})
Root(doc) == Roots(doc)[1]
Imports(doc) == Named(doc, {"import"})
Alias(n) == StringProperty(n, "as")
Path(n) == StringArgument(n, 1)
Followed(n) == Path(n) \notin {None} \cup Remote /\ Alias(n) \notin {None, ""}

(* An earlier import of the document has the alias of the i-th.            *)
AliasTaken(doc, i) ==
    \E j \in 1..(i - 1) : Followed(Imports(doc)[j]) /\ Alias(Imports(doc)[j]) = Alias(Imports(doc)[i])

Loaded(doc) ==
    {Imports(doc)[i] : i \in {j \in DOMAIN Imports(doc) : Followed(Imports(doc)[j]) /\ ~AliasTaken(doc, j)}}

ImportFlaws(doc, i) ==
    LET n == Imports(doc)[i]
    IN  ValidateNode(n, {1}, [as |-> "string"])
        \cup IF Path(n) = None THEN {"E_TYPE_MISMATCH"}
             ELSE IF Alias(n) \in {None, ""} THEN {"E_IMPORT_ALIAS_REQUIRED"}
             ELSE Flag(Alias(n) \notin Identifiers, "E_IDENTIFIER_INVALID")
                  \cup IF AliasTaken(doc, i) THEN {"E_DUPLICATE_SYMBOL"}
                       ELSE Flag(Path(n) \in Remote, "E_REMOTE_IMPORT_UNSUPPORTED")

VersionFlaws(root, property, code) ==
    IF ~HasProperty(root, property) THEN {code \o "_REQUIRED"}
    ELSE Flag(StringProperty(root, property) \notin Dates, code \o "_INVALID")

HeaderFlaws(root) ==
    LET language == StringProperty(root, "language-version")
    IN  ValidateNode(root, {1}, [version |-> "scalar"] @@ "language-version" :> "scalar")
        \cup IF StringArgument(root, 1) = None THEN {"E_TYPE_MISMATCH"}
             ELSE NameFlaws(root, RootNames)
                  \cup VersionFlaws(root, "version", "E_DOCUMENT_VERSION")
                  \cup VersionFlaws(root, "language-version", "E_LANGUAGE_VERSION")
                  \cup Flag(language \in Dates \ {LanguageVersion}, "E_LANGUAGE_VERSION_UNSUPPORTED")
                  \cup When(root.name = "module", Others(root, {"transform"}))

Declares(n) == /\ StringArgument(n, 1) # None
               /\ TypeProperty(n, "input") # <<>> /\ TypeProperty(n, "output") # <<>>

(* Some earlier one of the nodes declares the name of the i-th.            *)
Taken(nodes, i, Ok(_)) ==
    \E j \in 1..(i - 1) :
        Ok(nodes[j]) /\ StringArgument(nodes[j], 1) = StringArgument(nodes[i], 1)

DeclarationFlaws(decls, i) ==
    LET n == decls[i]
        name == StringArgument(n, 1)
    IN  ValidateNode(n, {1}, [input |-> "string", output |-> "string"])
        \cup NameFlaws(n, Identifiers)
        \cup IF name = None THEN {}
             ELSE Flag(BuiltIn(name), "E_TRANSFORM_SHADOWS_BUILTIN")
                  \cup IF Taken(decls, i, Declares) THEN {"E_DUPLICATE_SYMBOL"}
                       ELSE Flag(~Declares(n), "E_TYPE_UNKNOWN")

DocumentFlaws(doc, kind) ==
    LET rootsAt == {i \in DOMAIN doc : doc[i].name # "import"}
        decls == NamedIn(Root(doc), {"transform"})
    IN  Flag(\E i \in rootsAt, j \in DOMAIN doc \ rootsAt : i < j, "E_DOCUMENT_ROOT")
        \cup Flag(Cardinality(rootsAt) > Len(Roots(doc)), "E_UNKNOWN_NODE")
        \cup (UNION {ImportFlaws(doc, i) : i \in DOMAIN Imports(doc)})
        \cup IF Len(Roots(doc)) # 1 THEN {"E_DOCUMENT_ROOT"}
             ELSE Flag(Root(doc).name # kind,
                       IF kind = "module" THEN "E_IMPORT_KIND" ELSE "E_DOCUMENT_ROOT")
                  \cup HeaderFlaws(Root(doc))
                  \cup UNION {DeclarationFlaws(decls, i) : i \in DOMAIN decls}

(* The documents that are loaded: the entry and what it leads to.  No      *)
(* document is more imports away than there are documents.                 *)
ImportedBy(p, paths) == {Path(n) : n \in UNION {Loaded(p[path]) : path \in paths}}

Documents(p) ==
    LET Reached[k \in 0..Cardinality(DOMAIN p)] ==
            IF k = 0 THEN {Main}
            ELSE LET nearer == Reached[k - 1] IN nearer \cup ImportedBy(p, nearer)
    IN  Reached[Cardinality(DOMAIN p)]

LoadFlaws(p) ==
    DocumentFlaws(p[Main], "extractor")
    \cup UNION {DocumentFlaws(p[path], "module") : path \in ImportedBy(p, Documents(p))}

-----------------------------------------------------------------------------
(* Inputs.                                                                 *)
InputTypes == {"string", "bool", "int", "float"}
InputNodes(root) == NamedIn(root, {"input"})
InputType(n) == LET t == StringProperty(n, "type") IN IF t = None \/ Len(t) # 1 THEN "" ELSE t[1]
DeclaresInput(n) == StringArgument(n, 1) # None /\ InputType(n) \in InputTypes

InputFlaws(nodes, i) ==
    LET n == nodes[i]
        kind == Property(n, "default")[1]
    IN  ValidateNode(n, {1}, [type |-> "string", required |-> "bool", default |-> "scalar"])
        \cup NameFlaws(n, Identifiers)
        \cup IF StringArgument(n, 1) = None THEN {}
             ELSE IF Taken(nodes, i, DeclaresInput) THEN {"E_DUPLICATE_SYMBOL"}
             ELSE IF InputType(n) \notin InputTypes THEN {"E_TYPE_UNKNOWN"}
             ELSE IF ~HasProperty(n, "default") THEN {}
             ELSE Flag(BoolProperty(n, "required", TRUE), "E_INPUT_REQUIRED_DEFAULT")
                  \cup Flag(kind # InputType(n) /\ <<kind, InputType(n)>> # <<"int", "float">>,
                            "E_DEFAULT_INVALID")

(* A sequence of the one literal that is the default, or empty.            *)
DefaultLiteral(n) == IF HasProperty(n, "default") THEN <<RawJSON(Property(n, "default"))>> ELSE <<>>

InputIR(n) ==
    [name |-> StringArgument(n, 1), type |-> InputType(n),
     required |-> BoolProperty(n, "required", TRUE), default |-> DefaultLiteral(n)]

-----------------------------------------------------------------------------
(* URL templates: a text is a sequence of tokens, "{" and "}" among them.  *)
(* Scan yields the segments, which are <<"literal", token>> or             *)
(* <<"input", name>>, and the codes of what is wrong.                      *)
Scan(raw) ==
    LET Then(segments, flaws, rest) ==
            [segments |-> segments \o rest.segments, flaws |-> flaws \cup rest.flaws]
        Closing(i) == Min({j \in (i + 1)..Len(raw) : raw[j] = "}"} \cup {Len(raw) + 1})
        From[i \in 1..(Len(raw) + 1)] ==
            IF i > Len(raw) THEN [segments |-> <<>>, flaws |-> {}]
            ELSE IF raw[i] \in {"{", "}"} /\ At(raw, i + 1, {raw[i]})
            THEN Then(<<<<"literal", raw[i]>>>>, {}, From[i + 2])
            ELSE IF raw[i] = "{" /\ Closing(i) > Len(raw)
            THEN Then(<<>>, {"E_TEMPLATE_INVALID"}, From[Len(raw) + 1])
            ELSE IF raw[i] = "{"
            THEN Then(<<<<"input", SubSeq(raw, i + 1, Closing(i) - 1)>>>>, {}, From[Closing(i) + 1])
            ELSE IF raw[i] = "}" THEN Then(<<>>, {"E_TEMPLATE_INVALID"}, From[i + 1])
            ELSE Then(<<<<"literal", raw[i]>>>>, {}, From[i + 1])
    IN  From[1]

(* An absolute http(s) URL: its host is in the first literal, or follows.  *)
Absolute(segments) ==
    segments # <<>> /\ segments[1][1] = "literal"
        /\ \/ segments[1][2] = "http://h/"
           \/ segments[1][2] = "http://" /\ Len(segments) > 1

(* Mutant of PlaceholderFlaws: an optional input may lack a default.       *)
PlaceholderFlawsOptional(name, inputs) ==
    IF Len(name) # 1 \/ name[1] \notin Identifiers THEN {"E_TEMPLATE_INVALID"}
    ELSE Flag(~\E i \in ToSet(inputs) : i.name = name[1], "E_INPUT_UNDECLARED")

PlaceholderFlaws(name, inputs) ==
    IF Len(name) # 1 \/ name[1] \notin Identifiers THEN {"E_TEMPLATE_INVALID"}
    ELSE LET of == {i \in ToSet(inputs) : i.name = name[1]}
         IN  Flag(of = {}, "E_INPUT_UNDECLARED")
                 \cup Flag(\E i \in of : ~i.required /\ i.default = <<>>,
                           "E_TEMPLATE_OPTIONAL_INPUT")

TemplateFlaws(raw, inputs) ==
    LET t == Scan(raw)
    IN  t.flaws
        \cup Flag(~Absolute(t.segments), "E_TEMPLATE_INVALID")
        \cup UNION {PlaceholderFlaws(s[2], inputs) :
                        s \in {t.segments[i] : i \in {j \in DOMAIN t.segments :
                                                        t.segments[j][1] = "input"}}}

-----------------------------------------------------------------------------
(* The source: fetch, session, workflow.                                   *)
DurationFlaws(n, name) ==
    LET ms == IntProperty(n, name)
    IN  Flag(ms # None /\ ms \notin 2..MaxMilliseconds, "E_TYPE_MISMATCH")

Selecting == {"wait-for", "click", "fill", "press"}
Arity == [s \in {"wait-for", "click", "evaluate-js"} |-> 1]
            @@ [s \in {"fill", "press", "scroll"} |-> 2] @@ "wait-for-network-idle" :> 0
StepProperties(step) ==
    CASE step = "scroll" -> NoProperties
      [] step = "wait-for" -> "timeout-ms" :> "non-negative-int" @@ [state |-> "string"]
      [] step = "wait-for-network-idle" -> [x \in {"idle-ms", "timeout-ms"} |-> "non-negative-int"]
      [] OTHER -> "timeout-ms" :> "non-negative-int"
WaitStates == {"attached", "visible", "hidden", "detached"}
State(n) == TextOr(StringProperty(n, "state"), "visible")

StepFlaws(n) ==
    IF n.name \notin DOMAIN Arity THEN {"E_UNKNOWN_NODE"}
    ELSE ValidateNode(n, {Arity[n.name]}, StepProperties(n.name))
         \cup When(n.name \in Selecting, CheckSelector(StringArgument(n, 1)))
         \cup Flag(n.name = "wait-for" /\ State(n) \notin WaitStates, "E_TYPE_MISMATCH")
         \cup Flag(n.name = "scroll" /\ \E i \in {1, 2} : i > Len(n.args) \/ n.args[i][1] \notin Numbers,
                   "E_TYPE_MISMATCH")
         \cup When(n.name # "scroll", DurationFlaws(n, "timeout-ms"))
         \cup When(n.name = "wait-for-network-idle", DurationFlaws(n, "idle-ms"))

StepIR(n) ==
    [kind |-> n.name,
     selector |-> IF n.name \in Selecting THEN StringArgument(n, 1) ELSE None,
     state |-> IF n.name = "wait-for" THEN State(n) ELSE None,
     timeout |-> IntProperty(n, "timeout-ms"),
     idle |-> Default(IntProperty(n, "idle-ms"), 2)]

StepCapability(kind) ==
    IF kind = "evaluate-js" THEN <<"browser.evaluate-js">>
    ELSE IF kind \in {"click", "fill", "press"} THEN <<"browser.input">>
    ELSE IF kind = "wait-for" THEN <<"browser.wait">>
    ELSE IF kind = "scroll" THEN <<"browser.scroll">>
    ELSE <<"browser.network-idle">>

SourceNode(root) == NamedIn(root, {"source"})[1]
FetchNode(root) == NamedIn(SourceNode(root), {"fetch"})[1]
Mode(root) == StringProperty(FetchNode(root), "mode")
URL(n) == LET url == StringProperty(n, "url") IN IF url = None THEN <<>> ELSE url
(* The mode that fields are compiled for: that of the first fetch.         *)
OwnerMode(root) ==
    LET sources == NamedIn(root, {"source"})
        fetches == FlattenSeq([i \in DOMAIN sources |-> NamedIn(sources[i], {"fetch"})])
    IN  IF fetches = <<>> THEN None ELSE StringProperty(fetches[1], "mode")

Policies == {"none", "optional", "required"}

FetchFlaws(n, inputs) ==
    ValidateNode(n, {0}, [mode |-> "string", url |-> "string"])
    \cup Flag(StringProperty(n, "mode") \notin {"http", "browser"}, "E_TYPE_MISMATCH")
    \cup TemplateFlaws(URL(n), inputs)

SessionFlaws(n) ==
    ValidateNode(n, {0}, [policy |-> "string"])
    \cup Flag(StringProperty(n, "policy") \notin Policies, "E_TYPE_MISMATCH")

WorkflowFlaws(n) == ValidateNode(n, {0}, NoProperties) \cup UnionOf(StepFlaws, n.kids)

SourceFlaws(root, inputs) ==
    LET sources == NamedIn(root, {"source"})
        n == SourceNode(root)
        fetches == NamedIn(n, {"fetch"})
        sessions == NamedIn(n, {"session"})
        workflows == NamedIn(n, {"workflow"})
        browser == Len(fetches) = 1 /\ Mode(root) = "browser"
    IN  IF Len(sources) # 1 THEN {"E_DOCUMENT_ROOT"}
        ELSE ValidateNode(n, {1}, NoProperties)
             \cup Flag(StringArgument(n, 1) # "html", "E_TYPE_MISMATCH")
             \cup Others(n, {"fetch", "session", "workflow"})
             \cup Flag(Len(fetches) # 1 \/ Len(sessions) > 1 \/ Len(workflows) > 1,
                       "E_DOCUMENT_ROOT")
             \cup When(Len(fetches) = 1, FetchFlaws(fetches[1], inputs))
             \cup When(sessions # <<>>, SessionFlaws(sessions[1]))
             \cup When(workflows # <<>>, Flag(~browser, "E_BROWSER_CAPABILITY_REQUIRED")
                                           \cup WorkflowFlaws(workflows[1]))

SourceIR(root) ==
    LET n == SourceNode(root)
        sessions == NamedIn(n, {"session"})
        workflows == NamedIn(n, {"workflow"})
        steps == IF workflows = <<>> THEN <<>> ELSE workflows[1].kids
    IN  [kind |-> "html", mode |-> Mode(root),
         template |-> Scan(URL(FetchNode(root))).segments,
         session |-> IF sessions = <<>> THEN "none" ELSE StringProperty(sessions[1], "policy"),
         workflow |-> [i \in DOMAIN steps |-> StepIR(steps[i])]]

-----------------------------------------------------------------------------
(* Calls.  The name of a transform is the sequence of its parts; a         *)
(* declared one is known by the document and the name it is declared with. *)
Declared(p, path) ==
    LET decls == NamedIn(Root(p[path]), {"transform"})
        Has(n) == StringArgument(n, 1)
    IN  [name \in {Has(decls[i]) : i \in DOMAIN decls} |->
            LET n == CHOOSE d \in ToSet(decls) : Has(d) = name
            IN  [node |-> n, input |-> TypeProperty(n, "input")[1],
                 output |-> TypeProperty(n, "output")[1]]]

(* The symbol that parts of a name denote in a document: <<path, name>>,   *)
(* or <<>> when there is none.                                             *)
Resolve(p, path, parts) ==
    LET imported == {n \in ToSet(Imports(p[path])) : Len(parts) = 2 /\ Alias(n) = parts[1]}
        where == IF Len(parts) = 1 THEN {path} ELSE {Path(n) : n \in imported}
        symbols == {<<w, parts[Len(parts)]>> : w \in {x \in where :
                                    parts[Len(parts)] \in DOMAIN Declared(p, x)}}
    IN  IF parts # <<>> /\ symbols # {} THEN CHOOSE s \in symbols : TRUE ELSE <<>>

BuiltInFlaws(n, input, name) ==
    LET props == {q.name : q \in ToSet(n.props)}
    IN  ValidateNode(n, 1..Len(n.args), Allowed[name])
        \cup Flag(~(Required(name) \subseteq props), "E_TRANSFORM_ARGUMENT")
        \cup Flag(~Positional(name, Len(n.args) - 1), "E_TRANSFORM_ARGUMENT")
        \cup ValidateBuiltinArguments(name, input, n)
        \cup Flag(ApplyBuiltin(name, input, n) = <<>>, "E_TRANSFORM_TYPE_MISMATCH")

(* A call and what is wrong with it, given the type that reaches it.       *)
Call(target, n, input, output) ==
    [target |-> target, input |-> input, output |-> output,
     positional |-> [i \in 1..(Len(n.args) - 1) |-> RawJSON(n.args[i + 1])],
     named |-> [i \in DOMAIN n.props |->
                    [name |-> n.props[i].name, value |-> RawJSON(n.props[i].value)]]]

Refused(input, flaws) == [call |-> <<>>, type |-> input, flaws |-> flaws]

(* A call of a built-in whose result type is out, or that cannot be typed. *)
CompileBuiltIn(n, name, input, out) ==
    LET type == IF out = <<>> THEN input ELSE out[1]
    IN  [call |-> Call([kind |-> "builtin", name |-> name], n, input, type),
         type |-> type, flaws |-> BuiltInFlaws(n, input, name)]

CompileDeclared(n, symbol, input, d) ==
    [call |-> Call([kind |-> "declared", symbol |-> symbol], n, input, d.output),
     type |-> d.output,
     flaws |-> Flag(Len(n.args) > 1 \/ n.props # <<>>, "E_TRANSFORM_ARGUMENT")
               \cup Flag(~IsAssignable(input, d.input), "E_TRANSFORM_TYPE_MISMATCH")]

CompileNamed(p, n, parts, symbol, input) ==
    IF Len(parts) = 1 /\ BuiltIn(parts[1])
    THEN CompileBuiltIn(n, parts[1], input, ApplyBuiltin(parts[1], input, n))
    ELSE IF symbol = <<>> THEN Refused(input, {"E_TRANSFORM_UNKNOWN"})
    ELSE CompileDeclared(n, symbol, input, Declared(p, symbol[1])[symbol[2]])

CompileTransformCall(p, path, n, input) ==
    LET parts == Default(StringArgument(n, 1), <<>>)
    IN  IF n.args = <<>> THEN Refused(input, {"E_ARGUMENT_COUNT", Panic})
        ELSE CompileNamed(p, n, parts, Resolve(p, path, parts), input)

(* The calls of a chain, the type at its end, and the flaws on the way.    *)
Extended(chain, c) ==
    [calls |-> Append(chain.calls, c.call), type |-> c.type, flaws |-> chain.flaws \cup c.flaws]

Compiled(p, path, applies, input) ==
    LET Chain[k \in 0..Len(applies)] ==
            IF k = 0 THEN [calls |-> <<>>, type |-> input, flaws |-> {}]
            ELSE Extended(Chain[k - 1], CompileTransformCall(p, path, applies[k], Chain[k - 1].type))
    IN  Chain

CompileCalls(p, path, applies, input) ==
    Compiled(p, path, applies, input)[Len(applies)]

-----------------------------------------------------------------------------
(* Declared transforms: a pipeline, a match or an external function.       *)
Bodies(n) == NamedIn(n, {"pipeline", "match", "external"})
Applies(n) == NamedIn(n, {"apply"})

ChainFlaws(chain, type, code) == chain.flaws \cup Flag(~IsAssignable(chain.type, type), code)

PipelineFlaws(p, path, d, body) ==
    ValidateNode(body, {0}, NoProperties)
    \cup Others(body, {"apply"})
    \cup Flag(Applies(body) = <<>>, "E_ARGUMENT_COUNT")
    \cup ChainFlaws(CompileCalls(p, path, Applies(body), d.input), d.output,
                    "E_TRANSFORM_TYPE_MISMATCH")

CaseFlaws(d, case) ==
    ValidateNode(case, {2}, NoProperties)
    \cup Flag(/\ Len(case.args) >= 2
              /\ \/ ~IsValueAssignable(case.args[1], d.input)
                 \/ ~IsValueAssignable(case.args[2], d.output), "E_TYPE_MISMATCH")

DefaultFlaws(d, default) ==
    ValidateNode(default, {1}, NoProperties)
    \cup Flag(default.args # <<>> /\ ~IsValueAssignable(default.args[1], d.output),
              "E_TYPE_MISMATCH")

Cases(body) == NamedIn(body, {"case"})

MatchFlaws(d, body) ==
    LET cases == SelectSeq(Cases(body), LAMBDA c : Len(c.args) >= 2)
        defaults == NamedIn(body, {"default"})
    IN  ValidateNode(body, {0}, NoProperties)
        \cup Others(body, {"case", "default"})
        \cup Flag(~IsScalar(d.input) \/ ~IsScalar(d.output), "E_TRANSFORM_TYPE_MISMATCH")
        \cup UnionOf(LAMBDA c : CaseFlaws(d, c), Cases(body))
        \cup Flag(\E i, j \in DOMAIN cases :
                      i # j /\ RawJSON(cases[i].args[1]) = RawJSON(cases[j].args[1]),
                  "E_MATCH_DUPLICATE_CASE")
        \cup UnionOf(LAMBDA c : DefaultFlaws(d, c), defaults)
        \cup Flag(Len(defaults) # 1, "E_MATCH_DEFAULT")

ExternalFlaws(body) ==
    ValidateNode(body, {0}, [symbol |-> "string"])
    \cup Flag(StringProperty(body, "symbol") \in {None, ""}, "E_EXTERNAL_TRANSFORM_MISSING")

TransformFlaws(p, path, d) ==
    LET body == Bodies(d.node)[1]
    IN  Others(d.node, {"pipeline", "match", "external"})
        \cup IF Len(Bodies(d.node)) # 1 THEN {"E_DOCUMENT_ROOT"}
             ELSE IF body.name = "pipeline" THEN PipelineFlaws(p, path, d, body)
             ELSE IF body.name = "match" THEN MatchFlaws(d, body) ELSE ExternalFlaws(body)

TransformIR(p, path, name, d) ==
    LET body == Bodies(d.node)[1]
        cases == Cases(body)
    IN  [kind |-> body.name, symbol |-> <<path, name>>, input |-> d.input, output |-> d.output,
         calls |-> IF body.name = "pipeline"
                   THEN CompileCalls(p, path, Applies(body), d.input).calls ELSE <<>>,
         cases |-> [i \in DOMAIN cases |->
                       [when |-> RawJSON(cases[i].args[1]), then |-> RawJSON(cases[i].args[2])]],
         default |-> IF body.name = "match"
                     THEN RawJSON(NamedIn(body, {"default"})[1].args[1]) ELSE None,
         external |-> StringProperty(body, "symbol")]

(* The transforms of all documents.  The order they are listed in, those   *)
(* of a document after those it imports, is left out: a set.               *)
Transforms(p) ==
    UNION {{TransformIR(p, path, name, Declared(p, path)[name]) : name \in DOMAIN Declared(p, path)} :
               path \in Documents(p)}

-----------------------------------------------------------------------------
(* The output: fields and collections, in a row or not.                    *)
FieldType(n) ==
    LET t == TypeProperty(n, "type") IN IF t = <<>> THEN Primitive("unknown") ELSE t[1]
IsRequired(n) == BoolProperty(n, "required", FALSE)
EffectiveType(n) ==
    IF IsRequired(n) \/ HasProperty(n, "default") THEN FieldType(n) ELSE Nullable(FieldType(n))
Sources(n) == NamedIn(n, {"value", "evaluate-js"})
Selects(n) == NamedIn(n, {"select"})
Match(n) == TextOr(StringProperty(n, "match"), "one")

OnErrors == {"fail", "null", "warn", "default"}
OnError(n) ==
    LET nodes == NamedIn(n, {"on-error"})
        given == IF nodes = <<>> THEN None ELSE StringArgument(nodes[1], 1)
    IN  IF given \in OnErrors THEN given ELSE IF IsRequired(n) THEN "fail" ELSE "null"

(* What a field reads: a script when it has one; an unknown kind of value  *)
(* is reported, and a text.                                                *)
Evals(n) == NamedIn(n, {"evaluate-js"})
Kind(n) ==
    LET values == NamedIn(n, {"value"})
        given == IF values = <<>> THEN None ELSE StringArgument(values[1], 1)
    IN  IF Evals(n) # <<>> THEN "javascript"
        ELSE IF given \in {"html", "attr"} THEN given ELSE "text"

(* The type that is read; a script declares the one it returns.            *)
Returns(v) ==
    LET t == TypeProperty(v, "returns") IN IF t = <<>> THEN Primitive("unknown") ELSE t[1]
RawType(n) == IF Evals(n) = <<>> THEN Primitive("string") ELSE Returns(Evals(n)[1])

ValueFlaws(n, v, inRow) ==
    LET kind == StringArgument(v, 1)
    IN  ValidateNode(v, {1}, IF kind = "attr" THEN [name |-> "string"] ELSE NoProperties)
        \cup Flag(Selects(n) = <<>> /\ ~inRow, "E_SELECTOR_REQUIRED")
        \cup Flag(kind \notin {"text", "html", "attr"}, "E_TYPE_MISMATCH")
        \cup Flag(kind = "attr" /\ StringProperty(v, "name") \in {None, ""},
                  "E_ATTRIBUTE_NAME_REQUIRED")

EvaluateFlaws(n, v, inRow, mode) ==
    LET scope == StringProperty(v, "scope")
    IN  ValidateNode(v, {1}, [scope |-> "string", returns |-> "string"]
                                @@ "timeout-ms" :> "non-negative-int")
        \cup Flag(scope \notin {"document", "current"}, "E_TYPE_MISMATCH")
        \cup Flag(TypeProperty(v, "returns") = <<>>, "E_TYPE_UNKNOWN")
        \cup Flag(scope = "document" /\ Selects(n) # <<>>, "E_SELECTOR_FORBIDDEN")
        \cup Flag(scope = "current" /\ Selects(n) = <<>> /\ ~inRow, "E_CURRENT_SCOPE_UNAVAILABLE")
        \cup DurationFlaws(v, "timeout-ms")
        \cup Flag(mode # "browser", "E_BROWSER_CAPABILITY_REQUIRED")

SelectFlaws(select) ==
    ValidateNode(select, {1}, [match |-> "string"])
    \cup CheckSelector(StringArgument(select, 1))
    \cup Flag(Match(select) \notin {"one", "first"}, "E_TYPE_MISMATCH")

PolicyFlaws(n) ==
    LET nodes == NamedIn(n, {"on-error"})
    IN  Flag(Len(nodes) > 1, "E_ARGUMENT_COUNT")
        \cup When(nodes # <<>>,
                  ValidateNode(nodes[1], {1}, NoProperties)
                  \cup Flag(StringArgument(nodes[1], 1) \notin OnErrors, "E_ERROR_POLICY_INVALID"))
        \cup Flag(\/ OnError(n) \in {"null", "warn"} /\ ~IsNullable(EffectiveType(n))
                  \/ OnError(n) = "default" /\ ~HasProperty(n, "default"), "E_ERROR_POLICY_INVALID")

FieldFlaws(p, n, inRow, mode) ==
    LET values == NamedIn(n, {"value"})
    IN  ValidateNode(n, {1}, [type |-> "string", required |-> "bool", default |-> "scalar"])
        \cup NameFlaws(n, Identifiers)
        \cup Flag(StringProperty(n, "type") = None, "E_FIELD_TYPE_REQUIRED")
        \cup Flag(StringProperty(n, "type") # None /\ TypeProperty(n, "type") = <<>>, "E_TYPE_UNKNOWN")
        \cup Flag(HasProperty(n, "default") /\ (\/ IsRequired(n)
                                                \/ ~IsValueAssignable(Property(n, "default"), FieldType(n))),
                  "E_DEFAULT_INVALID")
        \cup Others(n, {"select", "value", "evaluate-js", "on-error", "apply"})
        \cup Flag(Len(Selects(n)) > 1, "E_ARGUMENT_COUNT")
        \cup Flag(Sources(n) = <<>>, "E_VALUE_SOURCE_MISSING")
        \cup Flag(Len(Sources(n)) > 1, "E_VALUE_SOURCE_MULTIPLE")
        \cup When(Selects(n) # <<>>, SelectFlaws(Selects(n)[1]))
        \cup When(values # <<>>, ValueFlaws(n, values[1], inRow))
        \cup When(Evals(n) # <<>>, EvaluateFlaws(n, Evals(n)[1], inRow, mode))
        \cup ChainFlaws(CompileCalls(p, Main, Applies(n), RawType(n)), FieldType(n),
                        "E_TYPE_MISMATCH")
        \cup PolicyFlaws(n)

FieldIR(p, n, id) ==
    LET v == Sources(n)[1]
        select == Selects(n)
    IN  [kind |-> "field", name |-> StringArgument(n, 1), id |-> id,
         success |-> FieldType(n), effective |-> EffectiveType(n),
         required |-> IsRequired(n), default |-> DefaultLiteral(n), onError |-> OnError(n),
         selection |-> IF select = <<>> THEN <<>>
                       ELSE <<[selector |-> StringArgument(select[1], 1), match |-> Match(select[1])]>>,
         source |-> [kind |-> Kind(n), raw |-> RawType(n), name |-> StringProperty(v, "name"),
                     scope |-> StringProperty(v, "scope"), timeout |-> IntProperty(v, "timeout-ms")],
         calls |-> CompileCalls(p, Main, Applies(n), RawType(n)).calls]

(* Numbers of rows, in halves.                                             *)
MinItems(n) ==
    LET min == Default(IntProperty(n, "min-items"), 0)
    IN  IF IsRequired(n) /\ min < 2 THEN 2 ELSE min
OnRow(n) == TextOr(StringProperty(n, "on-row-error"), "fail")

CollectionFlaws(n) ==
    LET max == IntProperty(n, "max-items")
    IN  ValidateNode(n, {1}, [required |-> "bool"] @@ "on-row-error" :> "string"
                                @@ [x \in {"min-items", "max-items"} |-> "non-negative-int"])
        \cup NameFlaws(n, Identifiers)
        \cup Flag(max # None /\ max < MinItems(n), "E_COLLECTION_BOUNDS")
        \cup Flag(OnRow(n) \notin {"fail", "skip"}, "E_TYPE_MISMATCH")
        \cup Others(n, {"select", "field", "collection"})
        \cup IF Len(Selects(n)) # 1 THEN {"E_SELECTOR_REQUIRED"}
             ELSE ValidateNode(Selects(n)[1], {1}, NoProperties)
                  \cup CheckSelector(StringArgument(Selects(n)[1], 1))

CollectionIR(n, id) ==
    [kind |-> "collection", name |-> StringArgument(n, 1), id |-> id,
     selector |-> StringArgument(Selects(n)[1], 1), required |-> IsRequired(n),
     min |-> MinItems(n), max |-> IntProperty(n, "max-items"), onRow |-> OnRow(n)]

(* The output is a tree.  A member is known by its place, the way that     *)
(* leads to it: its index among the members of the root, or of a row, the  *)
(* place of whose collection comes first.  A row has its collection's.     *)
Members(n) == NamedIn(n, {"field", "collection"})
SectionAt(root, at) == FoldLeft(LAMBDA n, i : Members(n)[i], root, at)

(* The places of the objects: the root, and the row of each collection.    *)
Level(root, depth) ==
    LET Rows[k \in 0..depth] ==
            IF k = 0 THEN {<<>>}
            ELSE UNION {LET members == Members(SectionAt(root, at))
                        IN  {Append(at, i) : i \in {j \in DOMAIN members : members[j].name = "collection"}} :
                           at \in Rows[k - 1]}
    IN  Rows[depth]

Sections(root) == UNION {Level(root, k) : k \in 0..MaxNesting}
MembersAt(root, at) == Members(SectionAt(root, at))

SectionFlaws(p, members, inRow, mode) ==
    Flag(Repeated(members), "E_DUPLICATE_SYMBOL")
    \cup UnionOf(LAMBDA m : IF m.name = "field" THEN FieldFlaws(p, m, inRow, mode)
                            ELSE CollectionFlaws(m)
                                 \cup Flag(Members(m) = <<>>, "E_COLLECTION_EMPTY_SCHEMA"), members)

OutputFlaws(p, root, mode) ==
    UNION {SectionFlaws(p, MembersAt(root, at), at # <<>>, mode) : at \in Sections(root)}

OutputIR(p, root) ==
    [at \in Sections(root) |->
        [i \in DOMAIN MembersAt(root, at) |->
            LET m == MembersAt(root, at)[i]
                id == Append(at, i)
            IN  IF m.name = "field" THEN FieldIR(p, m, id) ELSE CollectionIR(m, id)]]

-----------------------------------------------------------------------------
(* What the compiler says the extractor needs.                             *)
NamedMembers(root, name) ==
    UNION {LET members == MembersAt(root, at)
           IN  {members[i] : i \in {j \in DOMAIN members : members[j].name = name}} :
              at \in Sections(root)}
Fields(root) == NamedMembers(root, "field")
Collections(root) == NamedMembers(root, "collection")

FieldCapabilities(n) ==
    IF Kind(n) # "javascript" THEN {<<"browser.query">>, <<"browser.read", Kind(n)>>}
    ELSE {<<"browser.evaluate-js">>} \cup Flag(Selects(n) # <<>>, <<"browser.query">>)

(* Mutant of CompilerCapabilities: collections are forgotten.              *)
CompilerCapabilitiesFields(root, source, transforms) ==
    {IF source.mode = "http" THEN <<"http.fetch">> ELSE <<"browser.navigate">>}
    \cup {StepCapability(source.workflow[i].kind) : i \in DOMAIN source.workflow}
    \cup {<<"transform.external", t.external>> : t \in {x \in transforms : x.kind = "external"}}
    \cup When(source.mode # "http", UNION {FieldCapabilities(f) : f \in Fields(root)})

CompilerCapabilities(root, source, transforms) ==
    CompilerCapabilitiesFields(root, source, transforms)
    \cup Flag(source.mode = "browser" /\ Collections(root) # {}, <<"browser.query">>)

(* Mutant of JavaScriptPresent: scripts of fields are forgotten.           *)
JavaScriptInWorkflow(root, source) ==
    \E i \in DOMAIN source.workflow : source.workflow[i].kind = "evaluate-js"

JavaScriptPresent(root, source) ==
    \/ \E i \in DOMAIN source.workflow : source.workflow[i].kind = "evaluate-js"
    \/ \E f \in Fields(root) : Kind(f) = "javascript"

-----------------------------------------------------------------------------
TopLevel == {"field", "collection", "source", "input", "transform"}

(* Everything that is wrong with a program: what loading reports, or, when *)
(* that is nothing, what the semantic passes report.                       *)
Flaws(p) ==
    LET load == LoadFlaws(p)
        root == Root(p[Main])
        nodes == InputNodes(root)
        declared == SelectSeq(nodes, DeclaresInput)
        inputs == [i \in DOMAIN declared |-> InputIR(declared[i])]
    IN  IF load # {} THEN load
        ELSE (UNION {InputFlaws(nodes, i) : i \in DOMAIN nodes})
             \cup SourceFlaws(root, inputs)
             \cup (UNION {UNION {TransformFlaws(p, path, Declared(p, path)[name]) :
                                    name \in DOMAIN Declared(p, path)} : path \in Documents(p)})
             \cup Others(root, TopLevel)
             \cup OutputFlaws(p, root, OwnerMode(root))

(* The IR of a program without flaws.                                      *)
Extractor(p) ==
    LET root == Root(p[Main])
        source == SourceIR(root)
        transforms == Transforms(p)
        inputs == InputNodes(root)
        files == [path \in Documents(p) |->
                     LET r == Root(p[path])
                         module == r.name = "module"
                     IN  [name |-> IF module THEN StringArgument(r, 1) ELSE None,
                          version |-> IF module THEN StringProperty(r, "version") ELSE None]]
    IN  [kind |-> "extractor", irVersion |-> IRVersion,
         languageVersion |-> StringProperty(root, "language-version"),
         version |-> StringProperty(root, "version"), name |-> StringArgument(root, 1),
         files |-> files, spanFile |-> Main, source |-> source,
         inputs |-> [i \in DOMAIN inputs |-> InputIR(inputs[i])],
         transforms |-> transforms, output |-> OutputIR(p, root),
         capabilities |-> CompilerCapabilities(root, source, transforms)]
=============================================================================
