----------------------------- MODULE Preparation -----------------------------
(***************************************************************************)
(* What the executor makes of an IR before it runs it (internal/executor:  *)
(* prepared.go, executor.go, transforms.go, browser.go), and what every    *)
(* extraction checks before it acquires a document (input.go, template.go).*)
(* The IR is checked anew, by code that shares nothing with the compiler's *)
(* passes; a program is good when the two never disagree.  The errors of   *)
(* one pass are a set of codes; passes keep their order.                   *)
(***************************************************************************)
EXTENDS Compiler

Invalid(wrong) == Flag(wrong, "E_IR_INVALID")
IsSelector(text) == text \in Selectors
ValidType(t) == t \in Types /\ Parse(Text(t)) = <<t>>
ValidDuration(halves) == halves = None \/ halves \in 2..MaxMilliseconds
Kinded(transforms, kind) == {t \in transforms : t.kind = kind}

-----------------------------------------------------------------------------
(* The extractor, its files and its source.                                *)
FileErrors(x) ==
    Invalid(\/ x.files = <<>> \/ x.spanFile \notin DOMAIN x.files
            \/ \E path \in DOMAIN x.files :
                  LET f == x.files[path]
                  IN  \/ (f.name = None) # (f.version = None)
                      \/ f.name # None /\ (f.name \notin RootNames \/ f.version \notin Dates))

StructureErrors(x) ==
    Invalid(\/ x.kind # "extractor" \/ x.irVersion # IRVersion
            \/ x.languageVersion # LanguageVersion
            \/ x.version \notin Dates \/ x.name \notin RootNames)
    \cup FileErrors(x)

SourceErrors(source) ==
    Invalid(\/ source.kind # "html" \/ source.session \notin Policies
            \/ \E s \in ToSet(source.template) : s[1] = "input" /\ s[2] = <<>>)

(* The declared transforms and the calls that reach them.                  *)
DeclarationErrors(x) ==
    Invalid(\/ \E t, u \in x.transforms : t # u /\ t.symbol = u.symbol
            \/ \E e \in Kinded(x.transforms, "external") : e.external \in {None, ""})

DeclaredIn(x, symbol) == {t \in x.transforms : t.symbol = symbol}

SignatureErrors(call) ==
    LET names == {a.name : a \in ToSet(call.named)}
        name == call.target.name
    IN  IF ~BuiltIn(name) THEN {"E_TRANSFORM"}
        ELSE Flag(\/ ~Positional(name, Len(call.positional))
                  \/ ~(names \subseteq DOMAIN Allowed[name])
                  \/ ~(Required(name) \subseteq names), "E_TRANSFORM")

DeclaredErrors(x, call) ==
    LET found == DeclaredIn(x, call.target.symbol)
    IN  Flag(found = {}, "E_TRANSFORM_MISSING")
        \cup Flag(call.positional # <<>> \/ call.named # <<>>, "E_TRANSFORM")
        \cup Invalid(\E t \in found : ~IsAssignable(call.input, t.input) \/ call.output # t.output)

CallErrors(x, call) ==
    Flag(~IsInjective([i \in DOMAIN call.named |-> call.named[i].name]), "E_TRANSFORM")
    \cup Invalid(~ValidType(call.input) \/ ~ValidType(call.output))
    \cup IF call.target.kind = "builtin" THEN SignatureErrors(call) ELSE DeclaredErrors(x, call)

ContinuityErrors(calls, initial, expected) ==
    LET Reaching(i) == IF i = 0 THEN initial ELSE calls[i].output
    IN  Invalid(\/ ~ValidType(initial) \/ ~ValidType(expected)
                \/ \E i \in DOMAIN calls : calls[i].input # Reaching(i - 1)
                \/ ~IsAssignable(Reaching(Len(calls)), expected))

ChainErrors(x, calls, initial, expected) ==
    UnionOf(LAMBDA c : CallErrors(x, c), calls) \cup ContinuityErrors(calls, initial, expected)

MatchErrors(t) ==
    LET Normal(literal, type) == NormalizeJSONResult(Decoded(literal), type)
        results == {t.default} \cup {c.then : c \in ToSet(t.cases)}
    IN  Invalid(~IsScalar(t.input) \/ ~IsScalar(t.output))
        \cup Flag(\/ \E c \in ToSet(t.cases) : Normal(c.when, t.input) = <<>>
                  \/ \E r \in results : Normal(r, t.output) = <<>>, "E_TRANSFORM")
        \cup Invalid(~IsInjective([i \in DOMAIN t.cases |-> t.cases[i].when]))

TransformErrors(x, t) ==
    Invalid(~ValidType(t.input) \/ ~ValidType(t.output))
    \cup IF t.kind = "pipeline"
         THEN Invalid(t.calls = <<>>) \cup ChainErrors(x, t.calls, t.input, t.output)
         ELSE When(t.kind = "match", MatchErrors(t))

-----------------------------------------------------------------------------
(* The output.                                                             *)
MembersOf(output, kind) ==
    UNION {{output[at][i] : i \in {j \in DOMAIN output[at] : output[at][j].kind = kind}} :
               at \in DOMAIN output}
FieldsOf(output) == MembersOf(output, "field")
CollectionsOf(output) == MembersOf(output, "collection")

(* The members of a collection's row have its place and one index more.    *)
InRow(m) == Len(m.id) > 1
Reads(f) == f.source.kind \in {"text", "html", "attr"}

SourceErrorsOf(f) ==
    LET s == f.source
    IN  IF Reads(f)
        THEN Invalid(\/ s.raw # Primitive("string")
                     \/ f.selection = <<>> /\ ~InRow(f)
                     \/ s.kind = "attr" /\ s.name \in {None, ""})
        ELSE Invalid(\/ ~ValidType(s.raw) \/ s.scope \notin {"document", "current"}
                     \/ ~ValidDuration(s.timeout)
                     \/ s.scope = "document" /\ f.selection # <<>>
                     \/ s.scope = "current" /\ f.selection = <<>> /\ ~InRow(f))

(* The literal default of a field, as a value of its type.                 *)
FieldDefault(f) == NormalizeJSONResult(Decoded(f.default[1]), f.success)

FieldErrors(f) ==
    SourceErrorsOf(f)
    \cup Invalid(\/ ~ValidType(f.success) \/ ~ValidType(f.effective)
                 \/ f.selection # <<>> /\ f.selection[1].match \notin {"one", "first"}
                 \/ f.default # <<>> /\ (f.required \/ FieldDefault(f) = <<>>)
                 \/ f.onError \notin OnErrors
                 \/ f.onError \in {"null", "warn"} /\ ~IsNullable(f.effective)
                 \/ f.onError = "default" /\ f.default = <<>>)

CollectionErrors(output, c) ==
    LET least == IF c.required /\ c.min < 2 THEN 2 ELSE c.min
    IN  Invalid(\/ c.min < 0 \/ (c.max # None /\ c.max < least)
                \/ c.onRow \notin {"fail", "skip"} \/ output[c.id] = <<>>)

NamesUnique(members) == IsInjective([i \in DOMAIN members |-> members[i].name])

OutputErrors(output) ==
    (UNION {FieldErrors(f) : f \in FieldsOf(output)})
    \cup (UNION {CollectionErrors(output, c) : c \in CollectionsOf(output)})
    \cup Invalid(\E at \in DOMAIN output : ~NamesUnique(output[at]))

(* The calls of the transforms, then those of the fields.                  *)
StaticErrors(x) ==
    (UNION {TransformErrors(x, t) : t \in x.transforms})
    \cup (UNION {ChainErrors(x, f.calls, f.source.raw, f.success) : f \in FieldsOf(x.output)})

-----------------------------------------------------------------------------
(* Selectors: a DOM run takes them from the plan it was prepared with.     *)
Selected(f) == IF f.selection = <<>> THEN {} ELSE {f.selection[1].selector}

(* Mutant of SelectorsOf: those of collections are forgotten.              *)
SelectorsOfFields(output) == UNION {Selected(f) : f \in FieldsOf(output)}

SelectorsOf(output) ==
    SelectorsOfFields(output) \cup {c.selector : c \in CollectionsOf(output)}

SelectorErrors(texts) == Flag(\E s \in texts : ~IsSelector(s), "E_SELECTOR_INVALID")

DOMErrors(output) ==
    SelectorErrors(SelectorsOf(output))
    \cup Flag(\E f \in FieldsOf(output) : ~Reads(f), "E_BROWSER_RUNTIME_MISSING")

WorkflowErrors(steps) ==
    LET all == ToSet(steps)
    IN  SelectorErrors({s.selector : s \in {t \in all : t.kind \in Selecting}})
        \cup Invalid(\E s \in all : \/ s.kind = "wait-for" /\ s.state \notin WaitStates
                                    \/ ~ValidDuration(s.idle) \/ ~ValidDuration(s.timeout))

IsJavaScript(x) ==
    \/ \E i \in DOMAIN x.source.workflow : x.source.workflow[i].kind = "evaluate-js"
    \/ \E f \in FieldsOf(x.output) : ~Reads(f)

SnapshotErrors(x) ==
    Flag(x.source.workflow # <<>> \/ \E f \in FieldsOf(x.output) : ~Reads(f),
         "E_SNAPSHOT_UNSUPPORTED")

(* What an extraction may do, as the executor sees it.                     *)
FieldNeeds(f) ==
    IF Reads(f) THEN {<<"browser.query">>, <<"browser.read", f.source.kind>>}
    ELSE {<<"browser.evaluate-js">>}
         \cup Flag(f.selection # <<>> \/ f.source.scope = "current", <<"browser.query">>)

Needs(x) ==
    {IF x.source.mode = "http" THEN <<"http.fetch">> ELSE <<"browser.navigate">>}
    \cup {StepCapability(s.kind) : s \in ToSet(x.source.workflow)}
    \cup {<<"transform.external", t.external>> : t \in Kinded(x.transforms, "external")}
    \cup IF x.source.mode = "http" THEN {}
         ELSE (UNION {FieldNeeds(f) : f \in FieldsOf(x.output)})
              \cup Flag(CollectionsOf(x.output) # {}, <<"browser.query">>)

-----------------------------------------------------------------------------
(* Prepare: errors that make it fail, and the plan when there is none.     *)
(* binding holds the errors that every execution reports once its external *)
(* transforms are bound; selectors are those that are parsed by now.       *)
Prepare(x) ==
    LET first == StructureErrors(x) \cup SourceErrors(x.source) \cup DeclarationErrors(x)
        snapshot == SnapshotErrors(x)
        static == StaticErrors(x) \cup OutputErrors(x.output)
        dom == DOMErrors(x.output)
        browser == WorkflowErrors(x.source.workflow) \cup SelectorErrors(SelectorsOf(x.output))
        parsed == x.source.mode = "http" \/ snapshot = {}
        mode == IF x.source.mode = "http" THEN dom
                ELSE IF x.source.mode = "browser" THEN browser \cup When(snapshot = {}, dom)
                ELSE {"E_IR_INVALID"}
    IN  IF first # {} THEN [errors |-> first]
        ELSE IF static # {}
        THEN [errors |-> {}, snapshot |-> snapshot, binding |-> static, selectors |-> {}]
        ELSE [errors |-> mode, snapshot |-> snapshot,
              binding |-> Invalid(x.capabilities # Needs(x)),
              selectors |-> IF parsed THEN SelectorsOf(x.output) ELSE {}]

-----------------------------------------------------------------------------
(* Inputs that a host provides: pairs of a Go kind and halves, or a text.  *)
(* "number" is the text of an integer, "decimal" any other number's text.  *)
Whole(halves) == halves % 2 = 0
Least64 == -(2 * HalfRange["i64"])

(* Converting a float beyond the range yields the least integer.           *)
ToInt64(halves) == IF Fits(halves, "i64") THEN halves ELSE Least64

(* Mutant of NormalizeInput: the least float beyond the range is taken.    *)
NormalizeInputClosed(type, v) ==
    IF type \in {"string", "bool"} THEN Given(v[1] = type, v)
    ELSE IF type = "int"
    THEN IF v[1] = "float64"
         THEN Given(Whole(v[2]) /\ v[2] \in Least64..-Least64, <<"int64", ToInt64(v[2])>>)
         ELSE Given(v[1] \in {"int", "int64", "number"} /\ Fits(v[2], "i64"), <<"int64", v[2]>>)
    ELSE <<<<"float64", v[2]>>>>

NormalizeInput(type, v) ==
    IF type \in {"string", "bool"} THEN Given(v[1] = type, v)
    ELSE IF type = "int"
    THEN IF v[1] \in {"int", "int64", "number"}
         THEN Given(Fits(v[2], "i64"), <<"int64", v[2]>>)
         ELSE Given(v[1] = "float64" /\ Whole(v[2]) /\ v[2] \in Least64..(-Least64 - 1),
                    <<"int64", ToInt64(v[2])>>)
    ELSE Given(v[1] \in {"float64", "float32", "int", "int64", "number", "decimal"},
               <<"float64", v[2]>>)

Provided(definition, given) ==
    IF definition.name \in DOMAIN given THEN given[definition.name]
    ELSE IF definition.default = <<>> THEN Nil
    ELSE LET v == definition.default[1]
         IN  IF v[1] = "number" /\ ~Whole(v[2]) THEN <<"decimal", v[2]>> ELSE v

(* The inputs of an extraction: their errors, and their values by name.    *)
ResolveInputs(definitions, given) ==
    LET all == ToSet(definitions)
        Normal(d) == NormalizeInput(d.type, Provided(d, given))
        present == {d \in all : Provided(d, given) # Nil}
        declared == Invalid(\/ ~IsInjective([i \in DOMAIN definitions |-> definitions[i].name])
                            \/ \E d \in all : \/ d.name \in {None, ""} \/ d.type \notin InputTypes
                                              \/ d.required /\ d.default # <<>>)
        defaults == Flag(\E d \in all : /\ d.default # <<>>
                                        /\ NormalizeInput(d.type, Provided(d, <<>>)) = <<>>,
                         "E_INPUT_TYPE")
        values == Flag(\E d \in all \ present : d.required, "E_INPUT_REQUIRED")
                  \cup Flag(\E d \in present : Normal(d) = <<>>, "E_INPUT_TYPE")
    IN  [errors |-> IF declared \cup defaults # {} THEN declared \cup defaults
                    ELSE IF ~(DOMAIN given \subseteq {d.name : d \in all}) THEN {"E_INPUT_UNKNOWN"}
                    ELSE values,
         values |-> [name \in {d.name : d \in {e \in present : Normal(e) # <<>>}} |->
                        Normal(CHOOSE d \in present : d.name = name)[1]]]

(* What expanding the template may come to: a host that is an input's text *)
(* may not be one.                                                         *)
Expansions(template, values) ==
    LET inputs == {s[2][1] : s \in {t \in ToSet(template) : t[1] = "input"}}
    IN  IF ~(inputs \subseteq DOMAIN values) THEN {{"E_INPUT_REQUIRED"}}
        ELSE {{}} \cup (IF template[1][2] = "http://" THEN {{"E_URL_INVALID"}} ELSE {})
=============================================================================
