------------------------------- MODULE Programs -------------------------------
(***************************************************************************)
(* The life of a program (scrapekdl.go): documents are compiled, the IR is *)
(* prepared, and an extraction runs it.  This module composes the compiler *)
(* with the executor: what was decided statically meets the values that    *)
(* pages, scripts and host functions hand over at run time.  How a source  *)
(* is fetched, how rows are walked and how a page is driven are the        *)
(* business of FetchHTML, HttpFetch, OutputWalker and BrowserExtraction:   *)
(* here any field may be read next, and any acquisition may fail.          *)
(***************************************************************************)
EXTENDS Preparation

CONSTANTS
    Corpus,         \* names of the programs that are compiled
    Written(_),     \* the documents of one
    Requests,       \* what a host may ask of one
    Answers         \* values that scripts and host functions may return

(* The bound on nesting cuts no program short.                             *)
ASSUME NestingAssumption ==
    \A case \in Corpus :
        LET roots == Roots(Written(case)[Main])
        IN  roots # <<>> => Level(roots[1], MaxNesting + 1) = {}

(* What is parsed: a text is there, and an integer has 64 bits.            *)
IsLiteral(v) ==
    /\ v[1] \in {"string", "bool", "int", "float", "null"}
    /\ v[1] \in {"string", "int"} => v[2] # None
    /\ v[1] = "int" => v[2] \in Int /\ Fits(v[2], "int")

IsParsed(n) ==
    /\ Len(n.props) \in Nat /\ DOMAIN n.props = 1..Len(n.props)
    /\ \A i \in DOMAIN n.props : IsLiteral(n.props[i].value)

(* The calls that a program makes, chain by chain. *)
Applied(p) ==
    {Applies(f) : f \in Fields(Root(p[Main]))}
    \cup UNION {{Applies(Bodies(Declared(p, path)[name].node)[1]) : name \in DOMAIN Declared(p, path)} :
                   path \in Documents(p)}

ASSUME ParserAssumption ==
    \A case \in Corpus :
        Flaws(Written(case)) = {} =>
            \A applies \in Applied(Written(case)) :
                /\ Len(applies) \in Nat
                /\ \A k \in 1..Len(applies) : IsParsed(applies[k])

VARIABLES
    program,        \* the documents
    phase,          \* "source", "panicked", "rejected", "compiled", "ready", "acquiring",
                    \* "extracting", "returned"
    diagnostics,    \* the codes that compiling reported
    ir, plan,       \* the extractor and what was prepared for it
    request,        \* what the host asked for, with the inputs as resolved
    step,           \* workflow steps that are done
    chain,          \* the field that is being read: [at, field, value, frames]
    used, looked,   \* operations performed, and selectors looked up in the plan
    error           \* the codes of which one is returned; empty for a result

vars == <<program, phase, diagnostics, ir, plan, request, step, chain, used, looked, error>>
static == <<program, diagnostics, ir, plan>>

Idle == [at |-> "idle"]

Init ==
    /\ \E case \in Corpus : program = Written(case)
    /\ phase = "source" /\ diagnostics = {}
    /\ ir = None /\ plan = None /\ request = None
    /\ step = 0 /\ chain = Idle /\ used = {} /\ looked = {} /\ error = {}

-----------------------------------------------------------------------------
(* Compile: diagnostics, or an IR that a program is made of at once.       *)
Report(flaws) ==
    /\ phase' = (IF Panic \in flaws THEN "panicked" ELSE IF flaws = {} THEN "compiled" ELSE "rejected")
    /\ diagnostics' = flaws \ {Panic}

Compile ==
    /\ phase = "source"
    /\ Report(Flaws(program))
    /\ ir' = (IF phase' = "compiled" THEN Extractor(program) ELSE None)
    /\ UNCHANGED <<program, plan, request, step, chain, used, looked, error>>

Warnings == Flag(JavaScriptPresent(Root(program[Main]), ir.source), "W_JAVASCRIPT_PRESENT")

NewProgram ==
    /\ phase = "compiled"
    /\ \E prepared \in {Prepare(ir)} :
          IF prepared.errors = {}
          THEN phase' = "ready" /\ plan' = prepared /\ diagnostics' = Warnings
          ELSE phase' = "rejected" /\ diagnostics' = Warnings \cup {"E_IR_INVALID"} /\ UNCHANGED plan
    /\ UNCHANGED <<program, ir, request, step, chain, used, looked, error>>

-----------------------------------------------------------------------------
(* What an extraction checks before it acquires anything, in order.        *)
First(checks) ==
    LET failed == {i \in DOMAIN checks : checks[i] # {}}
    IN  IF failed = {} THEN {} ELSE checks[Min(failed)]

Unbound(r) ==
    Flag(\E t \in Kinded(ir.transforms, "external") : t.external \notin r.externals,
         "E_EXTERNAL_TRANSFORM_MISSING")

(* What resolving the inputs and the URL, and asking the policy, may find. *)
InputErrors(r) == ResolveInputs(ir.inputs, r.inputs).errors
NoSession(r) == Flag(ir.source.session = "required" /\ ~r.session, "E_SESSION_REQUIRED")
Refusal(r) == Flag(r.forbidden, "E_URL_POLICY")

(* Mutant of Preflight: host functions are looked up when they are called. *)
PreflightUnbound(r, expansion) ==
    IF r.entry = "extract" THEN First(<<InputErrors(r), NoSession(r), expansion, Refusal(r)>>) ELSE {}

(* The first two checks of an extraction are those of its browser.         *)
Preflight(r, expansion) ==
    LET http == ir.source.mode = "http"
        canceled == Flag(r.canceled, "E_EXECUTION_CANCELED")
        undriven == Flag(~http /\ ~r.browser, "E_BROWSER_RUNTIME_MISSING")
        script == Flag(~http /\ ~r.javascript /\ IsJavaScript(ir), "E_JAVASCRIPT_DISABLED")
        driven == Flag(~http, "E_BROWSER_RUNTIME_MISSING")
    IN  IF r.entry = "extract"
        THEN First(<<undriven, script, Unbound(r), plan.binding,
                     InputErrors(r), NoSession(r), expansion, Refusal(r)>>)
        ELSE IF r.entry = "html" THEN First(<<driven, Unbound(r), plan.binding, canceled>>)
        ELSE First(<<canceled, plan.snapshot, Unbound(r), plan.binding>>)

Begin ==
    /\ phase = "ready"
    /\ \E r \in Requests :
          LET values == ResolveInputs(ir.inputs, r.inputs).values
          IN  \E expansion \in Expansions(ir.source.template, values) :
                 LET errors == Preflight(r, expansion)
                     passed == IF r.entry = "extract" THEN "acquiring" ELSE "extracting"
                 IN  /\ error' = errors
                     /\ phase' = IF errors = {} THEN passed ELSE "returned"
                     /\ request' = [entry |-> r.entry, javascript |-> r.javascript,
                                    externals |-> r.externals, inputs |-> r.inputs,
                                    values |-> IF r.entry = "extract" THEN values ELSE <<>>]
    /\ UNCHANGED <<static, step, chain, used, looked>>

Return(codes) == phase' = "returned" /\ error' = codes

(* Acquiring the document: a fetch, or a navigation and the workflow.      *)
Acquires == IF ir.source.mode = "http" THEN <<"http.fetch">> ELSE <<"browser.navigate">>
Navigated == phase = "acquiring" /\ <<"browser.navigate">> \in used

Acquire ==
    /\ phase = "acquiring" /\ Acquires \notin used
    /\ used' = used \cup {Acquires}
    /\ \/ phase' = (IF ir.source.mode = "http" THEN "extracting" ELSE "acquiring") /\ error' = {}
       \/ Return({IF ir.source.mode = "http" THEN "E_HTTP_FETCH" ELSE "E_BROWSER_NAVIGATE"})
    /\ UNCHANGED <<static, request, step, chain, looked>>

RunStep ==
    /\ Navigated /\ step + 1 \in DOMAIN ir.source.workflow
    /\ step' = step + 1
    /\ used' = used \cup {StepCapability(ir.source.workflow[step + 1].kind)}
    /\ \/ UNCHANGED <<phase, error>>
       \/ Return({"E_BROWSER_WORKFLOW"})
    /\ UNCHANGED <<static, request, chain, looked>>

Acquired ==
    /\ Navigated /\ step + 1 \notin DOMAIN ir.source.workflow
    /\ phase' = "extracting"
    /\ UNCHANGED <<static, request, step, chain, used, looked, error>>

-----------------------------------------------------------------------------
(* Reading.  A DOM run takes each selector from the plan; a browser run    *)
(* asks its adapter.                                                       *)
DOM == request.entry # "extract" \/ ir.source.mode = "http"
Extracting == phase = "extracting" /\ chain.at # "applying"

Looks(selectors) ==
    IF DOM THEN looked' = looked \cup selectors /\ UNCHANGED used
    ELSE used' = used \cup Flag(selectors # {}, <<"browser.query">>) /\ UNCHANGED looked

QueryRows ==
    /\ Extracting
    /\ \E c \in CollectionsOf(ir.output) : Looks({c.selector})
    /\ UNCHANGED <<static, phase, request, step, chain, error>>

(* The calls of a field are a frame, and so are those of a pipeline that   *)
(* is being applied; next is the one that is due.                          *)
Frame(symbol, calls) == [symbol |-> symbol, calls |-> calls, next |-> 1]
Chain(at, f, v, frames) == [at |-> at, field |-> f, value |-> v, frames |-> frames]
Read(f, v) == Chain("applying", f, v, <<Frame(<<>>, f.calls)>>)
Delivered(f, v) == Chain("delivered", f, v, <<>>)

(* What becomes of a field that fails: its policy, or that of a row it is  *)
(* in, may recover it.                                                     *)
InSkippedRow(f) ==
    \E c \in CollectionsOf(ir.output) : c.onRow = "skip" /\ IsStrictPrefix(c.id, f.id)

Abandon(f, code) ==
    \/ Return({code}) /\ UNCHANGED chain
    \/ InSkippedRow(f) /\ chain' = Idle /\ UNCHANGED <<phase, error>>

Deliver(f, v) == chain' = Delivered(f, v) /\ UNCHANGED <<phase, error>>

DeliverDefault(f) ==
    IF FieldDefault(f) = <<>> THEN Abandon(f, "E_IR_INVALID") ELSE Deliver(f, FieldDefault(f)[1])

Recover(f, code) ==
    IF f.onError = "fail" THEN Abandon(f, code)
    ELSE IF f.onError = "default" THEN DeliverDefault(f) ELSE Deliver(f, Nil)

(* Mutant of Missing: the default is for fields that fail only.            *)
MissingDefault(f) == IF f.required THEN Abandon(f, "E_REQUIRED_VALUE_MISSING") ELSE Deliver(f, Nil)

Missing(f) ==
    IF f.required THEN Abandon(f, "E_REQUIRED_VALUE_MISSING")
    ELSE IF f.default # <<>> THEN DeliverDefault(f) ELSE Deliver(f, Nil)

(* Texts are texts; a script's answer has to be of the type it declares.   *)
Readings(f) ==
    IF Reads(f) THEN {<<<<"string">>>>} ELSE {NormalizeJSONResult(v, f.source.raw) : v \in Answers}

Operation(f) ==
    IF Reads(f) THEN <<"browser.read", f.source.kind>> ELSE <<"browser.evaluate-js">>

ReadField ==
    /\ Extracting
    /\ \E f \in FieldsOf(ir.output) :
          /\ IF DOM THEN looked' = looked \cup Selected(f) /\ UNCHANGED used
             ELSE /\ used' = used \cup {Operation(f)} \cup Flag(Selected(f) # {}, <<"browser.query">>)
                  /\ UNCHANGED looked
          /\ \/ (f.selection # <<>> \/ f.source.kind = "attr") /\ Missing(f)
             \/ /\ f.selection # <<>> /\ f.selection[1].match = "one"
                /\ Recover(f, "E_SELECTOR_CARDINALITY")
             \/ \E r \in Readings(f) :
                  IF r = <<>> THEN Recover(f, "E_JAVASCRIPT_RESULT_TYPE")
                  ELSE chain' = Read(f, r[1]) /\ UNCHANGED <<phase, error>>
    /\ UNCHANGED <<static, request, step>>

-----------------------------------------------------------------------------
(* Applying: the calls of the topmost frame are taken one by one; a        *)
(* pipeline puts a frame on top, which is left when it has no call left.   *)
Applying == phase = "extracting" /\ chain.at = "applying"
Top == Head(chain.frames)
Due == Applying /\ Top.next \in DOMAIN Top.calls
Call1 == Top.calls[Top.next]
Calling(kind) == Due /\ Call1.target.kind = kind
Active == {chain.frames[i].symbol : i \in DOMAIN chain.frames}
Target1 == CHOOSE t \in ir.transforms : t.symbol = Call1.target.symbol
Reaches(kind) == /\ Calling("declared") /\ Call1.target.symbol \notin Active
                 /\ Target1.kind = kind

Advanced(frames) == <<[Head(frames) EXCEPT !.next = @ + 1]>> \o Tail(frames)
Continues(v, frames) ==
    chain' = Chain("applying", chain.field, v, frames) /\ UNCHANGED <<phase, error>>
Becomes(v) == Continues(v, Advanced(chain.frames))
Fails(code) == Recover(chain.field, code)

CallBuiltin ==
    /\ Calling("builtin")
    /\ \E v \in ApplyBuiltinRuntime(Call1.target.name, chain.value, Call1) :
          IF Failure(v) THEN Fails("E_TRANSFORM") ELSE Becomes(v)
    /\ UNCHANGED <<static, request, step, used, looked>>

Recursion ==
    /\ Calling("declared") /\ Call1.target.symbol \in Active
    /\ Fails("E_TRANSFORM_RECURSION")
    /\ UNCHANGED <<static, request, step, used, looked>>

CallPipeline ==
    /\ Reaches("pipeline")
    /\ Continues(chain.value, <<Frame(Target1.symbol, Target1.calls)>> \o chain.frames)
    /\ UNCHANGED <<static, request, step, used, looked>>

Leave ==
    /\ Applying /\ ~Due /\ Len(chain.frames) > 1
    /\ Continues(chain.value, Advanced(Tail(chain.frames)))
    /\ UNCHANGED <<static, request, step, used, looked>>

CallMatch ==
    /\ Reaches("match")
    /\ \E literal \in {Target1.default} \cup {c.then : c \in ToSet(Target1.cases)} :
          LET result == NormalizeJSONResult(Decoded(literal), Target1.output)
          IN  IF result = <<>> THEN Fails("E_TRANSFORM") ELSE Becomes(result[1])
    /\ UNCHANGED <<static, request, step, used, looked>>

CallExternal ==
    /\ Reaches("external")
    /\ IF Target1.external \notin request.externals
       THEN Fails("E_EXTERNAL_TRANSFORM_MISSING") /\ UNCHANGED used
       ELSE /\ used' = used \cup {<<"transform.external", Target1.external>>}
            /\ \/ Fails("E_EXTERNAL_TRANSFORM")
               \/ \E v \in Answers : IF MatchesRuntimeType(v, Target1.output) THEN Becomes(v)
                                     ELSE Fails("E_EXTERNAL_TRANSFORM_RESULT_TYPE")
    /\ UNCHANGED <<static, request, step, looked>>

EndField ==
    /\ Applying /\ ~Due /\ Len(chain.frames) = 1
    /\ IF MatchesRuntimeType(chain.value, chain.field.success) THEN Deliver(chain.field, chain.value)
       ELSE Fails("E_OUTPUT_TYPE")
    /\ UNCHANGED <<static, request, step, used, looked>>

Finish ==
    /\ Extracting /\ Return({})
    /\ UNCHANGED <<static, request, step, chain, used, looked>>

Next ==
    \/ Compile \/ NewProgram \/ Begin
    \/ Acquire \/ RunStep \/ Acquired
    \/ QueryRows \/ ReadField
    \/ CallBuiltin \/ Recursion \/ CallPipeline \/ Leave \/ CallMatch \/ CallExternal
    \/ EndField \/ Finish

Spec == Init /\ [][Next]_vars

-----------------------------------------------------------------------------
(* Faults of a program, which only the compiler may report, and of a host, *)
(* which an extraction reports.                                            *)
ProgramFaults == {"E_IR_INVALID", "E_TRANSFORM_MISSING", "E_SELECTOR_INVALID"}
HostFaults ==
    {"E_BROWSER_RUNTIME_MISSING", "E_JAVASCRIPT_DISABLED", "E_EXTERNAL_TRANSFORM_MISSING",
     "E_INPUT_REQUIRED", "E_INPUT_UNKNOWN", "E_INPUT_TYPE", "E_SESSION_REQUIRED",
     "E_URL_POLICY", "E_SNAPSHOT_UNSUPPORTED"}

(* What the compiler accepts, Prepare accepts, and no execution finds a    *)
(* fault of the program: defaults are of their inputs' types, and nothing  *)
(* is missing from the URL unless the host withheld a required input.      *)
AcceptedRuns ==
    /\ "E_IR_INVALID" \notin diagnostics
    /\ plan # None => /\ plan.binding = {}
                      /\ ResolveInputs(ir.inputs, <<>>).errors \subseteq {"E_INPUT_REQUIRED"}
    /\ error \cap ProgramFaults = {}
    /\ "E_INPUT_REQUIRED" \in error =>
          \E d \in ToSet(ir.inputs) : d.required /\ d.name \notin DOMAIN request.inputs

(* Whatever a host lacks is said before anything is acquired or read.      *)
FailsEarly == error \cap HostFaults # {} => used = {} /\ looked = {}

(* An argument that the compiler takes and the executor does not: integers *)
(* of more than 32 bits, and types that are written with parentheses.      *)
Unusual(call) ==
    \E a \in ToSet(call.named) :
        \/ /\ a.name \in {"count", "start", "end", "limit", "index"}
           /\ a.value[1] = "number" /\ ~Fits(a.value[2], "i32")
        \/ a.name = "as" /\ a.value[2] \notin {<<p>> : p \in Primitives}

(* A call is only reached by values of the type it was compiled for, which *)
(* are of a kind that it takes, and with arguments that it can read; at    *)
(* its end, the chain has a value of the field's type.                     *)
WellTyped ==
    /\ Due =>
          /\ MatchesRuntimeType(chain.value, Call1.input)
          /\ Call1.target.kind = "builtin" =>
                /\ Takes(Call1.target.name, chain.value)
                /\ \/ Unusual(Call1)
                   \/ Call1.target.name = "coalesce" /\ chain.value # Nil
                   \/ ArgumentsRead(Call1.target.name, Call1)
    /\ Applying /\ ~Due /\ Len(chain.frames) = 1 =>
          MatchesRuntimeType(chain.value, chain.field.success)

(* What a field delivers, be it read, recovered, missing or a default, is  *)
(* of the type that the extractor declares for it.                         *)
DeliversDeclaredType ==
    chain.at = "delivered" => MatchesRuntimeType(chain.value, chain.field.effective)

(* No lookup misses the plan that concurrent extractions share: a miss     *)
(* would write to it.                                                      *)
PlanComplete == plan # None => looked \subseteq plan.selectors

(* No script runs unless the compiler warned of it and the host allowed it. *)
JavaScriptAnnounced ==
    <<"browser.evaluate-js">> \in used =>
        request.javascript /\ "W_JAVASCRIPT_PRESENT" \in diagnostics

(* An integer reaches the URL as the number the host provided, in 64 bits. *)
InputsExact ==
    phase \in {"acquiring", "extracting"} =>
        \A d \in ToSet(ir.inputs) :
            d.type = "int" /\ d.name \in DOMAIN request.values =>
                /\ request.values[d.name] = <<"int64", Provided(d, request.inputs)[2]>>
                /\ Fits(request.values[d.name][2], "i64")

-----------------------------------------------------------------------------
(* The inductive invariant: what a program has been through when it is in  *)
(* a phase.                                                                *)
FromCompiler == phase \notin {"source", "panicked", "rejected"} => ir = Extractor(program)

FromPlan ==
    phase \in {"ready", "acquiring", "extracting", "returned"} =>
        plan = Prepare(ir) /\ plan.errors = {} /\ diagnostics = Warnings

Untouched ==
    /\ phase \notin {"acquiring", "extracting", "returned"} =>
          used = {} /\ looked = {} /\ chain = Idle
    /\ phase # "returned" => error = {}

(* What an extraction has passed that is under way, or has been.           *)
Begun ==
    phase \in {"acquiring", "extracting"} \/ used # {} \/ looked # {} \/ chain # Idle =>
        /\ plan.binding = {} /\ Unbound(request) = {}
        /\ request.entry = "extract" =>
              ir.source.mode = "http" \/ request.javascript \/ ~IsJavaScript(ir)
        /\ request.entry = "html" => ir.source.mode = "http"
        /\ request.entry \notin {"extract", "html"} => plan.snapshot = {}
        /\ phase = "acquiring" => request.entry = "extract"

Driven ==
    /\ <<"browser.navigate">> \in used => ~DOM
    /\ <<"browser.evaluate-js">> \in used => ~DOM /\ IsJavaScript(ir)

(* The frames of a field are its own calls and those of pipelines.         *)
FramesOf(f) ==
    LET pipelines == Kinded(ir.transforms, "pipeline")
    IN  [symbol : {<<>>} \cup {t.symbol : t \in pipelines},
         calls : {f.calls} \cup {t.calls : t \in pipelines}, next : Nat]

Framed ==
    chain.at = "applying" =>
        /\ chain.field \in FieldsOf(ir.output)
        /\ chain.frames # <<>> /\ chain.frames \in Seq(FramesOf(chain.field))

Accepted == phase \notin {"source", "panicked", "rejected"} => Flaws(program) = {}

(* The type that the i-th frame of a field has to end with: that of the    *)
(* call which the frame below it waits at, or that of the field.           *)
Expected(f, frames, i) ==
    IF i = Len(frames) THEN f.success
    ELSE LET below == frames[i + 1] IN below.calls[below.next].output

(* Each call yields what the next one takes, and the last what is wanted.  *)
Linked(calls, wanted) ==
    \A k \in DOMAIN calls :
        IF k = Len(calls) THEN IsAssignable(calls[k].output, wanted)
        ELSE calls[k].output = calls[k + 1].input

LinkedFrames(f, frames) ==
    \A i \in DOMAIN frames :
        /\ Linked(frames[i].calls, Expected(f, frames, i))
        /\ i > 1 => frames[i].next \in DOMAIN frames[i].calls

Typed ==
    /\ phase = "acquiring" => chain = Idle
    /\ Applying =>
          /\ LinkedFrames(chain.field, chain.frames)
          /\ MatchesRuntimeType(chain.value, IF Due THEN Call1.input
                                             ELSE Expected(chain.field, chain.frames, 1))

IInv == FromCompiler /\ FromPlan /\ Untouched /\ Begun /\ Driven /\ Framed
=============================================================================
