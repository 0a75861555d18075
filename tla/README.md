# scrape-kdl, specified in TLA+

scrape-kdl runs declarative extractors. A KDL document is parsed, compiled to a
validated IR, and executed over HTTP or in a browser; the result is a JSON value
with warnings and a `partial` flag. The repository holds two implementations of
everything, one in Go and one in TypeScript, and two browser adapters, one for
Rod (Go) and one for Playwright (TypeScript).

This directory models the parts where the order of things matters: who may use
the browser page and when, what may be sent after a policy or a cancellation has
spoken, how errors travel through nested output, how transforms call each other,
how imports are walked, and what a signal does to a command. It also models what
a program means in the Go implementation, from its nodes to a delivered value:
the compiler, the preparation, and the run that trusts both.

## The system

| part | state it keeps | operations | talks to | what is hard |
|---|---|---|---|---|
| Compiler: import loader (`internal/compiler/compiler.go`, `source-loader.ts`) | active paths, parsed documents, file list, diagnostics, a sticky operational error | compile, loadDocument | the caller's source loader, the parser | cycles, diamonds, reading errors and cancellation deep in the recursion |
| Compiler: semantic pass (`internal/compiler/*`, `compiler.ts`) | symbol tables, recursion marks | compileExtractor | type system, built-in contract | what it accepts is checked again by code that shares nothing with it |
| Type system (`internal/typesys`) | none | Parse, String, Assignable | compiler, executor | one notation, read by three parsers |
| KDL lexer and parser, selectors, DOM, canonical JSON, result decoding, authoring | none | pure functions | each other | boundary cases |
| Prepare and execute (`internal/executor`, `runtime.ts`) | prepared IR with compiled selectors, shared by concurrent extractions; options, resolved inputs | Prepare, Execute | fetch, walker, transforms | error codes and their order; a check that only one of two passes makes |
| HTTP fetch (`fetch.go`, `policy.go`; `fetchHTML` in `runtime.ts`) | one request chain, its timer | fetchDocument, fetchHTML | net/http, fetch, the URL policy callback | redirects, limits, late timers and signals |
| Output walker (`output_walker.go`, `output-walker.ts`) | frames of objects and rows, warnings, partial flag | executeObject, executeField, executeCollection | a reader (DOM or browser) | errors that cross levels, each of which may absorb them |
| Transform runtime (`transforms.go`, `runtime.ts`) | set of active symbols | applyCalls, applyDeclared | external functions | recursion through awaits |
| Browser executor (`browser.go`, `browser-runtime.ts`) | one extraction | preflight, policy, lease, navigate, workflow, output, release | the adapter | concurrent extractions, failure on every path |
| Rod adapter (`adapters/rod/adapter.go`) | a lease channel, a mutex, a page, a stored cleanup | Acquire, Navigate, operations, Close | Rod | two locks, contexts that end, headers left on the page |
| Playwright adapter (`packages/scrape-kdl-playwright`) | a lease flag and queue, a context and its generation, a closing promise | acquire, navigate, operations, close | Playwright | callbacks and promises that arrive late |
| Command line (`cmd/scrape-kdl`, `scrape-kdl-rod`) | a context, a channel of signals and one of the signal seen | validate, compile, extract, version, help | compiler, executor | a signal while the command finishes; the exit status and the JSON document |
| Conformance and example harnesses, release tooling | files | – | the parts above, registries | resumption of a partial release |

A run of the browser goes compiler → prepared program → browser executor →
(lease, navigation, operations) adapter → output walker → result; the HTTP run
has the fetch in place of the adapter. Concurrency comes from callers that run
several extractions on one adapter, from `Close`, from contexts, signals and
timers, and in TypeScript from every `await`.

## The modules

| module | models | variables and actions |
|---|---|---|
| `ExclusiveLease` | the promise of `BrowserAdapterLease`: the page is one extraction's from before its navigation to its last read | each client is out, waiting or holding; Request, Grant, Refuse, Release |
| `RodAdapter` | `adapters/rod/adapter.go` | `lease` is the channel's token, `mu` the mutex, `cleanup`, `headers` and `residue` what the page sends and whether it can be undone; one action for each step between two blocking points |
| `RodAdapterProofs` | theorems about it | |
| `PlaywrightAdapter` | `packages/scrape-kdl-playwright/src/index.ts` and the extraction that drives it | the private fields under their names, the caller's promise, the navigation closure, and the promises they await; an action is what runs between two awaits |
| `PlaywrightAdapterProofs` | theorems about it | |
| `BrowserExtraction` | `executeBrowserPrepared` and `runWorkflow`, written against `ExclusiveLease` | program counters of several extractions, the page's visitors; one action for each call of the adapter |
| `BrowserExtractionProofs` | theorems about it | |
| `OutputWalker` | `output_walker.go`, `output_semantics.go` | the recursion as a stack of frames; answers of the reader are chosen as they are asked for |
| `OutputWalkerProofs` | theorems about it | |
| `HttpFetch` | `fetch.go`, `policy.go` over net/http | request chain, policy, `CheckRedirect`, the context, the body |
| `FetchHTML` | `fetchHTML` and its helpers in `runtime.ts` | request chain with session headers, AbortController, timer and signal, an action for each await |
| `Acquisition` | the two above as one promise | `runtime` says whose steps are taken; its properties are stated once for both |
| `AcquisitionProofs` | theorems about the three | |
| `Transforms` | `applyCalls`, `applyDeclared` and `applyMatch` in `transforms.go` and in `runtime.ts` | `stack` is the recursion of calls, `callStack` the guard under its own name; `Left` and `Code` are where the languages differ |
| `TransformsProofs` | theorems about it, for both languages | |
| `ImportLoader` | `compile`, `loadDocument`, `compileImportHeader` | `stack` is the recursion; the rest are the fields of `Compiler` |
| `CommandLine` | both tools' `runContext` and `runWithSignals`, with `ImportLoader` as the compiler | where the main goroutine and the signal goroutine are, the two channels, what was written |
| `CommandLineProofs` | theorems about both | |
| `Types` | `internal/typesys`: types (a primitive and the marks behind it), their text, its parser over tokens, `Assignable` | operators |
| `Nodes` | the readers of arguments, properties and children (`helpers.go`), literals | operators |
| `BuiltIns` | the contract of the built-in transforms, and what `executor/builtins.go` takes, refuses and delivers | operators |
| `Compiler` | every pass of `compileExtractor`: header, imports, inputs, transforms, source, workflow, output, capabilities | operators from nodes to diagnostics and an IR |
| `Preparation` | `Prepare` and the checks of every extraction: structure, capabilities, selectors, transforms, browser, inputs, template | operators from an IR to errors and a plan |
| `Programs` | the public calls `Compile`, `newProgram` and `Program.Extract` over them: compile, prepare, acquire, workflow, reads, calls, policies, result | `phase` and `step` are where the call is, `chain` the value on its way through a field's transforms, `used` and `looked` what the run has touched so far |
| `ProgramsProofs` | theorems about it and the modules under it | |

A value of a program is a kind and what tells it apart from others of its kind
(numbers as halves, so that there are integral and fractional ones); the text a
built-in computes, spans and messages are left out. The errors of one pass are a
set of codes, and the passes keep their order. What the code walks as a tree is kept
flat here, so that definitions by recursion are functions on numbers: a type is a primitive
with its marks, the output a function from the place of an object to its members, and a
value is compared with a type part by part.

The `*MC` modules only give small values to the constants.
`ExclusiveLease` sits between the two halves of the browser: `RodAdapter` and
`PlaywrightAdapter` are each shown to implement it (property `LeaseSpec`, with the
refinement mapping `Phase` over program counters), and `BrowserExtraction` uses
its actions for the adapter. What an extraction may rely on is thus checked once
on the abstract lease. `Acquisition` and `CommandLine` instantiate the modules they
run in the same way and add no steps of their own to them.

Definitions of the form "Mutant of X" are plausible bugs: X rewritten with a
dropped guard or a missing reset. They are not part of any specification; each
property of a passing run has one that breaks it.

## Runs

| run | shows | bounds |
|---|---|---|
| `rod_adapter` | at most one goroutine is past `Acquire` and the token is never lost or doubled; `Close` waits for the extraction, closes an owned page once, and returns although extractions keep coming; headers of one session never serve another unless a failed call left them there and the next sets none; refinement of the lease | three extractions (two with headers, one without) and two closers: a holder, a waiter and a newcomer, and a race of two closes; nothing else is bounded, extractions repeat forever |
| `playwright_adapter` | the queue is exactly the waiting extractions, nobody overtakes, no operation runs in another's context, every open context is one that the adapter still knows, and an extraction that was cut short leaves none open; refinement of the lease | three extractions of one run each: a waiter in front of a waiter is the longest queue the release loop tells apart |
| `playwright_ends` | every extraction gets an answer, whatever is aborted, closed or late | two extractions |
| `browser_extraction` | with a lease every operation of an extraction works on a page that it navigated to and nobody touched since; each extraction ends with the lease given back | two extractions of two operations |
| `output_walker` | the iterative walker returns what a recursive definition of the language returns (value, error, warnings, partial flag); in extractions that end early too; a dropped row was dropped for what was answered in it; reading stops | six output shapes (fields with every policy, nested collections, bounds), two rows; one context, canceled or past its deadline at any point |
| `acquisition` | no request without the policy's approval, on any hop; limits bite exactly; a code says what it says of its cause (below); what is dropped of a session when the origin is left stays dropped; nothing is sent after the signal or the timer; the call returns | Go: every redirect graph of two URLs, bodies up to two units over the limit, four hops. TypeScript: three URLs in two origins, two redirects, bodies two over the limit |
| `transforms` | in both languages a field's value is its calls in order, nothing runs after a failure, recursion is reported where there is one and nowhere else, every field ends | two fields, five pipelines that share and nest others, four that reach themselves; the depth bound is not met |
| `command_line` | cycles and only cycles are reported, what goes on from the loader is whole and acyclic, each text is read once, nothing is read after an operational error; an interrupted command exits with its signal's status, status 0 means accepted and written, the JSON document agrees; the tool exits | three documents (self-import, cycles of two and three, a diamond, a repeated import), any root and any reading error; one signal of either kind at any point, later ones are read by nobody |
| `programs` | what the compiler accepts, `Prepare` accepts and no extraction finds a fault of the program; a host's omissions are reported before anything is acquired; every call gets a value it can take and arguments it can read; every delivered value is of the declared type; no run misses the shared plan; scripts are announced and allowed; integers reach the URL exactly | families of small programs, in each of which two or three parts vary together over what the passes that read them tell apart, most of it wrong: headers, imports, inputs and their values, URL templates, workflows, fields with their types, defaults and policies, calls of every built-in with every argument list, pipelines, `match`, external transforms, collections. Every host: with and without a browser, scripts, bindings, session and inputs |

Runs that are expected to fail, each showing a statement of the documentation
that the code does not keep:

| run | statement | what happens |
|---|---|---|
| `playwright_late_context` | "The method `adapter.close()` closes the contexts of the adapter." | `navigate` reads the generation after its first await; a `close()` during that await is not noticed, and the context it creates stays open |
| `walker_cancellation` | "A field policy or a row policy cannot recover a cancellation." | a read of the last field that a cancellation or a deadline interrupted is turned into its policy's value and the extraction succeeds; a row policy, too, drops the row of a read that the deadline interrupted |
| `transforms_recursion` | "`E_TRANSFORM_RECURSION`: declared transform recursion was detected." | in TypeScript the guard is cleared when a pipeline first suspends, so `p = [m, p]`, which both compilers accept, enters itself without end; only a signal stops it |

More were met while modelling; they follow from single definitions and
have no run. `Redirected` of `HttpFetch`: under a URL policy the copy of the client
has a `CheckRedirect`, so the limit of ten redirects that a client without one has
no longer applies, although `docs/http-runtime.md` delegates redirects to the
client. `NavCreated` of `PlaywrightAdapter`: a navigation that timed out during
`browser.newContext` closes its late context after the lease was released,
although `playwright.md` says that no operation continues then. `Explains` of
`OutputWalker`: the end of the context that the walker sees itself, canceled or past its
deadline, is `E_EXECUTION_CANCELED` and drops no row, but a browser read that the
deadline interrupts is `E_TIMEOUT`, which `isExecutionCanceled` does not know, so
`on-row-error="skip"` drops its row (`output_walker.go:84`), although
`http-execution.md:101` excepts cancellation, of a deadline too, from row policies.
`Code` of
`Transforms`: `diagnostics.md` has codes for a failing external function, a result
of the wrong type and a recursion, and TypeScript reports all of them as
`E_TRANSFORM`.

`docs/spec/diagnostics.md:132` says that an execution canceled "before or during fetch" is
`E_EXECUTION_CANCELED`. The fetches keep to it in part, and `FailureNamed` claims of each
only what it does:

* Go gives `E_HTTP_READ` to every failure of the body, a cancellation or a deadline included
  (`fetch.go:60`, `ReadFails` of `HttpFetch`); a test expects it. A request that fails
  before its body is told apart.
* TypeScript awaits `cancel()` on a body it does not want, in a redirect, before a
  refused status, and when the body is too long (`runtime.ts:339`, `365`, `439`). After an
  abort that rejects, nothing catches it, and the caller gets an error without a code
  in place of `E_TIMEOUT`, `E_EXECUTION_CANCELED` or the code of what was found
  (`CancelRejects` of `FetchHTML`).
* In both, a policy that gives up because the caller stopped is `E_URL_POLICY`
  (`Rejects` of `HttpFetch`, `PolicyRejects` of `FetchHTML`).

In the compiler and the built-ins of the Go implementation:

* `apply` without arguments is given `E_ARGUMENT_COUNT`, and then its arguments are
  sliced from the second on, which panics (`compiler/transforms.go:199`): phase
  `panicked` of `Programs`.
* `builtins-v0.1.md` says a `count` is a non-negative integer; the compiler accepts 3000000000,
  the run reads 32 bits and always fails with `E_TRANSFORM`. `parse-int as="(int)"` is the
  same: the type's parser takes parentheses, the run looks the text up. `Unusual` in
  `Programs` is the set of arguments for which `WellTyped` has to give way.
* `parse-bool` refuses equal words when they are equal as text, and the run compares
  them without case by default.
* Arguments of `press`, `fill` and `evaluate-js` that are not strings are taken as
  empty ones.
* A literal default can be accepted only for the widest types: none for `u8`, `i64` or
  `f32`, and an integer default is refused for a float field though not for a float
  input. A field that is not required and has a non-null default gets the policy
  `null` when it names none, and is refused unless its type is nullable.
* An input given as the JSON number `1.0` is refused for an integer.

In the command line: `version --json bogus` recognizes the flag and writes no JSON document,
although `docs/www/cli/index.md:91` promises one after a usage failure that follows
the flag (`Version` in `CommandLine`). And while the tool reads standard input nothing looks
at the context: SIGINT is caught and waits until the input ends.

Deadlock is checked for `rod_adapter`, whose goroutines come back forever. The other
systems end, so their configurations turn it off, and a liveness property says
that they end in the right place.

### Fairness

* Rod: `contextPage` gives every page operation a timeout, so a holder moves on; a
  Go channel serves its receivers in order, so `TakeToken` is strongly fair.
  Nothing makes an extraction start or a context end.
* Playwright: `#guard` gives every operation a timer, and resolved promises run.
  `browser.newContext` itself needs no fairness: the timer stands in for it.
* Browser executor: each call of the adapter returns (it has a timeout), and the
  adapter does not pass over a waiting extraction forever, which is what the
  two adapters provide.
* Acquisition: the goroutine and the event loop run, the deadline and the timer fire,
  a policy settles, a `cancel()` of a body settles (whichever way), and what hangs on a
  context or a controller that is over returns. The peer need not do anything.
* Walker, transforms: they are sequential programs that take their next step; the
  reader and the external functions return.
* Command line: the main goroutine runs, standard input ends, the source loader and
  the execution (which has a timeout) return. Nothing is asked of the goroutine of
  signals or of whoever sends them.
* `programs` has no liveness: its parts that could fail to end are in the runs above.

## Proofs

TLAPS checks the theorems for every value of the constants: any number of
extractions and closers, any URLs, answers and limits, any documents and texts, any
output declaration, any set of transforms, any programs and hosts. Each component's invariant (`IInv`, and
where there are more `JInv`, `KInv`, `LInv`) stands in the module of the component, where TLC
evaluates it, and has been checked by TLC on the run's instance.

| module | theorems | properties of runs among them |
|---|---|---|
| `RodAdapterProofs` | exclusion, pages, headers, refinement of the lease | `LeaseExclusive`, `PageStays`, `OwnHeaders`, `CloseClearsHeaders`, `LeaseSpec` |
| `PlaywrightAdapterProofs` | the queue, contexts, refinement of the lease | `QueueExact`, `Isolation`, `NoOrphan`, `CutStaysClosed`, `NoOvertaking`, `LeaseSpec` |
| `BrowserExtractionProofs` | whose page it is | `OwnPage` |
| `AcquisitionProofs` | both fetches | `EveryHopApproved`, `LimitsExact`, `FailureNamed`, `SessionInScope`, `NothingSentAfterStop` |
| `OutputWalkerProofs` | frames, reads, results | `DroppedForAnswer`, `StopsReading` |
| `TransformsProofs` | the guard, recursion, depth | `RecursionDetected` (in Go; in TypeScript where no transform reaches itself) |
| `CommandLineProofs` | the import walk and the command | `CyclesReported`, `AcceptedWhole`, `OutcomeReported`, `ReadsOnce` |
| `ProgramsProofs` | types of values, the life of a program | `FailsEarly`, `PlanComplete`, `JavaScriptAnnounced`, `DeliversDeclaredType`, `InputsExact`, `WellTyped` |

`RodAdapterProofs` proves that `IInv` is inductive. Mutual exclusion
(`LeaseExclusive`: at most one goroutine past `Acquire`, and the token is in the
channel exactly when there is none) carries everything else. `MutexHolder` adds
that the mutex is held exactly inside `Navigate` and `Close`, which with exclusion
gives that it is never contended. `CleanupStored` says that headers which
can be undone have their cleanup stored, and that `Navigate` sets headers on a page
that has none; without it `OwnHeaders` is not inductive. `ClosedOnce` does the same
for `PageStays`. `Refinement` shows that each step maps to a step of
`ExclusiveLease` or leaves `phase` alone.

`BrowserExtractionProofs` does the same for the extractions against the abstract
lease. Here `OwnPage` needs that the page in front of a holder is its own
(`HolderPage`), that a program counter on the page means the lease
(`LeaseFollowsRun`), and that the lease is exclusive. The assumption is only that `None` is not
an extraction.

`PlaywrightAdapterProofs` has two layers. The queue needs nothing but itself and the
type invariant: `QueueExact` is inductive, `OneHolder` follows, and `NoOvertaking` and
the refinement are read off the one action that hands the lease on. The contexts rest
on `OneGeneration`: at most one navigation closure is of the current generation, only
its context can be `#context`, and none is being closed then. `ClosingTracked`,
`CutIsStale` and `PageOwned` say what an abandoned closure, which runs on after its
extraction got its error, can still touch. `Isolation` had allowed any page once the adapter
was closed; the proof needs no such exception, and the property has none now.

`AcquisitionProofs` proves an invariant of each fetch (`Go!` and `Ts!` name them) and
combines them: a step of `Acquisition` is a step of the one
whose turn it is and leaves the other's variables alone, so both invariants are
kept, and each property follows from one of them. For Go (`IInv` of `HttpFetch`),
`EveryHopApproved` is a statement about what was sent, and is inductive only
together with `Progress`, which says that the URL that is sent next was accepted,
that nothing was refused before the call is done, and that no more of a body was
read than the limit asks for. For TypeScript, `Hops` counts redirects against
requests at each program counter, `Stopping` says that while there is a listener
the controller is live exactly when neither the signal nor the timer has fired,
which `NothingSentAfterStop` needs, and `HeadersInScope` says that headers which
belong to an origin are carried only while every hop so far stayed in it. The
assumptions are those named `Parameters` in the two modules: limits are numbers and
answers point to URLs. `FailureNamed` has a half for each language, as far as its code
goes: it is silent about `E_HTTP_READ` in Go and about a `cancel()` that rejects in
TypeScript (see above).

`OutputWalkerProofs` reads the frames as a cursor: `Frames` says that objects and
collections alternate, each at the member or row it waits for, and `Located` that a
frame's path is the cursor of those before it. `Behind` says that every path that was
read lies behind the cursor, at an earlier member or row where the two part. A step
pushes a frame, moves the innermost one on, or takes one off and moves the next, and five lemmas
about paths (`PassedPushed`, `PassedMoved`, `PassedPopped`, ...) cover all three; so
nothing is read twice, the reads can be counted, and `OneInProgress` gives
`StopsReading`. The other invariants are about what a caller gets. `AllCollected`
counts: an object has one value for each member behind it, only whole rows are kept,
and only the collection that is failing is over its maximum; hence a successful result is
whole, its collections are within their bounds, and it is partial exactly when it has
warnings (`ResultIsWhole`). `AllAnswered` and `Told` compare: each field has what was
answered at its own path or what its declaration and policy put in its place, and a result
that is not partial comes from a walk in which no read of any row failed
(`ResultIsAnswered`). `Explained` is about dropped rows: an error on its way up that is no
cancellation was answered at or inside the call that returns it. It needs `RowsAnswered`,
that each collection on the stack has matched its rows, for the bounds of a
collection are an error of their own; hence a dropped row was dropped for something
that was answered in it (`DropsAreExplained`). What these theorems say is the part of
`AgreesWithDefinition` that can be said without recursion. Assumed is that output declarations are well formed (`WellFormed`: there is a root, members are fields or collections, and the rows of collections are declared), which the IR's types guarantee.

`TransformsProofs` treats the two languages together, as the model does. `Guard` says that
`callStack` names only transforms that are being applied, in both; in Go it names them all, and so
`RecursionDetected` holds whatever the transforms call. TypeScript may have lost names,
and there the theorem asks for `Acyclic`, a rank that falls from each pipeline to
what it calls: ranks fall along the stack, so nothing is inside itself and no
recursion is reported. A symbol is on the stack once, so the stack is no deeper
than the number of declared transforms plus one (`DepthIsBounded`); with the five of
the run, the bound `MaxDepth = 6` cuts nothing off in Go. Assumed is `WellFormed`:
finitely many transforms are declared, `None` is none of their names, and pipelines and
fields are sequences of names; a name that is not declared is a built-in's.

`CommandLineProofs` has two halves. `Watching` says that the channel `observed` holds
the signal before the context is over, so that whoever was interrupted finds it
there; `Writing` ties the document to the code. For the walk, `Reading` says that only
the innermost call waits for a text, that the text is not there yet, and that no
operational error is behind it: every other call is at its import nodes, so a
return never uncovers a second reader. `ReadsOnce` follows for every step.
`CyclesReported` and `AcceptedWhole` speak of what a document reaches, the least set
closed under imports, which the lemmas `Reaches...` handle without induction. A
reported cycle is one because each active call is reached from those before it (`Chain`). That none
is missed is `Complete`: while nothing was wrong, a finished document has finished
imports and is on no cycle, and an active one has only imports that are finished, still to
be taken, or the next call's. When the walk is over everything parsed is finished,
which with `Found` is exactly what the entry reaches.

`ProgramsProofs` is about any corpus, host and answer. Its first part says what types and values
are. `matchesRuntimeType` and `normalizeJSONResult` recur over a type and a value at once; here
each is a function on the number of marks that are left. From the well-foundedness of
the naturals `Induct` gets an induction that the prover can use, and with it these functions
are the ones that their equations say (`MatchUnfold`), and what is normalized to a type
matches it (`NormalizedMatches`). The second part is the life of a program. `IInv` says what a program has been through in each
phase: its IR is `Extractor` of its documents, its plan is `Prepare` of that IR, without errors
(`FromCompiler`, `FromPlan`); an extraction that is under way has passed what `Preflight` asks
(`Begun`), runs scripts only where it drives a browser (`Driven`), and works on the calls of a field
or a pipeline (`Framed`). `FieldOutcome` is the case analysis the rest stands on: whatever a
step of a field meets, the extraction returns with a code that is no fault of the host, the row is given up, a
value of the effective type is delivered, or the field goes on with frames of its own.
`FailsEarly` needs of it that the external functions which are called were asked for by
`Unbound`; `PlanComplete` that a DOM run of a browser's program was refused unless its snapshot
is supported; `JavaScriptAnnounced` that compiler and executor agree on what a script is;
`DeliversDeclaredType` that every way to a delivered value, a default that was
normalized, a null policy, an optional field without a value, ends in the type that the compiler
derived (`FieldSound`).

The third part is the soundness of types, `WellTyped`. The compiler and the executor
share no code for it: one assigns types to nodes, the other looks at values and
at arguments that have become JSON. The invariant is `Typed`: the frames of a field are
linked, so that each call yields what the next one takes and the last one what the
call of the frame below was said to yield (`LinkedFrames`), and the value is of the type that is due.
Together with it goes what a program is made of: its documents are of the corpus
(`FromCorpus`), and it was compiled without flaws (`Accepted`). That a step keeps `Typed` rests on five results. A value
that matches a type matches all types that `IsAssignable` lets it go to
(`AssignableMatches`, an induction over the marks of both types). A literal that the compiler takes
for a type is normalized by the executor to that type (`LiteralNormal`). A built-in call
in the IR comes from a node in which the compiler found no flaw (`CallsFromNodes`);
therefore the executor can read its arguments (`BuiltinReads`, except the `Unusual` ones), takes
the value (`BuiltinTakes`), and yields the type that was derived (`BuiltinYields`). Chains that
`Prepare` has checked are linked (`ChainLinked`), and stay so when a frame is advanced, entered
and left (`AdvancedLinked`, `PushedLinked`, `PoppedLinked`). An external function's value was
compared with its declared type, a match's result normalized to it.

Assumed are the parameters of `Nodes` and `BuiltIns` (among them that 32 bits hold every radix
and every number of capture groups), `NestingAssumption` of `Programs`, which says that the bound on nesting
cuts no program of the corpus short, and `ParserAssumption`, which says of the nodes that are
applied in it what the parser guarantees: properties are a sequence, texts are there, integers fit in 64 bits.

Only model-checked:

* all liveness: fairness and ENABLED are out of the prover's reach;
* `AgreesWithDefinition` of the walker and of the transforms: what is right is defined
  there by recursion over the output and over the calls;
* `AcceptedRuns` of `Programs`: it sets every check of the compiler against the one
  of the executor that repeats it.

## What is left out, and the plan

Assumed of the surroundings: a Playwright `context.close()` that has settled has closed the
context, also when it rejected (`index.ts:353` swallows the rejection and has forgotten the
context; `NoOrphan` and `CutStaysClosed` rest on this). The result of an execution
is made of JSON values, so `json.Marshal` does not refuse it (`main.go:373`).

Left out of modelled parts: cookies that a session sets in the Rod adapter's browser
(`setCookies`), which nothing ever takes back, so `OwnHeaders` and `CloseClearsHeaders` speak of
headers only; and when and how the guarded dialer of `urlguard.go` resolves names:
that it may refuse a connection, and with which code, is in `TransportFails` of `HttpFetch`.

Left out for good: pure conversions with nothing to interleave (the lexer,
canonical JSON, result decoding, authoring, charset detection, the URL guard's
tables of networks), network and browser internals, test harnesses. The TypeScript
compiler and its built-ins are twins of the Go ones, kept equal by the conformance
corpus; `Compiler` and `Preparation` are from the Go twin.

Planned, in this order:

1. A proof of `AcceptedRuns`: what the compiler checks implies what `Prepare` checks. For
   literals and for the arguments of built-ins it is there (`LiteralNormal`, `BuiltinReads`).
2. `NetworkIdle`: the request counters of the Playwright adapter, which late events
   of a replaced page still change.
3. `Selectors`: matching in both languages against a declarative definition on
   small trees. `Parser`: the nesting and recovery of the KDL parser over tokens.
4. Resumption of a partial release.
