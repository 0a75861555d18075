----------------------------- MODULE CommandLine ----------------------------
(***************************************************************************)
(* The command-line tools (cmd/scrape-kdl/main.go and the rod adapter's    *)
(* adapters/rod/cmd/scrape-kdl-rod/main.go): runContext, which compiles,   *)
(* executes and reports, next to the goroutine of runWithSignals, which    *)
(* turns a signal into the end of the context and into the exit status.    *)
(*                                                                         *)
(* The compiler runs as ImportLoader; what its semantic pass, the inputs,  *)
(* the session file and the execution answer is chosen when they return.   *)
(* So are the tool and the command, the first time they matter: validate,  *)
(* compile and extract compile alike, and the rod adapter's tool has only  *)
(* the last.                                                               *)
(***************************************************************************)
EXTENDS Naturals, Sequences

CONSTANTS Document, Entry, Texts, None      \* see ImportLoader

VARIABLES
    stack, loading, documents, files, diags, operationalErr, reads, result, \* ImportLoader
    canceled,       \* ctx is over
    phase,          \* where runWithSignals is
    request,        \* "compiles" for validate, compile and extract
    json,           \* --json was recognized
    answer,         \* the JSON document on stdout
    lost,           \* a write failed that the tool keeps track of
    code,           \* what runContext returns
    exit,           \* the exit status
    watcher,        \* where the goroutine of runWithSignals is
    signals,        \* the channel of that name, of one signal
    received,       \* what the goroutine took from it
    observed        \* the channel of that name

loader == <<stack, loading, documents, files, diags, operationalErr, reads, result>>
watching == <<watcher, signals, received, observed, canceled>>
reporting == <<request, json, answer, lost, code>>
vars == <<loader, watching, reporting, phase, exit>>

Loader == INSTANCE ImportLoader
ASSUME CommandAssumption == Loader!Parameters

Init ==
    /\ Loader!Init
    /\ phase = "arguments" /\ request = "none" /\ json = FALSE
    /\ answer = "none" /\ lost = FALSE /\ code = 0 /\ exit = None
    /\ watcher = "select" /\ signals = None /\ received = None /\ observed = None

-----------------------------------------------------------------------------
(* runContext.                                                             *)

(* It returns after its last writes, and `done` is closed.  scrape-kdl's   *)
(* errorTrackingWriter makes any failed write, of a message too, a         *)
(* processing failure, before the document is written or after it.         *)
Finish(doc, status) ==
    /\ phase' = "closed"
    /\ lost' \in BOOLEAN
    /\ code' = IF lost' THEN 1 ELSE status
    /\ \/ /\ doc # "none"
          /\ answer' = IF answer = "none" THEN doc ELSE "twice"
       \/ /\ doc = "none" \/ lost'
          /\ answer' = answer
    /\ UNCHANGED <<loader, watching, exit>>

Ok(r, j) == request' = r /\ json' = j /\ Finish(IF j THEN "ok" ELSE "none", 0)
Fail(r, j) == request' = r /\ json' = j /\ Finish(IF j THEN "failed" ELSE "none", 1)
Misused(r, j) == request' = r /\ json' = j /\ Finish(IF j THEN "failed" ELSE "none", 2)

Help == phase = "arguments" /\ Ok("other", FALSE)

Version ==
    /\ phase = "arguments"
    /\ \/ \E j \in BOOLEAN : Ok("other", j)
       \/ \E j \in BOOLEAN : Misused("other", j)    \* scrape-kdl-rod
       \/ /\ request' = "other" /\ json' \in BOOLEAN \* scrape-kdl: usageError
          /\ Finish("none", 2)

(* No command, an unknown one, or wrong arguments of one. *)
Misuse ==
    /\ phase = "arguments"
    /\ \/ Misused("none", FALSE)
       \/ \E j \in BOOLEAN : Misused("compiles", j)

(* compileInput may read standard input; only scrape-kdl's looks at the    *)
(* context before it.                                                      *)
CompileInput ==
    /\ phase = "arguments"
    /\ \/ phase' = "compiling" /\ UNCHANGED <<loader, watching, reporting, exit>>
       \/ \E j \in BOOLEAN : Fail("compiles", j)

CompileStep ==
    /\ phase = "compiling"
    /\ Loader!Next
    /\ UNCHANGED <<watching, reporting, phase, exit>>

Compiled == phase = "compiling" /\ result # "none"

(* An operational error, a diagnostic of the loader or of the semantic     *)
(* pass.                                                                   *)
CompileFails ==
    /\ Compiled
    /\ \E j \in BOOLEAN : Fail("compiles", j)

RunValidate ==
    /\ Compiled /\ result = "graph"
    /\ \E j \in BOOLEAN : Ok("compiles", j)

(* The IR goes to stdout or to a file, with --json only to stdout. *)
RunCompile ==
    /\ Compiled /\ result = "graph"
    /\ \E j \in BOOLEAN : Ok("compiles", j)

(* runExtract goes on to the inputs, the session file and the execution.   *)
RunExtract ==
    /\ Compiled /\ result = "graph"
    /\ \/ \E j \in BOOLEAN : Misused("compiles", j)
       \/ \E j \in BOOLEAN : Fail("compiles", j)
       \/ /\ ~canceled
          /\ phase' = "executing"
          /\ request' = "compiles" /\ json' \in BOOLEAN
          /\ UNCHANGED <<loader, watching, answer, lost, code, exit>>

(* The execution answers; one that was interrupted may, after its last     *)
(* look at the context.  What it answers can be written: a result is made  *)
(* of JSON values, so json.Marshal (main.go:373) has nothing to refuse.    *)
ExecutionReturns ==
    /\ phase = "executing"
    /\ Ok("compiles", json) \/ Fail("compiles", json)

-----------------------------------------------------------------------------
(* runWithSignals around it.                                               *)
Status(s) == IF s = "SIGTERM" THEN 143 ELSE 130

Exit ==
    /\ phase = "closed"
    /\ phase' = "exited"
    /\ exit' = IF observed # None THEN Status(observed) ELSE code
    /\ UNCHANGED <<loader, watching, reporting>>

(* signal.Notify: one signal waits, more are dropped, and one that comes   *)
(* after the goroutine took its own is read by nobody.                     *)
Signal(s) ==
    /\ phase # "exited" /\ watcher = "select" /\ signals = None
    /\ signals' = s
    /\ UNCHANGED <<loader, watcher, received, observed, canceled, reporting, phase, exit>>

(* The goroutine selects; with both channels ready it takes either.        *)
TakeSignal ==
    /\ phase # "exited" /\ watcher = "select" /\ signals # None
    /\ watcher' = "observe" /\ received' = signals /\ signals' = None
    /\ UNCHANGED <<loader, observed, canceled, reporting, phase, exit>>

(* Mutant of Forward: the context is canceled first. *)
ForwardReversed ==
    /\ phase # "exited"
    /\ \/ watcher = "observe" /\ watcher' = "cancel" /\ canceled' = TRUE /\ UNCHANGED observed
       \/ watcher = "cancel" /\ watcher' = "gone" /\ observed' = received /\ UNCHANGED canceled
    /\ UNCHANGED <<loader, signals, received, reporting, phase, exit>>

Forward ==
    /\ phase # "exited"
    /\ \/ watcher = "observe" /\ watcher' = "cancel" /\ observed' = received /\ UNCHANGED canceled
       \/ watcher = "cancel" /\ watcher' = "gone" /\ canceled' = TRUE /\ UNCHANGED observed
    /\ UNCHANGED <<loader, signals, received, reporting, phase, exit>>

WatcherLeaves ==
    /\ phase = "closed" /\ watcher = "select"
    /\ watcher' = "gone"
    /\ UNCHANGED <<loader, signals, received, observed, canceled, reporting, phase, exit>>

Main ==
    \/ Help \/ Version \/ Misuse \/ CompileInput \/ CompileStep \/ CompileFails
    \/ RunValidate \/ RunCompile \/ RunExtract \/ ExecutionReturns
    \/ Exit

Next ==
    \/ Main
    \/ \E s \in {"SIGINT", "SIGTERM"} : Signal(s)
    \/ TakeSignal \/ Forward \/ WatcherLeaves

(* Fairness: the main goroutine runs, and the loader and the execution,    *)
(* which has a timeout, return.  Nothing is asked of the other goroutine.  *)
Spec == Init /\ [][Next]_vars
FairSpec == Spec /\ WF_vars(Main)

-----------------------------------------------------------------------------
(* "E_IMPORT_CYCLE: import graph contains a cycle", whatever interrupts    *)
(* the compiler.                                                           *)
CyclesReported == Loader!CyclesReported

(* What goes on from the loader is a whole import graph. *)
AcceptedWhole == Loader!AcceptedWhole

(* Every import of a path sees the same text. *)
ReadsOnce == Loader!ReadsOnce

(* What the caller of the tool sees agrees with what happened.  A run that *)
(* was interrupted, in whatever it was doing, exits with the status of its *)
(* signal and not as a failure of the document; status 0 means that the    *)
(* document was accepted and that everything was written; and with --json  *)
(* validate, compile and extract write exactly one document, which agrees  *)
(* with the status.                                                        *)
OutcomeReported ==
    phase = "exited" =>
        /\ canceled => exit = Status(received)
        /\ exit = 0 => ~lost /\ (request = "compiles" => result = "graph")
        /\ json /\ request = "compiles" /\ ~lost =>
              /\ answer \in {"ok", "failed"}
              /\ exit = 0 => answer = "ok"
              /\ exit \in {1, 2} => answer = "failed"

(* The tool exits, whatever the imports look like and whichever signals    *)
(* arrive when.                                                            *)
Exits == <>(phase = "exited")

-----------------------------------------------------------------------------
(* The invariant: what ImportLoader's walk keeps (Walk); the channel        *)
(* `observed` holds the signal before the context is over, and what was    *)
(* written agrees with the code before anybody looks at it.                *)
Watching ==
    /\ watcher \in {"select", "observe"} => observed = None
    /\ watcher \in {"observe", "cancel"} => received # None
    /\ watcher = "cancel" => observed = received
    /\ canceled => watcher = "gone" /\ observed = received /\ received # None

Running == {"arguments", "compiling", "executing"}

Writing ==
    /\ phase \in Running => answer = "none"
    /\ phase = "executing" => request = "compiles" /\ result = "graph"
    /\ phase \in {"closed", "exited"} =>
          /\ code \in {0, 1, 2}
          /\ code = 0 => ~lost /\ (request = "compiles" => result = "graph")
          /\ json /\ request = "compiles" /\ ~lost =>
                answer = IF code = 0 THEN "ok" ELSE "failed"
    /\ phase = "exited" => exit = IF observed # None THEN Status(observed) ELSE code

TypeOK ==
    /\ watcher \in {"select", "observe", "cancel", "gone"}
    /\ phase \in Running \cup {"closed", "exited"}
    /\ lost \in BOOLEAN /\ json \in BOOLEAN /\ canceled \in BOOLEAN

IInv == TypeOK /\ Watching /\ Writing /\ Loader!Walk
=============================================================================
