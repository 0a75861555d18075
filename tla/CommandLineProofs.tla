-------------------------- MODULE CommandLineProofs -------------------------
(***************************************************************************)
(* Theorems about CommandLine, for every set of documents and texts, and   *)
(* with them about ImportLoader, whose steps are those of CompileStep.     *)
(* The argument has two halves that share no variable but `result`: the    *)
(* goroutine of signals and what is written (Report), and the walk.  Of    *)
(* the walk, its shape (Shape) comes first, then what it knows of the      *)
(* import graph (Met): nothing but what import nodes say puts a path into  *)
(* c.loading, and a document is finished after everything it reaches, so   *)
(* that a cycle is met by the first of its documents to be entered.        *)
(***************************************************************************)
EXTENDS CommandLine, SequenceTheorems, TLAPS

Shape == Loader!TypeOK /\ Loader!Reading
Report == TypeOK /\ Watching /\ Writing

-----------------------------------------------------------------------------
(* The goroutine and the exit status.                                      *)
LEMMA FinishStep ==
    ASSUME Report, phase \in Running, NEW doc, NEW status \in {0, 1, 2},
           Finish(doc, status), json' \in BOOLEAN,
           status = 0 /\ request' = "compiles" => result = "graph",
           json' /\ request' = "compiles" => doc = IF status = 0 THEN "ok" ELSE "failed"
    PROVE  Report'
<1>1. phase' = "closed" /\ UNCHANGED <<watcher, received, observed, canceled, result>>
  BY DEF Finish, watching, loader
<1>2. TypeOK' /\ Watching'
  BY <1>1 DEF Report, TypeOK, Watching, Running, Finish
<1>3. Writing'
  BY <1>1 DEF Report, Writing, TypeOK, Running, Finish
<1>. QED  BY <1>2, <1>3 DEF Report

LEMMA MainSteps ==
    ASSUME Report,
           \/ Help \/ Version \/ Misuse \/ CompileInput \/ CompileFails
           \/ RunValidate \/ RunCompile \/ RunExtract \/ ExecutionReturns
    PROVE  Report'
<1>1. CASE Help
  BY <1>1, FinishStep DEF Help, Ok, Running
<1>2. CASE Version
  BY <1>2, FinishStep DEF Version, Ok, Misused, Running
<1>3. CASE Misuse
  <2>1. CASE Misused("none", FALSE)
    BY <1>3, <2>1, FinishStep DEF Misuse, Misused, Running
  <2>2. CASE \E j \in BOOLEAN : Misused("compiles", j)
    BY <1>3, <2>2, FinishStep DEF Misuse, Misused, Running
  <2>. QED  BY <1>3, <2>1, <2>2 DEF Misuse
<1>4. CASE CompileInput
  <2>1. CASE phase' = "compiling" /\ UNCHANGED <<loader, watching, reporting, exit>>
    BY <1>4, <2>1 DEF Report, TypeOK, Watching, Writing, Running, CompileInput,
       loader, watching, reporting
  <2>2. CASE \E j \in BOOLEAN : Fail("compiles", j)
    BY <1>4, <2>2, FinishStep DEF CompileInput, Fail, Running
  <2>. QED  BY <1>4, <2>1, <2>2 DEF CompileInput
<1>5. CASE CompileFails
  BY <1>5, FinishStep DEF CompileFails, Compiled, Fail, Running
<1>6. CASE RunValidate
  BY <1>6, FinishStep DEF RunValidate, Compiled, Ok, Running
<1>7. CASE RunCompile
  BY <1>7, FinishStep DEF RunCompile, Compiled, Ok, Running
<1>8. CASE RunExtract
  <2>1. CASE \E j \in BOOLEAN : Misused("compiles", j) \/ Fail("compiles", j)
    BY <1>8, <2>1, FinishStep DEF RunExtract, Compiled, Misused, Fail, Running
  <2>2. CASE /\ phase' = "executing" /\ request' = "compiles" /\ json' \in BOOLEAN
             /\ UNCHANGED <<loader, watching, answer, lost, code, exit>>
    BY <1>8, <2>2 DEF Report, TypeOK, Watching, Writing, Running, RunExtract,
       Compiled, loader, watching
  <2>. QED  BY <1>8, <2>1, <2>2 DEF RunExtract
<1>9. CASE ExecutionReturns
  <2>1. phase = "executing" /\ result = "graph" /\ json \in BOOLEAN
    BY <1>9 DEF ExecutionReturns, Report, Writing, TypeOK
  <2>. QED  BY <1>9, <2>1, FinishStep DEF ExecutionReturns, Ok, Fail, Running
<1>. QED  BY <1>1, <1>2, <1>3, <1>4, <1>5, <1>6, <1>7, <1>8, <1>9

LEMMA OtherSteps ==
    ASSUME Report,
           \/ CompileStep \/ Exit \/ TakeSignal \/ Forward \/ WatcherLeaves
           \/ (\E s \in {"SIGINT", "SIGTERM"} : Signal(s))
           \/ UNCHANGED vars
    PROVE  Report'
<1>. USE DEF Report
<1>1. CASE CompileStep
  BY <1>1 DEF TypeOK, Watching, Writing, Running, CompileStep, watching, reporting
<1>2. CASE Exit
  BY <1>2 DEF TypeOK, Watching, Writing, Running, Exit, loader, watching, reporting
<1>3. CASE TakeSignal
  BY <1>3 DEF TypeOK, Watching, Writing, Running, TakeSignal, loader, reporting
<1>4. CASE Forward
  <2>1. CASE watcher = "observe" /\ watcher' = "cancel" /\ observed' = received
             /\ UNCHANGED canceled
    BY <1>4, <2>1 DEF TypeOK, Watching, Writing, Running, Forward, loader, reporting
  <2>2. CASE watcher = "cancel" /\ watcher' = "gone" /\ canceled' = TRUE /\ UNCHANGED observed
    BY <1>4, <2>2 DEF TypeOK, Watching, Writing, Running, Forward, loader, reporting
  <2>. QED  BY <1>4, <2>1, <2>2 DEF Forward
<1>5. CASE WatcherLeaves
  BY <1>5 DEF TypeOK, Watching, Writing, Running, WatcherLeaves, loader, reporting
<1>6. CASE \E s \in {"SIGINT", "SIGTERM"} : Signal(s)
  BY <1>6 DEF TypeOK, Watching, Writing, Running, Signal, loader, reporting
<1>7. CASE UNCHANGED vars
  BY <1>7 DEF TypeOK, Watching, Writing, Running, vars, loader, watching, reporting
<1>. QED  BY <1>1, <1>2, <1>3, <1>4, <1>5, <1>6, <1>7

-----------------------------------------------------------------------------
(* The walk.  Only the innermost call waits for a text, so that whatever   *)
(* it does leaves calls behind that are at their import nodes.             *)
LEMMA InnermostCall ==
    ASSUME Shape, stack # <<>>
    PROVE  /\ Len(stack) \in Nat \ {0} /\ Len(stack) \in DOMAIN stack
           /\ Loader!Current = stack[Len(stack)]
           /\ Loader!Current \in Loader!Call /\ Loader!Current.path \in Document
<1>1. /\ Len(stack) \in Nat \ {0} /\ Len(stack) \in DOMAIN stack
      /\ stack[Len(stack)] \in Loader!Call
  BY DEF Shape, Loader!TypeOK
<1>2. \A c \in Loader!Call : c.path \in Document
  BY DEF Loader!Call
<1>. QED  BY <1>1, <1>2 DEF Loader!Current, Loader!Last

(* A call that returns leaves the others as they are. *)
LEMMA ReturnEffect ==
    ASSUME Shape, stack # <<>>, Loader!Return
    PROVE  /\ Len(stack') = Len(stack) - 1 /\ DOMAIN stack' = 1..(Len(stack) - 1)
           /\ stack' \in Seq(Loader!Call)
           /\ \A i \in DOMAIN stack' : i \in DOMAIN stack /\ i # Len(stack) /\ stack'[i] = stack[i]
<1>. DEFINE n == Len(stack)
<1>1. stack' = SubSeq(stack, 1, n - 1)
  BY DEF Loader!Return, Loader!Front
<1>2. n \in Nat \ {0}
  BY InnermostCall
<1>3. stack \in Seq(Loader!Call) /\ n - 1 \in Nat /\ DOMAIN stack = 1..n
  BY <1>2 DEF Shape, Loader!TypeOK
<1>4. n - 1 \in Int /\ 1 \in Int /\ \A i \in 1..(n - 1) : stack[i] \in Loader!Call
  BY <1>2, <1>3
<1>5. stack' \in Seq(Loader!Call)
  BY <1>1, <1>4, SubSeqProperties
<1>6. Len(stack') = IF 1 <= n - 1 THEN (n - 1) - 1 + 1 ELSE 0
  BY <1>1, <1>4, SubSeqProperties
<1>7. Len(stack') = n - 1
  <2>. HIDE DEF n
  <2>1. n \in Nat /\ n # 0
    BY <1>2
  <2>. QED  BY <1>6, <2>1
<1>8. DOMAIN stack' = 1..(n - 1)
  BY <1>5, <1>7
<1>9. \A i \in 1..(n - 1) : stack'[i] = stack[i]
  BY <1>1, <1>2, <1>3
<1>. QED  BY <1>2, <1>3, <1>5, <1>7, <1>8, <1>9

LEMMA ReturnStep ==
    ASSUME Shape, stack # <<>>, Loader!Return, UNCHANGED documents, UNCHANGED reads \/ Loader!CountRead
    PROVE  Shape'
<1>1. Loader!Current.path \in Document
  BY InnermostCall
<1>2. /\ stack' \in Seq(Loader!Call)
      /\ Len(stack') = Len(stack) - 1
      /\ \A i \in DOMAIN stack' : i \in DOMAIN stack /\ i # Len(stack) /\ stack'[i] = stack[i]
  BY ReturnEffect
<1>3. Loader!TypeOK'
  <2>1. reads' \in [Document -> Nat]
    BY <1>1 DEF Shape, Loader!TypeOK, Loader!CountRead
  <2>. QED  BY <1>2, <2>1 DEF Shape, Loader!TypeOK
<1>4. Loader!Reading'
  BY <1>2 DEF Shape, Loader!Reading
<1>. QED  BY <1>3, <1>4 DEF Shape

(* What a read does: nothing is read that was parsed, or after an error.   *)
LEMMA ReadSteps ==
    ASSUME Shape,
           \/ Loader!ReadStops \/ Loader!ReadFails \/ Loader!ReadBroken
           \/ \E text \in Texts : Loader!ReadText(text)
    PROVE  /\ Shape'
           /\ \A d \in Document :
                 reads'[d] # reads[d] \/ documents'[d] # documents[d]
                     => documents[d] = None /\ operationalErr = "none"
<1>. DEFINE n == Len(stack)
            here == Loader!Current.path
<1>1. stack # <<>> /\ Loader!Current.at = "read"
  BY DEF Loader!ReadStops, Loader!ReadFails, Loader!ReadBroken, Loader!ReadText, Loader!InCall
<1>2. /\ n \in Nat \ {0} /\ n \in DOMAIN stack /\ here \in Document
      /\ Loader!Current = stack[n] /\ stack[n] \in Loader!Call
  BY <1>1, InnermostCall
<1>3. documents[here] = None /\ operationalErr = "none"
  BY <1>1, <1>2 DEF Shape, Loader!Reading
<1>4. \A d \in Document : reads'[d] # reads[d] => d = here
  BY DEF Shape, Loader!TypeOK, Loader!ReadStops, Loader!ReadFails, Loader!ReadBroken,
     Loader!ReadText, Loader!CountRead
<1>5. ASSUME Loader!ReadStops \/ Loader!ReadFails \/ Loader!ReadBroken
      PROVE  Shape' /\ UNCHANGED documents
  BY <1>1, <1>5, ReturnStep DEF Loader!ReadStops, Loader!ReadFails, Loader!ReadBroken
<1>6. ASSUME NEW text \in Texts, Loader!ReadText(text)
      PROVE  Shape' /\ \A d \in Document : documents'[d] # documents[d] => d = here
  <2>1. text.imports \in Seq(Document)
    BY CommandAssumption DEF Loader!Parameters
  <2>2. stack' = [stack EXCEPT ![n].at = "nodes", ![n].todo = text.imports]
    BY <1>6 DEF Loader!ReadText
  <2>3. documents' = [documents EXCEPT ![here] = text]
    BY <1>6 DEF Loader!ReadText
  <2>4. reads' \in [Document -> Nat]
    <3>1. reads' = [reads EXCEPT ![here] = @ + 1]
      BY <1>6 DEF Loader!ReadText, Loader!CountRead
    <3>. QED  BY <1>2, <3>1 DEF Shape, Loader!TypeOK
  <2>5. Loader!TypeOK'
    <3>1. [stack[n] EXCEPT !.at = "nodes", !.todo = text.imports] \in Loader!Call
      BY <1>2, <2>1 DEF Loader!Call
    <3>2. stack' = [stack EXCEPT ![n] = [stack[n] EXCEPT !.at = "nodes", !.todo = text.imports]]
      BY <2>2, <1>2 DEF Shape, Loader!TypeOK
    <3>3. stack' \in Seq(Loader!Call)
      BY <1>2, <3>1, <3>2, ExceptSeq DEF Shape, Loader!TypeOK
    <3>4. documents' \in [Document -> Texts \cup {None}]
      BY <1>2, <2>3 DEF Shape, Loader!TypeOK
    <3>. QED  BY <2>4, <3>3, <3>4 DEF Loader!TypeOK
  <2>6. \A i \in DOMAIN stack' : stack'[i].at # "read"
    BY <1>2, <2>2 DEF Shape, Loader!TypeOK, Loader!Reading
  <2>7. Loader!Reading'
    BY <2>6 DEF Loader!Reading
  <2>. QED  BY <1>2, <2>3, <2>5, <2>7 DEF Shape, Loader!TypeOK
<1>. QED  BY <1>3, <1>4, <1>5, <1>6

(* The import nodes: a call is added only for a text that is not there.    *)
LEMMA NodeSteps ==
    ASSUME Shape,
           \/ \E d \in Document : \/ Loader!ImportSkipped(d) \/ Loader!ImportCycle(d)
                                   \/ Loader!ImportKnown(d) \/ Loader!ImportNew(d)
           \/ Loader!DocumentLoaded
    PROVE  Shape' /\ UNCHANGED <<documents, reads>>
<1>. DEFINE n == Len(stack)
<1>1. stack # <<>> /\ Loader!Current.at = "nodes"
  BY DEF Loader!ImportSkipped, Loader!ImportCycle, Loader!ImportKnown, Loader!ImportNew,
     Loader!DocumentLoaded, Loader!Importing, Loader!InCall
<1>2. /\ n \in Nat \ {0} /\ n \in DOMAIN stack
      /\ Loader!Current = stack[n] /\ stack[n] \in Loader!Call
  BY <1>1, InnermostCall
<1>3. stack \in Seq(Loader!Call)
  BY DEF Shape, Loader!TypeOK
<1>4. ASSUME stack[n].todo # <<>>
      PROVE  /\ Loader!Advanced \in Seq(Loader!Call) /\ Len(Loader!Advanced) = n
             /\ \A i \in 1..n : Loader!Advanced[i].at # "read"
  <2>1. [stack[n] EXCEPT !.todo = Tail(stack[n].todo)] \in Loader!Call
    <3>1. stack[n].todo \in Seq(Document)
      BY <1>2 DEF Loader!Call
    <3>2. Tail(stack[n].todo) \in Seq(Document)
      BY <1>4, <3>1
    <3>. QED  BY <1>2, <3>2 DEF Loader!Call
  <2>2. Loader!Advanced = [stack EXCEPT ![n] = [stack[n] EXCEPT !.todo = Tail(stack[n].todo)]]
    BY <1>2, <1>3 DEF Loader!Advanced
  <2>3. \A i \in 1..n : stack[i].at # "read"
    BY <1>1, <1>2, <1>3 DEF Shape, Loader!Reading
  <2>. QED  BY <1>2, <1>3, <2>1, <2>2, <2>3
<1>5. ASSUME NEW d \in Document,
             Loader!ImportSkipped(d) \/ Loader!ImportCycle(d) \/ Loader!ImportKnown(d)
      PROVE  Shape' /\ UNCHANGED <<documents, reads>>
  <2>1. stack' = Loader!Advanced /\ stack[n].todo # <<>> /\ UNCHANGED <<documents, reads>>
    BY <1>2, <1>5 DEF Loader!ImportSkipped, Loader!ImportCycle, Loader!ImportKnown, Loader!Importing
  <2>2. \A i \in DOMAIN stack' : stack'[i].at # "read"
    BY <1>4, <2>1
  <2>. QED  BY <1>4, <2>1, <2>2 DEF Shape, Loader!TypeOK, Loader!Reading
<1>6. ASSUME NEW d \in Document, Loader!ImportNew(d)
      PROVE  Shape' /\ UNCHANGED <<documents, reads>>
  <2>1. /\ stack' = Append(Loader!Advanced, Loader!Calling(d, "module"))
        /\ stack[n].todo # <<>> /\ UNCHANGED <<documents, reads, operationalErr>>
        /\ documents[d] = None /\ operationalErr = "none"
    BY <1>2, <1>6 DEF Loader!ImportNew, Loader!Importing
  <2>2. Loader!Calling(d, "module") \in Loader!Call /\ Loader!Calling(d, "module").path = d
    BY DEF Loader!Calling, Loader!Call
  <2>3. stack' \in Seq(Loader!Call) /\ Len(stack') = n + 1 /\ stack'[n + 1].path = d
        /\ \A i \in 1..n : stack'[i].at # "read"
    BY <1>2, <1>4, <2>1, <2>2
  <2>4. Loader!Reading'
    BY <1>2, <2>1, <2>3 DEF Loader!Reading
  <2>. QED  BY <2>1, <2>3, <2>4 DEF Shape, Loader!TypeOK
<1>7. CASE Loader!DocumentLoaded
  BY <1>1, <1>7, ReturnStep DEF Loader!DocumentLoaded
<1>. QED  BY <1>5, <1>6, <1>7

-----------------------------------------------------------------------------
(* Import graphs.  `docs` is what c.documents may be.                      *)
Graph == [Document -> Texts \cup {None}]
Closures(docs, d) ==
    {ds \in SUBSET Document : \A e \in ds \cup {d} : Loader!Imports(docs, e) \subseteq ds}

LEMMA ImportsKnown ==
    ASSUME NEW docs \in Graph, NEW d \in Document
    PROVE  Loader!Imports(docs, d) \subseteq Document
<1>1. CASE docs[d] = None
  BY <1>1 DEF Loader!Imports
<1>2. CASE docs[d] # None
  <2>1. docs[d] \in Texts
    BY <1>2 DEF Graph
  <2>2. docs[d].imports \in Seq(Document)
    BY <2>1, CommandAssumption DEF Loader!Parameters
  <2>. QED  BY <1>2, <2>2 DEF Loader!Imports, Loader!Range
<1>. QED  BY <1>1, <1>2

(* Reaches(docs, d) is the least set with the imports of d and of its own  *)
(* members.                                                                *)
LEMMA ReachesLeast ==
    ASSUME NEW docs \in Graph, NEW d \in Document
    PROVE  /\ Loader!Reaches(docs, d) \subseteq Document
           /\ Loader!Imports(docs, d) \subseteq Loader!Reaches(docs, d)
           /\ \A e \in Loader!Reaches(docs, d) : Loader!Imports(docs, e) \subseteq Loader!Reaches(docs, d)
           /\ \A ds \in Closures(docs, d) : Loader!Reaches(docs, d) \subseteq ds
<1>1. Loader!Reaches(docs, d) = {t \in Document : \A ds \in Closures(docs, d) : t \in ds}
  BY DEF Loader!Reaches, Closures
<1>2. \A ds \in Closures(docs, d) : Loader!Reaches(docs, d) \subseteq ds
  BY <1>1
<1>3. Loader!Imports(docs, d) \subseteq Loader!Reaches(docs, d)
  BY <1>1, ImportsKnown DEF Closures
<1>4. ASSUME NEW e \in Loader!Reaches(docs, d), NEW t \in Loader!Imports(docs, e)
      PROVE  t \in Loader!Reaches(docs, d)
  <2>1. ASSUME NEW ds \in Closures(docs, d) PROVE t \in ds
    <3>1. e \in ds
      BY <1>2
    <3>. QED  BY <3>1 DEF Closures
  <2>2. t \in Document
    BY <1>1, ImportsKnown
  <2>. QED  BY <1>1, <2>1, <2>2
<1>. QED  BY <1>1, <1>2, <1>3, <1>4

LEMMA ReachesTransitive ==
    ASSUME NEW docs \in Graph, NEW d \in Document, NEW e \in Loader!Reaches(docs, d)
    PROVE  Loader!Reaches(docs, e) \subseteq Loader!Reaches(docs, d)
<1>1. e \in Document /\ Loader!Reaches(docs, d) \in Closures(docs, e)
  BY ReachesLeast DEF Closures
<1>. QED  BY <1>1, ReachesLeast

(* Reading another document only adds to the graph. *)
LEMMA GraphGrows ==
    ASSUME NEW docs \in Graph, NEW more \in Graph,
           \A d \in Document : docs[d] # None => more[d] = docs[d]
    PROVE  \A d \in Document : /\ Loader!Imports(docs, d) \subseteq Loader!Imports(more, d)
                               /\ Loader!Reaches(docs, d) \subseteq Loader!Reaches(more, d)
<1>1. \A d \in Document : Loader!Imports(docs, d) \subseteq Loader!Imports(more, d)
  BY DEF Loader!Imports
<1>2. ASSUME NEW d \in Document
      PROVE  Loader!Reaches(docs, d) \subseteq Loader!Reaches(more, d)
  <2>1. Loader!Reaches(more, d) \in Closures(docs, d)
    BY <1>1, ReachesLeast DEF Closures
  <2>. QED  BY <2>1, ReachesLeast
<1>. QED  BY <1>1, <1>2

(* A set of documents that has its own imports contains what its members   *)
(* reach, and keeps it whatever else is read.                              *)
LEMMA ReachesStays ==
    ASSUME NEW docs \in Graph, NEW more \in Graph,
           NEW done \in SUBSET Document, \A d \in done : more[d] = docs[d],
           \A d \in done : Loader!Imports(docs, d) \subseteq done,
           NEW d \in done
    PROVE  /\ Loader!Reaches(more, d) \subseteq Loader!Reaches(docs, d)
           /\ Loader!Reaches(docs, d) \subseteq done
<1>1. \A e \in done : Loader!Imports(more, e) = Loader!Imports(docs, e)
  BY DEF Loader!Imports
<1>2. Loader!Reaches(docs, d) \subseteq done
  <2>1. done \in Closures(docs, d)
    BY DEF Closures
  <2>. QED  BY <2>1, ReachesLeast
<1>3. Loader!Reaches(docs, d) \in Closures(more, d)
  BY <1>1, <1>2, ReachesLeast DEF Closures
<1>. QED  BY <1>2, <1>3, ReachesLeast

(* The same for a document whose imports are in such a set. *)
LEMMA ReachesInto ==
    ASSUME NEW docs \in Graph, NEW done \in SUBSET Document,
           \A d \in done : Loader!Imports(docs, d) \subseteq done,
           NEW d \in Document, Loader!Imports(docs, d) \subseteq done
    PROVE  Loader!Reaches(docs, d) \subseteq done
<1>1. done \in Closures(docs, d)
  BY DEF Closures
<1>. QED  BY <1>1, ReachesLeast

-----------------------------------------------------------------------------
(* What the walk's invariant says of the graph, step by step.              *)
Met == Loader!Chain /\ Loader!Found /\ Loader!Complete

LEMMA CallsOf ==
    ASSUME NEW s \in Seq(Loader!Call)
    PROVE  /\ Len(s) \in Nat /\ DOMAIN s = 1..Len(s)
           /\ \A i \in DOMAIN s : /\ s[i].path \in Document /\ s[i].todo \in Seq(Document)
                                  /\ s[i].at \in {"read", "nodes"}
<1>1. Len(s) \in Nat /\ DOMAIN s = 1..Len(s) /\ \A i \in DOMAIN s : s[i] \in Loader!Call
  OBVIOUS
<1>2. \A c \in Loader!Call : c.path \in Document /\ c.todo \in Seq(Document)
                             /\ c.at \in {"read", "nodes"}
  BY DEF Loader!Call
<1>. QED  BY <1>1, <1>2

(* A call that returns takes its own path out of c.loading. *)
LEMMA ReturnKeeps ==
    ASSUME Shape, Loader!Chain, Loader!Found, stack # <<>>, Loader!Return,
           UNCHANGED documents,
           \A d \in Document : <<"E_IMPORT_CYCLE", d>> \in diags' => <<"E_IMPORT_CYCLE", d>> \in diags
    PROVE  Loader!Chain' /\ Loader!Found'
<1>. DEFINE n == Len(stack)
<1>1. /\ DOMAIN stack' = 1..(n - 1)
      /\ \A i \in DOMAIN stack' : i \in DOMAIN stack /\ i # n /\ stack'[i] = stack[i]
  BY ReturnEffect
<1>2. n \in Nat /\ n # 0 /\ DOMAIN stack = 1..n
  BY InnermostCall, CallsOf DEF Shape, Loader!TypeOK
<1>. HIDE DEF n
<1>3. loading' = loading \ {stack[n].path}
  BY InnermostCall DEF Loader!Return, n
<1>4. DOMAIN stack = DOMAIN stack' \cup {n}
  BY <1>1, <1>2
<1>5. loading' = {stack'[i].path : i \in DOMAIN stack'}
  <2>1. \A i \in DOMAIN stack' : stack[i].path # stack[n].path
    BY <1>1, <1>4 DEF Loader!Chain
  <2>2. loading = {stack[i].path : i \in DOMAIN stack}
    BY DEF Loader!Chain
  <2>. QED  BY <1>1, <1>3, <1>4, <2>1, <2>2
<1>6. Loader!Parsed' = Loader!Parsed
  BY DEF Loader!Parsed
<1>7. Loader!Chain'
  <2>1. \A i, j \in DOMAIN stack' :
           /\ stack'[i].path = stack'[j].path => i = j
           /\ i < j => stack'[j].path \in Loader!Reaches(documents', stack'[i].path)
    BY <1>1 DEF Loader!Chain
  <2>2. \A i \in DOMAIN stack' : stack'[i].at = "nodes" =>
           /\ stack'[i].path \in Loader!Parsed'
           /\ Loader!Range(stack'[i].todo) \subseteq Loader!Imports(documents', stack'[i].path)
    BY <1>1, <1>6 DEF Loader!Chain
  <2>. QED  BY <1>5, <2>1, <2>2 DEF Loader!Chain
<1>8. Loader!Found'
  BY <1>3, <1>6 DEF Loader!Found, Loader!OnCycle
<1>. QED  BY <1>7, <1>8

(* The reads that give no text end what Complete promises. *)
LEMMA UnreadMet ==
    ASSUME Shape, Met, Loader!ReadStops \/ Loader!ReadFails \/ Loader!ReadBroken
    PROVE  Met'
<1>1. /\ stack # <<>> /\ Loader!Return /\ UNCHANGED documents
      /\ Loader!Current.path \in Document
  BY InnermostCall DEF Loader!ReadStops, Loader!ReadFails, Loader!ReadBroken, Loader!InCall
<1>2. \A d \in Document : <<"E_IMPORT_CYCLE", d>> \in diags' => <<"E_IMPORT_CYCLE", d>> \in diags
  BY DEF Loader!ReadStops, Loader!ReadFails, Loader!ReadBroken, Loader!Report
<1>3. ~Loader!Clean'
  <2>1. operationalErr' # "none" \/ <<"E_KDL_SYNTAX", Loader!Current.path>> \in diags'
    BY DEF Loader!ReadStops, Loader!ReadFails, Loader!ReadBroken, Loader!Report
  <2>. QED  BY <1>1, <2>1 DEF Loader!Clean
<1>. QED  BY <1>1, <1>2, <1>3, ReturnKeeps DEF Met, Loader!Complete

(* A document whose imports are all finished cannot reach itself, which is *)
(* not finished yet.                                                       *)
LEMMA LoadedMet ==
    ASSUME Shape, Met, Loader!DocumentLoaded
    PROVE  Met'
<1>. DEFINE n == Len(stack)
            here == stack[n].path
            done == Loader!Finished
<1>1. /\ stack # <<>> /\ Loader!Return /\ UNCHANGED <<documents, operationalErr>>
      /\ stack[n].at = "nodes" /\ stack[n].todo = <<>> /\ here \in Document
      /\ diags' = diags \cup Loader!RootDiagnostics(here, stack[n].expected)
  <2>1. stack # <<>>
    BY DEF Loader!DocumentLoaded, Loader!InCall
  <2>2. Loader!Current = stack[n] /\ here \in Document
    BY <2>1, InnermostCall
  <2>. QED  BY <2>1, <2>2 DEF Loader!DocumentLoaded, Loader!InCall, Loader!Report
<1>2. \A d \in Document : <<"E_IMPORT_CYCLE", d>> \in diags' => <<"E_IMPORT_CYCLE", d>> \in diags
  BY <1>1 DEF Loader!RootDiagnostics
<1>3. Loader!Chain' /\ Loader!Found'
  BY <1>1, <1>2, ReturnKeeps DEF Met
<1>4. /\ DOMAIN stack' = 1..(n - 1) /\ n \in Nat /\ n # 0 /\ DOMAIN stack = 1..n
      /\ \A i \in DOMAIN stack' : i \in DOMAIN stack /\ i # n /\ stack'[i] = stack[i]
      /\ loading' = loading \ {here}
  BY <1>1, ReturnEffect, InnermostCall, CallsOf DEF Shape, Loader!TypeOK, Loader!Return
<1>5. ASSUME Loader!Clean'
      PROVE  Loader!Complete'
  <2>1. Loader!Clean
    BY <1>1, <1>5 DEF Loader!Clean
  <2>2. documents \in Graph
    BY DEF Shape, Loader!TypeOK, Graph
  <2>3. here \in Loader!Parsed /\ here \in loading /\ here \notin done
    BY <1>1, <1>4 DEF Met, Loader!Chain, Loader!Finished
  <2>4. Loader!Imports(documents, here) \subseteq done
    <3>1. Loader!Range(<<>>) = {}
      BY DEF Loader!Range
    <3>2. {n + 1} \cap DOMAIN stack = {}
      BY <1>4
    <3>. HIDE DEF n
    <3>3. n \in DOMAIN stack
      BY <1>4
    <3>4. Loader!Imports(documents, stack[n].path) \subseteq
             done \cup Loader!Range(stack[n].todo) \cup
             {stack[j].path : j \in {n + 1} \cap DOMAIN stack}
      BY <1>1, <2>1, <3>3 DEF Met, Loader!Complete
    <3>. QED  BY <1>1, <3>1, <3>2, <3>4
  <2>5. \A d \in done : Loader!Imports(documents, d) \subseteq done
    BY <2>1 DEF Met, Loader!Complete
  <2>6. Loader!Reaches(documents, here) \subseteq done
    <3>1. done \in SUBSET Document
      BY DEF Loader!Finished, Loader!Parsed
    <3>. HIDE DEF done
    <3>. QED  BY <1>1, <2>2, <2>4, <2>5, <3>1, ReachesInto
  <2>7. Loader!Parsed' = Loader!Parsed
    BY <1>1 DEF Loader!Parsed
  <2>8. Loader!Finished' = done \cup {here}
    BY <1>4, <2>3, <2>7 DEF Loader!Finished
  <2>. HIDE DEF done
  <2>9. Entry \in Loader!Parsed' \cup loading'
    BY <1>4, <2>1, <2>3, <2>7 DEF Met, Loader!Complete
  <2>10. ASSUME NEW d \in Loader!Finished'
         PROVE  /\ Loader!Imports(documents', d) \subseteq Loader!Finished'
                /\ ~Loader!OnCycle(d)'
                /\ diags' = {} => documents'[d].root = Loader!Kind(d)
    <3>1. CASE d = here
      <4>1. ~Loader!OnCycle(d)'
        BY <1>1, <2>3, <2>6, <3>1 DEF Loader!OnCycle
      <4>2. diags' = {} => documents'[d].root = Loader!Kind(d)
        <5>1. stack[n].expected = Loader!Kind(here)
          BY <1>4, <2>1 DEF Met, Loader!Complete
        <5>2. diags' = {} => documents[here].root = stack[n].expected
          BY <1>1 DEF Loader!RootDiagnostics
        <5>. QED  BY <1>1, <3>1, <5>1, <5>2
      <4>. QED  BY <1>1, <2>4, <2>8, <3>1, <4>1, <4>2
    <3>2. CASE d # here
      <4>1. d \in done
        BY <2>8, <3>2
      <4>2. ~Loader!OnCycle(d) /\ (diags = {} => documents[d].root = Loader!Kind(d))
        BY <2>1, <4>1 DEF Met, Loader!Complete, done
      <4>. QED  BY <1>1, <2>5, <2>8, <4>1, <4>2 DEF Loader!OnCycle
    <3>. QED  BY <3>1, <3>2
  <2>11. ASSUME NEW i \in DOMAIN stack'
         PROVE  /\ stack'[i].expected = Loader!Kind(stack'[i].path)
                /\ stack'[i].at = "nodes" =>
                      Loader!Imports(documents', stack'[i].path) \subseteq
                         Loader!Finished' \cup Loader!Range(stack'[i].todo) \cup
                         {stack'[j].path : j \in {i + 1} \cap DOMAIN stack'}
    <3>1. /\ stack[i].expected = Loader!Kind(stack[i].path)
          /\ stack[i].at = "nodes" =>
                Loader!Imports(documents, stack[i].path) \subseteq
                   done \cup Loader!Range(stack[i].todo) \cup
                   {stack[j].path : j \in {i + 1} \cap DOMAIN stack}
      BY <1>4, <2>1 DEF Met, Loader!Complete, done
    <3>2. {stack[j].path : j \in {i + 1} \cap DOMAIN stack} \subseteq
             {here} \cup {stack'[j].path : j \in {i + 1} \cap DOMAIN stack'}
      BY <1>4
    <3>. QED  BY <1>1, <1>4, <2>8, <3>1, <3>2
  <2>. QED  BY <2>9, <2>10, <2>11 DEF Loader!Complete
<1>6. Loader!Complete'
  BY <1>5 DEF Loader!Complete
<1>. QED  BY <1>3, <1>6 DEF Met

(* A text that parses adds its imports to the graph; nothing finished      *)
(* reaches its document.                                                   *)
LEMMA TextMet ==
    ASSUME Shape, Shape', Met, NEW text \in Texts, Loader!ReadText(text)
    PROVE  Met'
<1>. DEFINE n == Len(stack)
            here == stack[n].path
            done == Loader!Finished
<1>1. /\ stack # <<>> /\ Loader!Current = stack[n] /\ stack[n].at = "read" /\ here \in Document
      /\ documents' = [documents EXCEPT ![here] = text]
      /\ stack' = [stack EXCEPT ![n].at = "nodes", ![n].todo = text.imports]
      /\ UNCHANGED <<loading, diags, operationalErr>>
  <2>1. stack # <<>>
    BY DEF Loader!ReadText, Loader!InCall
  <2>2. Loader!Current = stack[n] /\ here \in Document
    BY <2>1, InnermostCall
  <2>. QED  BY <2>1, <2>2 DEF Loader!ReadText, Loader!InCall
<1>2. /\ n \in Nat /\ n \in DOMAIN stack /\ DOMAIN stack = 1..n
      /\ \A i \in DOMAIN stack : stack[i].path \in Document
      /\ stack \in Seq(Loader!Call)
  BY <1>1, InnermostCall, CallsOf DEF Shape, Loader!TypeOK
<1>3. /\ DOMAIN stack' = DOMAIN stack
      /\ \A i \in DOMAIN stack : i # n => stack'[i] = stack[i]
      /\ stack'[n] = [stack[n] EXCEPT !.at = "nodes", !.todo = text.imports]
  BY <1>1, <1>2
<1>4. /\ \A i \in DOMAIN stack : /\ stack'[i].path = stack[i].path
                                 /\ stack'[i].expected = stack[i].expected
      /\ stack'[n].todo = text.imports
  <2>1. stack[n] \in Loader!Call
    BY <1>2
  <2>2. /\ stack'[n].path = stack[n].path /\ stack'[n].expected = stack[n].expected
        /\ stack'[n].todo = text.imports
    BY <1>3, <2>1 DEF Loader!Call
  <2>. QED  BY <1>3, <2>2
<1>5. documents[here] = None /\ text # None /\ here \in loading
  <2>1. documents[here] = None
    BY <1>1, <1>2 DEF Shape, Loader!Reading
  <2>2. here \in loading
    BY <1>2 DEF Met, Loader!Chain
  <2>. QED  BY <2>1, <2>2, CommandAssumption DEF Loader!Parameters
<1>6. documents \in Graph /\ documents' \in Graph
  BY DEF Shape, Loader!TypeOK, Graph
<1>7. \A d \in Document : documents'[d] = IF d = here THEN text ELSE documents[d]
  BY <1>1, <1>6 DEF Graph
<1>8. Loader!Parsed' = Loader!Parsed \cup {here} /\ here \notin Loader!Parsed
  BY <1>1, <1>5, <1>7 DEF Loader!Parsed
<1>9. /\ \A d \in Document : /\ Loader!Imports(documents, d) \subseteq Loader!Imports(documents', d)
                             /\ Loader!Reaches(documents, d) \subseteq Loader!Reaches(documents', d)
      /\ Loader!Imports(documents', here) = Loader!Range(text.imports)
      /\ \A d \in Document : d # here => Loader!Imports(documents', d) = Loader!Imports(documents, d)
  <2>. HIDE DEF here
  <2>1. \A d \in Document : documents[d] # None => documents'[d] = documents[d]
    BY <1>5, <1>7
  <2>2. \A d \in Document : /\ Loader!Imports(documents, d) \subseteq Loader!Imports(documents', d)
                             /\ Loader!Reaches(documents, d) \subseteq Loader!Reaches(documents', d)
    BY <1>6, <2>1, GraphGrows
  <2>3. here \in Document /\ documents'[here] = text
    BY <1>1, <1>7
  <2>4. Loader!Imports(documents', here) = Loader!Range(text.imports)
    BY <1>5, <2>3 DEF Loader!Imports
  <2>5. \A d \in Document : d # here => Loader!Imports(documents', d) = Loader!Imports(documents, d)
    BY <1>7 DEF Loader!Imports
  <2>. QED  BY <2>2, <2>4, <2>5
<1>. HIDE DEF n
<1>10. Loader!Chain'
  <2>1. loading' = {stack'[i].path : i \in DOMAIN stack'}
    BY <1>1, <1>3, <1>4 DEF Met, Loader!Chain
  <2>2. \A i, j \in DOMAIN stack' :
           /\ stack'[i].path = stack'[j].path => i = j
           /\ i < j => stack'[j].path \in Loader!Reaches(documents', stack'[i].path)
    BY <1>2, <1>3, <1>4, <1>9 DEF Met, Loader!Chain
  <2>3. ASSUME NEW i \in DOMAIN stack', stack'[i].at = "nodes"
        PROVE  /\ stack'[i].path \in Loader!Parsed'
               /\ Loader!Range(stack'[i].todo) \subseteq Loader!Imports(documents', stack'[i].path)
    <3>1. CASE i = n
      BY <1>2, <1>4, <1>8, <1>9, <3>1
    <3>2. CASE i # n
      BY <1>2, <1>3, <1>8, <1>9, <2>3, <3>2 DEF Met, Loader!Chain
    <3>. QED  BY <3>1, <3>2
  <2>. QED  BY <2>1, <2>2, <2>3 DEF Loader!Chain
<1>11. Loader!Found'
  <2>1. Entry \in Document
    BY CommandAssumption DEF Loader!Parameters
  <2>. QED  BY <1>1, <1>5, <1>8, <1>9, <2>1 DEF Met, Loader!Found, Loader!OnCycle
<1>12. ASSUME Loader!Clean'
       PROVE  Loader!Complete'
  <2>1. Loader!Clean
    BY <1>1, <1>12 DEF Loader!Clean
  <2>2. Loader!Finished' = done /\ here \notin done
    BY <1>1, <1>5, <1>8 DEF Loader!Finished
  <2>3. /\ done \in SUBSET Document
        /\ \A d \in done : Loader!Imports(documents, d) \subseteq done
    BY <2>1 DEF Met, Loader!Complete, Loader!Finished, Loader!Parsed
  <2>4. Entry \in Loader!Parsed' \cup loading'
    BY <1>1, <1>8, <2>1 DEF Met, Loader!Complete
  <2>5. ASSUME NEW d \in done
        PROVE  /\ Loader!Imports(documents', d) \subseteq done
               /\ ~Loader!OnCycle(d)'
               /\ diags' = {} => documents'[d].root = Loader!Kind(d)
    <3>1. d \in Document /\ d # here
      BY <2>2, <2>3
    <3>2. ~Loader!OnCycle(d) /\ (diags = {} => documents[d].root = Loader!Kind(d))
      BY <2>1 DEF Met, Loader!Complete
    <3>. HIDE DEF done
    <3>3. \A e \in done : documents'[e] = documents[e]
      BY <1>7, <2>2, <2>3
    <3>4. Loader!Reaches(documents', d) \subseteq Loader!Reaches(documents, d)
      BY <1>6, <2>3, <3>3, ReachesStays
    <3>. QED  BY <1>1, <1>7, <1>9, <2>3, <3>1, <3>2, <3>4 DEF Loader!OnCycle
  <2>6. ASSUME NEW i \in DOMAIN stack'
        PROVE  /\ stack'[i].expected = Loader!Kind(stack'[i].path)
               /\ stack'[i].at = "nodes" =>
                     Loader!Imports(documents', stack'[i].path) \subseteq
                        done \cup Loader!Range(stack'[i].todo) \cup
                        {stack'[j].path : j \in {i + 1} \cap DOMAIN stack'}
    <3>1. /\ stack[i].expected = Loader!Kind(stack[i].path)
          /\ stack[i].at = "nodes" =>
                Loader!Imports(documents, stack[i].path) \subseteq
                   done \cup Loader!Range(stack[i].todo) \cup
                   {stack[j].path : j \in {i + 1} \cap DOMAIN stack}
      BY <1>3, <2>1 DEF Met, Loader!Complete
    <3>2. {stack[j].path : j \in {i + 1} \cap DOMAIN stack}
             = {stack'[j].path : j \in {i + 1} \cap DOMAIN stack'}
      BY <1>3, <1>4
    <3>3. CASE i = n
      BY <1>3, <1>4, <1>9, <3>1, <3>3
    <3>4. CASE i # n
      <4>1. stack[i].path # here
        BY <1>2, <1>3, <3>4 DEF Met, Loader!Chain
      <4>2. Loader!Imports(documents', stack[i].path) = Loader!Imports(documents, stack[i].path)
        BY <1>2, <1>3, <1>9, <4>1
      <4>. QED  BY <1>3, <3>1, <3>2, <3>4, <4>2
    <3>. QED  BY <3>3, <3>4
  <2>. HIDE DEF done
  <2>. QED  BY <2>2, <2>4, <2>5, <2>6 DEF Loader!Complete
<1>13. Loader!Complete'
  BY <1>12 DEF Loader!Complete
<1>. QED  BY <1>10, <1>11, <1>13 DEF Met

(* An import node that is taken without a call. *)
LEMMA AdvancedEffect ==
    ASSUME Shape, NEW d \in Document, Loader!Importing(d)
    PROVE  /\ stack # <<>> /\ Loader!Current = stack[Len(stack)]
           /\ Len(stack) \in DOMAIN stack /\ DOMAIN stack = 1..Len(stack) /\ Len(stack) \in Nat
           /\ \A i \in DOMAIN stack : stack[i].path \in Document
           /\ stack[Len(stack)].at = "nodes"
           /\ Loader!Advanced \in Seq(Loader!Call) /\ DOMAIN Loader!Advanced = DOMAIN stack
           /\ Len(Loader!Advanced) = Len(stack)
           /\ \A i \in DOMAIN stack :
                 /\ Loader!Advanced[i].path = stack[i].path
                 /\ Loader!Advanced[i].at = stack[i].at
                 /\ Loader!Advanced[i].expected = stack[i].expected
                 /\ i # Len(stack) => Loader!Advanced[i].todo = stack[i].todo
           /\ Loader!Range(stack[Len(stack)].todo)
                 = {d} \cup Loader!Range(Loader!Advanced[Len(stack)].todo)
<1>. DEFINE n == Len(stack)
            todo == stack[n].todo
<1>1. /\ stack # <<>> /\ Loader!Current = stack[n] /\ stack[n].at = "nodes"
      /\ todo # <<>> /\ d = Head(todo)
  <2>1. stack # <<>>
    BY DEF Loader!Importing, Loader!InCall
  <2>. QED  BY <2>1, InnermostCall DEF Loader!Importing, Loader!InCall
<1>2. /\ n \in Nat /\ n \in DOMAIN stack /\ DOMAIN stack = 1..n
      /\ \A i \in DOMAIN stack : stack[i].path \in Document
      /\ stack \in Seq(Loader!Call) /\ stack[n] \in Loader!Call /\ todo \in Seq(Document)
  BY <1>1, InnermostCall, CallsOf DEF Shape, Loader!TypeOK
<1>3. Tail(todo) \in Seq(Document) /\ Loader!Range(todo) = {d} \cup Loader!Range(Tail(todo))
  <2>1. /\ Tail(todo) \in Seq(Document) /\ Len(Tail(todo)) = Len(todo) - 1
        /\ \A i \in 1..Len(Tail(todo)) : Tail(todo)[i] = todo[i + 1]
        /\ Len(todo) \in Nat /\ Len(todo) # 0 /\ d = todo[1]
    BY <1>1, <1>2, HeadTailProperties, EmptySeq, LenProperties
  <2>2. DOMAIN todo = 1..Len(todo) /\ DOMAIN Tail(todo) = 1..Len(Tail(todo))
    BY <1>2, <2>1
  <2>. HIDE DEF todo
  <2>3. \A i \in 1..Len(todo) : i = 1 \/ (i - 1 \in 1..Len(Tail(todo)) /\ todo[i] = Tail(todo)[i - 1])
    BY <2>1
  <2>4. 1 \in 1..Len(todo) /\ \A i \in 1..Len(Tail(todo)) : i + 1 \in 1..Len(todo)
    BY <2>1
  <2>5. Loader!Range(todo) = {todo[i] : i \in 1..Len(todo)}
        /\ Loader!Range(Tail(todo)) = {Tail(todo)[i] : i \in 1..Len(Tail(todo))}
    BY <2>2 DEF Loader!Range
  <2>6. ASSUME NEW x \in Loader!Range(todo) PROVE x \in {d} \cup Loader!Range(Tail(todo))
    <3>1. PICK i \in 1..Len(todo) : x = todo[i]
      BY <2>5
    <3>. QED  BY <2>1, <2>3, <2>5, <3>1
  <2>7. ASSUME NEW x \in Loader!Range(Tail(todo)) PROVE x \in Loader!Range(todo)
    <3>1. PICK i \in 1..Len(Tail(todo)) : x = Tail(todo)[i]
      BY <2>5
    <3>2. x = todo[i + 1] /\ i + 1 \in 1..Len(todo)
      BY <2>1, <2>4, <3>1
    <3>. QED  BY <2>5, <3>2
  <2>8. d \in Loader!Range(todo)
    BY <2>1, <2>4, <2>5
  <2>. QED  BY <2>1, <2>6, <2>7, <2>8
<1>4. Loader!Advanced = [stack EXCEPT ![n] = [stack[n] EXCEPT !.todo = Tail(todo)]]
  BY <1>2 DEF Loader!Advanced
<1>5. [stack[n] EXCEPT !.todo = Tail(todo)] \in Loader!Call
  BY <1>2, <1>3 DEF Loader!Call
<1>6. /\ Loader!Advanced \in Seq(Loader!Call) /\ DOMAIN Loader!Advanced = DOMAIN stack
      /\ Len(Loader!Advanced) = n
      /\ \A i \in DOMAIN stack : i # n => Loader!Advanced[i] = stack[i]
      /\ Loader!Advanced[n] = [stack[n] EXCEPT !.todo = Tail(todo)]
  BY <1>2, <1>4, <1>5, ExceptSeq
<1>7. /\ Loader!Advanced[n].path = stack[n].path /\ Loader!Advanced[n].at = stack[n].at
      /\ Loader!Advanced[n].expected = stack[n].expected /\ Loader!Advanced[n].todo = Tail(todo)
  BY <1>2, <1>6 DEF Loader!Call
<1>. QED  BY <1>1, <1>2, <1>3, <1>6, <1>7

(* A document that is being loaded is above the call that imports it.      *)
LEMMA CycleIsOne ==
    ASSUME Shape, Met, NEW d \in Document, Loader!Importing(d), d \in loading
    PROVE  Loader!OnCycle(d)
<1>. DEFINE n == Len(stack)
            here == stack[n].path
<1>1. /\ n \in DOMAIN stack /\ DOMAIN stack = 1..n /\ n \in Nat
      /\ here \in Document /\ stack[n].at = "nodes" /\ d \in Loader!Range(stack[n].todo)
  BY AdvancedEffect
<1>2. documents \in Graph
  BY DEF Shape, Loader!TypeOK, Graph
<1>3. d \in Loader!Imports(documents, here)
  BY <1>1 DEF Met, Loader!Chain
<1>4. PICK i \in DOMAIN stack : d = stack[i].path
  BY DEF Met, Loader!Chain
<1>. HIDE DEF n
<1>5. CASE i = n
  BY <1>2, <1>3, <1>4, <1>5, ReachesLeast DEF Loader!OnCycle
<1>6. CASE i # n
  <2>1. here \in Loader!Reaches(documents, d)
    BY <1>1, <1>4, <1>6 DEF Met, Loader!Chain
  <2>. QED  BY <1>2, <1>3, <2>1, ReachesLeast DEF Loader!OnCycle
<1>. QED  BY <1>5, <1>6

LEMMA NodeMet ==
    ASSUME Shape, Met, NEW d \in Document,
           Loader!ImportSkipped(d) \/ Loader!ImportCycle(d) \/ Loader!ImportKnown(d)
    PROVE  Met'
<1>. DEFINE n == Len(stack)
            done == Loader!Finished
<1>1. /\ Loader!Importing(d) /\ stack' = Loader!Advanced
      /\ UNCHANGED <<loading, documents, operationalErr>> /\ diags \subseteq diags'
  BY DEF Loader!ImportSkipped, Loader!ImportCycle, Loader!ImportKnown, Loader!Report
<1>2. /\ n \in DOMAIN stack /\ n \in Nat /\ DOMAIN stack = 1..n /\ DOMAIN stack' = DOMAIN stack
      /\ \A i \in DOMAIN stack : stack[i].path \in Document
      /\ \A i \in DOMAIN stack :
            /\ stack'[i].path = stack[i].path /\ stack'[i].at = stack[i].at
            /\ stack'[i].expected = stack[i].expected
            /\ i # n => stack'[i].todo = stack[i].todo
      /\ Loader!Range(stack[n].todo) = {d} \cup Loader!Range(stack'[n].todo)
  BY <1>1, AdvancedEffect
<1>3. Loader!Parsed' = Loader!Parsed /\ Loader!Finished' = done
  BY <1>1 DEF Loader!Parsed, Loader!Finished
<1>. HIDE DEF n
<1>4. Loader!Chain'
  <2>1. loading' = {stack'[i].path : i \in DOMAIN stack'}
    BY <1>1, <1>2 DEF Met, Loader!Chain
  <2>2. \A i, j \in DOMAIN stack' :
           /\ stack'[i].path = stack'[j].path => i = j
           /\ i < j => stack'[j].path \in Loader!Reaches(documents', stack'[i].path)
    BY <1>1, <1>2 DEF Met, Loader!Chain
  <2>3. ASSUME NEW i \in DOMAIN stack', stack'[i].at = "nodes"
        PROVE  /\ stack'[i].path \in Loader!Parsed'
               /\ Loader!Range(stack'[i].todo) \subseteq Loader!Imports(documents', stack'[i].path)
    <3>1. /\ stack[i].path \in Loader!Parsed
          /\ Loader!Range(stack[i].todo) \subseteq Loader!Imports(documents, stack[i].path)
      BY <1>2, <2>3 DEF Met, Loader!Chain
    <3>. QED  BY <1>1, <1>2, <1>3, <3>1
  <2>. QED  BY <2>1, <2>2, <2>3 DEF Loader!Chain
<1>5. Loader!Found'
  <2>1. ASSUME NEW e \in Document, <<"E_IMPORT_CYCLE", e>> \in diags'
        PROVE  Loader!OnCycle(e)
    <3>1. <<"E_IMPORT_CYCLE", e>> \in diags \/ (e = d /\ d \in loading)
      BY <2>1 DEF Loader!ImportSkipped, Loader!ImportCycle, Loader!ImportKnown, Loader!Report
    <3>. QED  BY <1>1, <3>1, CycleIsOne DEF Met, Loader!Found
  <2>. QED  BY <1>1, <1>3, <2>1 DEF Met, Loader!Found, Loader!OnCycle
<1>6. ASSUME Loader!Clean'
      PROVE  Loader!Complete'
  <2>1. Loader!Clean
    BY <1>1, <1>6 DEF Loader!Clean
  <2>2. d \in done
    <3>1. operationalErr = "none" /\ <<"E_IMPORT_CYCLE", d>> \notin diags'
      BY <1>1, <1>6 DEF Loader!Clean
    <3>2. Loader!ImportKnown(d)
      BY <3>1 DEF Loader!ImportSkipped, Loader!ImportCycle, Loader!Report
    <3>. QED  BY <3>2 DEF Loader!ImportKnown, Loader!Finished, Loader!Parsed
  <2>3. ASSUME NEW i \in DOMAIN stack'
        PROVE  /\ stack'[i].expected = Loader!Kind(stack'[i].path)
               /\ stack'[i].at = "nodes" =>
                     Loader!Imports(documents', stack'[i].path) \subseteq
                        done \cup Loader!Range(stack'[i].todo) \cup
                        {stack'[j].path : j \in {i + 1} \cap DOMAIN stack'}
    <3>1. /\ stack[i].expected = Loader!Kind(stack[i].path)
          /\ stack[i].at = "nodes" =>
                Loader!Imports(documents, stack[i].path) \subseteq
                   done \cup Loader!Range(stack[i].todo) \cup
                   {stack[j].path : j \in {i + 1} \cap DOMAIN stack}
      BY <1>2, <2>1 DEF Met, Loader!Complete
    <3>2. {stack[j].path : j \in {i + 1} \cap DOMAIN stack}
             = {stack'[j].path : j \in {i + 1} \cap DOMAIN stack'}
      BY <1>2
    <3>3. Loader!Range(stack[i].todo) \subseteq done \cup Loader!Range(stack'[i].todo)
      BY <1>2, <2>2
    <3>. QED  BY <1>1, <1>2, <3>1, <3>2, <3>3
  <2>4. \A e \in done :
           /\ Loader!Imports(documents, e) \subseteq done /\ ~Loader!OnCycle(e)
           /\ diags' = {} => documents[e].root = Loader!Kind(e)
    BY <1>1, <2>1 DEF Met, Loader!Complete
  <2>5. Entry \in Loader!Parsed' \cup loading'
    BY <1>1, <1>3, <2>1 DEF Met, Loader!Complete
  <2>. HIDE DEF done
  <2>. QED  BY <1>1, <1>3, <2>3, <2>4, <2>5 DEF Loader!Complete, Loader!OnCycle
<1>7. Loader!Complete'
  BY <1>6 DEF Loader!Complete
<1>. QED  BY <1>4, <1>5, <1>7 DEF Met

(* A new call is one further down the chain. *)
LEMMA NewMet ==
    ASSUME Shape, Met, NEW d \in Document, Loader!ImportNew(d)
    PROVE  Met'
<1>. DEFINE n == Len(stack)
            here == stack[n].path
            done == Loader!Finished
<1>1. /\ Loader!Importing(d) /\ stack' = Append(Loader!Advanced, Loader!Calling(d, "module"))
      /\ UNCHANGED <<documents, operationalErr, diags>> /\ loading' = loading \cup {d}
      /\ documents[d] = None /\ d \notin loading
  BY DEF Loader!ImportNew
<1>2. /\ n \in DOMAIN stack /\ n \in Nat /\ DOMAIN stack = 1..n
      /\ \A i \in DOMAIN stack : stack[i].path \in Document
      /\ stack[n].at = "nodes"
      /\ Loader!Range(stack[n].todo) = {d} \cup Loader!Range(Loader!Advanced[n].todo)
  BY <1>1, AdvancedEffect
<1>3. /\ DOMAIN stack' = 1..(n + 1)
      /\ \A i \in DOMAIN stack : stack'[i] = Loader!Advanced[i]
      /\ stack'[n + 1] = Loader!Calling(d, "module")
  <2>1. Loader!Advanced \in Seq(Loader!Call) /\ Len(Loader!Advanced) = n
    BY <1>1, AdvancedEffect
  <2>2. Loader!Calling(d, "module") \in Loader!Call
    BY DEF Loader!Calling, Loader!Call
  <2>3. /\ stack' \in Seq(Loader!Call) /\ Len(stack') = n + 1
        /\ \A i \in 1..n : stack'[i] = Loader!Advanced[i]
        /\ stack'[n + 1] = Loader!Calling(d, "module")
    BY <1>1, <2>1, <2>2, AppendProperties
  <2>4. DOMAIN stack' = 1..Len(stack')
    BY <2>3
  <2>. QED  BY <1>2, <2>3, <2>4
<1>4. /\ \A i \in DOMAIN stack :
            /\ stack'[i].path = stack[i].path /\ stack'[i].at = stack[i].at
            /\ stack'[i].expected = stack[i].expected
            /\ i # n => stack'[i].todo = stack[i].todo
      /\ Loader!Range(stack[n].todo) = {d} \cup Loader!Range(stack'[n].todo)
      /\ stack'[n + 1].path = d /\ stack'[n + 1].at = "read" /\ stack'[n + 1].expected = "module"
  <2>1. \A i \in DOMAIN stack :
           /\ stack'[i].path = stack[i].path /\ stack'[i].at = stack[i].at
           /\ stack'[i].expected = stack[i].expected
           /\ i # n => stack'[i].todo = stack[i].todo
    BY <1>1, <1>3, AdvancedEffect
  <2>2. Loader!Range(stack[n].todo) = {d} \cup Loader!Range(stack'[n].todo)
    BY <1>2, <1>3
  <2>3. stack'[n + 1].path = d /\ stack'[n + 1].at = "read" /\ stack'[n + 1].expected = "module"
    BY <1>3 DEF Loader!Calling
  <2>. QED  BY <2>1, <2>2, <2>3
<1>5. Loader!Parsed' = Loader!Parsed /\ d \notin Loader!Parsed /\ Loader!Finished' = done
  BY <1>1 DEF Loader!Parsed, Loader!Finished
<1>6. documents \in Graph
  BY DEF Shape, Loader!TypeOK, Graph
<1>7. d \in Loader!Imports(documents, here) /\ d \in Loader!Reaches(documents, here)
  <2>1. d \in Loader!Imports(documents, here)
    BY <1>2 DEF Met, Loader!Chain
  <2>2. here \in Document
    BY <1>2
  <2>. HIDE DEF here
  <2>. QED  BY <1>6, <2>1, <2>2, ReachesLeast
<1>8. DOMAIN stack' = DOMAIN stack \cup {n + 1} /\ n + 1 \notin DOMAIN stack
  <2>. HIDE DEF n
  <2>. QED  BY <1>2, <1>3
<1>. HIDE DEF n
<1>9. Loader!Chain'
  <2>1. loading' = {stack'[i].path : i \in DOMAIN stack'}
    <3>1. loading = {stack[i].path : i \in DOMAIN stack}
      BY DEF Met, Loader!Chain
    <3>. QED  BY <1>1, <1>4, <1>8, <3>1
  <2>2. ASSUME NEW i \in DOMAIN stack', NEW j \in DOMAIN stack', stack'[i].path = stack'[j].path
        PROVE  i = j
    <3>1. \A x \in DOMAIN stack : stack[x].path # d
      BY <1>1 DEF Met, Loader!Chain
    <3>2. \A x, y \in DOMAIN stack : stack[x].path = stack[y].path => x = y
      BY DEF Met, Loader!Chain
    <3>. QED  BY <1>4, <1>8, <2>2, <3>1, <3>2
  <2>3. ASSUME NEW i \in DOMAIN stack', NEW j \in DOMAIN stack', i < j
        PROVE  stack'[j].path \in Loader!Reaches(documents', stack'[i].path)
    <3>1. i \in DOMAIN stack
      BY <1>2, <1>3, <2>3
    <3>2. CASE j \in DOMAIN stack
      BY <1>1, <1>4, <2>3, <3>1, <3>2 DEF Met, Loader!Chain
    <3>3. CASE j = n + 1
      <4>1. i = n \/ here \in Loader!Reaches(documents, stack[i].path)
        BY <1>2, <3>1 DEF Met, Loader!Chain
      <4>2. d \in Loader!Reaches(documents, stack[i].path)
        BY <1>2, <1>6, <1>7, <3>1, <4>1, ReachesTransitive
      <4>. QED  BY <1>1, <1>4, <3>1, <3>3, <4>2
    <3>. QED  BY <1>8, <3>2, <3>3
  <2>4. ASSUME NEW i \in DOMAIN stack', stack'[i].at = "nodes"
        PROVE  /\ stack'[i].path \in Loader!Parsed'
               /\ Loader!Range(stack'[i].todo) \subseteq Loader!Imports(documents', stack'[i].path)
    <3>1. i \in DOMAIN stack
      BY <1>4, <1>8, <2>4
    <3>2. /\ stack[i].path \in Loader!Parsed
          /\ Loader!Range(stack[i].todo) \subseteq Loader!Imports(documents, stack[i].path)
      BY <1>4, <2>4, <3>1 DEF Met, Loader!Chain
    <3>. QED  BY <1>1, <1>4, <1>5, <3>1, <3>2
  <2>. QED  BY <2>1, <2>2, <2>3, <2>4 DEF Loader!Chain
<1>10. Loader!Found'
  <2>1. here \in {Entry} \cup Loader!Reaches(documents, Entry)
    <3>1. here \in loading
      BY <1>2 DEF Met, Loader!Chain
    <3>. QED  BY <3>1 DEF Met, Loader!Found
  <2>2. Entry \in Document
    BY CommandAssumption DEF Loader!Parameters
  <2>3. d \in Loader!Reaches(documents, Entry)
    BY <1>6, <1>7, <2>1, <2>2, ReachesTransitive
  <2>. QED  BY <1>1, <1>5, <2>3 DEF Met, Loader!Found, Loader!OnCycle
<1>11. ASSUME Loader!Clean'
       PROVE  Loader!Complete'
  <2>1. Loader!Clean
    BY <1>1, <1>11 DEF Loader!Clean
  <2>2. Entry \in Loader!Parsed \cup loading
    BY <2>1 DEF Met, Loader!Complete
  <2>3. ASSUME NEW i \in DOMAIN stack'
        PROVE  /\ stack'[i].expected = Loader!Kind(stack'[i].path)
               /\ stack'[i].at = "nodes" =>
                     Loader!Imports(documents', stack'[i].path) \subseteq
                        done \cup Loader!Range(stack'[i].todo) \cup
                        {stack'[j].path : j \in {i + 1} \cap DOMAIN stack'}
    <3>1. CASE i = n + 1
      BY <1>1, <1>4, <1>5, <2>2, <3>1 DEF Loader!Kind
    <3>2. CASE i \in DOMAIN stack
      <4>1. /\ stack[i].expected = Loader!Kind(stack[i].path)
            /\ stack[i].at = "nodes" =>
                  Loader!Imports(documents, stack[i].path) \subseteq
                     done \cup Loader!Range(stack[i].todo) \cup
                     {stack[j].path : j \in {i + 1} \cap DOMAIN stack}
        BY <2>1, <3>2 DEF Met, Loader!Complete
      <4>2. {stack[j].path : j \in {i + 1} \cap DOMAIN stack}
               \subseteq {stack'[j].path : j \in {i + 1} \cap DOMAIN stack'}
        BY <1>4, <1>8
      <4>3. Loader!Range(stack[i].todo) \subseteq
               Loader!Range(stack'[i].todo) \cup {stack'[j].path : j \in {i + 1} \cap DOMAIN stack'}
        BY <1>4, <1>8, <3>2
      <4>. QED  BY <1>1, <1>4, <3>2, <4>1, <4>2, <4>3
    <3>. QED  BY <1>8, <3>1, <3>2
  <2>4. \A e \in done :
           /\ Loader!Imports(documents, e) \subseteq done /\ ~Loader!OnCycle(e)
           /\ diags' = {} => documents[e].root = Loader!Kind(e)
    BY <1>1, <2>1 DEF Met, Loader!Complete
  <2>5. Entry \in Loader!Parsed' \cup loading'
    BY <1>1, <1>5, <2>2
  <2>. HIDE DEF done
  <2>. QED  BY <1>1, <1>5, <2>3, <2>4, <2>5 DEF Loader!Complete, Loader!OnCycle
<1>12. Loader!Complete'
  BY <1>11 DEF Loader!Complete
<1>. QED  BY <1>9, <1>10, <1>12 DEF Met

-----------------------------------------------------------------------------
(* The invariant, and a step of the walk in it.                            *)
LEMMA ShapeStep ==
    ASSUME Shape, [Next]_vars
    PROVE  /\ Shape'
           /\ \A d \in Document :
                 reads'[d] # reads[d] \/ documents'[d] # documents[d]
                     => documents[d] = None /\ operationalErr = "none"
<1>1. CASE CompileStep
  <2>1. CASE Loader!Compiled
    BY <2>1 DEF Loader!Compiled, Shape, Loader!TypeOK, Loader!Reading
  <2>. QED  BY <1>1, <2>1, ReadSteps, NodeSteps DEF CompileStep, Loader!Next
<1>2. CASE UNCHANGED loader
  BY <1>2 DEF loader, Shape, Loader!TypeOK, Loader!Reading
<1>. QED
  BY <1>1, <1>2 DEF Next, Main, Help, Version, Misuse, CompileInput, CompileFails,
     RunValidate, RunCompile, RunExtract, ExecutionReturns, Exit, Signal, TakeSignal,
     Forward, WatcherLeaves, Ok, Fail, Misused, Finish, vars

(* Nothing that is done outside the walk is seen by it. *)
LEMMA WalkIsAlone ==
    ASSUME [Next]_vars
    PROVE  (phase = "compiling" /\ Loader!Next) \/ UNCHANGED loader
BY DEF Next, Main, Help, Version, Misuse, CompileInput, CompileStep, CompileFails,
   RunValidate, RunCompile, RunExtract, ExecutionReturns, Exit, Signal, TakeSignal,
   Forward, WatcherLeaves, Ok, Fail, Misused, Finish, vars

(* What is said of the graph outlives every step. *)
LEMMA MetStep ==
    ASSUME Shape, Met, [Next]_vars
    PROVE  Met'
<1>1. ASSUME UNCHANGED <<stack, loading, documents, diags, operationalErr>>
      PROVE  Met'
  <2>1. Loader!Parsed' = Loader!Parsed /\ Loader!Finished' = Loader!Finished
    BY <1>1 DEF Loader!Parsed, Loader!Finished
  <2>2. Loader!Chain'
    BY <1>1, <2>1 DEF Met, Loader!Chain
  <2>3. Loader!Found'
    BY <1>1, <2>1 DEF Met, Loader!Found, Loader!OnCycle
  <2>4. Loader!Clean' <=> Loader!Clean
    BY <1>1 DEF Loader!Clean
  <2>5. \A d : Loader!OnCycle(d)' <=> Loader!OnCycle(d)
    BY <1>1 DEF Loader!OnCycle
  <2>6. Loader!Complete'
    BY <1>1, <2>1, <2>4, <2>5 DEF Met, Loader!Complete, Loader!Kind
  <2>. QED  BY <2>2, <2>3, <2>6 DEF Met
<1>2. CASE UNCHANGED loader
  BY <1>1, <1>2 DEF loader
<1>3. CASE Loader!Next
  <2>1. CASE Loader!ReadStops \/ Loader!ReadFails \/ Loader!ReadBroken
    BY <2>1, UnreadMet
  <2>2. CASE \E text \in Texts : Loader!ReadText(text)
    BY <2>2, ShapeStep, TextMet
  <2>3. CASE \E d \in Document :
                Loader!ImportSkipped(d) \/ Loader!ImportCycle(d) \/ Loader!ImportKnown(d)
    BY <2>3, NodeMet
  <2>4. CASE \E d \in Document : Loader!ImportNew(d)
    BY <2>4, NewMet
  <2>5. CASE Loader!DocumentLoaded
    BY <2>5, LoadedMet
  <2>6. CASE Loader!Compiled
    BY <1>1, <2>6 DEF Loader!Compiled
  <2>. QED  BY <1>3, <2>1, <2>2, <2>3, <2>4, <2>5, <2>6 DEF Loader!Next
<1>. QED  BY <1>2, <1>3, WalkIsAlone

(* A result is given when the walk is over, for what the walk found. *)
LEMMA ResultsStep ==
    ASSUME Loader!Results, [Next]_vars
    PROVE  Loader!Results'
<1>1. CASE UNCHANGED loader
  BY <1>1 DEF loader, Loader!Results
<1>2. CASE Loader!Compiled
  BY <1>2 DEF Loader!Compiled, Loader!Results
<1>3. ASSUME stack # <<>>, UNCHANGED result
      PROVE  Loader!Results'
  BY <1>3 DEF Loader!Results
<1>4. CASE Loader!Next /\ ~Loader!Compiled
  <2>1. stack # <<>> /\ UNCHANGED result
    BY <1>4 DEF Loader!Next, Loader!ReadStops, Loader!ReadFails, Loader!ReadBroken,
       Loader!ReadText, Loader!ImportSkipped, Loader!ImportCycle, Loader!ImportKnown,
       Loader!ImportNew, Loader!DocumentLoaded, Loader!Importing, Loader!InCall
  <2>. QED  BY <1>3, <2>1
<1>. QED  BY <1>1, <1>2, <1>4, WalkIsAlone

(* The walk starts with the call for Entry, before anything is known. *)
LEMMA WalkBegins ==
    ASSUME Init
    PROVE  Shape /\ Met /\ Loader!Results
<1>1. Entry \in Document /\ None \notin Texts
  BY CommandAssumption DEF Loader!Parameters
<1>2. Loader!Calling(Entry, "extractor") \in Loader!Call
  BY <1>1 DEF Loader!Calling, Loader!Call
<1>3. /\ stack = <<Loader!Calling(Entry, "extractor")>> /\ loading = {Entry}
      /\ documents = [d \in Document |-> None] /\ diags = {}
      /\ operationalErr = "none" /\ reads = [d \in Document |-> 0] /\ result = "none"
  BY DEF Init, Loader!Init
<1>4. /\ stack \in Seq(Loader!Call) /\ DOMAIN stack = {1} /\ Len(stack) = 1
      /\ stack[1].path = Entry /\ stack[1].expected = "extractor" /\ stack[1].at = "read"
  BY <1>2, <1>3 DEF Loader!Calling
<1>5. \A d \in Document : documents[d] = None
  BY <1>3
<1>6. Shape
  <2>1. documents \in [Document -> Texts \cup {None}] /\ reads \in [Document -> Nat]
    BY <1>3
  <2>. QED  BY <1>1, <1>3, <1>4, <1>5, <2>1 DEF Shape, Loader!TypeOK, Loader!Reading
<1>7. Loader!Parsed = {} /\ Loader!Finished = {}
  BY <1>5 DEF Loader!Parsed, Loader!Finished
<1>8. Loader!Chain
  BY <1>3, <1>4 DEF Loader!Chain
<1>9. Loader!Found
  BY <1>3, <1>7 DEF Loader!Found
<1>10. Loader!Complete
  BY <1>3, <1>4, <1>7 DEF Loader!Complete, Loader!Kind
<1>11. Loader!Results
  BY <1>3 DEF Loader!Results
<1>. QED  BY <1>6, <1>8, <1>9, <1>10, <1>11 DEF Met

LEMMA Inductive == Spec => []IInv
<1>. DEFINE All == Report /\ Shape /\ Met /\ Loader!Results
<1>1. Init => All
  <2>1. Init => Report
    BY DEF Init, Loader!Init, Report, TypeOK, Watching, Writing, Running
  <2>. QED  BY <2>1, WalkBegins
<1>2. All /\ [Next]_vars => All'
  <2>1. Report /\ [Next]_vars => Report'
    BY MainSteps, OtherSteps DEF Next, Main
  <2>. QED  BY <2>1, ShapeStep, MetStep, ResultsStep
<1>3. All => IInv
  BY DEF Report, Shape, Met, IInv, Loader!Walk
<1>. QED  BY <1>1, <1>2, <1>3, PTL DEF Spec

(* What a finished walk leaves: no call is active, so that everything that *)
(* parsed is finished, and if nothing was wrong it has no cycle.           *)
LEMMA WalkOver ==
    ASSUME IInv, result \in {"graph", "diagnostics"}
    PROVE  /\ documents \in Graph /\ operationalErr = "none"
           /\ Loader!Finished = Loader!Parsed /\ stack = <<>> /\ loading = {}
           /\ Loader!Clean => \A d \in Document : ~Loader!OnCycle(d)
<1>. USE DEF IInv, Loader!Walk
<1>1. documents \in Graph
  BY DEF Loader!TypeOK, Graph
<1>2. stack = <<>> /\ operationalErr = "none"
  BY DEF Loader!Results
<1>3. loading = {}
  BY <1>2 DEF Loader!Chain
<1>4. Loader!Finished = Loader!Parsed
  BY <1>3 DEF Loader!Finished
<1>5. ASSUME Loader!Clean, NEW d \in Document
      PROVE  ~Loader!OnCycle(d)
  <2>1. CASE d \in Loader!Parsed
    BY <1>4, <1>5, <2>1 DEF Loader!Complete
  <2>2. CASE d \notin Loader!Parsed
    <3>1. Loader!Imports(documents, d) = {}
      BY <2>2 DEF Loader!Parsed, Loader!Imports
    <3>2. Loader!Reaches(documents, d) \subseteq {}
      BY <1>1, <3>1, ReachesInto
    <3>. QED  BY <3>2 DEF Loader!OnCycle
  <2>. QED  BY <2>1, <2>2
<1>. QED  BY <1>1, <1>2, <1>3, <1>4, <1>5

(* E_IMPORT_CYCLE is reported for a document on a cycle only, and when     *)
(* every text parsed no cycle is left unreported: whatever the imports     *)
(* are, whichever document the walk entered a cycle by.                    *)
THEOREM CyclesAreReported == Spec => []CyclesReported
<1>1. ASSUME IInv PROVE CyclesReported
  <2>1. \A d \in Document : <<"E_IMPORT_CYCLE", d>> \in diags => Loader!OnCycle(d)
    BY <1>1 DEF IInv, Loader!Walk, Loader!Found
  <2>2. ASSUME result \in {"graph", "diagnostics"},
               \A d \in Document : <<"E_KDL_SYNTAX", d>> \notin diags,
               NEW d \in Document, Loader!OnCycle(d)
        PROVE  \E e \in Document : Loader!OnCycle(e) /\ <<"E_IMPORT_CYCLE", e>> \in diags
    <3>1. ~Loader!Clean /\ operationalErr = "none"
      BY <1>1, <2>2, WalkOver
    <3>2. PICK e \in Document : <<"E_IMPORT_CYCLE", e>> \in diags
      BY <2>2, <3>1 DEF Loader!Clean
    <3>. QED  BY <2>1, <3>2
  <2>. QED  BY <2>1, <2>2 DEF CyclesReported, Loader!CyclesReported
<1>. QED  BY <1>1, Inductive, PTL

(* The graph that goes on to compileExtractor is whole: it has everything  *)
(* the entry reaches and nothing else, no cycle, and one extractor.        *)
THEOREM AcceptedIsWhole == Spec => []AcceptedWhole
<1>1. ASSUME IInv, result = "graph" PROVE Loader!AcceptedWhole
  <2>1. /\ documents \in Graph /\ operationalErr = "none"
        /\ Loader!Finished = Loader!Parsed /\ stack = <<>> /\ loading = {}
        /\ Loader!Clean => \A d \in Document : ~Loader!OnCycle(d)
    BY <1>1, WalkOver
  <2>2. diags = {} /\ Loader!Clean
    BY <1>1, <2>1 DEF IInv, Loader!Walk, Loader!Results, Loader!Clean
  <2>3. /\ Entry \in Loader!Parsed
        /\ \A d \in Loader!Parsed :
              /\ Loader!Imports(documents, d) \subseteq Loader!Parsed
              /\ documents[d].root = Loader!Kind(d)
    BY <1>1, <2>1, <2>2 DEF IInv, Loader!Walk, Loader!Complete
  <2>4. Loader!Parsed \subseteq {Entry} \cup Loader!Reaches(documents, Entry)
    BY <1>1 DEF IInv, Loader!Walk, Loader!Found
  <2>5. Loader!Parsed \in SUBSET Document
    BY DEF Loader!Parsed
  <2>6. Loader!Reaches(documents, Entry) \subseteq Loader!Parsed
    BY <2>1, <2>3, <2>5, ReachesInto
  <2>7. \A d \in Loader!Parsed : ~Loader!OnCycle(d)
    BY <2>1, <2>2, <2>5
  <2>. QED  BY <2>1, <2>3, <2>4, <2>6, <2>7 DEF Loader!AcceptedWhole, Loader!Kind
<1>2. IInv => AcceptedWhole
  BY <1>1 DEF AcceptedWhole, Loader!AcceptedWhole
<1>. QED  BY <1>2, Inductive, PTL

(* The exit status and the document on stdout say what happened, wherever  *)
(* the signal arrives and whatever the walk met.                           *)
THEOREM OutcomeTold == Spec => []OutcomeReported
<1>1. IInv => OutcomeReported
  BY DEF IInv, TypeOK, Watching, Writing, OutcomeReported, Status
<1>. QED  BY <1>1, Inductive, PTL

(* A document that parsed is not read again and nothing is read after an   *)
(* operational error, for any set of documents and any answers.            *)
THEOREM ReadOnce == Spec => ReadsOnce
<1>1. IInv /\ [Next]_vars =>
        [\A d \in Document :
            reads'[d] # reads[d] \/ documents'[d] # documents[d]
                => documents[d] = None /\ operationalErr = "none"]_(Loader!vars)
  BY ShapeStep DEF IInv, Loader!Walk, Shape
<1>. QED  BY <1>1, Inductive, PTL DEF Spec, ReadsOnce, Loader!ReadsOnce
=============================================================================
