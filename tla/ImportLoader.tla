---------------------------- MODULE ImportLoader ----------------------------
(***************************************************************************)
(* How the compiler reads an extractor and the modules it imports:         *)
(* Compiler.compile and loadDocument (internal/compiler/compiler.go; the   *)
(* TypeScript load in source-loader.ts takes the same steps and throws     *)
(* where this one sets operationalErr).  A depth-first walk over an import *)
(* graph that is only known as it is read, may have cycles and diamonds,   *)
(* and comes from a loader of the caller's, which may fail, may answer     *)
(* differently when it is asked again, and may be interrupted by the       *)
(* caller's context.  CommandLine runs it.                                 *)
(*                                                                         *)
(* A text is what loadDocument looks at: whether it parses, its root, and  *)
(* the targets of its import nodes.  A malformed import node only adds a   *)
(* diagnostic; it and the other checks of one document are left out.       *)
(***************************************************************************)
EXTENDS Naturals, FiniteSets, SequencesExt

CONSTANTS
    Document,       \* cleaned paths
    Entry,          \* the path that is compiled
    Texts,          \* what the loader may answer
    None

(* What CommandLine assumes of them. *)
Parameters ==
    /\ Entry \in Document
    /\ \A text \in Texts :
          /\ text.root \in {"extractor", "module", "none"}
          /\ text.imports \in Seq(Document)
    /\ None \notin Texts

VARIABLES
    stack,          \* the active calls of loadDocument, the innermost last
    loading,        \* c.loading
    documents,      \* c.documents: the text of each document that parsed
    files,          \* c.files
    diags,          \* c.diags, as code and document
    operationalErr, \* c.operationalErr
    canceled,       \* c.ctx is over
    reads,          \* history: how often each path was read
    result          \* of compile: "none", "graph", "diagnostics" or "error"

vars == <<stack, loading, documents, files, diags, operationalErr, canceled, reads, result>>

(* A call of loadDocument waits for the text, then goes over its imports.  *)
Calling(d, kind) == [path |-> d, expected |-> kind, at |-> "read", todo |-> <<>>]

Current == Last(stack)
InCall(what) == stack # <<>> /\ Current.at = what

Init ==
    /\ stack = <<Calling(Entry, "extractor")>>
    /\ loading = {Entry}
    /\ documents = [d \in Document |-> None]
    /\ files = <<>>
    /\ diags = {}
    /\ operationalErr = "none"
    /\ canceled = FALSE
    /\ reads = [d \in Document |-> 0]
    /\ result = "none"

Report(found) == diags' = diags \cup found
CountRead == reads' = [reads EXCEPT ![Current.path] = @ + 1]

(* The call returns; the deferred delete runs. *)
Return == stack' = Front(stack) /\ loading' = loading \ {Current.path}

-----------------------------------------------------------------------------
(* Reading the text of the innermost call.                                 *)

(* The context is looked at before the loader is called and after. *)
ReadStops ==
    /\ InCall("read") /\ canceled
    /\ operationalErr' = "canceled"
    /\ Return
    /\ CountRead \/ UNCHANGED reads
    /\ UNCHANGED <<documents, files, diags, canceled, result>>

ReadFails ==
    /\ InCall("read") /\ ~canceled
    /\ operationalErr' = "read"
    /\ Return
    /\ CountRead
    /\ UNCHANGED <<documents, files, diags, canceled, result>>

(* Mutant of ReadBroken: the path stays in c.loading. *)
ReadBrokenInLoading ==
    /\ InCall("read") /\ ~canceled
    /\ CountRead
    /\ Report({<<"E_KDL_SYNTAX", Current.path>>})
    /\ stack' = Front(stack)
    /\ UNCHANGED <<loading, documents, files, operationalErr, canceled, result>>

(* A text that does not parse leaves its diagnostics and is forgotten, so  *)
(* the next import of it reads it again.                                   *)
ReadBroken ==
    /\ InCall("read") /\ ~canceled
    /\ CountRead
    /\ Report({<<"E_KDL_SYNTAX", Current.path>>})
    /\ Return
    /\ UNCHANGED <<documents, files, operationalErr, canceled, result>>

ReadText(text) ==
    /\ InCall("read") /\ ~canceled
    /\ CountRead
    /\ documents' = [documents EXCEPT ![Current.path] = text]
    /\ files' = Append(files, Current.path)
    /\ stack' = [stack EXCEPT ![Len(stack)].at = "nodes", ![Len(stack)].todo = text.imports]
    /\ UNCHANGED <<loading, diags, operationalErr, canceled, result>>

-----------------------------------------------------------------------------
(* The import nodes of the innermost call: compileImportHeader, and        *)
(* loadDocument up to the read.                                            *)
Importing(d) ==
    InCall("nodes") /\ Current.todo # <<>> /\ d = Head(Current.todo)

Advanced == [stack EXCEPT ![Len(stack)].todo = Tail(@)]

(* After an operational error loadDocument does nothing. *)
ImportSkipped(d) ==
    /\ Importing(d) /\ operationalErr # "none"
    /\ stack' = Advanced
    /\ UNCHANGED <<loading, documents, files, diags, operationalErr, canceled, reads, result>>

(* Mutant of ImportCycle: the node is taken again. *)
ImportCycleRetried(d) ==
    /\ Importing(d) /\ operationalErr = "none" /\ d \in loading
    /\ Report({<<"E_IMPORT_CYCLE", d>>})
    /\ UNCHANGED <<stack, loading, documents, files, operationalErr, canceled, reads, result>>

ImportCycle(d) ==
    /\ Importing(d) /\ operationalErr = "none" /\ d \in loading
    /\ Report({<<"E_IMPORT_CYCLE", d>>})
    /\ stack' = Advanced
    /\ UNCHANGED <<loading, documents, files, operationalErr, canceled, reads, result>>

ImportKnown(d) ==
    /\ Importing(d) /\ operationalErr = "none" /\ d \notin loading /\ documents[d] # None
    /\ Report(IF documents[d].root # "module" THEN {<<"E_IMPORT_KIND", d>>} ELSE {})
    /\ stack' = Advanced
    /\ UNCHANGED <<loading, documents, files, operationalErr, canceled, reads, result>>

(* Mutant of ImportNew: c.documents is not looked at. *)
ImportAlways(d) ==
    /\ Importing(d) /\ operationalErr = "none" /\ d \notin loading
    /\ stack' = Append(Advanced, Calling(d, "module"))
    /\ loading' = loading \cup {d}
    /\ UNCHANGED <<documents, files, diags, operationalErr, canceled, reads, result>>

ImportNew(d) ==
    /\ Importing(d) /\ operationalErr = "none" /\ d \notin loading /\ documents[d] = None
    /\ stack' = Append(Advanced, Calling(d, "module"))
    /\ loading' = loading \cup {d}
    /\ UNCHANGED <<documents, files, diags, operationalErr, canceled, reads, result>>

(* Mutant of RootDiagnostics: an import may be any kind of document. *)
AnyRootImported(d, expected) ==
    IF documents[d].root \in {expected, "extractor"} THEN {} ELSE {<<"E_DOCUMENT_ROOT", d>>}

RootDiagnostics(d, expected) ==
    IF documents[d].root = expected THEN {}
    ELSE IF expected = "module" /\ documents[d].root = "extractor"
    THEN {<<"E_IMPORT_KIND", d>>}
    ELSE {<<"E_DOCUMENT_ROOT", d>>}

(* The root is checked after the import nodes, and the call returns. *)
DocumentLoaded ==
    /\ InCall("nodes") /\ Current.todo = <<>>
    /\ Report(RootDiagnostics(Current.path, Current.expected))
    /\ Return
    /\ UNCHANGED <<documents, files, operationalErr, canceled, reads, result>>

-----------------------------------------------------------------------------
(* compile, up to compileExtractor.  The context is ended by whoever runs  *)
(* the compiler: `canceled` may become TRUE between any two steps.         *)
Compiled ==
    /\ stack = <<>> /\ result = "none"
    /\ result' = IF operationalErr # "none" THEN "error"
                 ELSE IF diags # {} THEN "diagnostics" ELSE "graph"
    /\ UNCHANGED <<stack, loading, documents, files, diags, operationalErr, canceled, reads>>

Next ==
    \/ ReadStops \/ ReadFails \/ ReadBroken
    \/ \E text \in Texts : ReadText(text)
    \/ \E d \in Document :
          ImportSkipped(d) \/ ImportCycle(d) \/ ImportKnown(d) \/ ImportNew(d)
    \/ DocumentLoaded \/ Compiled

Spec == Init /\ [][Next]_vars

-----------------------------------------------------------------------------
Parsed == {d \in Document : documents[d] # None}

(* What d imports, as far as it was read. *)
Imports(docs, d) == IF docs[d] = None THEN {} ELSE Range(docs[d].imports)

(* The documents that d imports, directly or not: those in every set that  *)
(* has the imports of d and of its own members.                            *)
Reaches(docs, d) ==
    LET closures == {ds \in SUBSET Document : \A e \in ds \cup {d} : Imports(docs, e) \subseteq ds}
    IN  {t \in Document : \A ds \in closures : t \in ds}

OnCycle(d) == d \in Reaches(documents, d)

(* "E_IMPORT_CYCLE: import graph contains a cycle" (spec/diagnostics.md):  *)
(* a document reported is on a cycle, a diamond or a second try of a       *)
(* broken text is not one; and when every text parsed no cycle is missed,  *)
(* whichever document the walk entered it by.                              *)
CyclesReported ==
    /\ \A d \in Document : <<"E_IMPORT_CYCLE", d>> \in diags => OnCycle(d)
    /\ /\ result \in {"graph", "diagnostics"}
       /\ \A d \in Document : <<"E_KDL_SYNTAX", d>> \notin diags
       => \A d \in Document :
             OnCycle(d) => \E e \in Document : OnCycle(e) /\ <<"E_IMPORT_CYCLE", e>> \in diags

(* The graph that goes on to compileExtractor is whole: everything the     *)
(* entry reaches was parsed and nothing else, without a cycle, under one   *)
(* extractor, and an operational error lets nothing go on.                 *)
AcceptedWhole ==
    result = "graph" =>
        /\ operationalErr = "none"
        /\ Parsed = {Entry} \cup Reaches(documents, Entry)
        /\ \A d \in Parsed : ~OnCycle(d)
        /\ \A d \in Parsed : documents[d].root = (IF d = Entry THEN "extractor" ELSE "module")

(* The shape of the walk: every call but the innermost is at its import    *)
(* nodes, and a call that waits for its text waits for one that is not     *)
(* there yet, with no operational error behind it.  ReadsOnce needs it.    *)
Call == [path : Document, expected : {"extractor", "module"},
         at : {"read", "nodes"}, todo : Seq(Document)]

TypeOK ==
    /\ stack \in Seq(Call)
    /\ documents \in [Document -> Texts \cup {None}]
    /\ reads \in [Document -> Nat]

Reading ==
    \A i \in DOMAIN stack :
        stack[i].at = "read" =>
            i = Len(stack) /\ documents[stack[i].path] = None /\ operationalErr = "none"

(* c.loading is the chain of active calls, each under an import of the one *)
(* before it.                                                              *)
Chain ==
    /\ loading = {stack[i].path : i \in DOMAIN stack}
    /\ \A i, j \in DOMAIN stack :
          /\ stack[i].path = stack[j].path => i = j
          /\ i < j => stack[j].path \in Reaches(documents, stack[i].path)
    /\ \A i \in DOMAIN stack : stack[i].at = "nodes" =>
          /\ stack[i].path \in Parsed
          /\ Range(stack[i].todo) \subseteq Imports(documents, stack[i].path)

(* What the walk met is there, and it met nothing that Entry does not need.*)
Found ==
    /\ \A d \in Document : <<"E_IMPORT_CYCLE", d>> \in diags => OnCycle(d)
    /\ Parsed \cup loading \subseteq {Entry} \cup Reaches(documents, Entry)

Clean ==
    /\ operationalErr = "none"
    /\ \A d \in Document : {<<"E_KDL_SYNTAX", d>>, <<"E_IMPORT_CYCLE", d>>} \cap diags = {}

(* The documents whose call returned after all of their imports had. *)
Finished == Parsed \ loading
Kind(d) == IF d = Entry THEN "extractor" ELSE "module"

(* As long as nothing was wrong, finished documents have finished imports, *)
(* no cycle, and the right root, and a call has only unfinished imports    *)
(* that it is still to take or that the next call is about.                *)
Complete ==
    Clean =>
        /\ Entry \in Parsed \cup loading
        /\ \A d \in Finished :
              /\ Imports(documents, d) \subseteq Finished /\ ~OnCycle(d)
              /\ diags = {} => documents[d].root = Kind(d)
        /\ \A i \in DOMAIN stack :
              /\ stack[i].expected = Kind(stack[i].path)
              /\ stack[i].at = "nodes" =>
                    Imports(documents, stack[i].path) \subseteq
                       Finished \cup Range(stack[i].todo) \cup
                       {stack[j].path : j \in {i + 1} \cap DOMAIN stack}

Results ==
    /\ result # "none" => stack = <<>>
    /\ result \in {"graph", "diagnostics"} => operationalErr = "none"
    /\ result = "graph" => diags = {}

Walk == TypeOK /\ Reading /\ Chain /\ Found /\ Complete /\ Results

(* A document that parsed is never read again, so that every import of it  *)
(* sees the same text, and nothing is read after an operational error.     *)
ReadsOnce ==
    [][\A d \in Document :
          reads'[d] # reads[d] \/ documents'[d] # documents[d]
             => documents[d] = None /\ operationalErr = "none"]_vars
=============================================================================
