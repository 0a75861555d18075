---------------------------- MODULE OutputWalker ----------------------------
(***************************************************************************)
(* The output walker (internal/executor/output_walker.go and               *)
(* output_semantics.go), shared by the HTTP, snapshot and browser          *)
(* runtimes: it reads the fields and collections of an output object in    *)
(* order, applies each field's on-error policy and each collection's       *)
(* on-row-error policy, and decides what the result, its warnings and its  *)
(* partial flag are.                                                       *)
(*                                                                         *)
(* The Go call stack is `stack`: a frame per executeObject and             *)
(* executeCollection.  What the document, the browser and the transforms   *)
(* answer is chosen at each read and recorded in `answers`; a value is one *)
(* of "value", "default", "null".  The caller's context may end at any     *)
(* moment, canceled or by its deadline.  To the walker's own checks both   *)
(* are E_EXECUTION_CANCELED; an operation of the browser that a deadline   *)
(* interrupts fails with E_TIMEOUT (operationErrorCode), as one does that  *)
(* runs into a limit of its own, and nobody takes that for a cancellation. *)
(***************************************************************************)
EXTENDS Naturals, Sequences, FiniteSets

CONSTANTS
    Schemas,        \* output declarations: object name -> sequence of members
    MaxRows,        \* bound: rows a collection may match
    Live            \* reads go to a browser and see the context end

(* A declaration has a root, and the rows of its collections. *)
MembersOf(s) ==
    [kind : {"field"}, required : BOOLEAN, hasDefault : BOOLEAN, onError : STRING]
    \cup [kind : {"collection"}, row : DOMAIN s, required : BOOLEAN, min : Nat, max : Nat,
          skip : BOOLEAN]

WellFormed(s) ==
    "root" \in DOMAIN s /\ \A name \in DOMAIN s : s[name] \in Seq(MembersOf(s))

ASSUME WalkerAssumption ==
    /\ MaxRows \in Nat /\ Live \in BOOLEAN
    /\ \A s \in Schemas : WellFormed(s)

None == "none"
Canceled == "E_EXECUTION_CANCELED"
NoMax == MaxRows + 1    \* an absent max-items

VARIABLES
    schema,         \* the compiled output, fixed for the run
    stack,          \* frames, innermost last
    mode,           \* what the innermost frame is about to do
    err,            \* the error being returned, or None
    ended,          \* how the context ended, or None
    warnings,
    partial,
    result,         \* what the extraction returned, once mode is "done"
    answers,        \* history: the answer to each read, by path
    answersBefore   \* history: how many of them before the context was done

walker == <<stack, mode, err, warnings, partial, result>>
vars == <<schema, walker, ended, answers, answersBefore>>

Interrupts == {"canceled", "deadline"}
FieldCauses == {"error", "timeout"} \cup Interrupts
FieldAnswers == {"value", "missing"} \cup FieldCauses
CodeOf == [error |-> "E_TRANSFORM", timeout |-> "E_TIMEOUT", deadline |-> "E_TIMEOUT",
           canceled |-> Canceled]

ObjectFrame(name, p) ==
    [kind |-> "object", object |-> name, next |-> 1, path |-> p, out |-> <<>>]
RowsFrame(m, n, p) ==
    [kind |-> "rows", collection |-> m, rows |-> n, index |-> 0, path |-> p, out |-> <<>>]

Init ==
    /\ schema \in Schemas
    /\ stack = <<ObjectFrame("root", <<>>)>>
    /\ mode = "walk"
    /\ err = None
    /\ ended = None
    /\ warnings = <<>>
    /\ partial = FALSE
    /\ result = [ok |-> FALSE, code |-> None]
    /\ answers = <<>>
    /\ answersBefore = 0

Top == stack[Len(stack)]
Below == SubSeq(stack, 1, Len(stack) - 1)
Replace(frame) == [stack EXCEPT ![Len(stack)] = frame]
Member == schema[Top.object][Top.next]
MemberPath == Append(Top.path, Top.next)
Members == Len(schema[Top.object])

(* The innermost call returns an error to its caller. *)
Raise(code) ==
    /\ err' = code
    /\ mode' = "unwind"
    /\ UNCHANGED <<stack, warnings, partial, result>>

(* result[typed.Name] = value; on to the next member of object frame f. *)
Delivered(f, value) == [f EXCEPT !.out = Append(@, value), !.next = @ + 1]

-----------------------------------------------------------------------------
(* executeObject                                                           *)

(* Mutant of CheckMember: the context is not looked at. *)
MemberUnchecked ==
    /\ mode = "walk" /\ Top.kind = "object" /\ Top.next <= Members
    /\ mode' = IF Member.kind = "field" THEN "read" ELSE "query"
    /\ UNCHANGED <<schema, stack, err, ended, warnings, partial, result, answers,
                   answersBefore>>

(* The context is looked at before every member. *)
CheckMember ==
    /\ mode = "walk" /\ Top.kind = "object" /\ Top.next <= Members
    /\ IF ended # None
       THEN Raise(Canceled)
       ELSE /\ mode' = IF Member.kind = "field" THEN "read" ELSE "query"
            /\ UNCHANGED <<stack, err, warnings, partial, result>>
    /\ UNCHANGED <<schema, ended, answers, answersBefore>>

(* finalizeResult: the summary warning when something was recovered. *)
Finalize ==
    result' = [ok |-> TRUE, value |-> Top.out, partial |-> partial,
               warnings |-> IF partial
                            THEN Append(warnings, [code |-> "W_PARTIAL_EXTRACTION"])
                            ELSE warnings]

(* validateCollectionMaximum, after each kept row. *)
TooMany(m, count) == m.max # NoMax /\ count > m.max

(* The object is complete: the output itself, or a row that is kept. *)
EndObject ==
    /\ mode = "walk" /\ Top.kind = "object" /\ Top.next > Members
    /\ IF Below = <<>>
       THEN /\ Finalize
            /\ mode' = "done"
            /\ UNCHANGED <<stack, err, warnings, partial>>
       ELSE LET rows == Below[Len(Below)]
                kept == [rows EXCEPT !.out = Append(@, Top.out), !.index = @ + 1]
            IN  /\ stack' = [Below EXCEPT ![Len(Below)] = kept]
                /\ IF TooMany(rows.collection, Len(kept.out))
                   THEN mode' = "unwind" /\ err' = "E_COLLECTION_CARDINALITY"
                   ELSE UNCHANGED <<mode, err>>
                /\ UNCHANGED <<warnings, partial, result>>
    /\ UNCHANGED <<schema, ended, answers, answersBefore>>

-----------------------------------------------------------------------------
(* executeField                                                            *)
Deliver(value) ==
    /\ stack' = Replace(Delivered(Top, value))
    /\ mode' = "walk"

(* handleMissingOutput: no policy applies, and the result is not partial. *)
Missing(field) ==
    IF field.required
    THEN Raise("E_REQUIRED_VALUE_MISSING")
    ELSE /\ Deliver(IF field.hasDefault THEN "default" ELSE "null")
         /\ UNCHANGED <<err, warnings, partial, result>>

Policy(field) ==
    IF field.onError # "" THEN field.onError
    ELSE IF field.required THEN "fail" ELSE "null"

(* recoverOutputField.  A default that is missing, and a policy that is    *)
(* not one, are errors of the IR.                                          *)
Recovers(field) ==
    Policy(field) \in {"null", "warn"} \/ (Policy(field) = "default" /\ field.hasDefault)

Recover(field, code) ==
    \/ /\ ~Recovers(field)
       /\ Raise(IF Policy(field) = "fail" THEN code ELSE "E_IR_INVALID")
    \/ /\ Recovers(field)
       /\ Deliver(IF Policy(field) = "default" THEN "default" ELSE "null")
       /\ partial' = TRUE
       /\ warnings' = IF Policy(field) = "warn"
                      THEN Append(warnings, [code |-> "W_ERROR_RECOVERED", cause |-> code,
                                             path |-> MemberPath])
                      ELSE warnings
       /\ UNCHANGED <<err, result>>

Answer(p, a, n) ==
    /\ answers' = [q \in DOMAIN answers \cup {p} |->
                      IF q = p THEN [as |-> a, rows |-> n] ELSE answers[q]]
    /\ UNCHANGED <<schema, ended, answersBefore>>

(* The read, the transforms and the type check, none of which looks at the *)
(* context by itself; an operation of the browser may report its end.      *)
ReadField(a) ==
    /\ mode = "read"
    /\ a \in Interrupts => a = ended /\ Live
    /\ \/ a = "value" /\ Deliver("value") /\ UNCHANGED <<err, warnings, partial, result>>
       \/ a = "missing" /\ Missing(Member)
       \/ a \in FieldCauses /\ Recover(Member, CodeOf[a])
    /\ Answer(MemberPath, a, 0)

-----------------------------------------------------------------------------
(* executeCollection                                                       *)
QueryRows(n) ==
    /\ mode = "query"
    /\ stack' = Append(stack, RowsFrame(Member, n, MemberPath))
    /\ mode' = "walk"
    /\ UNCHANGED <<err, warnings, partial, result>>
    /\ Answer(MemberPath, "rows", n)

QueryFails(a) ==
    /\ mode = "query"
    /\ a \in Interrupts => a = ended /\ Live
    /\ Raise(CodeOf[a])
    /\ Answer(MemberPath, a, 0)

(* The context is looked at before every row. *)
StartRow ==
    /\ mode = "walk" /\ Top.kind = "rows" /\ Top.index < Top.rows
    /\ IF ended # None
       THEN Raise(Canceled)
       ELSE /\ stack' = Append(stack, ObjectFrame(Top.collection.row,
                                                  Append(Top.path, Top.index)))
            /\ UNCHANGED <<mode, err, warnings, partial, result>>
    /\ UNCHANGED <<schema, ended, answers, answersBefore>>

(* validateCollectionMinimum, over the rows that were kept. *)
TooFew(m, count) == count < (IF m.required /\ m.min < 1 THEN 1 ELSE m.min)

(* Mutants of EndRows: the minimum counts the matched rows; a collection   *)
(* that matched none is not ended.                                         *)
EndRowsCountsMatched ==
    /\ mode = "walk" /\ Top.kind = "rows" /\ Top.index = Top.rows
    /\ IF TooFew(Top.collection, Top.rows)
       THEN Raise("E_COLLECTION_CARDINALITY")
       ELSE /\ stack' = [Below EXCEPT ![Len(Below)] = Delivered(@, Top.out)]
            /\ UNCHANGED <<mode, err, warnings, partial, result>>
    /\ UNCHANGED <<schema, ended, answers, answersBefore>>

EndRowsNeedsRow ==
    /\ mode = "walk" /\ Top.kind = "rows" /\ Top.index = Top.rows /\ Top.rows > 0
    /\ IF TooFew(Top.collection, Len(Top.out))
       THEN Raise("E_COLLECTION_CARDINALITY")
       ELSE /\ stack' = [Below EXCEPT ![Len(Below)] = Delivered(@, Top.out)]
            /\ UNCHANGED <<mode, err, warnings, partial, result>>
    /\ UNCHANGED <<schema, ended, answers, answersBefore>>

EndRows ==
    /\ mode = "walk" /\ Top.kind = "rows" /\ Top.index = Top.rows
    /\ IF TooFew(Top.collection, Len(Top.out))
       THEN Raise("E_COLLECTION_CARDINALITY")
       ELSE /\ stack' = [Below EXCEPT ![Len(Below)] = Delivered(@, Top.out)]
            /\ UNCHANGED <<mode, err, warnings, partial, result>>
    /\ UNCHANGED <<schema, ended, answers, answersBefore>>

-----------------------------------------------------------------------------
(* An error returns through the frames.  A row's error is where            *)
(* on-row-error="skip" stops it, unless it is the cancellation.            *)
(* Mutant of SkipsRow: any error of a row is skipped. *)
SkipsCanceledRow ==
    Top.kind = "object" /\ Below # <<>> /\ Below[Len(Below)].collection.skip

SkipsRow ==
    /\ Top.kind = "object" /\ Below # <<>>
    /\ Below[Len(Below)].collection.skip
    /\ err # Canceled

SkippedAt(index) ==
    /\ stack' = [Below EXCEPT ![Len(Below)].index = index]
    /\ partial' = TRUE
    /\ warnings' = Append(warnings, [code |-> "W_ROW_SKIPPED", cause |-> err,
                                     path |-> Top.path])
    /\ mode' = "walk"
    /\ UNCHANGED result

SkipRow == SkippedAt(Below[Len(Below)].index + 1) /\ err' = None

Unwind ==
    /\ mode = "unwind"
    /\ \/ SkipsRow /\ SkipRow
       \/ /\ ~SkipsRow /\ Below # <<>>
          /\ stack' = Below
          /\ UNCHANGED <<mode, err, warnings, partial, result>>
       \/ /\ ~SkipsRow /\ Below = <<>>
          /\ result' = [ok |-> FALSE, code |-> err]
          /\ mode' = "done"
          /\ UNCHANGED <<stack, err, warnings, partial>>
    /\ UNCHANGED <<schema, ended, answers, answersBefore>>

(* The caller cancels, or its deadline passes; the first of them decides   *)
(* what the context's error is.                                            *)
Cancel(how) ==
    /\ ended = None /\ mode # "done"
    /\ ended' = how
    /\ answersBefore' = Cardinality(DOMAIN answers)
    /\ UNCHANGED <<schema, walker, answers>>

Step ==
    \/ CheckMember \/ EndObject \/ StartRow \/ EndRows \/ Unwind
    \/ \E a \in FieldAnswers : ReadField(a)
    \/ \E n \in 0..MaxRows : QueryRows(n)
    \/ \E a \in FieldCauses : QueryFails(a)

Next == Step \/ \E how \in Interrupts : Cancel(how)

Spec == Init /\ [][Next]_vars /\ WF_vars(Step)

-----------------------------------------------------------------------------
(* What a code that leaves a row can come from: the code of a cancellation *)
(* from nothing, so that it is no reason to drop a row, wherever it was    *)
(* seen.                                                                   *)
Explains(a, code) ==
    \/ a \in FieldCauses /\ code \in {CodeOf[a], "E_IR_INVALID"} \ {Canceled}
    \/ a = "missing" /\ code = "E_REQUIRED_VALUE_MISSING"
    \/ a = "rows" /\ code = "E_COLLECTION_CARDINALITY"

(* A path at, or inside, another. *)
Inside(q, p) == Len(p) <= Len(q) /\ \A x \in 1..Len(p) : q[x] = p[x]

(* The code is accounted for by an answer at, or inside, a path. *)
Because(p, code) == \E q \in DOMAIN answers : Inside(q, p) /\ Explains(answers[q].as, code)

(* A row that is dropped as bad data was read, and something that was      *)
(* answered in it, at whatever depth, is what its warning says.  Thus the  *)
(* end of the context that is seen between two reads, in this row or in a  *)
(* collection inside it, drops no row, and the warning of one row never    *)
(* speaks of another.  A deadline that interrupts a read is an answer:     *)
(* isExecutionCanceled does not know E_TIMEOUT, and that row is dropped.   *)
DroppedForAnswer ==
    \A i \in 1..Len(warnings) :
        warnings[i].code = "W_ROW_SKIPPED" => Because(warnings[i].path, warnings[i].cause)

(* After the context is done at most the read in progress is answered,     *)
(* however many members and rows are left on the stack.                    *)
StopsReading ==
    ended # None => Cardinality(DOMAIN answers) <= answersBefore + 1

(* The walk ends. *)
Terminates == <>(mode = "done")

(* docs/www/guides/http-execution.md: "A field policy or a row policy      *)
(* cannot recover a cancellation", of which a deadline is one              *)
(* ("context.Canceled or context.DeadlineExceeded as the cause").  A field *)
(* policy can, when the field is the last one to be read, and what a       *)
(* deadline interrupts a row policy takes as well.                         *)
CancellationNotRecovered ==
    mode = "done" /\ result.ok => \A p \in DOMAIN answers : answers[p].as \notin Interrupts

-----------------------------------------------------------------------------
(* What the proofs of OutputWalkerProofs rest on.                          *)
Codes == {"E_REQUIRED_VALUE_MISSING", "E_IR_INVALID", "E_COLLECTION_CARDINALITY",
          "E_TRANSFORM", "E_TIMEOUT", Canceled}

Warning == [code : {"W_ERROR_RECOVERED", "W_ROW_SKIPPED"}, cause : Codes, path : Seq(Nat)]

TypeOK ==
    /\ schema \in Schemas
    /\ mode \in {"walk", "read", "query", "unwind", "done"}
    /\ mode = "unwind" => err \in Codes
    /\ warnings \in Seq(Warning)
    /\ DOMAIN answers \subseteq Seq(Nat) /\ IsFiniteSet(DOMAIN answers)
    /\ answersBefore \in Nat

(* The frames: what a call returns later is not in their types. *)
Object(f) ==
    /\ DOMAIN f = {"kind", "object", "next", "path", "out"} /\ f.kind = "object"
    /\ f.object \in DOMAIN schema
    /\ f.next \in 1..(Len(schema[f.object]) + 1)

Rows(f) ==
    /\ DOMAIN f = {"kind", "collection", "rows", "index", "path", "out"} /\ f.kind = "rows"
    /\ f.collection.row \in DOMAIN schema
    /\ f.index \in Nat

(* An object frame at one of its members, of the given kind. *)
AtMember(f, kind) ==
    f.next <= Len(schema[f.object]) /\ schema[f.object][f.next].kind = kind

(* Objects and collections alternate, from the output down; each object    *)
(* that waits for a call is at a collection.                               *)
Frames ==
    /\ stack = [i \in 1..Len(stack) |-> stack[i]] /\ Len(stack) \in Nat \ {0}
    /\ Object(stack[1])
    /\ \A i \in DOMAIN stack :
          /\ Object(stack[i]) \/ Rows(stack[i])
          /\ i < Len(stack) =>
                IF stack[i].kind = "object"
                THEN AtMember(stack[i], "collection") /\ Rows(stack[i + 1])
                ELSE Object(stack[i + 1])

(* The member about to be read is of the kind that is read. *)
Reading ==
    /\ mode = "read" => Top.kind = "object" /\ AtMember(Top, "field")
    /\ mode = "query" => Top.kind = "object" /\ AtMember(Top, "collection")

(* The member or the row each frame is at: a frame's path is that of those *)
(* before it.                                                              *)
Cursor(f) == IF f.kind = "object" THEN f.next ELSE f.index
Cursors == [i \in 1..Len(stack) |-> Cursor(stack[i])]
Located == \A i \in DOMAIN stack : stack[i].path = [x \in 1..(i - 1) |-> Cursors[x]]

(* A path q that was read is behind the cursors c: where they part, q is   *)
(* at an earlier member or row, or in the one that the call is in or, when *)
(* an error returns, was in.                                               *)
Passed(c, q, returning) ==
    \A i \in 1..Len(c) :
        i <= Len(q) /\ (\A x \in 1..(i - 1) : q[x] = c[x]) =>
            q[i] < c[i] \/ (q[i] = c[i] /\ (i < Len(c) \/ returning))

Behind ==
    \A q \in DOMAIN answers :
        IF mode \in {"unwind", "done"} THEN Passed(Cursors, q, TRUE)
        ELSE Passed(Cursors, q, FALSE)

(* Nothing is read twice: what a run answers is counted by `answers`. *)
ReadsAreNew == mode \in {"read", "query"} => MemberPath \notin DOMAIN answers

(* The context is not over between a look at it and the read, or the read  *)
(* is the one that was in progress.                                        *)
OneInProgress ==
    ended # None =>
        Cardinality(DOMAIN answers) + (IF mode \in {"read", "query"} THEN 1 ELSE 0)
            <= answersBefore + 1

IInv == TypeOK /\ Frames /\ Reading /\ Located /\ Behind /\ OneInProgress

-----------------------------------------------------------------------------
(* What a caller may build on.  An object is whole when it has a value for *)
(* each member it declares and its collections are within their bounds.    *)
Within(m, count) == ~TooFew(m, count) /\ ~TooMany(m, count)

InBounds(object, out) ==
    \A x \in 1..Len(out) :
        schema[object][x].kind = "collection" => Within(schema[object][x], Len(out[x]))

Whole(object, out) == Len(out) = Len(schema[object]) /\ InBounds(object, out)

(* Each frame is a call of the member or the row that the one before it is *)
(* at.                                                                     *)
Calls ==
    /\ stack[1].object = "root"
    /\ \A i \in DOMAIN stack :
          i < Len(stack) =>
             IF stack[i].kind = "object"
             THEN stack[i + 1].collection = schema[stack[i].object][stack[i].next]
             ELSE stack[i + 1].object = stack[i].collection.row

(* An object has a value for each member behind it, a collection only      *)
(* whole rows.                                                             *)
Collected(f) ==
    /\ f.out = [x \in 1..Len(f.out) |-> f.out[x]] /\ Len(f.out) \in Nat
    /\ IF f.kind = "object"
       THEN Len(f.out) = f.next - 1 /\ InBounds(f.object, f.out)
       ELSE \A x \in 1..Len(f.out) : Whole(f.collection.row, f.out[x])

(* The row over the maximum is kept, and the collection is returned from.  *)
OverMaximum(f) == f.kind = "rows" /\ TooMany(f.collection, Len(f.out))

AllCollected ==
    \A i \in DOMAIN stack :
        /\ Collected(stack[i])
        /\ OverMaximum(stack[i]) => i = Len(stack) /\ mode = "unwind"

(* A successful result is whole, however many errors its policies took,    *)
(* and it is partial exactly when it comes with warnings.                  *)
WholeResult ==
    mode = "done" /\ result.ok =>
        /\ Whole("root", result.value)
        /\ result.partial <=> result.warnings # <<>>

Flagged == partial \in BOOLEAN /\ (warnings # <<>> => partial = TRUE)

JInv == Calls /\ AllCollected /\ Flagged /\ WholeResult

-----------------------------------------------------------------------------
(* What was answered and what is delivered.  An answer is taken when it is *)
(* a value, or when neither the field's declaration nor its policy makes   *)
(* an error of it.                                                         *)
Taken(field, a) ==
    \/ a = "value"
    \/ a = "missing" /\ ~field.required
    \/ a \in FieldCauses /\ Recovers(field)

FieldValue(field, a) ==
    IF a = "value" THEN "value"
    ELSE IF (IF a = "missing" THEN field.hasDefault ELSE Policy(field) = "default")
    THEN "default" ELSE "null"

(* The fields of the object at a path. *)
AsAnswered(object, path, out) ==
    \A x \in 1..Len(out) :
        LET m == schema[object][x]
            p == Append(path, x)
        IN  m.kind = "field" =>
                /\ p \in DOMAIN answers /\ Taken(m, answers[p].as)
                /\ out[x] = FieldValue(m, answers[p].as)

AllAnswered ==
    \A i \in DOMAIN stack :
        stack[i].kind = "object" => AsAnswered(stack[i].object, stack[i].path, stack[i].out)

NothingFailed == \A p \in DOMAIN answers : answers[p].as \notin FieldCauses

(* While the walk goes on, what failed has been told. *)
Told == mode \in {"walk", "read", "query"} => partial = TRUE \/ NothingFailed

(* Each field of a successful result has what was answered for it, or what *)
(* the declaration puts in its place; and when the result is not partial,  *)
(* no read failed, in any row.                                             *)
AnsweredResult ==
    mode = "done" /\ result.ok =>
        /\ AsAnswered("root", <<>>, result.value)
        /\ result.partial = TRUE \/ NothingFailed

KInv == AllAnswered /\ Told /\ AnsweredResult

-----------------------------------------------------------------------------
(* Why a row fails.  The rows of a collection were answered; an error that *)
(* is no cancellation was answered at or inside the call that returns it.  *)
RowsAnswered ==
    \A i \in DOMAIN stack :
        stack[i].kind = "rows" =>
            stack[i].path \in DOMAIN answers /\ answers[stack[i].path].as = "rows"

Explained == mode = "unwind" /\ err # Canceled => Because(Top.path, err)

LInv == RowsAnswered /\ Explained /\ DroppedForAnswer
=============================================================================
