----------------------------- MODULE Transforms -----------------------------
(***************************************************************************)
(* The transform runtimes: applyCalls and applyDeclared of                 *)
(* internal/executor/transforms.go and packages/scrape-kdl/src/runtime.ts, *)
(* applied to the fields of one extraction.                                *)
(*                                                                         *)
(* A declared transform is a pipeline of calls, a match, or an external    *)
(* function of the host; a call names a built-in or a declared transform.  *)
(* The compilers accept a pipeline that reaches itself, and callStack, the *)
(* set of symbols being applied, is what is to stop it.  Go removes a      *)
(* symbol when its call returns.  TypeScript removes it in a finally       *)
(* clause that does not await applyCalls, so a pipeline's symbol leaves    *)
(* the set at the first suspension inside it.                              *)
(*                                                                         *)
(* Values are not modelled; `applied` records what has been applied.       *)
(***************************************************************************)
EXTENDS Naturals, Sequences, FiniteSets

CONSTANTS
    Extractors,     \* runtime, declared transforms, and the fields' calls
    MaxDepth,       \* bound: nested pipelines
    None

(* None is the symbol of a field's own calls. *)
WellFormed(e) ==
    /\ e.fields \in Seq(Seq(STRING))
    /\ IsFiniteSet(DOMAIN e.declared) /\ None \notin DOMAIN e.declared
    /\ \A s \in DOMAIN e.declared :
          e.declared[s].kind = "pipeline" => e.declared[s].calls \in Seq(STRING)

ASSUME TransformAssumption ==
    MaxDepth \in Nat /\ \A e \in Extractors : WellFormed(e)

VARIABLES
    extractor,      \* fixed for the run
    stack,          \* calls in progress: symbol, its calls, the next of them
    callStack,      \* the runtime's recursion guard
    awaiting,       \* the external function that has not answered, or None
    canceled,       \* the signal has fired
    applied,        \* built-ins, matches and externals applied to the field
    results         \* of the fields that are done

fieldVars == <<stack, callStack, applied, results>>
vars == <<extractor, fieldVars, awaiting, canceled>>

TypeScript == extractor.runtime = "ts"
Declared(s) == extractor.declared[s]
IsDeclared(target) == target \in DOMAIN extractor.declared
Fields == extractor.fields

Chain(symbol, calls) == [symbol |-> symbol, calls |-> calls, next |-> 1]
FieldChain(f) == IF f <= Len(Fields) THEN <<Chain(None, Fields[f])>> ELSE <<>>

Init ==
    /\ extractor \in Extractors
    /\ stack = FieldChain(1)
    /\ callStack = {}
    /\ awaiting = None
    /\ canceled = FALSE
    /\ applied = <<>>
    /\ results = <<>>

Top == stack[Len(stack)]
Below == SubSeq(stack, 1, Len(stack) - 1)
Target == Top.calls[Top.next]
Symbols == {stack[i].symbol : i \in 1..Len(stack)} \ {None}

(* applyCalls is about to make the next call; TypeScript looks at the      *)
(* signal first.                                                           *)
Calls ==
    /\ stack # <<>> /\ awaiting = None
    /\ Top.next <= Len(Top.calls)

CallsNow == Calls /\ ~(TypeScript /\ canceled)

-----------------------------------------------------------------------------
(* The guard: callStack when symbol s is entered, and when it is left.     *)
Entered(s) == callStack \cup {s}

(* Mutants of Left: the symbol stays, in either runtime; Go forgets all of *)
(* them, as TypeScript does.                                               *)
LeftKept(s) == callStack
LeftForgotten(s) == {}

(* In TypeScript every pipeline around s has suspended by then, and its    *)
(* finally clause has run.                                                 *)
Left(s) == IF TypeScript THEN {} ELSE callStack \ {s}

(* The codes of the two runtimes: TypeScript wraps what is not an          *)
(* ExecutionError as E_TRANSFORM.                                          *)
Code(cause) ==
    CASE cause = "canceled" -> "E_EXECUTION_CANCELED"
      [] TypeScript \/ cause = "builtin" -> "E_TRANSFORM"
      [] cause = "recursion" -> "E_TRANSFORM_RECURSION"
      [] cause = "external" -> "E_EXTERNAL_TRANSFORM"
      [] cause = "type" -> "E_EXTERNAL_TRANSFORM_RESULT_TYPE"

(* The next field starts with an empty record; the guard is the same one.  *)
NextField(result) ==
    /\ results' = Append(results, result)
    /\ stack' = FieldChain(Len(results) + 2)
    /\ applied' = <<>>

(* The error leaves every call of the field.  Its policy may recover it.   *)
(* A cancellation, which only applyCalls of TypeScript raises, goes the    *)
(* same way, but recovered or not it is the last: the walker looks at the  *)
(* signal before the next field, and nothing more is called.               *)
FieldFails(cause) ==
    /\ callStack' = callStack \ Symbols
    /\ IF cause = "canceled"
       THEN /\ results' = Append(results, [ok |-> FALSE, code |-> Code(cause)])
            /\ stack' = <<>>
            /\ applied' = <<>>
       ELSE NextField([ok |-> FALSE, code |-> Code(cause), applied |-> applied])

(* The call has a value. *)
Answered(name) ==
    /\ applied' = Append(applied, name)
    /\ stack' = [stack EXCEPT ![Len(stack)].next = @ + 1]
    /\ UNCHANGED results

-----------------------------------------------------------------------------
CallBuiltin ==
    /\ CallsNow /\ ~IsDeclared(Target)
    /\ Answered(Target)
    /\ UNCHANGED <<extractor, callStack, awaiting, canceled>>

BuiltinFails ==
    /\ CallsNow /\ ~IsDeclared(Target)
    /\ FieldFails("builtin")
    /\ UNCHANGED <<extractor, awaiting, canceled>>

CallCanceled ==
    /\ Calls /\ TypeScript /\ canceled
    /\ FieldFails("canceled")
    /\ UNCHANGED <<extractor, awaiting, canceled>>

Enters(kind) == CallsNow /\ IsDeclared(Target) /\ Declared(Target).kind = kind

(* Mutant of Recursive: the guard is never asked. *)
RecursiveUnguarded == FALSE

Recursive == Target \in callStack

Recursion ==
    /\ CallsNow /\ IsDeclared(Target) /\ Recursive
    /\ FieldFails("recursion")
    /\ UNCHANGED <<extractor, awaiting, canceled>>

CallMatch ==
    /\ Enters("match") /\ ~Recursive
    /\ callStack' = Left(Target)
    /\ Answered(Target)
    /\ UNCHANGED <<extractor, awaiting, canceled>>

(* The calls around it suspend until the function answers. *)
CallExternal ==
    /\ Enters("external") /\ ~Recursive
    /\ callStack' = IF TypeScript THEN {Target} ELSE Entered(Target)
    /\ awaiting' = Target
    /\ UNCHANGED <<extractor, stack, applied, results, canceled>>

ExternalAnswers ==
    /\ awaiting # None
    /\ callStack' = Left(awaiting)
    /\ Answered(awaiting)
    /\ awaiting' = None
    /\ UNCHANGED <<extractor, canceled>>

(* It returns an error, or a value of another type. *)
ExternalFails(cause) ==
    /\ awaiting # None
    /\ callStack' = callStack \ (Symbols \cup {awaiting})
    /\ NextField([ok |-> FALSE, code |-> Code(cause), applied |-> applied])
    /\ awaiting' = None
    /\ UNCHANGED <<extractor, canceled>>

CallPipeline ==
    /\ Enters("pipeline") /\ ~Recursive
    /\ Len(stack) <= MaxDepth
    /\ stack' = Append(stack, Chain(Target, Declared(Target).calls))
    /\ callStack' = Entered(Target)
    /\ UNCHANGED <<extractor, applied, results, awaiting, canceled>>

(* The last call of a pipeline, or of the field, has returned. *)
Return ==
    /\ stack # <<>> /\ awaiting = None /\ Top.next > Len(Top.calls)
    /\ IF Below = <<>>
       THEN NextField([ok |-> TRUE, applied |-> applied]) /\ UNCHANGED callStack
       ELSE /\ stack' = [Below EXCEPT ![Len(Below)].next = @ + 1]
            /\ callStack' = Left(Top.symbol)
            /\ UNCHANGED <<applied, results>>
    /\ UNCHANGED <<extractor, awaiting, canceled>>

Cancel ==
    /\ ~canceled /\ TypeScript /\ stack # <<>>
    /\ canceled' = TRUE
    /\ UNCHANGED <<extractor, fieldVars, awaiting>>

Step ==
    \/ CallBuiltin \/ BuiltinFails \/ CallCanceled \/ Recursion \/ CallMatch
    \/ CallExternal \/ ExternalAnswers \/ CallPipeline \/ Return
    \/ \E cause \in {"external", "type"} : ExternalFails(cause)

Next == Step \/ Cancel

(* External functions answer; everything else runs by itself. *)
Spec == Init /\ [][Next]_vars /\ WF_vars(Step)

-----------------------------------------------------------------------------
(* docs/spec/diagnostics.md: "E_TRANSFORM_RECURSION: declared transform    *)
(* recursion was detected": no transform is applied inside itself.         *)
RecursionDetected ==
    \A i, j \in 1..Len(stack) :
        stack[i].symbol = stack[j].symbol /\ stack[i].symbol # None => i = j

(* Whatever the transforms call, every field gets a value or an error. *)
Terminates == <>(stack = <<>>)

-----------------------------------------------------------------------------
(* What the proofs of TransformsProofs rest on.                            *)
Frame == [symbol : DOMAIN extractor.declared \cup {None}, calls : Seq(STRING), next : Nat \ {0}]

Codes == {"E_EXECUTION_CANCELED", "E_TRANSFORM", "E_TRANSFORM_RECURSION",
          "E_EXTERNAL_TRANSFORM", "E_EXTERNAL_TRANSFORM_RESULT_TYPE"}

Result ==
    [ok : {TRUE}, applied : Seq(STRING)] \cup [ok : {FALSE}, code : Codes]
    \cup [ok : {FALSE}, code : Codes, applied : Seq(STRING)]

TypeOK ==
    /\ extractor \in Extractors
    /\ stack \in Seq(Frame)
    /\ applied \in Seq(STRING)
    /\ results \in Seq(Result)

(* A field's own calls, and around each other the pipelines they entered.  *)
Frames ==
    \A i \in 1..Len(stack) :
        IF i = 1 THEN stack[i].symbol = None
        ELSE /\ IsDeclared(stack[i].symbol)
             /\ Declared(stack[i].symbol).kind = "pipeline"
             /\ stack[i].calls = Declared(stack[i].symbol).calls

(* The transforms that are being applied. *)
Active == Symbols \cup ({awaiting} \ {None})

Waiting ==
    awaiting # None =>
        /\ stack # <<>> /\ awaiting \in STRING
        /\ IsDeclared(awaiting) /\ Declared(awaiting).kind = "external"

(* The guard names transforms that are being applied, and in Go all.       *)
Guard == callStack \subseteq Active /\ (~TypeScript => Active \subseteq callStack)

IInv ==
    /\ TypeOK /\ Frames /\ Waiting /\ Guard
    /\ ~TypeScript => RecursionDetected
=============================================================================
