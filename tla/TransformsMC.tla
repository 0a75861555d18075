---------------------------- MODULE TransformsMC ----------------------------
(***************************************************************************)
(* Extractors for Transforms, and the definition that the results of their *)
(* fields are compared with.                                               *)
(***************************************************************************)
EXTENDS Transforms, FiniteSets

Pipeline(calls) == [kind |-> "pipeline", calls |-> calls]
Declarations(p, q, r) ==
    [p |-> Pipeline(p), q |-> Pipeline(q), r |-> Pipeline(r),
     m |-> [kind |-> "match"], x |-> [kind |-> "external"]]

(* Pipelines that share others, one after and inside the other. *)
Acyclic ==
    { Declarations(<<"q", "q">>, <<"m", "b">>, <<"p", "q">>),
      Declarations(<<"x", "q", "x">>, <<"b", "r">>, <<"m", "x">>),
      Declarations(<<"b">>, <<"p", "m", "p">>, <<"q", "p">>) }

(* Each pipeline reaches itself by its first calls. *)
FirstCallCycles ==
    { Declarations(<<"p">>, <<"b", "p">>, <<"q", "m">>),
      Declarations(<<"b", "q">>, <<"r", "m">>, <<"b", "p", "x">>) }

(* A pipeline reaches itself after another call. *)
LaterCallCycles ==
    { Declarations(<<"m", "p">>, <<"b">>, <<"p">>),
      Declarations(<<"x", "q">>, <<"b", "r", "p">>, <<"m">>) }

FieldCalls == { <<<<"p", "q">>, <<"q", "b">>>>, <<<<"r", "r">>, <<"p", "x">>>> }

Run(runtimes, declarations) ==
    { [runtime |-> t, declared |-> d, fields |-> f] :
          t \in runtimes, d \in declarations, f \in FieldCalls }

MCExtractors ==
    Run({"go", "ts"}, Acyclic \cup FirstCallCycles) \cup Run({"go"}, LaterCallCycles)
MCRecursive == Run({"ts"}, LaterCallCycles)

-----------------------------------------------------------------------------
(* What a sequence of calls applies, in order, where each path of the      *)
(* calls enters a symbol at most once: "!" stands for a second entry.      *)
RECURSIVE Flat(_, _)
Flat(calls, around) ==
    IF calls = <<>> THEN <<>>
    ELSE LET t == Head(calls)
             first == IF t \in around THEN <<"!">>
                      ELSE IF t \notin DOMAIN extractor.declared THEN <<t>>
                      ELSE IF Declared(t).kind # "pipeline" THEN <<t>>
                      ELSE Flat(Declared(t).calls, around \cup {t})
         IN  first \o Flat(Tail(calls), around)

Prefix(s, t) == Len(s) < Len(t) /\ s = SubSeq(t, 1, Len(s))

(* A field's value is that of all its calls, in order.  If the field fails *)
(* nothing is applied after the call that failed, the error is one that    *)
(* such a call can have, and a recursion is reported where there is one    *)
(* and nowhere else, whatever the fields and calls before have entered.    *)
AgreesWithDefinition ==
    \A f \in 1..Len(results) :
        LET flat == Flat(Fields[f], {})
            r == results[f]
            failed == flat[Len(r.applied) + 1]
        IN  IF r.ok THEN r.applied = flat
            ELSE IF r.code = "E_EXECUTION_CANCELED" THEN TRUE
            ELSE /\ Prefix(r.applied, flat)
                 /\ ~TypeScript =>
                       r.code \in CASE failed = "!" -> {"E_TRANSFORM_RECURSION"}
                                    [] failed = "x" -> {"E_EXTERNAL_TRANSFORM",
                                                        "E_EXTERNAL_TRANSFORM_RESULT_TYPE"}
                                    [] OTHER -> {"E_TRANSFORM"}
                 /\ failed # "m"
=============================================================================
