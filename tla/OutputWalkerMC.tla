--------------------------- MODULE OutputWalkerMC ---------------------------
(***************************************************************************)
(* Instances of OutputWalker for TLC, and the definition of a result that  *)
(* the walker is compared with: a recursive evaluation of the same output  *)
(* over the same answers, written from docs/spec/language-v0.1.md.         *)
(***************************************************************************)
EXTENDS OutputWalker

Field(required, hasDefault, onError) ==
    [kind |-> "field", required |-> required, hasDefault |-> hasDefault, onError |-> onError]
Collection(row, required, min, max, skip) ==
    [kind |-> "collection", row |-> row, required |-> required, min |-> min,
     max |-> max, skip |-> skip]

Plain == Field(FALSE, FALSE, "")
Must == Field(TRUE, FALSE, "")

(* Every field policy next to a collection that skips, one that fails, one *)
(* with both limits, and one inside another.                               *)
MCSchemas ==
    { [root |-> <<Field(FALSE, TRUE, "default"), Field(TRUE, FALSE, "warn")>>, row |-> <<>>],
      [root |-> <<Collection("row", FALSE, 0, NoMax, TRUE), Plain>>,
       row |-> <<Must, Field(FALSE, FALSE, "warn")>>],
      [root |-> <<Collection("row", TRUE, 0, 1, TRUE)>>, row |-> <<Must>>],
      [root |-> <<Collection("row", FALSE, 1, NoMax, FALSE)>>,
       row |-> <<Field(TRUE, FALSE, "null"), Field(FALSE, FALSE, "fail")>>],
      [root |-> <<Collection("row", FALSE, 0, 1, TRUE)>>,
       row |-> <<Collection("inner", TRUE, 0, NoMax, TRUE)>>, inner |-> <<Must>>],
      [root |-> <<Collection("row", FALSE, 0, NoMax, FALSE)>>,
       row |-> <<Collection("inner", FALSE, 0, 1, TRUE), Plain>>, inner |-> <<Plain>>] }

MCLastField == { [root |-> <<Must, Plain>>], [root |-> <<Collection("row", FALSE, 0, NoMax, TRUE)>>,
                                             row |-> <<Must, Plain>>] }

-----------------------------------------------------------------------------
Good(v, w, p) == [ok |-> TRUE, value |-> v, warnings |-> w, partial |-> p]
Bad(code, w) == [ok |-> FALSE, code |-> code, warnings |-> w]

EvalField(f, p, a) ==
    CASE a = "value" -> Good("value", <<>>, FALSE)
      [] a = "missing" ->
            IF f.required THEN Bad("E_REQUIRED_VALUE_MISSING", <<>>)
            ELSE Good(IF f.hasDefault THEN "default" ELSE "null", <<>>, FALSE)
      [] OTHER ->
            IF f.onError = "fail" \/ (f.onError = "" /\ f.required)
            THEN Bad(CodeOf[a], <<>>)
            ELSE Good(IF f.onError = "default" THEN "default" ELSE "null",
                      IF f.onError = "warn"
                      THEN <<[code |-> "W_ERROR_RECOVERED", cause |-> CodeOf[a], path |-> p]>>
                      ELSE <<>>,
                      TRUE)

RECURSIVE EvalMembers(_, _, _), EvalRows(_, _, _, _)

(* Members i.. of the object at path p.  What was not read, because the    *)
(* context was over by then, is a cancellation.                            *)
EvalMembers(name, p, i) ==
    IF i > Len(schema[name]) THEN Good(<<>>, <<>>, FALSE)
    ELSE LET m == schema[name][i]
             mp == Append(p, i)
             first == IF mp \notin DOMAIN answers THEN Bad(Canceled, <<>>)
                      ELSE IF m.kind = "field" THEN EvalField(m, mp, answers[mp].as)
                      ELSE IF answers[mp].as \in FieldCauses THEN Bad(CodeOf[answers[mp].as], <<>>)
                      ELSE EvalRows(m, mp, 0, 0)
         IN  IF ~first.ok THEN first
             ELSE LET rest == EvalMembers(name, p, i + 1)
                  IN  IF ~rest.ok THEN [rest EXCEPT !.warnings = first.warnings \o @]
                      ELSE Good(<<first.value>> \o rest.value,
                                first.warnings \o rest.warnings,
                                first.partial \/ rest.partial)

(* Rows r.. of collection m, kept of the earlier ones retained. *)
EvalRows(m, mp, r, kept) ==
    IF r = answers[mp].rows
    THEN IF kept < m.min \/ (m.required /\ kept = 0)
         THEN Bad("E_COLLECTION_CARDINALITY", <<>>) ELSE Good(<<>>, <<>>, FALSE)
    ELSE LET row == EvalMembers(m.row, Append(mp, r), 1)
         IN  IF row.ok /\ m.max # NoMax /\ kept + 1 > m.max
             THEN Bad("E_COLLECTION_CARDINALITY", row.warnings)
             ELSE IF ~row.ok /\ (~m.skip \/ row.code = Canceled) THEN row
             ELSE LET rest == EvalRows(m, mp, r + 1, IF row.ok THEN kept + 1 ELSE kept)
                      mine == IF row.ok THEN row.warnings
                              ELSE Append(row.warnings, [code |-> "W_ROW_SKIPPED", cause |-> row.code,
                                                         path |-> Append(mp, r)])
                  IN  IF ~rest.ok THEN [rest EXCEPT !.warnings = mine \o @]
                      ELSE Good(IF row.ok THEN <<row.value>> \o rest.value ELSE rest.value,
                                mine \o rest.warnings,
                                ~row.ok \/ row.partial \/ rest.partial)

(* Every extraction, whether and wherever its context ended, returns what  *)
(* the definition says: the value, the error, the warnings in order with   *)
(* their paths, and the partial flag.                                      *)
AgreesWithDefinition ==
    mode = "done" =>
        LET expected == EvalMembers("root", <<>>, 1)
        IN  /\ result.ok = expected.ok
            /\ ~result.ok => result.code = expected.code
            /\ result.ok =>
                  /\ result.value = expected.value
                  /\ result.partial = expected.partial
                  /\ result.warnings = IF result.partial
                        THEN Append(expected.warnings, [code |-> "W_PARTIAL_EXTRACTION"])
                        ELSE expected.warnings
=============================================================================
