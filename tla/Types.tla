-------------------------------- MODULE Types --------------------------------
(***************************************************************************)
(* The type system (internal/typesys/type.go): how a type is written, and  *)
(* when a value of one type may go where another is declared.  A type is a *)
(* primitive with the marks that Array and Nullable have put behind it,    *)
(* the outermost one last.  The text of a type is a sequence of tokens: a  *)
(* primitive name, "[]", "?", "(", ")".                                    *)
(***************************************************************************)
EXTENDS Integers, SequencesExt

Integers == {"int", "i8", "i16", "i32", "i64", "u8", "u16", "u32", "u64"}
Floats == {"float", "f32", "f64"}
Primitives == Integers \cup Floats \cup {"string", "bool", "object", "unknown"}

Types == [name : Primitives, marks : Seq({"[]", "?"})]

Depth(t) == Len(t.marks)
IsArray(t) == t.marks # <<>> /\ t.marks[Depth(t)] = "[]"
IsNullable(t) == t.marks # <<>> /\ t.marks[Depth(t)] = "?"

Primitive(n) == [name |-> n, marks |-> <<>>]
Marked(t, mark) == [name |-> t.name, marks |-> Append(t.marks, mark)]
Array(t) == Marked(t, "[]")
Nullable(t) == IF IsNullable(t) THEN t ELSE Marked(t, "?")

(* What the n innermost marks make, and what an array or a nullable is of. *)
Inner(t, n) == [name |-> t.name, marks |-> SubSeq(t.marks, 1, n)]
Of(t) == Inner(t, Depth(t) - 1)

IsPrimitive(t, names) == t.marks = <<>> /\ t.name \in names
IsString(t) == IsPrimitive(t, {"string"})
IsStringArray(t) == IsArray(t) /\ IsString(Of(t))
IsInteger(t) == IsPrimitive(t, Integers)
IsNumeric(t) == IsPrimitive(t, Integers \cup Floats)
IsScalar(t) ==
    IsPrimitive(IF IsNullable(t) THEN Of(t) ELSE t, Primitives \ {"object", "unknown"})

(* The canonical text of a type. *)
Text(t) == <<t.name>> \o t.marks

-----------------------------------------------------------------------------
(* Parsing from the i-th token on: [type, rest], where type is a sequence  *)
(* of one type, or empty after a syntax error, and rest is the place that  *)
(* has not been read.                                                      *)
Unparsed(i) == [type |-> <<>>, rest |-> i]
At(s, i, tokens) == i <= Len(s) /\ s[i] \in tokens

(* The marks that follow, of which no two in a row may be "?". *)
ParseSuffixes(s, t, i) ==
    LET Ends == {j \in i..(Len(s) + 1) : ~At(s, j, {"[]", "?"})}
        end == Min(Ends)
        marks == t.marks \o SubSeq(s, i, end - 1)
    IN  IF \E k \in DOMAIN marks \ {1} : marks[k] = "?" /\ marks[k - 1] = "?"
        THEN Unparsed(i) ELSE [type |-> <<[name |-> t.name, marks |-> marks]>>, rest |-> end]

ParseType(s) ==
    LET From[i \in 1..(Len(s) + 1)] ==
            IF At(s, i, {"("})
            THEN LET inner == From[i + 1]
                 IN  IF inner.type # <<>> /\ At(s, inner.rest, {")"})
                     THEN ParseSuffixes(s, inner.type[1], inner.rest + 1) ELSE Unparsed(i)
            ELSE IF At(s, i, Primitives) THEN ParseSuffixes(s, Primitive(s[i]), i + 1)
            ELSE Unparsed(i)
    IN  From[1]

(* A sequence of the one type that the whole of s denotes, or empty. *)
Parse(s) == LET p == ParseType(s) IN IF p.rest = Len(s) + 1 THEN p.type ELSE <<>>

-----------------------------------------------------------------------------
(* Mutant of IsAssignable: a nullable value goes where its type is wanted. *)
IsAssignableContravariant(from, to) ==
    LET May[i \in 0..Depth(from), j \in 0..Depth(to)] ==
            \/ Inner(from, i) = Inner(to, j)
            \/ IsPrimitive(Inner(to, j), {"unknown"})
            \/ IsNullable(Inner(from, i)) /\ May[i - 1, j]
            \/ IsNullable(Inner(to, j)) /\ May[i, j - 1]
    IN  May[Depth(from), Depth(to)]

(* What goes where the j innermost marks of to are wanted: the numbers of  *)
(* innermost marks of from that do.                                        *)
Assignable(from, to) ==
    LET May[j \in 0..Depth(to)] ==
            LET t == Inner(to, j)
            IN  {i \in 0..Depth(from) :
                    LET f == Inner(from, i)
                    IN  \/ f = t
                        \/ IsPrimitive(t, {"unknown"})
                        \/ IsNullable(t) /\ (IF IsNullable(f) THEN i - 1 ELSE i) \in May[j - 1]
                        \/ IsArray(f) /\ IsArray(t) /\ i - 1 \in May[j - 1]}
    IN  May

IsAssignable(from, to) ==
    Depth(from) \in Assignable(from, to)[Depth(to)]
=============================================================================
