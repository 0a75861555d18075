------------------------------ MODULE BuiltIns ------------------------------
(***************************************************************************)
(* The built-in transforms.  The compiler reads one table of what a call   *)
(* may say (builtincontract/contract.go) and types the call statically     *)
(* (compiler/builtins.go); the executor checks the value and each argument *)
(* once more, in code of its own (executor/builtins.go).                   *)
(***************************************************************************)
EXTENDS Nodes

CONSTANTS
    Captures,       \* portable pattern |-> number of its capture groups
    BaseURLs,       \* texts that are absolute URLs
    HalfRange,      \* integer type |-> half the number of its values, scaled down
    MaxFloat32,     \* the largest f32, in halves
    MaxNesting      \* bound: lists in lists, collections in collections

ASSUME BuiltInsAssumption ==
    /\ HalfRange \in [Integers -> Nat \ {0}] /\ HalfRange["int"] = HalfRange["i64"]
    /\ MaxFloat32 \in Nat /\ MaxNesting \in Nat
    /\ HalfRange["i32"] > 36
    /\ \A pattern \in DOMAIN Captures : Captures[pattern] \in 0..(HalfRange["i32"] - 1)

-----------------------------------------------------------------------------
(* What a call may say: the properties and their expectations, and those   *)
(* that must be there.  Only assert-enum takes positional arguments.       *)
Plain == {"trim", "normalize-whitespace", "lowercase", "uppercase", "to-string",
          "empty-to-null", "url-path", "assert-enum"}
WithProperties == {"prepend", "append", "assert-min", "assert-max", "coalesce", "replace",
                   "regex-replace", "regex-capture", "assert-matches", "substring", "split", "join",
                   "parse-int", "parse-float", "parse-bool", "url-resolve", "url-query",
                   "path-segment"}

Allowed ==
    [name \in Plain \cup WithProperties |->
        IF name \in {"prepend", "append"} THEN [value |-> "string"]
        ELSE IF name \in {"assert-min", "assert-max"} THEN [value |-> "number"]
        ELSE IF name = "coalesce" THEN [value |-> "scalar"]
        ELSE IF name = "replace"
        THEN [old |-> "string", new |-> "string", count |-> "non-negative-int"]
        ELSE IF name = "regex-replace"
        THEN [pattern |-> "string", replacement |-> "string", flags |-> "string",
              count |-> "non-negative-int"]
        ELSE IF name = "regex-capture"
        THEN [pattern |-> "string", group |-> "non-negative-int", flags |-> "string"]
        ELSE IF name = "assert-matches" THEN [pattern |-> "string", flags |-> "string"]
        ELSE IF name = "substring" THEN [start |-> "int", end |-> "int"]
        ELSE IF name = "split" THEN [separator |-> "string", limit |-> "non-negative-int"]
        ELSE IF name = "join" THEN [separator |-> "string"]
        ELSE IF name = "parse-int" THEN [as |-> "string", radix |-> "int"]
        ELSE IF name = "parse-float" THEN [as |-> "string"]
        ELSE IF name = "parse-bool"
        THEN [x \in {"case-sensitive", "true", "false"} |->
                 IF x = "case-sensitive" THEN "bool" ELSE "string"]
        ELSE IF name = "url-resolve" THEN [base |-> "string"]
        ELSE IF name = "url-query" THEN [name |-> "string", index |-> "non-negative-int"]
        ELSE IF name = "path-segment" THEN [index |-> "int"]
        ELSE NoProperties]

Optional == {"count", "flags", "group", "end", "limit", "radix", "case-sensitive", "true", "false"}

BuiltIn(name) == name \in DOMAIN Allowed

Required(name) ==
    DOMAIN Allowed[name] \ (IF name = "url-query" THEN {"index"} ELSE Optional)

Positional(name, count) == IF name = "assert-enum" THEN count >= 1 ELSE count = 0

-----------------------------------------------------------------------------
(* The type of a call's result: a sequence of one type, or empty.          *)
TextToText == {"trim", "normalize-whitespace", "lowercase", "uppercase", "replace",
               "regex-replace", "substring", "prepend", "append", "url-resolve", "url-path",
               "assert-matches"}
TextToNullable == {"regex-capture", "empty-to-null", "url-query", "path-segment"}

Given(holds, t) == IF holds THEN <<t>> ELSE <<>>

ApplyBuiltin(name, input, n) ==
    LET text == Primitive("string")
        as == TypeProperty(n, "as")
    IN  IF name \in TextToText THEN Given(IsString(input), text)
        ELSE IF name \in TextToNullable THEN Given(IsString(input), Nullable(text))
        ELSE IF name = "split" THEN Given(IsString(input), Array(text))
        ELSE IF name = "join" THEN Given(IsStringArray(input), text)
        ELSE IF name = "parse-int"
        THEN IF IsString(input) /\ as # <<>> /\ IsInteger(as[1]) THEN as ELSE <<>>
        ELSE IF name = "parse-float"
        THEN IF IsString(input) /\ StringProperty(n, "as") \in {<<f>> : f \in Floats}
             THEN as ELSE <<>>
        ELSE IF name = "parse-bool" THEN Given(IsString(input), Primitive("bool"))
        ELSE IF name = "to-string" THEN Given(IsScalar(input) /\ ~IsNullable(input), text)
        ELSE IF name = "coalesce" THEN IF IsNullable(input) THEN <<Of(input)>> ELSE <<>>
        ELSE IF name = "assert-enum" THEN Given(IsScalar(input), input)
        ELSE Given(IsNumeric(input), input)

-----------------------------------------------------------------------------
(* What the table does not say.  A text of flags is a sequence of letters. *)
PortableFlags(flags) == ToSet(flags) \subseteq {"i", "m", "s"} /\ IsInjective(flags)

RegexFlaws(name, n) ==
    LET flags == StringProperty(n, "flags")
        pattern == StringProperty(n, "pattern")
        compiles == /\ pattern \in DOMAIN Captures
                    /\ flags = None \/ ToSet(flags) \subseteq {"i", "m", "s", "U"}
        group == IntProperty(n, "group")
    IN  Flag(flags # None /\ ~PortableFlags(flags), "E_REGEX_INVALID")
            \cup Flag(pattern # None /\ ~compiles, "E_REGEX_INVALID")
            \cup Flag(/\ name = "regex-capture" /\ pattern # None /\ compiles
                      /\ group # None /\ group > 2 * Captures[pattern], "E_TRANSFORM_ARGUMENT")

(* Mutant of ValidateBuiltinArguments: the value of coalesce is not typed. *)
ValidateArgumentsUntyped(name, input, n) == RegexFlaws(name, n)

ValidateBuiltinArguments(name, input, n) ==
    LET radix == IntProperty(n, "radix")
        Answer(b) == LET text == StringProperty(n, b) IN IF text = None THEN b ELSE text
        base == StringProperty(n, "base")
        wrong ==
            \/ name = "parse-int" /\ radix # None /\ radix \notin 4..72
            \/ name = "parse-bool" /\ Answer("true") = Answer("false")
            \/ /\ name = "coalesce" /\ HasProperty(n, "value") /\ IsNullable(input)
               /\ ~IsValueAssignable(Property(n, "value"), Of(input))
            \/ /\ name = "assert-enum"
               /\ \E i \in 2..Len(n.args) : ~IsValueAssignable(n.args[i], input)
            \/ name = "url-resolve" /\ base # None /\ base \notin BaseURLs
    IN  RegexFlaws(name, n) \cup Flag(wrong, "E_TRANSFORM_ARGUMENT")

-----------------------------------------------------------------------------
(* Run-time values are tuples headed by their Go kind: "nil", "string",    *)
(* "bool", "object", the integer types, "float32", "float64", "nonfinite", *)
(* "strings" (a []string that is not empty), "list" with the set of its    *)
(* items, "number" (what JSON or JavaScript hands over) with its halves,   *)
(* "unsupported".  A failure is headed by what is wrong: "!kind" (the      *)
(* value), "!argument" (the call) or "!data" (the text).                   *)
Nil == <<"nil">>
Failure(v) == v[1] \in {"!kind", "!argument", "!data"}
IntegerKind(name) == IF name = "int" THEN "i64" ELSE name
FloatKind(name) == IF name = "f32" THEN "float32" ELSE "float64"

IsList(v) == v[1] = "list"
IsArrayValue(v) == v[1] \in {"list", "strings"}
Items(v) == IF IsList(v) THEN v[2] ELSE IF v[1] = "strings" THEN {<<"string">>} ELSE {}

(* A value and the items of its lists, n levels down.                      *)
Levels(v, n) ==
    LET Down[k \in 0..n] ==
            IF k = 0 THEN {v}
            ELSE LET above == Down[k - 1] IN above \cup UNION {Items(e) : e \in above}
    IN  Down
Parts(v, n) == Levels(v, n)[n]

IsJSONCompatible(v) == \A e \in Parts(v, MaxNesting) : e[1] \notin {"nonfinite", "unsupported"}

(* An integer of a width, from halves.                                     *)
Fits(halves, name) ==
    LET h == HalfRange[name]
        range == IF name \in {"u8", "u16", "u32", "u64"} THEN 0..(2 * h - 1) ELSE -h..(h - 1)
    IN  halves % 2 = 0 /\ halves \div 2 \in range

(* The two functions go down a type mark by mark.  At its primitive:       *)
MatchesPrimitive(v, name) ==
    \/ name = "unknown" /\ IsJSONCompatible(v)
    \/ name \in {"object", "string", "bool"} /\ v[1] = name
    \/ name \in Integers /\ v[1] = IntegerKind(name)
    \/ name \in Floats /\ v[1] = FloatKind(name)

(* The parts of a value that match what the n innermost marks make.        *)
Matching(v, t) ==
    LET Match[n \in 0..Depth(t)] ==
            {e \in Parts(v, Depth(t)) :
                IF n = 0 THEN MatchesPrimitive(e, t.name)
                ELSE IF t.marks[n] = "?" THEN e = Nil \/ e \in Match[n - 1]
                ELSE IsArrayValue(e) /\ Items(e) \subseteq Match[n - 1]}
    IN  Match

MatchesRuntimeType(v, t) == v \in Matching(v, t)[Depth(t)]

(* The value of JSON or JavaScript as one of a type: a sequence of one     *)
(* value, or empty.                                                        *)
NormalizePrimitive(v, name) ==
    IF name = "unknown" THEN <<v>>
    ELSE IF name \in {"object", "string", "bool"} THEN Given(v[1] = name, v)
    ELSE IF v[1] # "number" THEN <<>>
    ELSE IF name \in Integers THEN Given(Fits(v[2], name), <<IntegerKind(name)>>)
    ELSE Given(name # "f32" \/ v[2] \in -MaxFloat32..MaxFloat32, <<FloatKind(name)>>)

(* What a value becomes under a mark, given what it and its items become   *)
(* under those before it: a list only when none of its items fails.        *)
Under(mark, v, made) ==
    IF mark = "?" THEN IF v = Nil THEN <<v>> ELSE made[v]
    ELSE LET items == {made[i] : i \in Items(v)}
         IN  Given(IsArrayValue(v) /\ <<>> \notin items, <<"list", {r[1] : r \in items}>>)

(* What each part of a value becomes under the n innermost marks.          *)
Normalized(v, t) ==
    LET Made[n \in 0..Depth(t)] ==
            [e \in Parts(v, Depth(t)) |->
                IF ~IsJSONCompatible(e) THEN <<>>
                ELSE IF n = 0 THEN NormalizePrimitive(e, t.name)
                ELSE Under(t.marks[n], e, Made[n - 1])]
    IN  Made

NormalizeJSONResult(v, t) == Normalized(v, t)[Depth(t)][v]

(* What decodeJSON makes of a literal of the IR.                           *)
Decoded(literal) ==
    IF literal[1] = "number" THEN literal ELSE IF literal[1] = "null" THEN Nil ELSE <<literal[1]>>

-----------------------------------------------------------------------------
(* The arguments a call has at run time: the last of a name counts.        *)
Argument(call, name) ==
    LET at == {i \in DOMAIN call.named : call.named[i].name = name}
    IN  IF at = {} THEN <<"absent">> ELSE call.named[Max(at)].value

Absent(call, name) == Argument(call, name)[1] = "absent"
IsText(call, name) == Argument(call, name)[1] = "string"
IsTextIfAny(call, name) == Absent(call, name) \/ IsText(call, name)
LiteralInt(call, name) ==
    LET a == Argument(call, name) IN a[1] = "number" /\ Fits(a[2], "i32")
LiteralIntIfAny(call, name) == Absent(call, name) \/ LiteralInt(call, name)
NonNegativeIfAny(call, name) ==
    Absent(call, name) \/ (LiteralInt(call, name) /\ Argument(call, name)[2] >= 0)

Regex(call) ==
    /\ IsText(call, "pattern") /\ Argument(call, "pattern")[2] \in DOMAIN Captures
    /\ \/ Absent(call, "flags")
       \/ IsText(call, "flags") /\ PortableFlags(Argument(call, "flags")[2])

Group(call) ==
    \/ Absent(call, "group")
    \/ /\ NonNegativeIfAny(call, "group")
       /\ Argument(call, "group")[2] <= 2 * Captures[Argument(call, "pattern")[2]]

(* Every argument that the built-in reads is one it can use.               *)
ArgumentsRead(name, call) ==
    LET as == Argument(call, "as")
        radix == Argument(call, "radix")
    IN  /\ name \in {"prepend", "append"} => IsText(call, "value")
        /\ name = "replace" =>
              IsText(call, "old") /\ IsText(call, "new") /\ NonNegativeIfAny(call, "count")
        /\ name = "regex-replace" =>
              Regex(call) /\ IsText(call, "replacement") /\ NonNegativeIfAny(call, "count")
        /\ name = "regex-capture" => Regex(call) /\ Group(call)
        /\ name = "assert-matches" => Regex(call)
        /\ name = "substring" => LiteralInt(call, "start") /\ LiteralIntIfAny(call, "end")
        /\ name = "split" => IsText(call, "separator") /\ NonNegativeIfAny(call, "limit")
        /\ name = "join" => IsText(call, "separator")
        /\ name = "parse-int" =>
              /\ as[1] = "string" /\ as[2] \in {<<i>> : i \in Integers}
              /\ Absent(call, "radix") \/ (LiteralInt(call, "radix") /\ radix[2] \in {0} \cup 4..72)
        /\ name = "parse-float" => as[1] = "string" /\ as[2] \in {<<f>> : f \in Floats}
        /\ name = "parse-bool" =>
              /\ Argument(call, "case-sensitive")[1] \in {"absent", "bool"}
              /\ IsTextIfAny(call, "true") /\ IsTextIfAny(call, "false")
        /\ name = "coalesce" =>
              /\ ~Absent(call, "value")
              /\ NormalizeJSONResult(Decoded(Argument(call, "value")), call.output) # <<>>
        /\ name = "url-resolve" =>
              IsText(call, "base") /\ Argument(call, "base")[2] \in BaseURLs
        /\ name = "url-query" => IsText(call, "name") /\ NonNegativeIfAny(call, "index")
        /\ name = "path-segment" => LiteralInt(call, "index")
        /\ name \in {"assert-min", "assert-max"} => Argument(call, "value")[1] = "number"

NumberKinds == {IntegerKind(i) : i \in Integers} \cup {"float32", "float64", "number"}

(* The value is of a kind that the built-in takes.                         *)
Takes(name, v) ==
    IF name \in {"assert-min", "assert-max"} THEN v[1] \in NumberKinds
    ELSE IF name = "to-string" THEN v[1] \in {"string", "bool"} \cup (NumberKinds \ {"number"})
    ELSE IF name = "join" THEN IsArrayValue(v) /\ \A e \in Items(v) : e[1] = "string"
    ELSE name \in {"coalesce", "assert-enum"} \/ v[1] = "string"

(* The texts that a built-in may not be able to read, or may reject.       *)
Partial == {"url-resolve", "url-path", "url-query", "path-segment", "parse-int", "parse-float",
            "parse-bool", "assert-matches", "assert-enum", "assert-min", "assert-max"}

Results(name, v, call) ==
    IF name \in {"parse-int", "parse-float"}
    THEN LET as == Argument(call, "as")[2][1]
         IN  {<<IF as \in Integers THEN IntegerKind(as) ELSE FloatKind(as)>>}
    ELSE IF name = "parse-bool" THEN {<<"bool">>}
    ELSE IF name = "split" THEN {<<"strings">>, <<"list", {}>>}
    ELSE IF name \in TextToNullable THEN {<<"string">>, Nil}
    ELSE IF name = "coalesce"
    THEN {IF v # Nil THEN v
          ELSE NormalizeJSONResult(Decoded(Argument(call, "value")), call.output)[1]}
    ELSE IF name \in {"assert-enum", "assert-min", "assert-max"} THEN {v}
    ELSE {<<"string">>}

(* Everything that one application may come to.                            *)
ApplyBuiltinRuntime(name, v, call) ==
    IF ~Takes(name, v) THEN {<<"!kind">>}
    ELSE IF ~ArgumentsRead(name, call) /\ ~(name = "coalesce" /\ v # Nil) THEN {<<"!argument">>}
    ELSE Results(name, v, call) \cup (IF name \in Partial THEN {<<"!data">>} ELSE {})
=============================================================================
