-------------------------------- MODULE Nodes --------------------------------
(***************************************************************************)
(* KDL nodes as the semantic compiler reads them (internal/kdl/ast.go and  *)
(* internal/compiler/helpers.go): positional arguments, properties in      *)
(* source order, children.  A value is a pair of its kind and its content; *)
(* numbers are counted in halves, so that a fraction is an odd number.     *)
(***************************************************************************)
EXTENDS Types

CONSTANTS
    None,           \* what is absent
    Identifiers,    \* names that match userNamePattern
    RootNames,      \* names that match rootNamePattern
    Dates,          \* texts that are calendar dates
    Selectors,      \* texts that dom.ParseSelector accepts
    Unsupported     \* those it calls unsupported

ASSUME NodesAssumption == Identifiers \subseteq RootNames /\ Selectors \cap Unsupported = {}

(* Some codes under a condition; a set of one diagnostic code, or of none. *)
When(holds, codes) == IF holds THEN codes ELSE {}
Flag(wrong, code) == IF wrong THEN {code} ELSE {}
UnionOf(Op(_), s) == UNION {Op(s[i]) : i \in DOMAIN s}

NamedIn(n, names) == SelectSeq(n.kids, LAMBDA k : k.name \in names)
Others(n, names) == Flag(\E i \in DOMAIN n.kids : n.kids[i].name \notin names, "E_UNKNOWN_NODE")

-----------------------------------------------------------------------------
(* The last property of a name counts. *)
Positions(n, name) == {i \in DOMAIN n.props : n.props[i].name = name}
HasProperty(n, name) == Positions(n, name) # {}
Property(n, name) == n.props[Max(Positions(n, name))].value

Content(v, kind) == IF v[1] = kind THEN v[2] ELSE None
ContentOf(n, name, kind) == IF HasProperty(n, name) THEN Content(Property(n, name), kind) ELSE None
StringProperty(n, name) == ContentOf(n, name, "string")
IntProperty(n, name) == ContentOf(n, name, "int")
BoolProperty(n, name, default) ==
    LET b == ContentOf(n, name, "bool") IN IF b = None THEN default ELSE b
StringArgument(n, i) == IF i <= Len(n.args) THEN Content(n.args[i], "string") ELSE None

(* Absent, empty and ill-typed texts read alike where the code ignores the *)
(* second result of stringProperty.                                        *)
TextOr(text, default) == IF text \in {None, ""} THEN default ELSE text

-----------------------------------------------------------------------------
Numbers == {"int", "float"}
MatchesExpectation(v, expectation) ==
    \/ expectation \in {"string", "bool", "int"} /\ v[1] = expectation
    \/ expectation = "non-negative-int" /\ v[1] = "int" /\ v[2] >= 0
    \/ expectation = "number" /\ v[1] \in Numbers
    \/ expectation = "scalar" /\ v[1] \in Numbers \cup {"string", "bool", "null"}

ValidateNode(n, counts, allowed) ==
    LET known == {i \in DOMAIN n.props : n.props[i].name \in DOMAIN allowed}
    IN  Flag(Len(n.args) \notin counts, "E_ARGUMENT_COUNT")
            \cup Flag(~IsInjective([i \in DOMAIN n.props |-> n.props[i].name]),
                      "E_DUPLICATE_PROPERTY")
            \cup Flag(known # DOMAIN n.props, "E_UNKNOWN_PROPERTY")
            \cup Flag(\E i \in known : ~MatchesExpectation(n.props[i].value,
                                                           allowed[n.props[i].name]),
                      "E_TYPE_MISMATCH")

NoProperties == <<>>

(* The name of a node: a string that is an identifier. *)
NameFlaws(n, names) ==
    LET name == StringArgument(n, 1)
    IN  IF name = None THEN {"E_TYPE_MISMATCH"} ELSE Flag(name \notin names, "E_IDENTIFIER_INVALID")

(* Names that two of the nodes have. *)
Repeated(nodes) ==
    \E i, j \in DOMAIN nodes :
        i # j /\ StringArgument(nodes[i], 1) = StringArgument(nodes[j], 1)

CheckSelector(selector) ==
    IF selector \in Selectors THEN {}
    ELSE {IF selector \in Unsupported THEN "E_SELECTOR_UNSUPPORTED" ELSE "E_SELECTOR_INVALID"}

-----------------------------------------------------------------------------
(* Literals and types.                                                     *)
TypeProperty(n, name) ==
    LET text == StringProperty(n, name) IN IF text = None THEN <<>> ELSE Parse(text)

ValueType(v) ==
    IF v[1] = "null" THEN Nullable(Primitive("unknown")) ELSE Primitive(v[1])

IsValueAssignable(v, t) ==
    IF v[1] = "null" THEN IsNullable(t) \/ IsPrimitive(t, {"unknown"})
    ELSE IsAssignable(ValueType(v), t)

(* The JSON literal that a value becomes in the IR. *)
RawJSON(v) == IF v[1] \in Numbers THEN <<"number", v[2]>> ELSE v
=============================================================================
