---------------------------- MODULE ProgramsProofs ----------------------------
(***************************************************************************)
(* Theorems about Programs, for every corpus, every host and every answer. *)
(* First what types and values are: which parts of a value match a type    *)
(* follows from those one level down, and what is normalized to a type     *)
(* matches it (MatchUnfold, NormalizedMatches).  Then what the compiler    *)
(* and Prepare leave behind (JavaScriptSeen, PlanFacts, FieldSound), then  *)
(* what each step of a field comes to (FieldOutcome), and on top of them   *)
(* the inductive invariant and the properties.  The rest is the soundness  *)
(* of types: of assignability (AssignableMatches), of literals             *)
(* (LiteralNormal), of each built-in (BuiltinReads, BuiltinTakes,          *)
(* BuiltinYields), of chains and frames (ChainLinked, AdvancedLinked),     *)
(* and so of every run (TypesAreSound).                                    *)
(***************************************************************************)
EXTENDS Programs, SequenceTheorems, FunctionTheorems, WellFoundedInduction, TLAPS

-----------------------------------------------------------------------------
(* Induction over the natural numbers, from their well-foundedness.        *)
LEMMA Least ==
    ASSUME NEW T \in SUBSET Nat, T # {}
    PROVE  \E x \in T : \A y \in T : x <= y
<1>. DEFINE R == OpToRel(<, Nat)
<1>1. IsWellFoundedOn(R, Nat)
  BY NatLessThanWellFounded
<1>2. \A x, y \in Nat : x < y => <<x, y>> \in R
  BY DEF OpToRel
<1>. HIDE DEF R
<1>3. PICK x \in T : \A y \in T : ~(<<y, x>> \in R)
  BY <1>1, WFMin
<1>4. ASSUME NEW y \in T  PROVE x <= y
  <2>1. x \in Nat /\ y \in Nat
    BY <1>3
  <2>2. ~(y < x)
    BY ONLY <1>3, <1>2, <2>1
  <2>. QED  BY ONLY <2>1, <2>2
<1>. QED  BY <1>3, <1>4

(* Every set of naturals that has 0 and with each n its successor has them all. *)
LEMMA Induct ==
    ASSUME NEW S \in SUBSET Nat, 0 \in S, \A n \in S : n + 1 \in S
    PROVE  S = Nat
<1>. SUFFICES ASSUME Nat \ S # {}  PROVE FALSE
  OBVIOUS
<1>1. PICK x \in Nat \ S : \A y \in Nat \ S : x <= y
  BY Least
<1>2. x # 0
  OBVIOUS
<1>3. x - 1 \in Nat /\ x - 1 \in S
  BY <1>1, <1>2
<1>. QED  BY <1>3, <1>1

(* When no check of a sequence fails, none of them holds an error. *)
LEMMA NoneFailed ==
    ASSUME NEW n \in Nat, NEW checks, DOMAIN checks = 1..n, First(checks) = {}
    PROVE  \A i \in 1..n : checks[i] = {}
<1>. DEFINE failed == {i \in DOMAIN checks : checks[i] # {}}
<1>. SUFFICES ASSUME failed # {}  PROVE FALSE
  OBVIOUS
<1>1. failed \in SUBSET Nat
  OBVIOUS
<1>2. \E x \in failed : \A y \in failed : x <= y
  BY <1>1, Least
<1>3. Min(failed) \in failed
  BY <1>2 DEF Min
<1>4. First(checks) = checks[Min(failed)]
  BY DEF First
<1>. QED  BY <1>3, <1>4

-----------------------------------------------------------------------------
(* Types.                                                                  *)
LEMMA TypeFacts ==
    ASSUME NEW t \in Types
    PROVE  /\ Depth(t) \in Nat /\ DOMAIN t.marks = 1..Depth(t)
           /\ \A n \in 1..Depth(t) : t.marks[n] \in {"[]", "?"}
           /\ t = [name |-> t.name, marks |-> t.marks] /\ t.name \in Primitives
           /\ t.marks \in Seq({"[]", "?"})
BY DEF Types, Depth

(* What the n innermost marks make is a type, of n marks. *)
LEMMA InnerFacts ==
    ASSUME NEW t \in Types, NEW n \in 0..Depth(t)
    PROVE  /\ Inner(t, n) \in Types /\ Depth(Inner(t, n)) = n /\ Inner(t, n).name = t.name
           /\ \A k \in 1..n : Inner(t, n).marks[k] = t.marks[k]
<1>1. /\ Depth(t) \in Nat /\ t.marks \in Seq({"[]", "?"})
      /\ \A k \in 1..Depth(t) : t.marks[k] \in {"[]", "?"}
  BY TypeFacts
<1>2. 1 \in Int /\ n \in Int /\ n <= Depth(t) /\ \A k \in 1..n : t.marks[k] \in {"[]", "?"}
  BY <1>1
<1>3. /\ SubSeq(t.marks, 1, n) \in Seq({"[]", "?"}) /\ Len(SubSeq(t.marks, 1, n)) = n
      /\ \A k \in 1..n : SubSeq(t.marks, 1, n)[k] = t.marks[k]
  BY <1>1, <1>2, SubSeqProperties
<1>4. t.name \in Primitives
  BY TypeFacts
<1>. QED  BY <1>3, <1>4 DEF Inner, Types, Depth

(* All the marks of a type make the type. *)
LEMMA InnerWhole ==
    ASSUME NEW t \in Types
    PROVE  Inner(t, Depth(t)) = t
<1>1. Depth(t) \in Nat /\ Depth(t) \in 0..Depth(t) /\ t.marks \in Seq({"[]", "?"})
  BY TypeFacts
<1>2. /\ Inner(t, Depth(t)).marks \in Seq({"[]", "?"}) /\ Len(Inner(t, Depth(t)).marks) = Depth(t)
      /\ \A k \in 1..Depth(t) : Inner(t, Depth(t)).marks[k] = t.marks[k]
  BY <1>1, InnerFacts, TypeFacts DEF Depth
<1>3. Inner(t, Depth(t)).marks = t.marks
  BY <1>1, <1>2, SeqEqual DEF Depth
<1>4. t = [name |-> t.name, marks |-> t.marks]
  BY TypeFacts
<1>. QED  BY <1>3, <1>4 DEF Inner

(* The innermost marks of what innermost marks make. *)
LEMMA InnerInner ==
    ASSUME NEW t \in Types, NEW n \in 0..Depth(t), NEW m \in 0..n
    PROVE  Inner(Inner(t, n), m) = Inner(t, m)
<1>. DEFINE u == Inner(t, n)
<1>1. u \in Types /\ Depth(u) = n /\ u.name = t.name /\ \A k \in 1..n : u.marks[k] = t.marks[k]
  BY InnerFacts
<1>. HIDE DEF u
<1>2. Depth(t) \in Nat /\ m \in 0..Depth(t) /\ m \in 0..Depth(u)
  BY <1>1, TypeFacts
<1>3. /\ Inner(u, m) \in Types /\ Depth(Inner(u, m)) = m
      /\ \A k \in 1..m : Inner(u, m).marks[k] = u.marks[k]
  BY <1>1, <1>2, InnerFacts
<1>4. /\ Inner(t, m) \in Types /\ Depth(Inner(t, m)) = m
      /\ \A k \in 1..m : Inner(t, m).marks[k] = t.marks[k]
  BY <1>2, InnerFacts
<1>5. /\ Inner(u, m).marks \in Seq({"[]", "?"}) /\ Len(Inner(u, m).marks) = m
      /\ Inner(t, m).marks \in Seq({"[]", "?"}) /\ Len(Inner(t, m).marks) = m
  BY <1>3, <1>4, TypeFacts DEF Depth
<1>6. \A k \in 1..m : Inner(u, m).marks[k] = Inner(t, m).marks[k]
  BY <1>1, <1>3, <1>4
<1>7. Inner(u, m).marks = Inner(t, m).marks
  BY <1>5, <1>6, SeqEqual
<1>. QED  BY <1>1, <1>7 DEF Inner, u

(* Nullable puts one mark on a type that is not nullable. *)
LEMMA NullableFacts ==
    ASSUME NEW t \in Types, ~IsNullable(t)
    PROVE  /\ Nullable(t) \in Types /\ Depth(Nullable(t)) = Depth(t) + 1
           /\ Nullable(t).marks[Depth(t) + 1] = "?" /\ Inner(Nullable(t), Depth(t)) = t
<1>. DEFINE d == Depth(t)
            u == Nullable(t)
<1>1. d \in Nat /\ t.marks \in Seq({"[]", "?"}) /\ Len(t.marks) = d /\ t.name \in Primitives
  BY TypeFacts DEF Depth
<1>2. u = [name |-> t.name, marks |-> Append(t.marks, "?")]
  BY DEF Nullable, Marked
<1>3. /\ u.marks \in Seq({"[]", "?"}) /\ Len(u.marks) = d + 1 /\ u.marks[d + 1] = "?"
      /\ \A k \in 1..d : u.marks[k] = t.marks[k]
  BY <1>1, <1>2, AppendProperties
<1>4. u \in Types /\ Depth(u) = d + 1
  BY <1>1, <1>2, <1>3 DEF Types, Depth
<1>. HIDE DEF u, d
<1>5. d \in 0..Depth(u)
  BY <1>1, <1>4
<1>6. Inner(u, d) \in Types /\ Depth(Inner(u, d)) = d /\ \A k \in 1..d : Inner(u, d).marks[k] = u.marks[k]
  BY <1>4, <1>5, InnerFacts
<1>7. Inner(u, d).marks \in Seq({"[]", "?"}) /\ Len(Inner(u, d).marks) = d
  BY <1>6, TypeFacts DEF Depth
<1>8. \A k \in 1..d : Inner(u, d).marks[k] = t.marks[k]
  BY <1>3, <1>6
<1>9. Inner(u, d).marks = t.marks
  BY <1>1, <1>7, <1>8, SeqEqual
<1>10. t = [name |-> t.name, marks |-> t.marks]
  BY TypeFacts
<1>11. Inner(u, d) = t
  BY <1>2, <1>9, <1>10 DEF Inner
<1>. QED  BY <1>3, <1>4, <1>11 DEF u, d

-----------------------------------------------------------------------------
(* Values.  A recursive function is what its definition says: there is a   *)
(* function that satisfies it, for every bound of its domain.              *)
LEMMA LevelsDef ==
    ASSUME NEW v, NEW n \in Nat
    PROVE  Levels(v, n) =
              [k \in 0..n |->
                  IF k = 0 THEN {v}
                  ELSE Levels(v, n)[k - 1] \cup UNION {Items(e) : e \in Levels(v, n)[k - 1]}]
<1>. DEFINE Body(g, k) == IF k = 0 THEN {v} ELSE g[k - 1] \cup UNION {Items(e) : e \in g[k - 1]}
            S == {m \in Nat : \E g : g = [k \in 0..m |-> Body(g, k)]}
<1>1. 0 \in S
  <2>. DEFINE g == [k \in 0..0 |-> {v}]
  <2>1. g = [k \in 0..0 |-> Body(g, k)]
    OBVIOUS
  <2>. QED  BY <2>1
<1>2. ASSUME NEW m \in S  PROVE m + 1 \in S
  <2>1. PICK g : g = [k \in 0..m |-> Body(g, k)]
    OBVIOUS
  <2>. DEFINE h == [k \in 0..(m + 1) |-> IF k <= m THEN g[k] ELSE Body(g, m + 1)]
  <2>2. \A k \in 0..m : h[k] = g[k]
    OBVIOUS
  <2>3. \A k \in 0..(m + 1) : h[k] = Body(h, k)
    <3>. SUFFICES ASSUME NEW k \in 0..(m + 1)  PROVE h[k] = Body(h, k)
      OBVIOUS
    <3>1. k # 0 => k - 1 \in 0..m /\ h[k - 1] = g[k - 1]
      BY <2>2
    <3>2. h[k] = Body(g, k)
      <4>1. CASE k <= m
        <5>1. k \in 0..m /\ h[k] = g[k]
          BY <4>1, <2>2
        <5>2. g[k] = [i \in 0..m |-> Body(g, i)][k]
          BY <2>1
        <5>. QED  BY <5>1, <5>2
      <4>2. CASE k = m + 1
        BY <4>2
      <4>. QED  BY <4>1, <4>2
    <3>. QED  BY <3>1, <3>2
  <2>4. h = [k \in 0..(m + 1) |-> h[k]]
    OBVIOUS
  <2>. HIDE DEF h
  <2>5. h = [k \in 0..(m + 1) |-> Body(h, k)]
    BY <2>3, <2>4
  <2>. QED  BY <2>5
<1>3. S = Nat
  BY <1>1, <1>2, Induct
<1>4. PICK g : g = [k \in 0..n |-> Body(g, k)]
  BY <1>3
<1>5. Levels(v, n) = CHOOSE h1 : h1 = [k \in 0..n |-> Body(h1, k)]
  BY DEF Levels
<1>. QED  BY <1>4, <1>5

(* The levels of a value, one after the other. *)
LEMMA LevelsStep ==
    ASSUME NEW v, NEW n \in Nat
    PROVE  /\ Levels(v, n)[0] = {v}
           /\ \A k \in 1..n : /\ k - 1 \in 0..n
                              /\ Levels(v, n)[k] =
                                    Levels(v, n)[k - 1] \cup UNION {Items(e) : e \in Levels(v, n)[k - 1]}
<1>. DEFINE F == Levels(v, n)
<1>1. F = [k \in 0..n |-> IF k = 0 THEN {v} ELSE F[k - 1] \cup UNION {Items(e) : e \in F[k - 1]}]
  BY LevelsDef
<1>2. 0 \in 0..n /\ \A k \in 1..n : k \in 0..n /\ k # 0 /\ k - 1 \in 0..n
  OBVIOUS
<1>. HIDE DEF F
<1>3. F[0] = {v}
  BY <1>1, <1>2
<1>4. ASSUME NEW k \in 1..n
      PROVE  F[k] = F[k - 1] \cup UNION {Items(e) : e \in F[k - 1]}
  BY <1>1, <1>2
<1>. QED  BY <1>2, <1>3, <1>4 DEF F

(* A level does not depend on how far down the function goes. *)
LEMMA LevelsShort ==
    ASSUME NEW v, NEW k \in Nat
    PROVE  \A n \in Nat : k <= n => Levels(v, n)[k] = Parts(v, k)
<1>. DEFINE S == {j \in Nat : \A n, m \in Nat : j <= n /\ j <= m => Levels(v, n)[j] = Levels(v, m)[j]}
<1>1. 0 \in S
  BY LevelsStep
<1>2. ASSUME NEW j \in S  PROVE j + 1 \in S
  <2>. SUFFICES ASSUME NEW n \in Nat, NEW m \in Nat, j + 1 <= n, j + 1 <= m
                PROVE  Levels(v, n)[j + 1] = Levels(v, m)[j + 1]
    OBVIOUS
  <2>1. j <= n /\ j <= m /\ j + 1 \in 1..n /\ j + 1 \in 1..m /\ (j + 1) - 1 = j
    OBVIOUS
  <2>2. Levels(v, n)[j] = Levels(v, m)[j]
    BY <2>1
  <2>3. Levels(v, n)[j + 1] = Levels(v, n)[j] \cup UNION {Items(e) : e \in Levels(v, n)[j]}
    BY <2>1, LevelsStep
  <2>4. Levels(v, m)[j + 1] = Levels(v, m)[j] \cup UNION {Items(e) : e \in Levels(v, m)[j]}
    BY <2>1, LevelsStep
  <2>. QED  BY <2>2, <2>3, <2>4
<1>3. S = Nat
  BY <1>1, <1>2, Induct
<1>. QED  BY <1>3 DEF Parts

(* The parts of a value, one level further down. *)
LEMMA PartsStep ==
    ASSUME NEW v, NEW n \in Nat
    PROVE  /\ Parts(v, 0) = {v}
           /\ Parts(v, n + 1) = Parts(v, n) \cup UNION {Items(e) : e \in Parts(v, n)}
<1>1. Parts(v, 0) = {v}
  BY LevelsStep DEF Parts
<1>2. n + 1 \in Nat /\ n + 1 \in 1..(n + 1) /\ (n + 1) - 1 = n /\ n <= n + 1
  OBVIOUS
<1>3. Levels(v, n + 1)[n + 1] =
         Levels(v, n + 1)[n] \cup UNION {Items(e) : e \in Levels(v, n + 1)[n]}
  BY <1>2, LevelsStep
<1>4. Levels(v, n + 1)[n] = Parts(v, n)
  BY <1>2, LevelsShort
<1>. QED  BY <1>1, <1>3, <1>4 DEF Parts

(* A value is a part of itself, and what is a part stays one further down. *)
LEMMA PartsGrow ==
    ASSUME NEW v, NEW n \in Nat
    PROVE  v \in Parts(v, n) /\ \A m \in 0..n : Parts(v, m) \subseteq Parts(v, n)
<1>. DEFINE S == {k \in Nat : \A m \in 0..k : Parts(v, m) \subseteq Parts(v, k)}
<1>1. 0 \in S
  OBVIOUS
<1>2. ASSUME NEW k \in S  PROVE k + 1 \in S
  <2>. SUFFICES ASSUME NEW m \in 0..(k + 1)  PROVE Parts(v, m) \subseteq Parts(v, k + 1)
    OBVIOUS
  <2>1. Parts(v, k) \subseteq Parts(v, k + 1)
    BY PartsStep
  <2>2. m = k + 1 \/ m \in 0..k
    OBVIOUS
  <2>. QED  BY <2>1, <2>2
<1>3. S = Nat
  BY <1>1, <1>2, Induct
<1>4. Parts(v, 0) \subseteq Parts(v, n)
  BY <1>3
<1>. QED  BY <1>3, <1>4, PartsStep

-----------------------------------------------------------------------------
(* What matches a type, mark by mark.                                      *)
LEMMA MatchingDef ==
    ASSUME NEW v, NEW t, Depth(t) \in Nat
    PROVE  Matching(v, t) =
              [n \in 0..Depth(t) |->
                  {e \in Parts(v, Depth(t)) :
                      IF n = 0 THEN MatchesPrimitive(e, t.name)
                      ELSE IF t.marks[n] = "?" THEN e = Nil \/ e \in Matching(v, t)[n - 1]
                      ELSE IsArrayValue(e) /\ Items(e) \subseteq Matching(v, t)[n - 1]}]
<1>. DEFINE d == Depth(t)
            Body(g, n) == {e \in Parts(v, d) :
                              IF n = 0 THEN MatchesPrimitive(e, t.name)
                              ELSE IF t.marks[n] = "?" THEN e = Nil \/ e \in g[n - 1]
                              ELSE IsArrayValue(e) /\ Items(e) \subseteq g[n - 1]}
            S == {m \in Nat : \E g : g = [n \in 0..m |-> Body(g, n)]}
<1>1. 0 \in S
  <2>. DEFINE g == [n \in 0..0 |-> {e \in Parts(v, d) : MatchesPrimitive(e, t.name)}]
  <2>1. g = [n \in 0..0 |-> Body(g, n)]
    OBVIOUS
  <2>. QED  BY <2>1
<1>2. ASSUME NEW m \in S  PROVE m + 1 \in S
  <2>1. PICK g : g = [n \in 0..m |-> Body(g, n)]
    OBVIOUS
  <2>. DEFINE h == [n \in 0..(m + 1) |-> IF n <= m THEN g[n] ELSE Body(g, m + 1)]
  <2>2. \A n \in 0..m : h[n] = g[n]
    OBVIOUS
  <2>6. \A n \in 0..m : g[n] = Body(g, n)
    BY <2>1
  <2>7. h[m + 1] = Body(g, m + 1)
    OBVIOUS
  <2>3. \A n \in 0..(m + 1) : h[n] = Body(h, n)
    <3>. HIDE DEF h
    <3>. SUFFICES ASSUME NEW n \in 0..(m + 1)  PROVE h[n] = Body(h, n)
      OBVIOUS
    <3>1. n # 0 => n - 1 \in 0..m /\ h[n - 1] = g[n - 1]
      BY <2>2
    <3>2. h[n] = Body(g, n)
      <4>1. CASE n <= m
        BY <4>1, <2>2, <2>6
      <4>2. CASE n = m + 1
        BY <4>2, <2>7
      <4>. QED  BY <4>1, <4>2
    <3>. QED  BY <3>1, <3>2
  <2>4. h = [n \in 0..(m + 1) |-> h[n]]
    OBVIOUS
  <2>. HIDE DEF h, Body
  <2>5. \E x : x = [n \in 0..(m + 1) |-> Body(x, n)]
    BY <2>3, <2>4
  <2>. QED  BY <2>5
<1>3. S = Nat
  BY <1>1, <1>2, Induct
<1>4. PICK g : g = [n \in 0..d |-> Body(g, n)]
  BY <1>3
<1>5. Matching(v, t) = CHOOSE h1 : h1 = [n \in 0..d |-> Body(h1, n)]
  BY DEF Matching
<1>. QED  BY <1>4, <1>5

(* What the n innermost marks match, from what n - 1 match. *)
LEMMA MatchingStep ==
    ASSUME NEW v, NEW t \in Types, NEW e \in Parts(v, Depth(t))
    PROVE  /\ e \in Matching(v, t)[0] <=> MatchesPrimitive(e, t.name)
           /\ \A n \in 1..Depth(t) :
                 e \in Matching(v, t)[n] <=>
                    IF t.marks[n] = "?" THEN e = Nil \/ e \in Matching(v, t)[n - 1]
                    ELSE IsArrayValue(e) /\ Items(e) \subseteq Matching(v, t)[n - 1]
<1>. DEFINE M == Matching(v, t)
            d == Depth(t)
<1>1. d \in Nat
  BY TypeFacts
<1>2. M = [n \in 0..d |->
              {x \in Parts(v, d) :
                  IF n = 0 THEN MatchesPrimitive(x, t.name)
                  ELSE IF t.marks[n] = "?" THEN x = Nil \/ x \in M[n - 1]
                  ELSE IsArrayValue(x) /\ Items(x) \subseteq M[n - 1]}]
  BY <1>1, MatchingDef
<1>3. 0 \in 0..d /\ \A n \in 1..d : n \in 0..d /\ n # 0
  BY <1>1
<1>. HIDE DEF M, d
<1>4. e \in Parts(v, d)
  BY DEF d
<1>5. e \in M[0] <=> MatchesPrimitive(e, t.name)
  BY <1>2, <1>3, <1>4
<1>6. ASSUME NEW n \in 1..d
      PROVE  e \in M[n] <=> IF t.marks[n] = "?" THEN e = Nil \/ e \in M[n - 1]
                            ELSE IsArrayValue(e) /\ Items(e) \subseteq M[n - 1]
  BY <1>2, <1>3, <1>4
<1>. QED  BY <1>5, <1>6 DEF M, d

(* A part and its items are parts one level further down. *)
LEMMA PartsNear ==
    ASSUME NEW v, NEW n \in Nat, NEW m \in Nat, m = n + 1, NEW e \in Parts(v, n)
    PROVE  e \in Parts(v, m) /\ Items(e) \subseteq Parts(v, m)
<1>1. Parts(v, n + 1) = Parts(v, n) \cup UNION {Items(x) : x \in Parts(v, n)}
  BY PartsStep
<1>. QED  BY <1>1

(* What a part of a value matches does not depend on the value it is of. *)
LEMMA MatchingLocal ==
    ASSUME NEW v, NEW t \in Types, NEW n \in 0..Depth(t), NEW e \in Parts(v, Depth(t) - n)
    PROVE  e \in Matching(v, t)[n] <=> MatchesRuntimeType(e, Inner(t, n))
<1>. DEFINE C(k) == \A w : \A u \in Types : k <= Depth(u) =>
                       \A x \in Parts(w, Depth(u) - k) :
                          x \in Matching(w, u)[k] <=> MatchesRuntimeType(x, Inner(u, k))
            S == {k \in Nat : C(k)}
<1>1. C(0)
  <2>. SUFFICES ASSUME NEW w, NEW u \in Types, NEW x \in Parts(w, Depth(u) - 0)
                PROVE  x \in Matching(w, u)[0] <=> MatchesRuntimeType(x, Inner(u, 0))
    OBVIOUS
  <2>1. Depth(u) \in Nat /\ 0 \in 0..Depth(u) /\ Depth(u) - 0 = Depth(u)
    BY TypeFacts
  <2>2. Inner(u, 0) \in Types /\ Depth(Inner(u, 0)) = 0 /\ Inner(u, 0).name = u.name
    BY <2>1, InnerFacts
  <2>3. x \in Parts(x, 0) /\ x \in Parts(w, Depth(u))
    BY <2>1, PartsGrow
  <2>4. x \in Matching(w, u)[0] <=> MatchesPrimitive(x, u.name)
    BY <2>3, MatchingStep
  <2>5. x \in Matching(x, Inner(u, 0))[0] <=> MatchesPrimitive(x, u.name)
    BY <2>2, <2>3, MatchingStep
  <2>. QED  BY <2>2, <2>4, <2>5 DEF MatchesRuntimeType
<1>2. ASSUME NEW k \in Nat, C(k)  PROVE C(k + 1)
  <2>. SUFFICES ASSUME NEW w, NEW u \in Types, k + 1 <= Depth(u), NEW x \in Parts(w, Depth(u) - (k + 1))
                PROVE  x \in Matching(w, u)[k + 1] <=> MatchesRuntimeType(x, Inner(u, k + 1))
    OBVIOUS
  <2>. DEFINE d == Depth(u)
              y == Inner(u, k + 1)
  <2>0. d \in Nat /\ k \in Nat /\ k + 1 <= d
    BY TypeFacts
  <2>. HIDE DEF d
  <2>1. /\ k + 1 \in 0..d /\ k + 1 \in 1..d /\ k \in 0..(k + 1) /\ k <= d /\ d - (k + 1) \in 0..d
        /\ d - k = (d - (k + 1)) + 1 /\ (k + 1) - k = 0 + 1 /\ (k + 1) - 1 = k /\ k <= k + 1
        /\ k + 1 \in 1..(k + 1) /\ d - (k + 1) \in Nat /\ d - k \in Nat /\ 0 \in Nat /\ 1 \in Nat
        /\ k + 1 \in Nat
    BY ONLY <2>0
  <2>2. y \in Types /\ Depth(y) = k + 1 /\ y.marks[k + 1] = u.marks[k + 1] /\ Inner(y, k) = Inner(u, k)
    BY <2>1, InnerFacts, InnerInner DEF d
  <2>3. x \in Parts(w, d - (k + 1))
    BY DEF d
  <2>4. x \in Parts(w, d - k) /\ Items(x) \subseteq Parts(w, d - k)
    BY <2>1, <2>3, PartsNear
  <2>5. x \in Parts(x, 0) /\ x \in Parts(w, d) /\ x \in Parts(x, k + 1)
    BY <2>0, <2>1, <2>3, PartsGrow
  <2>6. x \in Parts(x, (k + 1) - k) /\ Items(x) \subseteq Parts(x, (k + 1) - k)
    BY <2>1, <2>5, PartsNear
  <2>. HIDE DEF y
  <2>7. x \in Matching(w, u)[k + 1] <=>
           IF u.marks[k + 1] = "?" THEN x = Nil \/ x \in Matching(w, u)[k]
           ELSE IsArrayValue(x) /\ Items(x) \subseteq Matching(w, u)[k]
    BY <2>1, <2>5, MatchingStep DEF d
  <2>8. x \in Matching(x, y)[k + 1] <=>
           IF u.marks[k + 1] = "?" THEN x = Nil \/ x \in Matching(x, y)[k]
           ELSE IsArrayValue(x) /\ Items(x) \subseteq Matching(x, y)[k]
    BY <2>1, <2>2, <2>5, MatchingStep
  <2>9. \A z \in {x} \cup Items(x) : z \in Matching(w, u)[k] <=> MatchesRuntimeType(z, Inner(u, k))
    BY <1>2, <2>1, <2>4 DEF d
  <2>10. \A z \in {x} \cup Items(x) : z \in Matching(x, y)[k] <=> MatchesRuntimeType(z, Inner(u, k))
    BY <1>2, <2>1, <2>2, <2>6
  <2>11. MatchesRuntimeType(x, y) <=> x \in Matching(x, y)[k + 1]
    BY <2>2 DEF MatchesRuntimeType
  <2>. QED  BY <2>7, <2>8, <2>9, <2>10, <2>11 DEF y
<1>. HIDE DEF C
<1>6. 0 \in S /\ \A k \in S : k + 1 \in S
  BY <1>1, <1>2
<1>3. S = Nat
  BY <1>6, Induct
<1>4. n \in Nat /\ n <= Depth(t)
  BY TypeFacts
<1>5. C(n)
  BY <1>3, <1>4
<1>. QED  BY <1>4, <1>5 DEF C

(* What matches a type: a primitive, a nullable and an array. *)
THEOREM MatchUnfold ==
    ASSUME NEW v, NEW t \in Types
    PROVE  /\ Depth(t) = 0 => (MatchesRuntimeType(v, t) <=> MatchesPrimitive(v, t.name))
           /\ IsNullable(t) => (MatchesRuntimeType(v, t) <=> v = Nil \/ MatchesRuntimeType(v, Of(t)))
           /\ IsArray(t) => (MatchesRuntimeType(v, t) <=>
                                /\ IsArrayValue(v)
                                /\ \A e \in Items(v) : MatchesRuntimeType(e, Of(t)))
<1>. DEFINE d == Depth(t)
<1>1. d \in Nat /\ DOMAIN t.marks = 1..d
  BY TypeFacts
<1>2. v \in Parts(v, d)
  BY <1>1, PartsGrow
<1>3. MatchesRuntimeType(v, t) <=> v \in Matching(v, t)[d]
  BY DEF MatchesRuntimeType
<1>4. d = 0 => (MatchesRuntimeType(v, t) <=> MatchesPrimitive(v, t.name))
  BY <1>2, <1>3, MatchingStep
<1>5. ASSUME d # 0
      PROVE  /\ MatchesRuntimeType(v, t) <=>
                   IF t.marks[d] = "?" THEN v = Nil \/ v \in Matching(v, t)[d - 1]
                   ELSE IsArrayValue(v) /\ Items(v) \subseteq Matching(v, t)[d - 1]
             /\ \A e \in {v} \cup Items(v) :
                   e \in Matching(v, t)[d - 1] <=> MatchesRuntimeType(e, Of(t))
  <2>1. d \in 1..d /\ d - 1 \in 0..d /\ d - (d - 1) = 0 + 1
    BY <1>1, <1>5
  <2>2. v \in Parts(v, d - (d - 1)) /\ Items(v) \subseteq Parts(v, d - (d - 1))
    <3>1. v \in Parts(v, 0) /\ 0 \in Nat /\ 0 + 1 \in Nat
      BY PartsGrow
    <3>. QED  BY <2>1, <3>1, PartsNear
  <2>3. \A e \in {v} \cup Items(v) :
           e \in Matching(v, t)[d - 1] <=> MatchesRuntimeType(e, Inner(t, d - 1))
    BY <2>1, <2>2, MatchingLocal
  <2>. QED  BY <1>2, <1>3, <2>1, <2>3, MatchingStep DEF Of
<1>6. (IsNullable(t) => d # 0 /\ t.marks[d] = "?") /\ (IsArray(t) => d # 0 /\ t.marks[d] # "?")
  <2>1. t.marks \in Seq({"[]", "?"})
    BY TypeFacts
  <2>2. t.marks # <<>> => d # 0
    BY <2>1 DEF Depth
  <2>. QED  BY <2>2 DEF IsNullable, IsArray
<1>7. IsNullable(t) => (MatchesRuntimeType(v, t) <=> v = Nil \/ MatchesRuntimeType(v, Of(t)))
  BY <1>5, <1>6
<1>8. IsArray(t) => (MatchesRuntimeType(v, t) <=>
                        IsArrayValue(v) /\ \A e \in Items(v) : MatchesRuntimeType(e, Of(t)))
  BY <1>5, <1>6
<1>. QED  BY <1>4, <1>7, <1>8

(* What matches a type matches its nullable. *)
LEMMA MatchesNullable ==
    ASSUME NEW v, NEW t \in Types, MatchesRuntimeType(v, t)
    PROVE  Nullable(t) \in Types /\ MatchesRuntimeType(v, Nullable(t))
<1>1. CASE IsNullable(t)
  BY <1>1 DEF Nullable
<1>2. CASE ~IsNullable(t)
  <2>1. /\ Nullable(t) \in Types /\ Depth(Nullable(t)) = Depth(t) + 1
        /\ Nullable(t).marks[Depth(t) + 1] = "?" /\ Inner(Nullable(t), Depth(t)) = t
    BY <1>2, NullableFacts
  <2>2. Depth(t) \in Nat /\ Nullable(t).marks \in Seq({"[]", "?"})
    BY <2>1, TypeFacts
  <2>3. Nullable(t).marks # <<>>
    BY <2>1, <2>2 DEF Depth
  <2>4. IsNullable(Nullable(t)) /\ Of(Nullable(t)) = t
    BY <2>1, <2>2, <2>3 DEF IsNullable, Of
  <2>. QED  BY <2>1, <2>4, MatchUnfold
<1>. QED  BY <1>1, <1>2

(* Nothing matches every nullable type. *)
LEMMA NilMatches ==
    ASSUME NEW t \in Types, IsNullable(t)
    PROVE  MatchesRuntimeType(Nil, t)
BY MatchUnfold

-----------------------------------------------------------------------------
(* What a value is normalized to.                                          *)
LEMMA NormalizedDef ==
    ASSUME NEW v, NEW t, Depth(t) \in Nat
    PROVE  Normalized(v, t) =
              [n \in 0..Depth(t) |->
                  [e \in Parts(v, Depth(t)) |->
                      IF ~IsJSONCompatible(e) THEN <<>>
                      ELSE IF n = 0 THEN NormalizePrimitive(e, t.name)
                      ELSE Under(t.marks[n], e, Normalized(v, t)[n - 1])]]
<1>. DEFINE d == Depth(t)
            One(below, n, e) ==
                IF ~IsJSONCompatible(e) THEN <<>>
                ELSE IF n = 0 THEN NormalizePrimitive(e, t.name)
                ELSE Under(t.marks[n], e, below)
            Body(g, n) == [e \in Parts(v, d) |-> One(g[n - 1], n, e)]
            S == {m \in Nat : \E g : g = [n \in 0..m |-> Body(g, n)]}
<1>1. 0 \in S
  <2>. DEFINE g == [n \in 0..0 |-> [e \in Parts(v, d) |-> One(0, 0, e)]]
  <2>1. g = [n \in 0..0 |-> Body(g, n)]
    OBVIOUS
  <2>. HIDE DEF g, Body
  <2>2. \E x : x = [n \in 0..0 |-> Body(x, n)]
    BY <2>1
  <2>. QED  BY <2>2
<1>2. ASSUME NEW m \in S  PROVE m + 1 \in S
  <2>. HIDE DEF One
  <2>1. PICK g : g = [n \in 0..m |-> Body(g, n)]
    OBVIOUS
  <2>. DEFINE h == [n \in 0..(m + 1) |-> IF n <= m THEN g[n] ELSE Body(g, m + 1)]
  <2>2. \A n \in 0..m : h[n] = g[n]
    OBVIOUS
  <2>6. \A n \in 0..m : g[n] = Body(g, n)
    BY <2>1
  <2>7. h[m + 1] = Body(g, m + 1)
    OBVIOUS
  <2>8. \A n : Body(g, 0) = [e \in Parts(v, d) |-> One(n, 0, e)]
    BY DEF One
  <2>9. \A n : Body(h, 0) = [e \in Parts(v, d) |-> One(n, 0, e)]
    BY DEF One
  <2>3. \A n \in 0..(m + 1) : h[n] = Body(h, n)
    <3>. HIDE DEF h
    <3>. SUFFICES ASSUME NEW n \in 0..(m + 1)  PROVE h[n] = Body(h, n)
      OBVIOUS
    <3>1. n # 0 => n - 1 \in 0..m /\ h[n - 1] = g[n - 1]
      BY <2>2
    <3>2. h[n] = Body(g, n)
      <4>1. CASE n <= m
        BY <4>1, <2>2, <2>6
      <4>2. CASE n = m + 1
        BY <4>2, <2>7
      <4>. QED  BY <4>1, <4>2
    <3>3. n # 0 => Body(g, n) = Body(h, n)
      BY <3>1
    <3>4. n = 0 => Body(g, n) = Body(h, n)
      BY <2>8, <2>9
    <3>. QED  BY <3>2, <3>3, <3>4
  <2>4. h = [n \in 0..(m + 1) |-> h[n]]
    OBVIOUS
  <2>. HIDE DEF h, Body
  <2>5. \E x : x = [n \in 0..(m + 1) |-> Body(x, n)]
    BY <2>3, <2>4
  <2>. QED  BY <2>5
<1>3. S = Nat
  <2>. HIDE DEF S
  <2>1. S \in SUBSET Nat
    BY DEF S
  <2>. QED  BY <1>1, <1>2, <2>1, Induct
<1>4. PICK g : g = [n \in 0..d |-> Body(g, n)]
  BY <1>3
<1>5. Normalized(v, t) = CHOOSE h1 : h1 = [n \in 0..d |-> Body(h1, n)]
  BY DEF Normalized
<1>6. Normalized(v, t) = [n \in 0..d |-> Body(Normalized(v, t), n)]
  <2>. HIDE DEF Body
  <2>. QED  BY <1>4, <1>5
<1>. QED  BY <1>6

(* What a part becomes under n marks, from what it becomes under n - 1. *)
LEMMA NormalizedStep ==
    ASSUME NEW v, NEW t \in Types, NEW e \in Parts(v, Depth(t))
    PROVE  /\ Normalized(v, t)[0][e] =
                 IF ~IsJSONCompatible(e) THEN <<>> ELSE NormalizePrimitive(e, t.name)
           /\ \A n \in 1..Depth(t) :
                 Normalized(v, t)[n][e] =
                    IF ~IsJSONCompatible(e) THEN <<>>
                    ELSE Under(t.marks[n], e, Normalized(v, t)[n - 1])
<1>. DEFINE M == Normalized(v, t)
            d == Depth(t)
<1>1. d \in Nat
  BY TypeFacts
<1>2. M = [n \in 0..d |->
              [x \in Parts(v, d) |->
                  IF ~IsJSONCompatible(x) THEN <<>>
                  ELSE IF n = 0 THEN NormalizePrimitive(x, t.name)
                  ELSE Under(t.marks[n], x, M[n - 1])]]
  BY <1>1, NormalizedDef
<1>3. 0 \in 0..d /\ \A n \in 1..d : n \in 0..d /\ n # 0
  BY <1>1
<1>. HIDE DEF M, d
<1>4. e \in Parts(v, d)
  BY DEF d
<1>5. M[0][e] = IF ~IsJSONCompatible(e) THEN <<>> ELSE NormalizePrimitive(e, t.name)
  BY <1>2, <1>3, <1>4
<1>6. ASSUME NEW n \in 1..d
      PROVE  M[n][e] = IF ~IsJSONCompatible(e) THEN <<>> ELSE Under(t.marks[n], e, M[n - 1])
  BY <1>2, <1>3, <1>4
<1>. QED  BY <1>5, <1>6 DEF M, d

(* What is normalized to a primitive matches the primitive. *)
LEMMA PrimitiveNormal ==
    ASSUME NEW v, NEW name \in Primitives, IsJSONCompatible(v), NormalizePrimitive(v, name) # <<>>
    PROVE  MatchesPrimitive(NormalizePrimitive(v, name)[1], name)
<1>1. CASE name = "unknown"
  BY <1>1 DEF NormalizePrimitive, MatchesPrimitive
<1>2. CASE name \in {"object", "string", "bool"}
  BY <1>2 DEF NormalizePrimitive, MatchesPrimitive, Given
<1>3. CASE name \in Integers
  BY <1>3 DEF NormalizePrimitive, MatchesPrimitive, Given, Integers
<1>4. CASE name \in Floats
  BY <1>4 DEF NormalizePrimitive, MatchesPrimitive, Given, Integers, Floats
<1>. QED  BY <1>1, <1>2, <1>3, <1>4 DEF Primitives

(* What a part of a value becomes matches what the marks so far make. *)
LEMMA NormalizedLocal ==
    ASSUME NEW v, NEW t \in Types, NEW n \in 0..Depth(t), NEW e \in Parts(v, Depth(t) - n),
           Normalized(v, t)[n][e] # <<>>
    PROVE  MatchesRuntimeType(Normalized(v, t)[n][e][1], Inner(t, n))
<1>. DEFINE M == Normalized(v, t)
            d == Depth(t)
            C(k) == k <= d => \A x \in Parts(v, d - k) :
                       M[k][x] # <<>> => MatchesRuntimeType(M[k][x][1], Inner(t, k))
            S == {k \in Nat : C(k)}
<1>0. d \in Nat
  BY TypeFacts
<1>1. C(0)
  <2>. SUFFICES ASSUME NEW x \in Parts(v, d - 0), M[0][x] # <<>>
                PROVE  MatchesRuntimeType(M[0][x][1], Inner(t, 0))
    OBVIOUS
  <2>1. 0 \in 0..d /\ x \in Parts(v, d)
    BY <1>0
  <2>2. Inner(t, 0) \in Types /\ Depth(Inner(t, 0)) = 0 /\ Inner(t, 0).name = t.name
    BY <2>1, InnerFacts
  <2>3. M[0][x] = IF ~IsJSONCompatible(x) THEN <<>> ELSE NormalizePrimitive(x, t.name)
    BY <2>1, NormalizedStep
  <2>4. t.name \in Primitives
    BY TypeFacts
  <2>5. IsJSONCompatible(x) /\ M[0][x] = NormalizePrimitive(x, t.name)
    BY <2>3
  <2>6. MatchesPrimitive(M[0][x][1], t.name)
    BY <2>4, <2>5, PrimitiveNormal
  <2>. QED  BY <2>2, <2>6, MatchUnfold
<1>2. ASSUME NEW k \in Nat, C(k)  PROVE C(k + 1)
  <2>. SUFFICES ASSUME k + 1 <= d, NEW x \in Parts(v, d - (k + 1)), M[k + 1][x] # <<>>
                PROVE  MatchesRuntimeType(M[k + 1][x][1], Inner(t, k + 1))
    OBVIOUS
  <2>. DEFINE y == Inner(t, k + 1)
              items == {M[k][i] : i \in Items(x)}
              w == M[k + 1][x][1]
  <2>. HIDE DEF d, M
  <2>1. /\ k + 1 \in 0..d /\ k + 1 \in 1..d /\ k \in 0..(k + 1) /\ k <= d /\ d - (k + 1) \in 0..d
        /\ d - k = (d - (k + 1)) + 1 /\ (k + 1) - 1 = k /\ k + 1 \in 1..(k + 1)
        /\ d - (k + 1) \in Nat /\ d - k \in Nat
    BY <1>0, k + 1 <= d
  <2>2. /\ y \in Types /\ Depth(y) = k + 1 /\ y.marks[k + 1] = t.marks[k + 1]
        /\ Inner(y, k) = Inner(t, k) /\ t.marks[k + 1] \in {"[]", "?"}
    BY <2>1, InnerFacts, InnerInner, TypeFacts DEF d
  <2>3. x \in Parts(v, d - k) /\ Items(x) \subseteq Parts(v, d - k)
    BY <2>1, PartsNear
  <2>4. x \in Parts(v, d)
    BY <1>0, <2>1, PartsGrow
  <2>5. M[k + 1][x] = IF ~IsJSONCompatible(x) THEN <<>> ELSE Under(t.marks[k + 1], x, M[k])
    BY <2>1, <2>4, NormalizedStep DEF M, d
  <2>6. \A z \in {x} \cup Items(x) : M[k][z] # <<>> => MatchesRuntimeType(M[k][z][1], Inner(t, k))
    BY <1>2, <2>1, <2>3
  <2>7. y.marks # <<>> /\ Of(y) = Inner(t, k)
    <3>1. y.marks \in Seq({"[]", "?"}) /\ Len(y.marks) = k + 1
      BY <2>2, TypeFacts DEF Depth
    <3>. QED  BY <2>1, <2>2, <3>1 DEF Of
  <2>. HIDE DEF y
  <2>8. CASE t.marks[k + 1] = "?"
    <3>1. IsNullable(y)
      BY <2>2, <2>7, <2>8 DEF IsNullable
    <3>2. MatchesRuntimeType(w, y) <=> w = Nil \/ MatchesRuntimeType(w, Inner(t, k))
      BY <2>2, <2>7, <3>1, MatchUnfold
    <3>. QED  BY <2>5, <2>6, <2>8, <3>2 DEF y, Under
  <2>9. CASE t.marks[k + 1] = "[]"
    <3>1. IsArray(y)
      BY <2>2, <2>7, <2>9 DEF IsArray
    <3>2. <<>> \notin items /\ w = <<"list", {r[1] : r \in items}>>
      BY <2>5, <2>9 DEF Under, Given
    <3>3. IsArrayValue(w) /\ Items(w) = {r[1] : r \in items}
      BY <3>2 DEF IsArrayValue, Items, IsList
    <3>4. \A i \in Items(x) : MatchesRuntimeType(M[k][i][1], Inner(t, k))
      BY <2>6, <3>2
    <3>5. \A z \in Items(w) : MatchesRuntimeType(z, Of(y))
      BY <2>7, <3>3, <3>4
    <3>. QED  BY <2>2, <3>1, <3>3, <3>5, MatchUnfold DEF y
  <2>. QED  BY <2>2, <2>8, <2>9
<1>. HIDE DEF C
<1>3. 0 \in S /\ \A k \in S : k + 1 \in S
  BY <1>1, <1>2
<1>4. S = Nat
  BY <1>3, Induct
<1>5. n \in Nat /\ n <= d
  BY <1>0
<1>6. C(n)
  BY <1>4, <1>5
<1>. QED  BY <1>5, <1>6 DEF C

(* A value that is normalized to a type matches that type. *)
THEOREM NormalizedMatches ==
    ASSUME NEW v, NEW t \in Types, NormalizeJSONResult(v, t) # <<>>
    PROVE  MatchesRuntimeType(NormalizeJSONResult(v, t)[1], t)
<1>1. Depth(t) \in Nat /\ Depth(t) \in 0..Depth(t) /\ Depth(t) - Depth(t) = 0
  BY TypeFacts
<1>2. v \in Parts(v, Depth(t) - Depth(t))
  BY <1>1, PartsGrow
<1>. QED  BY <1>1, <1>2, NormalizedLocal, InnerWhole DEF NormalizeJSONResult

-----------------------------------------------------------------------------
(* What the compiler makes of a field.                                     *)
LEMMA FieldShape ==
    ASSUME NEW p, NEW f \in FieldsOf(Extractor(p).output)
    PROVE  \E n \in Fields(Root(p[Main])) : \E id : f = FieldIR(p, n, id)
<1>. DEFINE root == Root(p[Main])
            output == OutputIR(p, root)
<1>1. Extractor(p).output = output
  BY DEF Extractor
<1>2. PICK at \in DOMAIN output : \E i \in DOMAIN output[at] :
         f = output[at][i] /\ output[at][i].kind = "field"
  BY <1>1 DEF FieldsOf, MembersOf
<1>6. PICK i \in DOMAIN output[at] : f = output[at][i] /\ output[at][i].kind = "field"
  BY <1>2
<1>. DEFINE members == MembersAt(root, at)
            m == members[i]
            id == Append(at, i)
<1>3. /\ at \in Sections(root) /\ i \in DOMAIN members
      /\ output[at][i] = IF m.name = "field" THEN FieldIR(p, m, id) ELSE CollectionIR(m, id)
  BY <1>2, <1>6 DEF OutputIR
<1>4. m.name = "field" /\ f = FieldIR(p, m, id)
  BY <1>6, <1>3 DEF CollectionIR
<1>5. m \in Fields(root)
  BY <1>3, <1>4 DEF Fields, NamedMembers
<1>. QED  BY <1>4, <1>5

(* The effective type of a compiled field is its own or that type's nullable. *)
LEMMA FieldTypes ==
    ASSUME NEW p, NEW f \in FieldsOf(Extractor(p).output)
    PROVE  /\ f.effective \in {f.success, Nullable(f.success)}
           /\ ~f.required /\ f.default = <<>> => f.effective = Nullable(f.success)
<1>1. PICK n, id : f = FieldIR(p, n, id)
  BY FieldShape
<1>2. /\ f.success = FieldType(n) /\ f.effective = EffectiveType(n)
      /\ f.required = IsRequired(n) /\ f.default = DefaultLiteral(n)
  BY <1>1 DEF FieldIR
<1>. QED  BY <1>2 DEF EffectiveType, DefaultLiteral

(* What the executor takes for JavaScript, the compiler has warned of. *)
LEMMA JavaScriptSeen ==
    ASSUME NEW p, IsJavaScript(Extractor(p))
    PROVE  JavaScriptPresent(Root(p[Main]), Extractor(p).source)
<1>1. CASE \E f \in FieldsOf(Extractor(p).output) : ~Reads(f)
  <2>1. PICK f \in FieldsOf(Extractor(p).output) : ~Reads(f)
    BY <1>1
  <2>2. PICK n \in Fields(Root(p[Main])) : \E id : f = FieldIR(p, n, id)
    BY FieldShape
  <2>3. f.source.kind = Kind(n)
    BY <2>2 DEF FieldIR
  <2>4. Kind(n) = "javascript"
    BY <2>1, <2>3 DEF Reads, Kind
  <2>. QED  BY <2>4 DEF JavaScriptPresent
<1>2. CASE ~\E f \in FieldsOf(Extractor(p).output) : ~Reads(f)
  BY <1>2 DEF IsJavaScript, JavaScriptPresent
<1>. QED  BY <1>1, <1>2

-----------------------------------------------------------------------------
(* What a plan without errors says of the extractor it was made for.       *)
LEMMA PlanFacts ==
    ASSUME NEW x, Prepare(x).errors = {}, Prepare(x).binding = {}
    PROVE  /\ StaticErrors(x) = {} /\ OutputErrors(x.output) = {}
           /\ Prepare(x).snapshot = SnapshotErrors(x)
           /\ x.source.mode = "http" \/ SnapshotErrors(x) = {} =>
                 Prepare(x).selectors = SelectorsOf(x.output)
<1>. DEFINE first == StructureErrors(x) \cup SourceErrors(x.source) \cup DeclarationErrors(x)
            fixed == StaticErrors(x) \cup OutputErrors(x.output)
            snapshot == SnapshotErrors(x)
            mode == IF x.source.mode = "http" THEN DOMErrors(x.output)
                    ELSE IF x.source.mode = "browser"
                    THEN (WorkflowErrors(x.source.workflow) \cup SelectorErrors(SelectorsOf(x.output)))
                            \cup When(snapshot = {}, DOMErrors(x.output))
                    ELSE {"E_IR_INVALID"}
            parsed == x.source.mode = "http" \/ snapshot = {}
            binding == Invalid(x.capabilities # Needs(x))
            selectors == IF parsed THEN SelectorsOf(x.output) ELSE {}
<1>1. Prepare(x) =
         IF first # {} THEN [errors |-> first]
         ELSE IF fixed # {}
         THEN [errors |-> {}, snapshot |-> snapshot, binding |-> fixed, selectors |-> {}]
         ELSE [errors |-> mode, snapshot |-> snapshot, binding |-> binding, selectors |-> selectors]
  BY DEF Prepare
<1>. HIDE DEF first, mode, binding, snapshot, selectors
<1>2. first = {}
  BY <1>1
<1>3. fixed = {}
  BY <1>1, <1>2
<1>4. Prepare(x).snapshot = snapshot /\ Prepare(x).selectors = selectors
  BY <1>1, <1>2, <1>3
<1>. QED  BY <1>3, <1>4 DEF snapshot, selectors

(* What it says of a field. *)
Sound(f) ==
    /\ f.success \in Types /\ f.effective \in Types
    /\ f.effective \in {f.success, Nullable(f.success)}
    /\ ~f.required /\ f.default = <<>> => f.effective = Nullable(f.success)
    /\ f.onError \in {"fail", "default"} \/ IsNullable(f.effective)

(* The field of a compiled output that Prepare has nothing against is sound. *)
LEMMA FieldSound ==
    ASSUME NEW p, OutputErrors(Extractor(p).output) = {}, NEW f \in FieldsOf(Extractor(p).output)
    PROVE  Sound(f)
<1>1. FieldErrors(f) = {}
  BY DEF OutputErrors
<1>2. ValidType(f.success) /\ ValidType(f.effective)
  BY <1>1 DEF FieldErrors, Invalid, Flag
<1>3. f.onError \in OnErrors /\ (f.onError \in {"null", "warn"} => IsNullable(f.effective))
  BY <1>1 DEF FieldErrors, Invalid, Flag
<1>. QED  BY <1>2, <1>3, FieldTypes DEF Sound, ValidType, OnErrors

-----------------------------------------------------------------------------
(* The chains of calls that a field may come through.                      *)
Chains(x, f) == {f.calls} \cup {t.calls : t \in Kinded(x.transforms, "pipeline")}

(* Every call of a checked extractor was checked. *)
LEMMA CallsChecked ==
    ASSUME NEW x, StaticErrors(x) = {}, NEW f \in FieldsOf(x.output), NEW calls \in Chains(x, f),
           NEW i \in DOMAIN calls
    PROVE  CallErrors(x, calls[i]) = {}
<1>1. PICK initial, expected : ChainErrors(x, calls, initial, expected) = {}
  <2>1. CASE calls = f.calls
    <3>1. ChainErrors(x, f.calls, f.source.raw, f.success) = {}
      BY DEF StaticErrors
    <3>. QED  BY <2>1, <3>1
  <2>2. CASE calls # f.calls
    <3>1. PICK t \in x.transforms : t.kind = "pipeline" /\ calls = t.calls
      BY <2>2 DEF Chains, Kinded
    <3>2. TransformErrors(x, t) = {}
      BY DEF StaticErrors
    <3>3. ChainErrors(x, t.calls, t.input, t.output) = {}
      BY <3>1, <3>2 DEF TransformErrors
    <3>. QED  BY <3>1, <3>3
  <2>. QED  BY <2>1, <2>2
<1>2. UNION {CallErrors(x, calls[j]) : j \in DOMAIN calls} = {}
  BY <1>1 DEF ChainErrors, UnionOf
<1>. QED  BY <1>2

(* A declared transform that a checked call names is there. *)
LEMMA CallsKnown ==
    ASSUME NEW x, StaticErrors(x) = {}, NEW f \in FieldsOf(x.output), NEW calls \in Chains(x, f),
           NEW i \in DOMAIN calls, calls[i].target.kind = "declared"
    PROVE  \E t \in x.transforms : t.symbol = calls[i].target.symbol
<1>1. CallErrors(x, calls[i]) = {}
  BY CallsChecked
<1>2. DeclaredErrors(x, calls[i]) = {}
  BY <1>1 DEF CallErrors
<1>3. DeclaredIn(x, calls[i].target.symbol) # {}
  BY <1>2 DEF DeclaredErrors, Flag
<1>. QED  BY <1>3 DEF DeclaredIn

-----------------------------------------------------------------------------
(* What becomes of a field that is not read on: the extraction returns,    *)
(* the row it is in is skipped, or a value of its type is delivered.       *)
Settled(f, codes) ==
    \/ phase' = "returned" /\ (\E code \in codes : error' = {code}) /\ chain' = chain
    \/ /\ phase' = phase /\ error' = error
       /\ \/ chain' = Idle
          \/ \E v : chain' = Delivered(f, v) /\ (Sound(f) => MatchesRuntimeType(v, f.effective))

(* A field that is abandoned ends the extraction, or its row. *)
LEMMA AbandonSettles ==
    ASSUME NEW f, NEW code, Abandon(f, code)
    PROVE  Settled(f, {code})
BY DEF Abandon, Settled, Return

(* A field that delivers a value of its type is settled. *)
LEMMA DeliverSettles ==
    ASSUME NEW f, NEW v, NEW codes, Deliver(f, v), Sound(f) => MatchesRuntimeType(v, f.effective)
    PROVE  Settled(f, codes)
BY DEF Deliver, Settled

(* What is of the type that a field wants is of the type that it has. *)
LEMMA SuccessIsEffective ==
    ASSUME NEW f, Sound(f), NEW v, MatchesRuntimeType(v, f.success)
    PROVE  MatchesRuntimeType(v, f.effective)
BY MatchesNullable DEF Sound

(* A default is delivered only as it is normalized to the type of its field. *)
LEMMA DefaultSettles ==
    ASSUME NEW f, DeliverDefault(f)
    PROVE  Settled(f, {"E_IR_INVALID"})
<1>1. CASE FieldDefault(f) = <<>>
  <2>1. Abandon(f, "E_IR_INVALID")
    BY <1>1 DEF DeliverDefault
  <2>. QED  BY <2>1, AbandonSettles
<1>2. CASE FieldDefault(f) # <<>>
  <2>1. Deliver(f, FieldDefault(f)[1])
    BY <1>2 DEF DeliverDefault
  <2>2. ASSUME Sound(f)  PROVE MatchesRuntimeType(FieldDefault(f)[1], f.effective)
    <3>1. f.success \in Types
      BY <2>2 DEF Sound
    <3>2. MatchesRuntimeType(FieldDefault(f)[1], f.success)
      BY <1>2, <3>1, NormalizedMatches DEF FieldDefault
    <3>. QED  BY <2>2, <3>2, SuccessIsEffective
  <2>. QED  BY <2>1, <2>2, DeliverSettles
<1>. QED  BY <1>1, <1>2

(* Nothing settles a field that is nullable. *)
LEMMA NilSettles ==
    ASSUME NEW f, NEW codes, Deliver(f, Nil), Sound(f) => IsNullable(f.effective)
    PROVE  Settled(f, codes)
<1>1. ASSUME Sound(f)  PROVE MatchesRuntimeType(Nil, f.effective)
  <2>1. f.effective \in Types /\ IsNullable(f.effective)
    BY <1>1 DEF Sound
  <2>. QED  BY <2>1, NilMatches
<1>. QED  BY <1>1, DeliverSettles

(* What Nullable makes is nullable. *)
LEMMA NullableIsNullable ==
    ASSUME NEW t, t \in Types
    PROVE  IsNullable(Nullable(t))
<1>1. CASE IsNullable(t)
  BY <1>1 DEF Nullable
<1>2. CASE ~IsNullable(t)
  <2>1. /\ Nullable(t) \in Types /\ Depth(Nullable(t)) = Depth(t) + 1
        /\ Nullable(t).marks[Depth(t) + 1] = "?"
    BY <1>2, NullableFacts
  <2>2. Depth(t) \in Nat /\ Nullable(t).marks \in Seq({"[]", "?"})
    BY <2>1, TypeFacts
  <2>. QED  BY <2>1, <2>2 DEF IsNullable, Depth
<1>. QED  BY <1>1, <1>2

(* Every policy settles a field that failed. *)
LEMMA RecoverSettles ==
    ASSUME NEW f, NEW code, Recover(f, code)
    PROVE  Settled(f, {code, "E_IR_INVALID"})
<1>1. CASE f.onError = "fail"
  <2>1. Settled(f, {code})
    BY <1>1, AbandonSettles DEF Recover
  <2>. QED  BY <2>1 DEF Settled
<1>2. CASE f.onError = "default"
  <2>1. Settled(f, {"E_IR_INVALID"})
    BY <1>2, DefaultSettles DEF Recover
  <2>. QED  BY <2>1 DEF Settled
<1>3. CASE f.onError \notin {"fail", "default"}
  BY <1>3, NilSettles DEF Recover, Sound
<1>. QED  BY <1>1, <1>2, <1>3

(* A field whose element or attribute is missing is settled. *)
LEMMA MissingSettles ==
    ASSUME NEW f, Missing(f)
    PROVE  Settled(f, {"E_REQUIRED_VALUE_MISSING", "E_IR_INVALID"})
<1>1. CASE f.required
  <2>1. Settled(f, {"E_REQUIRED_VALUE_MISSING"})
    BY <1>1, AbandonSettles DEF Missing
  <2>. QED  BY <2>1 DEF Settled
<1>2. CASE ~f.required /\ f.default # <<>>
  <2>1. Settled(f, {"E_IR_INVALID"})
    BY <1>2, DefaultSettles DEF Missing
  <2>. QED  BY <2>1 DEF Settled
<1>3. CASE ~f.required /\ f.default = <<>>
  <2>1. Deliver(f, Nil)
    BY <1>3 DEF Missing
  <2>2. Sound(f) => IsNullable(f.effective)
    BY <1>3, NullableIsNullable DEF Sound
  <2>. QED  BY <2>1, <2>2, NilSettles
<1>. QED  BY <1>1, <1>2, <1>3

-----------------------------------------------------------------------------
(* Frames.                                                                 *)
LEMMA HeadAndTail ==
    ASSUME NEW S, NEW s \in Seq(S), s # <<>>
    PROVE  Head(s) \in S /\ Tail(s) \in Seq(S) /\ (Len(s) > 1 => Tail(s) # <<>>)
<1>1. Head(s) \in S /\ Tail(s) \in Seq(S) /\ Len(Tail(s)) = Len(s) - 1
  BY HeadTailProperties
<1>2. Len(s) \in Nat
  OBVIOUS
<1>3. Tail(s) = <<>> => Len(Tail(s)) = 0
  BY EmptySeq
<1>. QED  BY <1>1, <1>2, <1>3

(* The frames stay those of the field when one is advanced or put on top. *)
LEMMA FrameSteps ==
    ASSUME NEW A, NEW B, NEW frames \in Seq([symbol : A, calls : B, next : Nat]), frames # <<>>
    PROVE  LET F == [symbol : A, calls : B, next : Nat]
           IN  /\ Head(frames) \in F /\ Tail(frames) \in Seq(F)
               /\ Advanced(frames) \in Seq(F) /\ Advanced(frames) # <<>>
               /\ \A g \in F : <<g>> \o frames \in Seq(F) /\ <<g>> \o frames # <<>>
<1>. DEFINE F == [symbol : A, calls : B, next : Nat]
<1>1. Head(frames) \in F /\ Tail(frames) \in Seq(F)
  BY HeadAndTail
<1>2. ASSUME NEW h \in F  PROVE [h EXCEPT !.next = @ + 1] \in F
  OBVIOUS
<1>3. [Head(frames) EXCEPT !.next = @ + 1] \in F
  BY <1>1, <1>2
<1>4. ASSUME NEW g \in F, NEW s \in Seq(F)  PROVE <<g>> \o s \in Seq(F) /\ <<g>> \o s # <<>>
  <2>. HIDE DEF F
  <2>1. <<g>> \in Seq(F) /\ Len(<<g>>) = 1
    OBVIOUS
  <2>2. <<g>> \o s \in Seq(F) /\ Len(<<g>> \o s) = 1 + Len(s)
    BY <2>1, ConcatProperties
  <2>. QED  BY <2>2
<1>. QED  BY <1>1, <1>3, <1>4 DEF Advanced

(* What the plan of an extraction that is under way guarantees. *)
LEMMA Running ==
    ASSUME IInv, phase \in {"acquiring", "extracting"}
    PROVE  /\ ir = Extractor(program) /\ diagnostics = Warnings
           /\ StaticErrors(ir) = {} /\ OutputErrors(ir.output) = {} /\ Unbound(request) = {}
           /\ \A f \in FieldsOf(ir.output) : Sound(f)
<1>1. ir = Extractor(program) /\ plan = Prepare(ir) /\ plan.errors = {} /\ diagnostics = Warnings
  BY DEF IInv, FromCompiler, FromPlan
<1>2. plan.binding = {} /\ Unbound(request) = {}
  BY DEF IInv, Begun
<1>3. StaticErrors(ir) = {} /\ OutputErrors(ir.output) = {}
  BY <1>1, <1>2, PlanFacts
<1>4. \A f \in FieldsOf(ir.output) : Sound(f)
  BY <1>1, <1>3, FieldSound
<1>. QED  BY <1>1, <1>2, <1>3, <1>4

(* The call that is due is one of the field, or of a pipeline, under way. *)
LEMMA DueCall ==
    ASSUME IInv, Due
    PROVE  /\ phase = "extracting" /\ chain.at = "applying" /\ chain.field \in FieldsOf(ir.output)
           /\ chain.frames # <<>> /\ chain.frames \in Seq(FramesOf(chain.field))
           /\ Top \in FramesOf(chain.field) /\ Top.calls \in Chains(ir, chain.field)
           /\ Top.next \in DOMAIN Top.calls
<1>1. phase = "extracting" /\ chain.at = "applying" /\ Top.next \in DOMAIN Top.calls
  BY DEF Due, Applying
<1>2. /\ chain.field \in FieldsOf(ir.output) /\ chain.frames # <<>>
      /\ chain.frames \in Seq(FramesOf(chain.field))
  BY <1>1 DEF IInv, Framed
<1>3. Top \in FramesOf(chain.field)
  BY <1>2 DEF Top
<1>4. Top.calls \in Chains(ir, chain.field)
  BY <1>3 DEF FramesOf, Chains
<1>. QED  BY <1>1, <1>2, <1>3, <1>4

(* The transform that a declared call names is one of the extractor's. *)
LEMMA TargetKnown ==
    ASSUME IInv, Calling("declared")
    PROVE  Target1 \in ir.transforms /\ Target1.symbol = Call1.target.symbol
<1>1. Due /\ Call1.target.kind = "declared"
  BY DEF Calling
<1>2. /\ phase = "extracting" /\ chain.field \in FieldsOf(ir.output)
      /\ Top.calls \in Chains(ir, chain.field) /\ Top.next \in DOMAIN Top.calls
  BY <1>1, DueCall
<1>3. StaticErrors(ir) = {}
  BY <1>2, Running
<1>4. \E t \in ir.transforms : t.symbol = Call1.target.symbol
  BY <1>1, <1>2, <1>3, CallsKnown DEF Call1
<1>. QED  BY <1>4 DEF Target1

(* The codes that a field may end with: none of them is a host's fault. *)
FieldCodes ==
    {"E_REQUIRED_VALUE_MISSING", "E_SELECTOR_CARDINALITY", "E_JAVASCRIPT_RESULT_TYPE", "E_IR_INVALID",
     "E_TRANSFORM", "E_TRANSFORM_RECURSION", "E_EXTERNAL_TRANSFORM",
     "E_EXTERNAL_TRANSFORM_RESULT_TYPE", "E_OUTPUT_TYPE"}

(* Every step of a field settles it, or goes on with frames of its own. *)
Goes(f) ==
    /\ phase' = phase /\ error' = error
    /\ \E v, frames : /\ frames \in Seq(FramesOf(f)) /\ frames # <<>>
                      /\ chain' = Chain("applying", f, v, frames)

FieldStep ==
    \/ ReadField \/ CallBuiltin \/ Recursion \/ CallPipeline \/ Leave \/ CallMatch \/ CallExternal
    \/ EndField

(* A field that is settled with some codes is so with more. *)
LEMMA SettlesMore ==
    ASSUME NEW f, NEW small, NEW large, Settled(f, small), small \subseteq large
    PROVE  Settled(f, large)
BY DEF Settled

(* A call that fails settles its field. *)
LEMMA FailsSettles ==
    ASSUME NEW code \in FieldCodes, Fails(code)
    PROVE  Settled(chain.field, FieldCodes)
<1>1. Settled(chain.field, {code, "E_IR_INVALID"})
  BY RecoverSettles DEF Fails
<1>2. {code, "E_IR_INVALID"} \subseteq FieldCodes
  BY DEF FieldCodes
<1>. QED  BY <1>1, <1>2, SettlesMore

(* A call that succeeds goes on with the next one. *)
LEMMA BecomesGoes ==
    ASSUME IInv, Due, NEW v, Becomes(v)
    PROVE  Goes(chain.field)
<1>1. chain.frames \in Seq(FramesOf(chain.field)) /\ chain.frames # <<>>
  BY DueCall
<1>2. Advanced(chain.frames) \in Seq(FramesOf(chain.field)) /\ Advanced(chain.frames) # <<>>
  BY <1>1, FrameSteps DEF FramesOf
<1>. QED  BY <1>2 DEF Becomes, Continues, Goes

(* Whatever a field does, it is settled or goes on. *)
LEMMA FieldOutcome ==
    ASSUME IInv, FieldStep
    PROVE  /\ phase = "extracting" /\ UNCHANGED <<static, request, step>>
           /\ \E f \in FieldsOf(ir.output) : Settled(f, FieldCodes) \/ Goes(f)
<1>1. CASE ReadField
  <2>1. phase = "extracting" /\ UNCHANGED <<static, request, step>>
    BY <1>1 DEF ReadField, Extracting
  <2>2. PICK f \in FieldsOf(ir.output) :
           \/ Missing(f) \/ Recover(f, "E_SELECTOR_CARDINALITY")
           \/ Recover(f, "E_JAVASCRIPT_RESULT_TYPE")
           \/ \E r : chain' = Read(f, r[1]) /\ UNCHANGED <<phase, error>>
    BY <1>1 DEF ReadField
  <2>3. CASE Missing(f)
    <3>1. Settled(f, {"E_REQUIRED_VALUE_MISSING", "E_IR_INVALID"})
      BY <2>3, MissingSettles
    <3>2. Settled(f, FieldCodes)
      BY <3>1, SettlesMore DEF FieldCodes
    <3>. QED  BY <2>1, <3>2
  <2>4. ASSUME NEW code \in {"E_SELECTOR_CARDINALITY", "E_JAVASCRIPT_RESULT_TYPE"}, Recover(f, code)
        PROVE  Settled(f, FieldCodes)
    <3>1. Settled(f, {code, "E_IR_INVALID"})
      BY <2>4, RecoverSettles
    <3>. QED  BY <3>1, SettlesMore DEF FieldCodes
  <2>5. CASE \E r : chain' = Read(f, r[1]) /\ UNCHANGED <<phase, error>>
    <3>1. Frame(<<>>, f.calls) \in FramesOf(f)
      BY DEF Frame, FramesOf
    <3>2. <<Frame(<<>>, f.calls)>> \in Seq(FramesOf(f)) /\ <<Frame(<<>>, f.calls)>> # <<>>
      BY <3>1
    <3>3. Goes(f)
      BY <2>5, <3>2 DEF Goes, Read
    <3>. QED  BY <2>1, <3>3
  <2>. QED  BY <2>1, <2>2, <2>3, <2>4, <2>5
<1>2. CASE CallBuiltin
  <2>1. Due /\ UNCHANGED <<static, request, step>>
    BY <1>2 DEF CallBuiltin, Calling
  <2>2. Fails("E_TRANSFORM") \/ \E v : Becomes(v)
    BY <1>2 DEF CallBuiltin
  <2>3. Fails("E_TRANSFORM") => Settled(chain.field, FieldCodes)
    BY FailsSettles DEF FieldCodes
  <2>. QED  BY <2>1, <2>2, <2>3, DueCall, BecomesGoes
<1>3. CASE Recursion
  <2>1. Due /\ UNCHANGED <<static, request, step>> /\ Fails("E_TRANSFORM_RECURSION")
    BY <1>3 DEF Recursion, Calling
  <2>2. Settled(chain.field, FieldCodes)
    BY <2>1, FailsSettles DEF FieldCodes
  <2>. QED  BY <2>1, <2>2, DueCall
<1>4. CASE CallPipeline
  <2>1. /\ Due /\ UNCHANGED <<static, request, step>> /\ Calling("declared")
        /\ Target1.kind = "pipeline"
        /\ Continues(chain.value, <<Frame(Target1.symbol, Target1.calls)>> \o chain.frames)
    BY <1>4 DEF CallPipeline, Reaches, Calling
  <2>2. Target1 \in Kinded(ir.transforms, "pipeline")
    BY <2>1, TargetKnown DEF Kinded
  <2>3. Frame(Target1.symbol, Target1.calls) \in FramesOf(chain.field)
    BY <2>2 DEF Frame, FramesOf
  <2>4. chain.frames \in Seq(FramesOf(chain.field)) /\ chain.frames # <<>>
    BY <2>1, DueCall
  <2>. DEFINE frames == <<Frame(Target1.symbol, Target1.calls)>> \o chain.frames
  <2>5. frames \in Seq(FramesOf(chain.field)) /\ frames # <<>>
    BY <2>3, <2>4, FrameSteps DEF FramesOf
  <2>6. Goes(chain.field)
    BY <2>1, <2>5 DEF Continues, Goes
  <2>. QED  BY <2>1, <2>6, DueCall
<1>5. CASE Leave
  <2>1. /\ phase = "extracting" /\ chain.at = "applying" /\ Len(chain.frames) > 1
        /\ UNCHANGED <<static, request, step>>
        /\ Continues(chain.value, Advanced(Tail(chain.frames)))
    BY <1>5 DEF Leave, Applying
  <2>2. /\ chain.field \in FieldsOf(ir.output) /\ chain.frames # <<>>
        /\ chain.frames \in Seq(FramesOf(chain.field))
    BY <2>1 DEF IInv, Framed
  <2>3. Tail(chain.frames) \in Seq(FramesOf(chain.field)) /\ Tail(chain.frames) # <<>>
    BY <2>1, <2>2, HeadAndTail
  <2>4. /\ Advanced(Tail(chain.frames)) \in Seq(FramesOf(chain.field))
        /\ Advanced(Tail(chain.frames)) # <<>>
    BY <2>3, FrameSteps DEF FramesOf
  <2>5. Goes(chain.field)
    BY <2>1, <2>4 DEF Continues, Goes
  <2>. QED  BY <2>1, <2>2, <2>5
<1>6. CASE CallMatch
  <2>1. Due /\ UNCHANGED <<static, request, step>>
    BY <1>6 DEF CallMatch, Reaches, Calling
  <2>2. Fails("E_TRANSFORM") \/ \E v : Becomes(v)
    BY <1>6 DEF CallMatch
  <2>3. Fails("E_TRANSFORM") => Settled(chain.field, FieldCodes)
    BY FailsSettles DEF FieldCodes
  <2>. QED  BY <2>1, <2>2, <2>3, DueCall, BecomesGoes
<1>7. CASE CallExternal
  <2>1. Due /\ UNCHANGED <<static, request, step>> /\ Calling("declared") /\ Target1.kind = "external"
    BY <1>7 DEF CallExternal, Reaches, Calling
  <2>2. phase = "extracting"
    BY <2>1, DueCall
  <2>3. Target1 \in Kinded(ir.transforms, "external")
    BY <2>1, TargetKnown DEF Kinded
  <2>4. Target1.external \in request.externals
    BY <2>2, <2>3, Running DEF Unbound, Flag
  <2>5. \/ \E code \in {"E_EXTERNAL_TRANSFORM", "E_EXTERNAL_TRANSFORM_RESULT_TYPE"} : Fails(code)
        \/ \E v : Becomes(v)
    BY <1>7, <2>4 DEF CallExternal
  <2>6. \A code \in {"E_EXTERNAL_TRANSFORM", "E_EXTERNAL_TRANSFORM_RESULT_TYPE"} :
           Fails(code) => Settled(chain.field, FieldCodes)
    BY FailsSettles DEF FieldCodes
  <2>. QED  BY <2>1, <2>5, <2>6, DueCall, BecomesGoes
<1>8. CASE EndField
  <2>1. phase = "extracting" /\ chain.at = "applying" /\ UNCHANGED <<static, request, step>>
    BY <1>8 DEF EndField, Applying
  <2>2. chain.field \in FieldsOf(ir.output)
    BY <2>1 DEF IInv, Framed
  <2>3. CASE MatchesRuntimeType(chain.value, chain.field.success)
    <3>1. Deliver(chain.field, chain.value)
      BY <1>8, <2>3 DEF EndField
    <3>2. Sound(chain.field) => MatchesRuntimeType(chain.value, chain.field.effective)
      BY <2>3, SuccessIsEffective
    <3>3. Settled(chain.field, FieldCodes)
      BY <3>1, <3>2, DeliverSettles
    <3>. QED  BY <2>1, <2>2, <3>3
  <2>4. CASE ~MatchesRuntimeType(chain.value, chain.field.success)
    <3>1. Fails("E_OUTPUT_TYPE")
      BY <1>8, <2>4 DEF EndField
    <3>2. Settled(chain.field, FieldCodes)
      BY <3>1, FailsSettles DEF FieldCodes
    <3>. QED  BY <2>1, <2>2, <3>2
  <2>. QED  BY <2>3, <2>4
<1>. QED  BY <1>1, <1>2, <1>3, <1>4, <1>5, <1>6, <1>7, <1>8 DEF FieldStep

-----------------------------------------------------------------------------
(* What an extraction has passed when its checks found nothing.            *)
LEMMA ExtractPassed ==
    ASSUME NEW r, NEW expansion, Preflight(r, expansion) = {}, r.entry = "extract"
    PROVE  /\ Unbound(r) = {} /\ plan.binding = {} /\ InputErrors(r) = {}
           /\ ir.source.mode = "http" \/ r.javascript \/ ~IsJavaScript(ir)
<1>. DEFINE http == ir.source.mode = "http"
            undriven == Flag(~http /\ ~r.browser, "E_BROWSER_RUNTIME_MISSING")
            script == Flag(~http /\ ~r.javascript /\ IsJavaScript(ir), "E_JAVASCRIPT_DISABLED")
            checks == <<undriven, script, Unbound(r), plan.binding,
                        InputErrors(r), NoSession(r), expansion, Refusal(r)>>
<1>1. First(checks) = {}
  BY DEF Preflight
<1>. HIDE DEF undriven, script
<1>2. DOMAIN checks = 1..8 /\ 8 \in Nat
  OBVIOUS
<1>3. /\ checks[2] = script /\ checks[3] = Unbound(r) /\ checks[4] = plan.binding
      /\ checks[5] = InputErrors(r)
  OBVIOUS
<1>. HIDE DEF checks
<1>4. \A i \in 1..8 : checks[i] = {}
  BY <1>1, <1>2, NoneFailed
<1>5. script = {} /\ Unbound(r) = {} /\ plan.binding = {} /\ InputErrors(r) = {}
  BY <1>3, <1>4
<1>. QED  BY <1>5 DEF script, Flag

(* What the other two entries have passed when they begin. *)
LEMMA OtherPassed ==
    ASSUME NEW r, NEW expansion, Preflight(r, expansion) = {}, r.entry # "extract"
    PROVE  /\ Unbound(r) = {} /\ plan.binding = {}
           /\ IF r.entry = "html" THEN ir.source.mode = "http" ELSE plan.snapshot = {}
<1>. DEFINE http == ir.source.mode = "http"
            canceled == Flag(r.canceled, "E_EXECUTION_CANCELED")
            driven == Flag(~http, "E_BROWSER_RUNTIME_MISSING")
            whole == <<driven, Unbound(r), plan.binding, canceled>>
            captured == <<canceled, plan.snapshot, Unbound(r), plan.binding>>
<1>. HIDE DEF canceled, driven
<1>1. CASE r.entry = "html"
  <2>1. First(whole) = {}
    BY <1>1 DEF Preflight, canceled, driven
  <2>2. DOMAIN whole = 1..4 /\ 4 \in Nat
    OBVIOUS
  <2>3. whole[1] = driven /\ whole[2] = Unbound(r) /\ whole[3] = plan.binding
    OBVIOUS
  <2>. HIDE DEF whole
  <2>4. \A i \in 1..4 : whole[i] = {}
    BY <2>1, <2>2, NoneFailed
  <2>5. driven = {} /\ Unbound(r) = {} /\ plan.binding = {}
    BY <2>3, <2>4
  <2>. QED  BY <1>1, <2>5 DEF driven, Flag
<1>2. CASE r.entry # "html"
  <2>1. First(captured) = {}
    BY <1>2 DEF Preflight, canceled, driven
  <2>2. DOMAIN captured = 1..4 /\ 4 \in Nat
    OBVIOUS
  <2>3. captured[2] = plan.snapshot /\ captured[3] = Unbound(r) /\ captured[4] = plan.binding
    OBVIOUS
  <2>. HIDE DEF captured
  <2>4. \A i \in 1..4 : captured[i] = {}
    BY <2>1, <2>2, NoneFailed
  <2>. QED  BY <1>2, <2>3, <2>4
<1>. QED  BY <1>1, <1>2

(* What Begin does, when it is refused and when it is not. *)
LEMMA BeginOutcome ==
    ASSUME Begin
    PROVE  /\ phase = "ready" /\ UNCHANGED <<static, step, chain, used, looked>>
           /\ \/ phase' = "returned"
              \/ /\ phase' \in {"acquiring", "extracting"} /\ error' = {}
                 /\ plan.binding = {} /\ Unbound(request)' = {}
                 /\ request.entry' = "extract" =>
                       /\ ir.source.mode = "http" \/ request.javascript' \/ ~IsJavaScript(ir)
                       /\ ResolveInputs(ir.inputs, request.inputs').errors = {}
                       /\ request.values' = ResolveInputs(ir.inputs, request.inputs').values
                 /\ request.entry' # "extract" => phase' = "extracting" /\ request.values' = <<>>
                 /\ request.entry' = "html" => ir.source.mode = "http"
                 /\ request.entry' \notin {"extract", "html"} => plan.snapshot = {}
<1>1. phase = "ready" /\ UNCHANGED <<static, step, chain, used, looked>>
  BY DEF Begin
<1>2. PICK r \in Requests :
         LET values == ResolveInputs(ir.inputs, r.inputs).values
         IN  \E expansion \in Expansions(ir.source.template, values) :
                LET errors == Preflight(r, expansion)
                    passed == IF r.entry = "extract" THEN "acquiring" ELSE "extracting"
                IN  /\ error' = errors
                    /\ phase' = IF errors = {} THEN passed ELSE "returned"
                    /\ request' = [entry |-> r.entry, javascript |-> r.javascript,
                                   externals |-> r.externals, inputs |-> r.inputs,
                                   values |-> IF r.entry = "extract" THEN values ELSE <<>>]
  BY DEF Begin
<1>3. PICK expansion :
         /\ error' = Preflight(r, expansion)
         /\ phase' = IF Preflight(r, expansion) = {}
                     THEN IF r.entry = "extract" THEN "acquiring" ELSE "extracting"
                     ELSE "returned"
         /\ request' = [entry |-> r.entry, javascript |-> r.javascript,
                        externals |-> r.externals, inputs |-> r.inputs,
                        values |-> IF r.entry = "extract"
                                   THEN ResolveInputs(ir.inputs, r.inputs).values ELSE <<>>]
  BY <1>2
<1>4. /\ request.entry' = r.entry /\ request.javascript' = r.javascript
      /\ request.externals' = r.externals /\ request.inputs' = r.inputs
      /\ request.values' = IF r.entry = "extract"
                           THEN ResolveInputs(ir.inputs, r.inputs).values ELSE <<>>
  BY <1>3
<1>5. CASE Preflight(r, expansion) # {}
  BY <1>1, <1>3, <1>5
<1>6. CASE Preflight(r, expansion) = {}
  <2>1. error' = {} /\ phase' = IF r.entry = "extract" THEN "acquiring" ELSE "extracting"
    BY <1>3, <1>6
  <2>2. Unbound(r) = {} /\ plan.binding = {}
    BY <1>6, ExtractPassed, OtherPassed
  <2>3. Unbound(request)' = {}
    BY <1>1, <1>4, <2>2 DEF Unbound, static
  <2>4. CASE r.entry = "extract"
    <3>1. /\ ir.source.mode = "http" \/ r.javascript \/ ~IsJavaScript(ir)
          /\ ResolveInputs(ir.inputs, r.inputs).errors = {}
      BY <1>6, <2>4, ExtractPassed DEF InputErrors
    <3>. QED  BY <1>1, <1>4, <2>1, <2>2, <2>3, <2>4, <3>1
  <2>5. CASE r.entry # "extract"
    <3>1. IF r.entry = "html" THEN ir.source.mode = "http" ELSE plan.snapshot = {}
      BY <1>6, <2>5, OtherPassed
    <3>. QED  BY <1>1, <1>4, <2>1, <2>2, <2>3, <2>5, <3>1
  <2>. QED  BY <2>4, <2>5
<1>. QED  BY <1>5, <1>6

-----------------------------------------------------------------------------
(* The inductive invariant.                                                *)

(* A step of an extraction that is under way keeps all but what it may     *)
(* change: the operations performed and the frames.                        *)
LEMMA UnderWay ==
    ASSUME IInv, phase \in {"acquiring", "extracting"},
           phase' \in {phase, "extracting", "returned"}, phase' # "returned" => error' = {},
           UNCHANGED <<static, request>>, Driven', Framed'
    PROVE  IInv'
<1>1. program' = program /\ diagnostics' = diagnostics /\ ir' = ir /\ plan' = plan /\ request' = request
  BY DEF static
<1>2. FromCompiler'
  BY <1>1 DEF IInv, FromCompiler
<1>3. FromPlan'
  BY <1>1 DEF IInv, FromPlan, Warnings
<1>4. Untouched'
  BY DEF Untouched
<1>5. Begun'
  BY <1>1 DEF IInv, Begun, Unbound
<1>. QED  BY <1>2, <1>3, <1>4, <1>5 DEF IInv

(* The frames of a field stay its own in every step of a field. *)
LEMMA FramedStep ==
    ASSUME Framed, UNCHANGED ir, NEW f \in FieldsOf(ir.output),
           (\E codes : Settled(f, codes)) \/ Goes(f)
    PROVE  Framed'
<1>1. CASE \E codes : Settled(f, codes)
  <2>1. chain' = chain \/ chain' = Idle \/ \E v : chain' = Delivered(f, v)
    BY <1>1 DEF Settled
  <2>2. CASE chain' = chain
    <3>1. FramesOf(chain.field)' = FramesOf(chain.field)
      BY <2>2 DEF FramesOf
    <3>. QED  BY <2>2, <3>1 DEF Framed
  <2>3. CASE chain' = Idle \/ \E v : chain' = Delivered(f, v)
    <3>1. chain.at' # "applying"
      BY <2>3 DEF Idle, Delivered, Chain
    <3>. QED  BY <3>1 DEF Framed
  <2>. QED  BY <2>1, <2>2, <2>3
<1>2. CASE Goes(f)
  <2>1. PICK v, frames : /\ frames \in Seq(FramesOf(f)) /\ frames # <<>>
                         /\ chain' = Chain("applying", f, v, frames)
    BY <1>2 DEF Goes
  <2>2. chain.field' = f /\ chain.frames' = frames
    BY <2>1 DEF Chain
  <2>3. FramesOf(f)' = FramesOf(f)
    BY DEF FramesOf
  <2>. QED  BY <2>1, <2>2, <2>3 DEF Framed, FramesOf
<1>. QED  BY <1>1, <1>2

(* The operations a step of a field may perform. *)
LEMMA FieldUses ==
    ASSUME IInv, FieldStep
    PROVE  <<"browser.navigate">> \in used' => <<"browser.navigate">> \in used
<1>1. CASE ReadField
  <2>1. PICK f : \/ used' = used
                 \/ used' = used \cup {Operation(f)} \cup Flag(Selected(f) # {}, <<"browser.query">>)
    BY <1>1 DEF ReadField
  <2>. QED  BY <2>1 DEF Operation, Flag
<1>2. CASE CallExternal
  <2>1. \/ used' = used
        \/ used' = used \cup {<<"transform.external", Target1.external>>}
    BY <1>2 DEF CallExternal
  <2>. QED  BY <2>1
<1>3. CASE ~ReadField /\ ~CallExternal
  BY <1>3 DEF FieldStep, CallBuiltin, Recursion, CallPipeline, Leave, CallMatch, EndField
<1>. QED  BY <1>1, <1>2, <1>3

(* The step of a field that runs a script belongs to a program that has one. *)
LEMMA FieldScripts ==
    ASSUME IInv, FieldStep, <<"browser.evaluate-js">> \in used'
    PROVE  <<"browser.evaluate-js">> \in used \/ (~DOM /\ IsJavaScript(ir))
<1>1. CASE ReadField
  <2>1. PICK f \in FieldsOf(ir.output) :
           \/ used' = used
           \/ /\ ~DOM
              /\ used' = used \cup {Operation(f)} \cup Flag(Selected(f) # {}, <<"browser.query">>)
    BY <1>1 DEF ReadField
  <2>2. Operation(f) = <<"browser.evaluate-js">> => ~Reads(f)
    BY DEF Operation
  <2>3. <<"browser.query">> # <<"browser.evaluate-js">>
    OBVIOUS
  <2>. QED  BY <2>1, <2>2, <2>3 DEF Flag, IsJavaScript
<1>2. CASE CallExternal
  <2>1. \/ used' = used
        \/ used' = used \cup {<<"transform.external", Target1.external>>}
    BY <1>2 DEF CallExternal
  <2>. QED  BY <2>1
<1>3. CASE ~ReadField /\ ~CallExternal
  BY <1>3 DEF FieldStep, CallBuiltin, Recursion, CallPipeline, Leave, CallMatch, EndField
<1>. QED  BY <1>1, <1>2, <1>3

(* The invariant IInv is inductive: what was compiled, prepared and        *)
(* checked stays what it was while an extraction is under way.             *)
THEOREM Inductive == Spec => []IInv
<1>1. Init => IInv
  BY DEF Init, IInv, FromCompiler, FromPlan, Untouched, Begun, Driven, Framed, Idle
<1>2. IInv /\ [Next]_vars => IInv'
  <2>. SUFFICES ASSUME IInv, [Next]_vars  PROVE IInv'
    OBVIOUS
  <2>1. CASE Compile
    <3>1. /\ phase = "source" /\ phase' \in {"panicked", "compiled", "rejected"}
          /\ ir' = (IF phase' = "compiled" THEN Extractor(program) ELSE None)
          /\ UNCHANGED <<program, plan, request, step, chain, used, looked, error>>
      BY <2>1 DEF Compile, Report
    <3>2. used = {} /\ looked = {} /\ chain = Idle /\ error = {}
      BY <3>1 DEF IInv, Untouched
    <3>. QED
      BY <3>1, <3>2 DEF IInv, FromCompiler, FromPlan, Untouched, Begun, Driven, Framed, Idle
  <2>2. CASE NewProgram
    <3>1. /\ phase = "compiled" /\ UNCHANGED <<program, ir, request, step, chain, used, looked, error>>
          /\ \/ /\ phase' = "ready" /\ plan' = Prepare(ir) /\ Prepare(ir).errors = {}
                /\ diagnostics' = Warnings
             \/ phase' = "rejected"
      BY <2>2 DEF NewProgram
    <3>2. used = {} /\ looked = {} /\ chain = Idle /\ error = {} /\ ir = Extractor(program)
      BY <3>1 DEF IInv, Untouched, FromCompiler
    <3>3. Warnings' = Warnings
      BY <3>1 DEF Warnings
    <3>. QED
      BY <3>1, <3>2, <3>3 DEF IInv, FromCompiler, FromPlan, Untouched, Begun, Driven, Framed, Idle
  <2>3. CASE Begin
    <3>1. phase = "ready" /\ UNCHANGED <<static, step, chain, used, looked>>
      BY <2>3, BeginOutcome
    <3>2. program' = program /\ diagnostics' = diagnostics /\ ir' = ir /\ plan' = plan
      BY <3>1 DEF static
    <3>3. used = {} /\ looked = {} /\ chain = Idle
      BY <3>1 DEF IInv, Untouched
    <3>4. phase' \in {"returned", "acquiring", "extracting"} /\ (phase' # "returned" => error' = {})
      BY <2>3, BeginOutcome
    <3>5. FromCompiler' /\ FromPlan'
      BY <3>1, <3>2, <3>4 DEF IInv, FromCompiler, FromPlan, Warnings
    <3>6. Untouched' /\ Driven' /\ Framed'
      BY <3>1, <3>3, <3>4 DEF Untouched, Driven, Framed, Idle
    <3>7. Begun'
      <4>1. CASE phase' = "returned"
        BY <3>1, <3>3, <4>1 DEF Begun, Idle
      <4>2. CASE phase' # "returned"
        BY <2>3, <3>2, <4>2, BeginOutcome DEF Begun
      <4>. QED  BY <4>1, <4>2
    <3>. QED  BY <3>5, <3>6, <3>7 DEF IInv
  <2>4. CASE Acquire
    <3>1. /\ phase = "acquiring" /\ UNCHANGED <<static, request, step, chain, looked>>
          /\ used' = used \cup {Acquires}
          /\ phase' \in {"extracting", "acquiring", "returned"} /\ (phase' # "returned" => error' = {})
      BY <2>4 DEF Acquire, Return
    <3>2. ir' = ir /\ request' = request
      BY <3>1 DEF static
    <3>3. request.entry = "extract"
      BY <3>1 DEF IInv, Begun
    <3>4. Acquires = <<"browser.navigate">> => ~DOM
      BY <3>3 DEF Acquires, DOM
    <3>5. Acquires # <<"browser.evaluate-js">>
      BY DEF Acquires
    <3>6. Driven'
      BY <3>1, <3>2, <3>4, <3>5 DEF IInv, Driven, DOM, IsJavaScript
    <3>7. Framed'
      BY <3>1, <3>2 DEF IInv, Framed, FramesOf
    <3>. QED  BY <3>1, <3>6, <3>7, UnderWay
  <2>5. CASE RunStep
    <3>1. /\ phase = "acquiring" /\ UNCHANGED <<static, request, chain, looked>>
          /\ <<"browser.navigate">> \in used /\ step + 1 \in DOMAIN ir.source.workflow
          /\ used' = used \cup {StepCapability(ir.source.workflow[step + 1].kind)}
          /\ phase' \in {"acquiring", "returned"} /\ (phase' # "returned" => error' = error)
      BY <2>5 DEF RunStep, Navigated, Return
    <3>2. ir' = ir /\ request' = request
      BY <3>1 DEF static
    <3>3. ~DOM /\ error = {}
      BY <3>1 DEF IInv, Driven, Untouched
    <3>4. StepCapability(ir.source.workflow[step + 1].kind) = <<"browser.evaluate-js">> => IsJavaScript(ir)
      BY <3>1 DEF StepCapability, IsJavaScript
    <3>6. Driven'
      BY <3>1, <3>2, <3>3, <3>4 DEF IInv, Driven, DOM, IsJavaScript
    <3>7. Framed'
      BY <3>1, <3>2 DEF IInv, Framed, FramesOf
    <3>. QED  BY <3>1, <3>3, <3>6, <3>7, UnderWay
  <2>6. CASE Acquired
    <3>1. /\ phase = "acquiring" /\ phase' = "extracting"
          /\ UNCHANGED <<static, request, chain, used, looked, error>>
      BY <2>6 DEF Acquired, Navigated
    <3>2. ir' = ir /\ request' = request /\ error = {}
      BY <3>1 DEF static, IInv, Untouched
    <3>3. Driven' /\ Framed'
      BY <3>1, <3>2 DEF IInv, Driven, DOM, IsJavaScript, Framed, FramesOf
    <3>. QED  BY <3>1, <3>2, <3>3, UnderWay
  <2>7. CASE QueryRows
    <3>1. /\ phase = "extracting" /\ UNCHANGED <<static, phase, request, chain, error>>
          /\ used' \subseteq used \cup {<<"browser.query">>}
      BY <2>7 DEF QueryRows, Extracting, Looks, Flag
    <3>2. ir' = ir /\ request' = request /\ error = {}
      BY <3>1 DEF static, IInv, Untouched
    <3>3. Driven' /\ Framed'
      BY <3>1, <3>2 DEF IInv, Driven, DOM, IsJavaScript, Framed, FramesOf
    <3>. QED  BY <3>1, <3>2, <3>3, UnderWay
  <2>8. CASE FieldStep
    <3>1. phase = "extracting" /\ UNCHANGED <<static, request, step>>
      BY <2>8, FieldOutcome
    <3>2. PICK f \in FieldsOf(ir.output) : Settled(f, FieldCodes) \/ Goes(f)
      BY <2>8, FieldOutcome
    <3>3. phase' \in {"extracting", "returned"} /\ (phase' # "returned" => error' = error)
      BY <3>1, <3>2 DEF Settled, Goes
    <3>4. ir' = ir /\ request' = request /\ error = {}
      BY <3>1 DEF static, IInv, Untouched
    <3>5. Framed'
      BY <3>2, <3>4, FramedStep DEF IInv
    <3>6. Driven'
      BY <2>8, <3>4, FieldUses, FieldScripts DEF IInv, Driven, DOM, IsJavaScript
    <3>. QED  BY <3>1, <3>3, <3>4, <3>5, <3>6, UnderWay
  <2>9. CASE Finish
    <3>1. /\ phase = "extracting" /\ phase' = "returned"
          /\ UNCHANGED <<static, request, chain, used, looked>>
      BY <2>9 DEF Finish, Extracting, Return
    <3>2. ir' = ir /\ request' = request
      BY <3>1 DEF static
    <3>3. Driven' /\ Framed'
      BY <3>1, <3>2 DEF IInv, Driven, DOM, IsJavaScript, Framed, FramesOf
    <3>. QED  BY <3>1, <3>3, UnderWay
  <2>10. CASE UNCHANGED vars
    BY <2>10 DEF vars, IInv, FromCompiler, FromPlan, Warnings, Untouched, Begun, Unbound, Driven, DOM,
                 IsJavaScript, Framed, FramesOf
  <2>. QED
    BY <2>1, <2>2, <2>3, <2>4, <2>5, <2>6, <2>7, <2>8, <2>9, <2>10 DEF Next, FieldStep
<1>. QED  BY <1>1, <1>2, PTL DEF Spec

-----------------------------------------------------------------------------
(* What a host lacks is said before anything is acquired or read: a host   *)
(* function that an extraction calls was asked for when it began, and no   *)
(* later step reports a fault of the host.                                 *)
THEOREM HostFaultsEarly == Spec => []FailsEarly
<1>1. Init => FailsEarly
  BY DEF Init, FailsEarly
<1>2. IInv /\ FailsEarly /\ [Next]_vars => FailsEarly'
  <2>. SUFFICES ASSUME IInv, FailsEarly, [Next]_vars  PROVE FailsEarly'
    OBVIOUS
  <2>1. CASE phase \in {"source", "compiled", "ready"} /\ used' = used /\ looked' = looked
    BY <2>1 DEF FailsEarly, IInv, Untouched
  <2>2. CASE error' \cap HostFaults = {}
    BY <2>2 DEF FailsEarly
  <2>3. CASE UNCHANGED vars
    BY <2>3 DEF vars, FailsEarly
  <2>4. CASE Compile \/ NewProgram \/ Begin
    BY <2>4, <2>1 DEF Compile, NewProgram, Begin
  <2>5. CASE Acquire
    <3>1. error' \in {{}, {"E_HTTP_FETCH"}, {"E_BROWSER_NAVIGATE"}}
      BY <2>5 DEF Acquire, Return
    <3>. QED  BY <2>2, <3>1 DEF HostFaults
  <2>6. CASE RunStep \/ Acquired \/ QueryRows
    <3>1. error = {}
      BY <2>6 DEF IInv, Untouched, RunStep, Acquired, Navigated, QueryRows, Extracting
    <3>2. error' = {} \/ error' = {"E_BROWSER_WORKFLOW"}
      BY <2>6, <3>1 DEF RunStep, Acquired, QueryRows, Return
    <3>. QED  BY <2>2, <3>2 DEF HostFaults
  <2>7. CASE FieldStep
    <3>1. error = {}
      BY <2>7, FieldOutcome DEF IInv, Untouched
    <3>2. error' = {} \/ \E code \in FieldCodes : error' = {code}
      BY <2>7, <3>1, FieldOutcome DEF Settled, Goes
    <3>. QED  BY <2>2, <3>2 DEF FieldCodes, HostFaults
  <2>8. CASE Finish
    BY <2>2, <2>8 DEF Finish, Return
  <2>. QED  BY <2>3, <2>4, <2>5, <2>6, <2>7, <2>8 DEF Next, FieldStep
<1>. QED  BY <1>1, <1>2, Inductive, PTL DEF Spec

(* The selectors that a DOM run looks up are all in the plan, which other  *)
(* extractions read at the same time: an extraction that reads a document  *)
(* of a browser was prepared for, or its snapshot would have been refused. *)
THEOREM PlanIsComplete == Spec => []PlanComplete
<1>1. Init => PlanComplete
  BY DEF Init, PlanComplete
<1>2. IInv /\ PlanComplete /\ [Next]_vars => PlanComplete'
  <2>. SUFFICES ASSUME IInv, PlanComplete, [Next]_vars  PROVE PlanComplete'
    OBVIOUS
  <2>1. CASE looked' = looked /\ plan' = plan
    BY <2>1 DEF PlanComplete
  <2>2. CASE phase \in {"source", "compiled", "ready"} /\ looked' = looked
    BY <2>2 DEF PlanComplete, IInv, Untouched
  <2>3. ASSUME phase = "extracting", DOM
        PROVE  SelectorsOf(ir.output) = plan.selectors
    <3>1. plan = Prepare(ir) /\ plan.errors = {} /\ plan.binding = {}
      BY <2>3 DEF IInv, FromPlan, Begun
    <3>2. ir.source.mode = "http" \/ plan.snapshot = {}
      BY <2>3 DEF IInv, Begun, DOM
    <3>. QED  BY <3>1, <3>2, PlanFacts
  <2>4. CASE QueryRows \/ ReadField
    <3>1. plan' = plan /\ phase = "extracting"
      BY <2>4 DEF QueryRows, ReadField, Extracting, static
    <3>2. looked' = looked \/ (DOM /\ \E more \in SUBSET SelectorsOf(ir.output) : looked' = looked \cup more)
      <4>1. CASE QueryRows
        <5>1. PICK c \in CollectionsOf(ir.output) : looked' = looked \/ (DOM /\ looked' = looked \cup {c.selector})
          BY <4>1 DEF QueryRows, Looks
        <5>. QED  BY <5>1 DEF SelectorsOf
      <4>2. CASE ReadField
        <5>1. PICK f \in FieldsOf(ir.output) : looked' = looked \/ (DOM /\ looked' = looked \cup Selected(f))
          BY <4>2 DEF ReadField
        <5>2. Selected(f) \in SUBSET SelectorsOf(ir.output)
          BY DEF SelectorsOf, SelectorsOfFields
        <5>. QED  BY <5>1, <5>2
      <4>. QED  BY <2>4, <4>1, <4>2
    <3>. QED  BY <2>1, <2>3, <3>1, <3>2 DEF PlanComplete
  <2>5. CASE Compile \/ NewProgram \/ Begin
    BY <2>2, <2>5 DEF Compile, NewProgram, Begin
  <2>6. CASE ~(QueryRows \/ ReadField) /\ ~(Compile \/ NewProgram \/ Begin)
    BY <2>1, <2>6 DEF Next, vars, static, Acquire, RunStep, Acquired, CallBuiltin, Recursion, CallPipeline,
                      Leave, CallMatch, CallExternal, EndField, Finish
  <2>. QED  BY <2>4, <2>5, <2>6
<1>. QED  BY <1>1, <1>2, Inductive, PTL DEF Spec

(* A script runs only in an extraction whose host allowed JavaScript, of a *)
(* program that the compiler has warned of: what the executor takes for a  *)
(* script is what the compiler took for one.                               *)
THEOREM ScriptsAnnounced == Spec => []JavaScriptAnnounced
<1>1. IInv => JavaScriptAnnounced
  <2>. SUFFICES ASSUME IInv, <<"browser.evaluate-js">> \in used
                PROVE  request.javascript /\ "W_JAVASCRIPT_PRESENT" \in diagnostics
    BY DEF JavaScriptAnnounced
  <2>1. ~DOM /\ IsJavaScript(ir)
    BY DEF IInv, Driven
  <2>2. phase \in {"acquiring", "extracting", "returned"}
    BY DEF IInv, Untouched
  <2>3. ir = Extractor(program) /\ diagnostics = Warnings
    BY <2>2 DEF IInv, FromCompiler, FromPlan
  <2>4. request.javascript
    BY <2>1 DEF IInv, Begun, DOM
  <2>5. JavaScriptPresent(Root(program[Main]), ir.source)
    BY <2>1, <2>3, JavaScriptSeen
  <2>. QED  BY <2>3, <2>4, <2>5 DEF Warnings, Flag
<1>. QED  BY <1>1, Inductive, PTL

(* What a field delivers is of the type that the extractor declares: what  *)
(* its chain of calls has come to, its default as it is normalized, or     *)
(* nothing, which only the fields deliver that are nullable.               *)
THEOREM DeclaredTypeDelivered == Spec => []DeliversDeclaredType
<1>1. Init => DeliversDeclaredType
  BY DEF Init, DeliversDeclaredType, Idle
<1>2. IInv /\ DeliversDeclaredType /\ [Next]_vars => DeliversDeclaredType'
  <2>. SUFFICES ASSUME IInv, DeliversDeclaredType, [Next]_vars  PROVE DeliversDeclaredType'
    OBVIOUS
  <2>1. CASE chain' = chain
    BY <2>1 DEF DeliversDeclaredType
  <2>2. CASE FieldStep
    <3>1. PICK f \in FieldsOf(ir.output) : Settled(f, FieldCodes) \/ Goes(f)
      BY <2>2, FieldOutcome
    <3>2. Sound(f)
      BY <2>2, <3>1, FieldOutcome, Running
    <3>3. CASE chain' = Idle \/ \E v, frames : chain' = Chain("applying", f, v, frames)
      BY <3>3 DEF DeliversDeclaredType, Idle, Chain
    <3>4. CASE \E v : chain' = Delivered(f, v) /\ MatchesRuntimeType(v, f.effective)
      BY <3>4 DEF DeliversDeclaredType, Delivered, Chain
    <3>. QED  BY <2>1, <3>1, <3>2, <3>3, <3>4 DEF Settled, Goes
  <2>3. CASE ~FieldStep
    BY <2>1, <2>3 DEF Next, vars, FieldStep, Compile, NewProgram, Begin, Acquire, RunStep, Acquired,
                      QueryRows, Finish
  <2>. QED  BY <2>2, <2>3
<1>. QED  BY <1>1, <1>2, Inductive, PTL DEF Spec

-----------------------------------------------------------------------------
(* Inputs.                                                                 *)
LEMMA FloatFits ==
    ASSUME NEW halves \in Least64..(-Least64 - 1), Whole(halves)
    PROVE  Fits(halves, "i64")
<1>. DEFINE h == HalfRange["i64"]
<1>1. h \in Nat
  BY BuiltInsAssumption DEF Integers
<1>2. Least64 = -(2 * h)
  BY DEF Least64
<1>3. "i64" \notin {"u8", "u16", "u32", "u64"}
  OBVIOUS
<1>. HIDE DEF h
<1>4. halves \in Int /\ -(2 * h) <= halves /\ halves <= 2 * h - 1 /\ halves % 2 = 0
  BY <1>1, <1>2 DEF Whole
<1>5. halves \div 2 \in Int /\ halves = 2 * (halves \div 2)
  BY ONLY <1>4
<1>6. halves \div 2 \in -h..(h - 1)
  <2>. DEFINE q == halves \div 2
  <2>1. q \in Int /\ -(2 * h) <= 2 * q /\ 2 * q <= 2 * h - 1
    BY ONLY <1>4, <1>5
  <2>. HIDE DEF q
  <2>2. q \in -h..(h - 1)
    BY ONLY <1>1, <2>1
  <2>. QED  BY <2>2 DEF q
<1>. QED  BY <1>3, <1>4, <1>6 DEF Fits, h

(* The number that an integer input is taken for is the one that was given. *)
LEMMA IntNormal ==
    ASSUME NEW v, NormalizeInput("int", v) # <<>>
    PROVE  NormalizeInput("int", v)[1] = <<"int64", v[2]>> /\ Fits(v[2], "i64")
<1>1. "int" \notin {"string", "bool"}
  OBVIOUS
<1>2. CASE v[1] \in {"int", "int64", "number"}
  BY <1>1, <1>2 DEF NormalizeInput, Given
<1>3. CASE v[1] \notin {"int", "int64", "number"}
  <2>1. /\ Whole(v[2]) /\ v[2] \in Least64..(-Least64 - 1)
        /\ NormalizeInput("int", v) = <<<<"int64", ToInt64(v[2])>>>>
    BY <1>1, <1>3 DEF NormalizeInput, Given
  <2>2. Fits(v[2], "i64")
    BY <2>1, FloatFits
  <2>. QED  BY <2>1, <2>2 DEF ToInt64
<1>. QED  BY <1>2, <1>3

(* An integer that resolves is what was provided for it. *)
LEMMA ResolvedInt ==
    ASSUME NEW definitions, NEW given, ResolveInputs(definitions, given).errors = {},
           NEW d \in ToSet(definitions), d.type = "int",
           d.name \in DOMAIN ResolveInputs(definitions, given).values
    PROVE  LET value == ResolveInputs(definitions, given).values[d.name]
           IN  value = <<"int64", Provided(d, given)[2]>> /\ Fits(value[2], "i64")
<1>. DEFINE all == ToSet(definitions)
            Normal(e) == NormalizeInput(e.type, Provided(e, given))
            present == {e \in all : Provided(e, given) # Nil}
            taken == {e.name : e \in {x \in present : Normal(x) # <<>>}}
            Of1(name) == CHOOSE e \in present : e.name = name
            values == [name \in taken |-> Normal(Of1(name))[1]]
            declared == Invalid(\/ ~IsInjective([i \in DOMAIN definitions |-> definitions[i].name])
                                \/ \E e \in all : \/ e.name \in {None, ""} \/ e.type \notin InputTypes
                                                  \/ e.required /\ e.default # <<>>)
            defaults == Flag(\E e \in all : /\ e.default # <<>>
                                            /\ NormalizeInput(e.type, Provided(e, <<>>)) = <<>>,
                             "E_INPUT_TYPE")
            flaws == Flag(\E e \in all \ present : e.required, "E_INPUT_REQUIRED")
                     \cup Flag(\E e \in present : Normal(e) = <<>>, "E_INPUT_TYPE")
            errors == IF declared \cup defaults # {} THEN declared \cup defaults
                      ELSE IF ~(DOMAIN given \subseteq {e.name : e \in all}) THEN {"E_INPUT_UNKNOWN"}
                      ELSE flaws
<1>1. ResolveInputs(definitions, given) = [errors |-> errors, values |-> values]
  BY DEF ResolveInputs
<1>2. errors = {} /\ d.name \in taken
  <2>. HIDE DEF errors, taken, Of1
  <2>. QED  BY <1>1
<1>3. declared = {} /\ flaws = {}
  <2>. HIDE DEF declared, flaws
  <2>. QED  BY <1>2
<1>4. \A i, j \in DOMAIN definitions : definitions[i].name = definitions[j].name => i = j
  BY <1>3 DEF Invalid, Flag, IsInjective
<1>5. \A e \in present : e.name = d.name => e = d
  BY <1>4 DEF ToSet
<1>6. d \in present
  BY <1>2, <1>5
<1>7. Of1(d.name) = d
  BY <1>5, <1>6
<1>8. Normal(d) # <<>>
  BY <1>3, <1>6 DEF Flag
<1>9. /\ Normal(d)[1] = <<"int64", Provided(d, given)[2]>>
      /\ Fits(Provided(d, given)[2], "i64")
  BY <1>8, IntNormal
<1>10. values[d.name] = Normal(d)[1]
  BY <1>2, <1>7
<1>11. ResolveInputs(definitions, given).values[d.name] = Normal(d)[1]
  <2>. HIDE DEF values, errors
  <2>. QED  BY <1>1, <1>10
<1>. QED  BY <1>9, <1>11

(* An integer that reaches the URL is the number the host provided, and    *)
(* within 64 bits: a float is converted only when it is whole and within   *)
(* them, and what is provided for one input is not taken for another.      *)
THEOREM IntegersExact == Spec => []InputsExact
<1>1. Init => InputsExact
  BY DEF Init, InputsExact
<1>2. IInv /\ InputsExact /\ [Next]_vars => InputsExact'
  <2>. SUFFICES ASSUME IInv, InputsExact, [Next]_vars  PROVE InputsExact'
    OBVIOUS
  <2>1. CASE phase' \notin {"acquiring", "extracting"}
    BY <2>1 DEF InputsExact
  <2>2. CASE phase \in {"acquiring", "extracting"} /\ ir' = ir /\ request' = request
    BY <2>2 DEF InputsExact
  <2>3. CASE Begin /\ phase' \in {"acquiring", "extracting"}
    <3>1. ir' = ir
      BY <2>3, BeginOutcome DEF static
    <3>2. CASE request.entry' = "extract"
      <4>1. /\ ResolveInputs(ir.inputs, request.inputs').errors = {}
            /\ request.values' = ResolveInputs(ir.inputs, request.inputs').values
        BY <2>3, <3>2, BeginOutcome
      <4>. QED  BY <3>1, <4>1, ResolvedInt DEF InputsExact
    <3>3. CASE request.entry' # "extract"
      <4>1. request.values' = <<>>
        BY <2>3, <3>3, BeginOutcome
      <4>. QED  BY <4>1 DEF InputsExact
    <3>. QED  BY <3>2, <3>3
  <2>4. CASE FieldStep
    BY <2>2, <2>4, FieldOutcome DEF static
  <2>5. CASE Compile \/ NewProgram
    BY <2>1, <2>5 DEF Compile, Report, NewProgram
  <2>6. CASE Acquire \/ RunStep \/ Acquired \/ QueryRows \/ Finish
    BY <2>2, <2>6 DEF Acquire, RunStep, Acquired, Navigated, QueryRows, Extracting, Finish, static
  <2>7. CASE UNCHANGED vars
    BY <2>7 DEF vars, InputsExact
  <2>. QED  BY <2>1, <2>3, <2>4, <2>5, <2>6, <2>7 DEF Next, FieldStep
<1>. QED  BY <1>1, <1>2, Inductive, PTL DEF Spec

-----------------------------------------------------------------------------
(* Assignability: what goes where a type is wanted, mark by mark.          *)
LEMMA AssignableDef ==
    ASSUME NEW from, NEW to, Depth(to) \in Nat
    PROVE  Assignable(from, to) =
              [j \in 0..Depth(to) |->
                  {i \in 0..Depth(from) :
                      \/ Inner(from, i) = Inner(to, j)
                      \/ IsPrimitive(Inner(to, j), {"unknown"})
                      \/ /\ IsNullable(Inner(to, j))
                         /\ (IF IsNullable(Inner(from, i)) THEN i - 1 ELSE i) \in Assignable(from, to)[j - 1]
                      \/ /\ IsArray(Inner(from, i)) /\ IsArray(Inner(to, j))
                         /\ i - 1 \in Assignable(from, to)[j - 1]}]
<1>. DEFINE d == Depth(to)
            Same(i, j) == Inner(from, i) = Inner(to, j)
            Free(j) == IsPrimitive(Inner(to, j), {"unknown"})
            Wide(j) == IsNullable(Inner(to, j))
            Under1(i) == IF IsNullable(Inner(from, i)) THEN i - 1 ELSE i
            Both(i, j) == IsArray(Inner(from, i)) /\ IsArray(Inner(to, j))
            Body(g, j) == {i \in 0..Depth(from) : \/ Same(i, j) \/ Free(j)
                                                  \/ Wide(j) /\ Under1(i) \in g[j - 1]
                                                  \/ Both(i, j) /\ i - 1 \in g[j - 1]}
            S == {m \in Nat : \E g : g = [j \in 0..m |-> Body(g, j)]}
<1>0. ~Wide(0) /\ \A i : ~Both(i, 0)
  BY DEF Inner, IsNullable, IsArray, Depth
<1>1. 0 \in S
  <2>. HIDE DEF Same, Free, Wide, Under1, Both
  <2>. DEFINE g == [j \in 0..0 |-> {i \in 0..Depth(from) : Same(i, j) \/ Free(j)}]
  <2>2. g = [j \in 0..0 |-> Body(g, j)]
    BY <1>0
  <2>. QED  BY <2>2
<1>. HIDE DEF Same, Free, Wide, Under1, Both
<1>2. ASSUME NEW m \in S  PROVE m + 1 \in S
  <2>1. PICK g : g = [j \in 0..m |-> Body(g, j)]
    OBVIOUS
  <2>. DEFINE h == [j \in 0..(m + 1) |-> IF j <= m THEN g[j] ELSE Body(g, m + 1)]
  <2>2. \A j \in 0..m : h[j] = g[j]
    OBVIOUS
  <2>6. \A j \in 0..m : g[j] = Body(g, j)
    BY <2>1
  <2>7. h[m + 1] = Body(g, m + 1)
    OBVIOUS
  <2>8. Body(h, 0) = Body(g, 0)
    BY <1>0
  <2>3. \A j \in 0..(m + 1) : h[j] = Body(h, j)
    <3>. HIDE DEF h
    <3>. SUFFICES ASSUME NEW j \in 0..(m + 1)  PROVE h[j] = Body(h, j)
      OBVIOUS
    <3>1. j # 0 => j - 1 \in 0..m /\ h[j - 1] = g[j - 1]
      BY <2>2
    <3>2. h[j] = Body(g, j)
      <4>1. CASE j <= m
        BY <4>1, <2>2, <2>6
      <4>2. CASE j = m + 1
        BY <4>2, <2>7
      <4>. QED  BY <4>1, <4>2
    <3>3. CASE j = 0
      BY <3>2, <3>3, <2>8
    <3>4. CASE j # 0
      BY <3>1, <3>2, <3>4
    <3>. QED  BY <3>3, <3>4
  <2>4. h = [j \in 0..(m + 1) |-> h[j]]
    OBVIOUS
  <2>. HIDE DEF h, Body
  <2>5. \E x : x = [j \in 0..(m + 1) |-> Body(x, j)]
    BY <2>3, <2>4
  <2>. QED  BY <2>5
<1>3. S = Nat
  BY <1>1, <1>2, Induct
<1>4. PICK g : g = [j \in 0..d |-> Body(g, j)]
  BY <1>3
<1>5. Assignable(from, to) = CHOOSE h1 : h1 = [j \in 0..d |-> Body(h1, j)]
  BY DEF Assignable, Same, Free, Wide, Under1, Both
<1>6. Assignable(from, to) = [j \in 0..d |-> Body(Assignable(from, to), j)]
  BY <1>4, <1>5
<1>. QED  BY <1>6 DEF Same, Free, Wide, Under1, Both

(* One mark of the type that is wanted. *)
LEMMA AssignableStep ==
    ASSUME NEW from \in Types, NEW to \in Types, NEW i \in 0..Depth(from), NEW j \in 0..Depth(to)
    PROVE  i \in Assignable(from, to)[j] <=>
              \/ Inner(from, i) = Inner(to, j)
              \/ IsPrimitive(Inner(to, j), {"unknown"})
              \/ /\ IsNullable(Inner(to, j))
                 /\ (IF IsNullable(Inner(from, i)) THEN i - 1 ELSE i) \in Assignable(from, to)[j - 1]
              \/ /\ IsArray(Inner(from, i)) /\ IsArray(Inner(to, j))
                 /\ i - 1 \in Assignable(from, to)[j - 1]
<1>. DEFINE A == Assignable(from, to)
            Same(a, b) == Inner(from, a) = Inner(to, b)
            Free(b) == IsPrimitive(Inner(to, b), {"unknown"})
            Wide(b) == IsNullable(Inner(to, b))
            Under1(a) == IF IsNullable(Inner(from, a)) THEN a - 1 ELSE a
            Both(a, b) == IsArray(Inner(from, a)) /\ IsArray(Inner(to, b))
<1>1. Depth(to) \in Nat
  BY TypeFacts
<1>2. A = [b \in 0..Depth(to) |->
              {a \in 0..Depth(from) : \/ Same(a, b)
                                      \/ Free(b)
                                      \/ Wide(b) /\ Under1(a) \in A[b - 1]
                                      \/ Both(a, b) /\ a - 1 \in A[b - 1]}]
  BY <1>1, AssignableDef
<1>. HIDE DEF A, Same, Free, Wide, Under1, Both
<1>3. i \in A[j] <=> \/ Same(i, j)
                     \/ Free(j)
                     \/ Wide(j) /\ Under1(i) \in A[j - 1]
                     \/ Both(i, j) /\ i - 1 \in A[j - 1]
  BY <1>2
<1>. QED  BY <1>3 DEF A, Same, Free, Wide, Under1, Both

(* The innermost marks of a type, without the last one. *)
LEMMA InnerMarks ==
    ASSUME NEW t \in Types, NEW n \in 0..Depth(t)
    PROVE  /\ Inner(t, n) \in Types
           /\ IsNullable(Inner(t, n)) => n \in 1..Depth(t) /\ Of(Inner(t, n)) = Inner(t, n - 1)
           /\ IsArray(Inner(t, n)) => n \in 1..Depth(t) /\ Of(Inner(t, n)) = Inner(t, n - 1)
           /\ n # 0 => IsNullable(Inner(t, n)) \/ IsArray(Inner(t, n))
<1>1. Inner(t, n) \in Types /\ Depth(Inner(t, n)) = n /\ Depth(t) \in Nat
  BY InnerFacts, TypeFacts
<1>2. IsNullable(Inner(t, n)) \/ IsArray(Inner(t, n)) => n # 0
  BY <1>1 DEF IsNullable, IsArray, Depth, Types
<1>3. n # 0 => IsNullable(Inner(t, n)) \/ IsArray(Inner(t, n))
  BY <1>1, TypeFacts DEF IsNullable, IsArray, Depth
<1>4. n # 0 => n \in 1..Depth(t) /\ n - 1 \in 0..n
  BY <1>1
<1>5. n # 0 => Of(Inner(t, n)) = Inner(t, n - 1)
  BY <1>1, <1>4, InnerInner DEF Of
<1>. QED  BY <1>1, <1>2, <1>3, <1>4, <1>5

(* The parts of a value are itself and those of its items. *)
LEMMA PartsOfItems ==
    ASSUME NEW v, NEW n \in Nat
    PROVE  Parts(v, n + 1) = {v} \cup UNION {Parts(e, n) : e \in Items(v)}
<1>. DEFINE S == {k \in Nat : Parts(v, k + 1) = {v} \cup UNION {Parts(e, k) : e \in Items(v)}}
<1>1. 0 \in S
  <2>1. Parts(v, 0 + 1) = {v} \cup UNION {Items(e) : e \in {v}}
    BY PartsStep
  <2>2. \A e : Parts(e, 0) = {e}
    BY PartsStep
  <2>. QED  BY <2>1, <2>2
<1>2. ASSUME NEW k \in S  PROVE k + 1 \in S
  <2>1. Parts(v, (k + 1) + 1) = Parts(v, k + 1) \cup UNION {Items(e) : e \in Parts(v, k + 1)}
    BY PartsStep
  <2>2. Parts(v, k + 1) = {v} \cup UNION {Parts(e, k) : e \in Items(v)}
    OBVIOUS
  <2>3. \A e : Parts(e, k + 1) = Parts(e, k) \cup UNION {Items(x) : x \in Parts(e, k)}
    BY PartsStep
  <2>4. \A e \in Items(v) : e \in Parts(e, k + 1)
    BY PartsGrow
  <2>5. ASSUME NEW x \in Parts(v, (k + 1) + 1)
        PROVE  x \in {v} \cup UNION {Parts(e, k + 1) : e \in Items(v)}
    <3>1. CASE x \in Parts(v, k + 1)
      BY <3>1, <2>2, <2>3
    <3>2. CASE \E e \in Parts(v, k + 1) : x \in Items(e)
      <4>1. PICK e \in Parts(v, k + 1) : x \in Items(e)
        BY <3>2
      <4>2. CASE e = v
        BY <4>1, <4>2, <2>4
      <4>3. CASE \E i \in Items(v) : e \in Parts(i, k)
        BY <4>1, <4>3, <2>3
      <4>. QED  BY <4>1, <4>2, <4>3, <2>2
    <3>. QED  BY <3>1, <3>2, <2>1
  <2>6. ASSUME NEW x \in {v} \cup UNION {Parts(e, k + 1) : e \in Items(v)}
        PROVE  x \in Parts(v, (k + 1) + 1)
    <3>1. CASE x = v
      BY <3>1, <2>1, <2>2
    <3>2. CASE \E i \in Items(v) : x \in Parts(i, k + 1)
      <4>1. PICK i \in Items(v) : x \in Parts(i, k + 1)
        BY <3>2
      <4>2. CASE x \in Parts(i, k)
        BY <4>1, <4>2, <2>1, <2>2
      <4>3. CASE \E y \in Parts(i, k) : x \in Items(y)
        BY <4>1, <4>3, <2>1, <2>2
      <4>. QED  BY <4>1, <4>2, <4>3, <2>3
    <3>. QED  BY <3>1, <3>2
  <2>7. Parts(v, (k + 1) + 1) = {v} \cup UNION {Parts(e, k + 1) : e \in Items(v)}
    BY <2>5, <2>6
  <2>. QED  BY <2>7
<1>3. S = Nat
  BY <1>1, <1>2, Induct
<1>. QED  BY <1>3

(* A value without items has no part but itself. *)
LEMMA PartsAlone ==
    ASSUME NEW v, Items(v) = {}, NEW n \in Nat
    PROVE  Parts(v, n) = {v}
<1>1. CASE n = 0
  BY <1>1, PartsStep
<1>2. CASE n # 0
  <2>1. n - 1 \in Nat /\ n = (n - 1) + 1
    BY <1>2
  <2>2. Parts(v, (n - 1) + 1) = {v} \cup UNION {Parts(e, n - 1) : e \in Items(v)}
    BY <2>1, PartsOfItems
  <2>. QED  BY <2>1, <2>2
<1>. QED  BY <1>1, <1>2

(* What matches a type can be written as JSON. *)
LEMMA MatchedCompatible ==
    ASSUME NEW v, NEW t \in Types, MatchesRuntimeType(v, t)
    PROVE  IsJSONCompatible(v)
<1>. DEFINE Fine(e) == IsJSONCompatible(e)
            C(k) == \A u \in Types : \A w : Depth(u) = k /\ MatchesRuntimeType(w, u) => Fine(w)
            S == {k \in Nat : C(k)}
<1>0. MaxNesting \in Nat
  BY BuiltInsAssumption
<1>1. 0 \in S
  <2>. SUFFICES ASSUME NEW u \in Types, NEW w, Depth(u) = 0, MatchesRuntimeType(w, u)  PROVE Fine(w)
    OBVIOUS
  <2>1. MatchesPrimitive(w, u.name)
    BY MatchUnfold
  <2>2. CASE u.name = "unknown" /\ IsJSONCompatible(w)
    BY <2>2
  <2>3. CASE w[1] \notin {"list", "strings", "nonfinite", "unsupported"}
    <3>1. Items(w) = {}
      BY <2>3 DEF Items, IsList
    <3>2. Parts(w, MaxNesting) = {w}
      BY <3>1, <1>0, PartsAlone
    <3>. QED  BY <2>3, <3>2 DEF IsJSONCompatible
  <2>. QED  BY <2>1, <2>2, <2>3
       DEF MatchesPrimitive, IntegerKind, FloatKind, Integers
<1>2. ASSUME NEW k \in S  PROVE k + 1 \in S
  <2>. SUFFICES ASSUME NEW u \in Types, NEW w, Depth(u) = k + 1, MatchesRuntimeType(w, u)
                PROVE  Fine(w)
    OBVIOUS
  <2>1. k + 1 \in 0..Depth(u) /\ k \in 0..Depth(u) /\ k + 1 # 0 /\ (k + 1) - 1 = k
    OBVIOUS
  <2>2. Of(u) \in Types /\ Depth(Of(u)) = k
    BY <2>1, InnerFacts DEF Of
  <2>3. IsNullable(u) \/ IsArray(u)
    BY <2>1, InnerMarks, InnerWhole
  <2>4. CASE IsNullable(u)
    <3>1. w = Nil \/ MatchesRuntimeType(w, Of(u))
      BY <2>4, MatchUnfold
    <3>2. CASE w = Nil
      <4>1. Items(w) = {} /\ w[1] = "nil"
        BY <3>2 DEF Nil, Items, IsList
      <4>2. Parts(w, MaxNesting) = {w}
        BY <4>1, <1>0, PartsAlone
      <4>. QED  BY <4>1, <4>2 DEF IsJSONCompatible
    <3>. QED  BY <2>2, <3>1, <3>2
  <2>5. CASE IsArray(u)
    <3>1. IsArrayValue(w) /\ \A e \in Items(w) : MatchesRuntimeType(e, Of(u))
      BY <2>5, MatchUnfold
    <3>2. \A e \in Items(w) : Fine(e)
      BY <2>2, <3>1
    <3>3. w[1] \notin {"nonfinite", "unsupported"}
      BY <3>1 DEF IsArrayValue
    <3>4. Parts(w, MaxNesting + 1) = {w} \cup UNION {Parts(e, MaxNesting) : e \in Items(w)}
      BY <1>0, PartsOfItems
    <3>5. Parts(w, MaxNesting) \subseteq Parts(w, MaxNesting + 1)
      BY <1>0, PartsStep
    <3>. QED  BY <3>2, <3>3, <3>4, <3>5 DEF IsJSONCompatible
  <2>. QED  BY <2>3, <2>4, <2>5
<1>. HIDE DEF C
<1>3. S = Nat
  BY <1>1, <1>2, Induct
<1>4. Depth(t) \in Nat
  BY TypeFacts
<1>5. C(Depth(t))
  BY <1>3, <1>4
<1>. QED  BY <1>5 DEF C

(* What the compiler lets through is safe at run time (typesys/type.go,    *)
(* executor/types.go): a value of a type is one of each type to which the  *)
(* type is assignable.                                                     *)
THEOREM AssignableMatches ==
    ASSUME NEW from \in Types, NEW to \in Types, IsAssignable(from, to),
           NEW v, MatchesRuntimeType(v, from)
    PROVE  MatchesRuntimeType(v, to)
<1>. DEFINE A == Assignable(from, to)
            F(i) == Inner(from, i)
            T(j) == Inner(to, j)
            M(w, t) == MatchesRuntimeType(w, t)
            C(j) == j <= Depth(to) =>
                       \A i \in 0..Depth(from) : i \in A[j] => \A w : M(w, F(i)) => M(w, T(j))
            S == {j \in Nat : C(j)}
<1>1. Depth(from) \in Nat /\ Depth(to) \in Nat
  BY TypeFacts
<1>2. ASSUME NEW j \in Nat, j = 0 \/ C(j - 1)  PROVE C(j)
  <2>. SUFFICES ASSUME j <= Depth(to), NEW i \in 0..Depth(from), i \in A[j], NEW w, M(w, F(i))
                PROVE  M(w, T(j))
    OBVIOUS
  <2>1. j \in 0..Depth(to)
    BY <1>1
  <2>2. /\ F(i) \in Types
        /\ IsNullable(F(i)) => i \in 1..Depth(from) /\ Of(F(i)) = F(i - 1)
        /\ IsArray(F(i)) => i \in 1..Depth(from) /\ Of(F(i)) = F(i - 1)
    BY InnerMarks
  <2>3. /\ T(j) \in Types
        /\ IsNullable(T(j)) => j \in 1..Depth(to) /\ Of(T(j)) = T(j - 1)
        /\ IsArray(T(j)) => j \in 1..Depth(to) /\ Of(T(j)) = T(j - 1)
    BY <2>1, InnerMarks
  <2>4. \/ F(i) = T(j)
        \/ IsPrimitive(T(j), {"unknown"})
        \/ IsNullable(T(j)) /\ (IF IsNullable(F(i)) THEN i - 1 ELSE i) \in A[j - 1]
        \/ IsArray(F(i)) /\ IsArray(T(j)) /\ i - 1 \in A[j - 1]
    BY <2>1, AssignableStep
  <2>5. ASSUME j # 0, NEW h \in 0..Depth(from), h \in A[j - 1], NEW x, M(x, F(h))
        PROVE  M(x, T(j - 1))
    <3>1. j - 1 <= Depth(to)
      BY <1>1
    <3>2. \A a \in 0..Depth(from) : a \in A[j - 1] => \A y : M(y, F(a)) => M(y, T(j - 1))
      BY <1>2, <2>5, <3>1
    <3>. QED  BY <2>5, <3>2
  <2>6. IsNullable(F(i)) => (w = Nil \/ M(w, F(i - 1)))
    BY <2>2, MatchUnfold
  <2>7. CASE F(i) = T(j)
    BY <2>7
  <2>8. CASE IsPrimitive(T(j), {"unknown"})
    <3>1. IsJSONCompatible(w)
      BY <2>2, MatchedCompatible
    <3>2. Depth(T(j)) = 0 /\ MatchesPrimitive(w, T(j).name)
      BY <2>8, <3>1 DEF IsPrimitive, Depth, MatchesPrimitive
    <3>. QED  BY <2>3, <3>2, MatchUnfold
  <2>9. CASE IsNullable(T(j)) /\ (IF IsNullable(F(i)) THEN i - 1 ELSE i) \in A[j - 1]
    <3>1. w = Nil \/ M(w, T(j - 1))
      <4>1. CASE IsNullable(F(i))
        <5>1. i - 1 \in 0..Depth(from) /\ i - 1 \in A[j - 1] /\ j # 0
          BY <4>1, <2>9, <2>2, <2>3, <1>1
        <5>. QED  BY <5>1, <2>5, <2>6, <4>1
      <4>2. CASE ~IsNullable(F(i))
        <5>1. i \in A[j - 1] /\ j # 0
          BY <4>2, <2>9, <2>3
        <5>. QED  BY <5>1, <2>5
      <4>. QED  BY <4>1, <4>2
    <3>. QED  BY <2>3, <2>9, <3>1, MatchUnfold
  <2>10. CASE IsArray(F(i)) /\ IsArray(T(j)) /\ i - 1 \in A[j - 1]
    <3>1. IsArrayValue(w) /\ \A e \in Items(w) : M(e, F(i - 1))
      BY <2>2, <2>10, MatchUnfold
    <3>2. i - 1 \in 0..Depth(from) /\ j # 0
      BY <2>10, <2>2, <2>3, <1>1
    <3>3. \A e \in Items(w) : M(e, T(j - 1))
      BY <2>5, <2>10, <3>1, <3>2
    <3>4. \A e \in Items(w) : M(e, Of(T(j)))
      BY <2>3, <2>10, <3>3
    <3>5. IsArrayValue(w) /\ IsArray(T(j)) /\ T(j) \in Types
      BY <2>3, <2>10, <3>1
    <3>. HIDE DEF T
    <3>. QED  BY <3>4, <3>5, MatchUnfold
  <2>. QED  BY <2>4, <2>7, <2>8, <2>9, <2>10
<1>. HIDE DEF C
<1>3. 0 \in S
  BY <1>2
<1>4. ASSUME NEW j \in S  PROVE j + 1 \in S
  BY <1>2
<1>5. S = Nat
  BY <1>3, <1>4, Induct
<1>6. C(Depth(to))
  BY <1>1, <1>5
<1>7. Depth(from) \in 0..Depth(from) /\ Depth(from) \in A[Depth(to)]
  BY <1>1 DEF IsAssignable
<1>8. M(v, F(Depth(from)))
  BY InnerWhole
<1>9. M(v, T(Depth(to)))
  BY <1>1, <1>6, <1>7, <1>8 DEF C
<1>. QED  BY <1>9, InnerWhole

-----------------------------------------------------------------------------
(* Literals.                                                               *)

(* A name alone denotes its primitive type. *)
LEMMA ParseName ==
    ASSUME NEW name \in Primitives
    PROVE  Parse(<<name>>) = <<Primitive(name)>>
<1>. DEFINE s == <<name>>
            made == [type |-> <<Primitive(name)>>, rest |-> 2]
            Body(g, i) ==
                IF At(s, i, {"("})
                THEN LET inner == g[i + 1]
                     IN  IF inner.type # <<>> /\ At(s, inner.rest, {")"})
                         THEN ParseSuffixes(s, inner.type[1], inner.rest + 1) ELSE Unparsed(i)
                ELSE IF At(s, i, Primitives) THEN ParseSuffixes(s, Primitive(s[i]), i + 1)
                ELSE Unparsed(i)
<1>1. Len(s) = 1 /\ s[1] = name /\ name \notin {"(", "[]", "?"}
  BY DEF Primitives, Integers, Floats
<1>2. ParseSuffixes(s, Primitive(name), 2) = made
  <2>. DEFINE Ends == {j \in 2..(Len(s) + 1) : ~At(s, j, {"[]", "?"})}
              marks == Primitive(name).marks \o SubSeq(s, 2, Min(Ends) - 1)
  <2>1. Ends = {2}
    BY <1>1 DEF At
  <2>2. Min({2}) = 2
    BY DEF Min
  <2>3. SubSeq(s, 2, 1) = <<>>
    OBVIOUS
  <2>. HIDE DEF Ends, s
  <2>8. Primitive(name).marks = <<>> /\ Min(Ends) - 1 = 1
    BY <2>1, <2>2 DEF Primitive
  <2>4. marks = <<>>
    BY <2>3, <2>8
  <2>. HIDE DEF marks
  <2>5. DOMAIN marks = {}
    BY <2>4
  <2>6. ParseSuffixes(s, Primitive(name), 2) =
           IF \E k \in DOMAIN marks \ {1} : marks[k] = "?" /\ marks[k - 1] = "?"
           THEN Unparsed(2)
           ELSE [type |-> <<[name |-> Primitive(name).name, marks |-> marks]>>, rest |-> Min(Ends)]
    BY DEF ParseSuffixes, marks, Ends
  <2>7. Min(Ends) = 2
    BY <2>1, <2>2
  <2>. QED  BY <2>4, <2>5, <2>6, <2>7 DEF Primitive
<1>3. ~At(s, 1, {"("}) /\ At(s, 1, Primitives) /\ \A x : ~At(s, 2, x)
  BY <1>1 DEF At
<1>. HIDE DEF made
<1>4. \A g : Body(g, 1) = made /\ Body(g, 2) = Unparsed(2)
  BY <1>1, <1>2, <1>3
<1>5. 1..(Len(s) + 1) = {1, 2}
  BY <1>1
<1>. HIDE DEF Body
<1>6. \A g : [i \in 1..(Len(s) + 1) |-> Body(g, i)] =
                [i \in {1, 2} |-> IF i = 1 THEN made ELSE Unparsed(2)]
  BY <1>4, <1>5
<1>7. \E g : g = [i \in 1..(Len(s) + 1) |-> Body(g, i)]
  BY <1>6
<1>8. ParseType(s) = (CHOOSE g : g = [i \in 1..(Len(s) + 1) |-> Body(g, i)])[1]
  BY DEF ParseType, Body
<1>9. ParseType(s) = made
  BY <1>6, <1>7, <1>8
<1>. QED  BY <1>1, <1>9 DEF Parse, made

(* The literals of a document, as the parser makes them. *)
LEMMA PrimitiveOf ==
    ASSUME NEW name \in Primitives, NEW t \in Types, IsAssignable(Primitive(name), t)
    PROVE  /\ t.name \in {name, "unknown"}
           /\ \A n \in 1..Depth(t) : t.marks[n] = "?"
<1>. DEFINE from == Primitive(name)
            A == Assignable(from, t)
            C(n) == n <= Depth(t) /\ 0 \in A[n] =>
                       t.name \in {name, "unknown"} /\ \A k \in 1..n : t.marks[k] = "?"
            S == {n \in Nat : C(n)}
<1>1. from \in Types /\ Depth(from) = 0 /\ Inner(from, 0) = from
  <2>1. from \in Types /\ Depth(from) = 0
    BY DEF Primitive, Types, Depth
  <2>. QED  BY <2>1, InnerWhole
<1>2. Depth(t) \in Nat
  BY TypeFacts
<1>3. ~IsNullable(from) /\ ~IsArray(from) /\ from.name = name /\ from.marks = <<>>
  BY DEF Primitive, IsNullable, IsArray
<1>. HIDE DEF from
<1>4. ASSUME NEW n \in Nat, n <= Depth(t), 0 \in A[n]
      PROVE  \/ n = 0 /\ t.name \in {name, "unknown"}
             \/ n # 0 /\ 0 \in A[n - 1] /\ t.marks[n] = "?"
  <2>1. n \in 0..Depth(t) /\ 0 \in 0..Depth(from)
    BY <1>1, <1>2, <1>4
  <2>2. \/ from = Inner(t, n)
        \/ IsPrimitive(Inner(t, n), {"unknown"})
        \/ IsNullable(Inner(t, n)) /\ 0 \in A[n - 1]
    BY <2>1, <1>1, <1>3, <1>4, AssignableStep
  <2>3. /\ Inner(t, n) \in Types /\ Depth(Inner(t, n)) = n /\ Inner(t, n).name = t.name
        /\ \A k \in 1..n : Inner(t, n).marks[k] = t.marks[k]
    BY <2>1, InnerFacts
  <2>4. CASE from = Inner(t, n)
    BY <2>4, <2>3, <1>1, <1>3
  <2>5. CASE IsPrimitive(Inner(t, n), {"unknown"})
    <3>1. Depth(Inner(t, n)) = 0
      BY <2>5 DEF IsPrimitive, Depth
    <3>. QED  BY <2>3, <2>5, <3>1 DEF IsPrimitive
  <2>6. CASE IsNullable(Inner(t, n)) /\ 0 \in A[n - 1]
    <3>1. n # 0
      BY <2>1, <2>6, InnerMarks
    <3>2. n \in 1..n
      BY <3>1
    <3>. QED  BY <2>3, <2>6, <3>1, <3>2 DEF IsNullable
  <2>. QED  BY <2>2, <2>4, <2>5, <2>6
<1>5. 0 \in S
  BY <1>4
<1>6. ASSUME NEW n \in S  PROVE n + 1 \in S
  <2>. SUFFICES ASSUME n + 1 <= Depth(t), 0 \in A[n + 1]
                PROVE  t.name \in {name, "unknown"} /\ \A k \in 1..(n + 1) : t.marks[k] = "?"
    OBVIOUS
  <2>1. n + 1 # 0 /\ (n + 1) - 1 = n /\ n <= Depth(t) /\ n + 1 \in Nat
    BY <1>2
  <2>2. 0 \in A[n] /\ t.marks[n + 1] = "?"
    BY <2>1, <1>4
  <2>. QED  BY <2>1, <2>2
<1>. HIDE DEF C
<1>7. S = Nat
  BY <1>5, <1>6, Induct
<1>8. C(Depth(t)) /\ 0 \in A[Depth(t)]
  BY <1>1, <1>2, <1>7 DEF IsAssignable, from
<1>. QED  BY <1>2, <1>8 DEF C

(* What the compiler takes for a literal of a type, the executor makes a   *)
(* value of that type of.                                                  *)
THEOREM LiteralNormal ==
    ASSUME NEW v, IsLiteral(v), NEW t \in Types, IsValueAssignable(v, t)
    PROVE  NormalizeJSONResult(Decoded(RawJSON(v)), t) # <<>>
<1>. DEFINE w == Decoded(RawJSON(v))
            N == Normalized(w, t)
            Fine(n) == N[n][w] # <<>>
            S == {n \in Nat : n <= Depth(t) => Fine(n)}
<1>1. /\ w = Nil <=> v[1] = "null"
      /\ w[1] \in {"nil", "number", "string", "bool"}
      /\ v[1] \in Numbers => w = <<"number", v[2]>>
      /\ v[1] \in {"string", "bool"} => w[1] = v[1]
  BY DEF IsLiteral, Decoded, RawJSON, Numbers, Nil
<1>2. IsJSONCompatible(w)
  <2>1. Items(w) = {}
    BY <1>1 DEF Items, IsList
  <2>2. Parts(w, MaxNesting) = {w}
    BY <2>1, PartsAlone, BuiltInsAssumption
  <2>. QED  BY <1>1, <2>2 DEF IsJSONCompatible
<1>3. Depth(t) \in Nat /\ w \in Parts(w, Depth(t))
  BY TypeFacts, PartsGrow
<1>4. /\ N[0][w] = NormalizePrimitive(w, t.name)
      /\ \A n \in 1..Depth(t) : N[n][w] = Under(t.marks[n], w, N[n - 1])
  BY <1>2, <1>3, NormalizedStep
<1>. HIDE DEF w, N
<1>5. CASE v[1] = "null"
  <2>1. w = Nil /\ (IsNullable(t) \/ IsPrimitive(t, {"unknown"}))
    BY <1>1, <1>5 DEF IsValueAssignable
  <2>2. CASE IsNullable(t)
    <3>1. Depth(t) \in 1..Depth(t) /\ t.marks[Depth(t)] = "?"
      BY <2>2, <1>3 DEF IsNullable, Depth, Types
    <3>2. N[Depth(t)][w] = <<w>>
      BY <1>4, <2>1, <3>1 DEF Under
    <3>. QED  BY <3>2 DEF NormalizeJSONResult, N, w
  <2>3. CASE IsPrimitive(t, {"unknown"})
    <3>1. Depth(t) = 0 /\ t.name = "unknown"
      BY <2>3 DEF IsPrimitive, Depth
    <3>2. N[0][w] = <<w>>
      BY <1>4, <3>1 DEF NormalizePrimitive
    <3>. QED  BY <3>1, <3>2 DEF NormalizeJSONResult, N, w
  <2>. QED  BY <2>1, <2>2, <2>3
<1>6. CASE v[1] # "null"
  <2>1. v[1] \in Primitives /\ IsAssignable(Primitive(v[1]), t) /\ w # Nil
    BY <1>1, <1>6 DEF IsLiteral, IsValueAssignable, ValueType, Primitives, Integers, Floats
  <2>2. t.name \in {v[1], "unknown"} /\ \A n \in 1..Depth(t) : t.marks[n] = "?"
    BY <2>1, PrimitiveOf
  <2>3. NormalizePrimitive(w, t.name) # <<>>
    <3>1. CASE t.name = "unknown"
      BY <3>1 DEF NormalizePrimitive
    <3>2. CASE v[1] \in {"string", "bool"} /\ t.name = v[1]
      BY <3>2, <1>1 DEF NormalizePrimitive, Given
    <3>3. CASE v[1] = "int" /\ t.name = v[1]
      <4>1. w = <<"number", v[2]>> /\ Fits(v[2], "int") /\ "int" \in Integers
        BY <1>1, <3>3 DEF IsLiteral, Numbers, Integers
      <4>2. w[1] = "number" /\ w[2] = v[2]
        BY <4>1
      <4>. QED  BY <3>3, <4>1, <4>2 DEF NormalizePrimitive, Given
    <3>4. CASE v[1] = "float" /\ t.name = v[1]
      <4>1. w[1] = "number" /\ "float" \notin Integers
        BY <1>1, <3>4 DEF Numbers, Integers
      <4>. QED  BY <3>4, <4>1 DEF NormalizePrimitive, Given
    <3>. QED  BY <2>2, <3>1, <3>2, <3>3, <3>4, <1>6 DEF IsLiteral
  <2>4. 0 \in S
    BY <1>4, <2>3
  <2>5. ASSUME NEW n \in S  PROVE n + 1 \in S
    <3>. SUFFICES ASSUME n + 1 <= Depth(t)  PROVE Fine(n + 1)
      OBVIOUS
    <3>1. n + 1 \in 1..Depth(t) /\ (n + 1) - 1 = n /\ n <= Depth(t)
      BY <1>3
    <3>2. N[n + 1][w] = N[n][w]
      BY <1>4, <2>1, <2>2, <3>1 DEF Under
    <3>. QED  BY <3>1, <3>2
  <2>6. S = Nat
    BY <2>4, <2>5, Induct
  <2>7. Fine(Depth(t))
    BY <1>3, <2>6
  <2>. QED  BY <2>7 DEF NormalizeJSONResult, N, w
<1>. QED  BY <1>5, <1>6

-----------------------------------------------------------------------------
(* Calls of built-ins, as they are compiled.                               *)

(* A call that the compiler made of a node it found no flaw in. *)
Checked(c, n) ==
    /\ IsParsed(n) /\ BuiltIn(c.target.name)
    /\ c = Call([kind |-> "builtin", name |-> c.target.name], n, c.input, c.output)
    /\ BuiltInFlaws(n, c.input, c.target.name) = {}
    /\ ApplyBuiltin(c.target.name, c.input, n) # <<>>
    /\ c.output = ApplyBuiltin(c.target.name, c.input, n)[1]

FromNodes(calls) ==
    /\ \E X : calls \in Seq(X)
    /\ \A i \in DOMAIN calls : calls[i].target.kind = "builtin" => \E n : Checked(calls[i], n)

(* A call without flaws is of a node without flaws. *)
LEMMA CallFromNode ==
    ASSUME NEW p, NEW path, NEW n, IsParsed(n), NEW input,
           CompileTransformCall(p, path, n, input).flaws = {},
           CompileTransformCall(p, path, n, input).call.target.kind = "builtin"
    PROVE  Checked(CompileTransformCall(p, path, n, input).call, n)
<1>. DEFINE made == CompileTransformCall(p, path, n, input)
            parts == Default(StringArgument(n, 1), <<>>)
            symbol == Resolve(p, path, parts)
            d == Declared(p, symbol[1])[symbol[2]]
            out == ApplyBuiltin(parts[1], input, n)
<1>1. n.args # <<>> /\ made = CompileNamed(p, n, parts, symbol, input)
  BY DEF CompileTransformCall, Refused
<1>. HIDE DEF made, parts, symbol
<1>2. made.flaws = {} /\ made.call.target.kind = "builtin"
  BY DEF made
<1>3. CASE Len(parts) = 1 /\ BuiltIn(parts[1])
  <2>. DEFINE name == parts[1]
              type == IF out = <<>> THEN input ELSE out[1]
              target == [kind |-> "builtin", name |-> name]
  <2>1. made = CompileBuiltIn(n, name, input, out)
    BY <1>1, <1>3 DEF CompileNamed
  <2>. HIDE DEF out, name
  <2>2. made.call = Call(target, n, input, type) /\ made.flaws = BuiltInFlaws(n, input, name)
    BY <2>1 DEF CompileBuiltIn
  <2>3. BuiltInFlaws(n, input, name) = {}
    BY <1>2, <2>2
  <2>4. ApplyBuiltin(name, input, n) # <<>>
    BY <2>3 DEF BuiltInFlaws, Flag
  <2>5. out # <<>> /\ type = ApplyBuiltin(name, input, n)[1]
    BY <2>4 DEF out, name
  <2>. HIDE DEF type
  <2>6. /\ made.call.target = target /\ made.call.input = input /\ made.call.output = type
    BY <2>2 DEF Call
  <2>7. made.call.target.name = name /\ made.call = Call(target, n, input, type)
    BY <2>2, <2>6
  <2>8. BuiltIn(name)
    BY <1>3 DEF name
  <2>. QED  BY <2>3, <2>4, <2>5, <2>6, <2>7, <2>8 DEF Checked, made
<1>4. CASE ~(Len(parts) = 1 /\ BuiltIn(parts[1])) /\ symbol = <<>>
  <2>1. made = Refused(input, {"E_TRANSFORM_UNKNOWN"})
    BY <1>1, <1>4 DEF CompileNamed
  <2>. QED  BY <1>2, <2>1 DEF Refused
<1>5. CASE ~(Len(parts) = 1 /\ BuiltIn(parts[1])) /\ symbol # <<>>
  <2>1. made = CompileDeclared(n, symbol, input, d)
    BY <1>1, <1>5 DEF CompileNamed
  <2>. HIDE DEF d
  <2>2. made.call.target.kind = "declared"
    BY <2>1 DEF CompileDeclared, Call
  <2>. QED  BY <1>2, <2>2
<1>. QED  BY <1>3, <1>4, <1>5

(* The chain of calls, one by one. *)
LEMMA CompiledDef ==
    ASSUME NEW p, NEW path, NEW applies, NEW input, Len(applies) \in Nat
    PROVE  LET C == Compiled(p, path, applies, input)
           IN  /\ C[0] = [calls |-> <<>>, type |-> input, flaws |-> {}]
               /\ \A k \in 1..Len(applies) :
                     C[k] = Extended(C[k - 1],
                                     CompileTransformCall(p, path, applies[k], C[k - 1].type))
<1>. DEFINE none == [calls |-> <<>>, type |-> input, flaws |-> {}]
            Add(c, k) == Extended(c, CompileTransformCall(p, path, applies[k], c.type))
            Body(g, k) == IF k = 0 THEN none ELSE Add(g[k - 1], k)
            S == {m \in Nat : \E g : g = [k \in 0..m |-> Body(g, k)]}
<1>0. \A g, k : Body(g, k) = IF k = 0 THEN none
                             ELSE Extended(g[k - 1],
                                     CompileTransformCall(p, path, applies[k], g[k - 1].type))
  OBVIOUS
<1>. HIDE DEF none, Add
<1>1. 0 \in S
  <2>. DEFINE g == [k \in 0..0 |-> none]
  <2>1. g = [k \in 0..0 |-> Body(g, k)]
    OBVIOUS
  <2>. QED  BY <2>1
<1>2. ASSUME NEW m \in S  PROVE m + 1 \in S
  <2>1. PICK g : g = [k \in 0..m |-> Body(g, k)]
    OBVIOUS
  <2>. DEFINE h == [k \in 0..(m + 1) |-> IF k <= m THEN g[k] ELSE Body(g, m + 1)]
  <2>2. \A k \in 0..m : h[k] = g[k]
    OBVIOUS
  <2>6. \A k \in 0..m : g[k] = Body(g, k)
    BY <2>1
  <2>7. h[m + 1] = Body(g, m + 1)
    OBVIOUS
  <2>3. \A k \in 0..(m + 1) : h[k] = Body(h, k)
    <3>. HIDE DEF h
    <3>. SUFFICES ASSUME NEW k \in 0..(m + 1)  PROVE h[k] = Body(h, k)
      OBVIOUS
    <3>1. k # 0 => k - 1 \in 0..m /\ h[k - 1] = g[k - 1]
      BY <2>2
    <3>2. h[k] = Body(g, k)
      <4>1. CASE k <= m
        BY <4>1, <2>2, <2>6
      <4>2. CASE k = m + 1
        BY <4>2, <2>7
      <4>. QED  BY <4>1, <4>2
    <3>. QED  BY <3>1, <3>2
  <2>4. h = [k \in 0..(m + 1) |-> h[k]]
    OBVIOUS
  <2>. HIDE DEF h, Body
  <2>5. \E x : x = [k \in 0..(m + 1) |-> Body(x, k)]
    BY <2>3, <2>4
  <2>. QED  BY <2>5
<1>3. S = Nat
  BY <1>1, <1>2, Induct
<1>4. PICK g : g = [k \in 0..Len(applies) |-> Body(g, k)]
  BY <1>3
<1>. DEFINE C == Compiled(p, path, applies, input)
<1>5. C = CHOOSE h1 : h1 = [k \in 0..Len(applies) |-> Body(h1, k)]
  BY DEF Compiled, none, Add
<1>6. C = [k \in 0..Len(applies) |-> Body(C, k)]
  BY <1>4, <1>5
<1>. HIDE DEF C, Body
<1>7. \A k \in 0..Len(applies) : C[k] = Body(C, k)
  BY <1>6
<1>8. C[0] = none
  BY <1>7 DEF Body
<1>9. \A k \in 1..Len(applies) : C[k] = Add(C[k - 1], k)
  BY <1>7 DEF Body
<1>. QED  BY <1>8, <1>9 DEF C, none, Add

(* A chain without flaws is one of calls of nodes without flaws. *)
LEMMA ChainFromNodes ==
    ASSUME NEW p, NEW path, NEW applies, NEW input, Len(applies) \in Nat,
           \A k \in 1..Len(applies) : IsParsed(applies[k]),
           CompileCalls(p, path, applies, input).flaws = {}
    PROVE  FromNodes(CompileCalls(p, path, applies, input).calls)
<1>. DEFINE C == Compiled(p, path, applies, input)
            Made(k) == CompileTransformCall(p, path, applies[k], C[k - 1].type)
            Good(c) == c.target.kind = "builtin" => \E n : Checked(c, n)
            Fine(k) == k <= Len(applies) /\ C[k].flaws = {} =>
                          \E X : C[k].calls \in Seq(X) /\ \A c \in X : Good(c)
            S == {k \in Nat : Fine(k)}
<1>0. /\ C[0] = [calls |-> <<>>, type |-> input, flaws |-> {}]
      /\ \A k \in 1..Len(applies) :
            C[k] = Extended(C[k - 1], CompileTransformCall(p, path, applies[k], C[k - 1].type))
  BY CompiledDef
<1>1. C[0].calls = <<>> /\ \A k \in 1..Len(applies) : C[k] = Extended(C[k - 1], Made(k))
  <2>. HIDE DEF C
  <2>. QED  BY <1>0
<1>2. ASSUME NEW k \in 1..Len(applies), Made(k).flaws = {}  PROVE Good(Made(k).call)
  BY <1>2, CallFromNode
<1>. HIDE DEF C, Made, Good
<1>3. 0 \in S
  <2>1. C[0].calls \in Seq({})
    BY <1>1
  <2>. QED  BY <2>1
<1>4. ASSUME NEW k \in S  PROVE k + 1 \in S
  <2>. SUFFICES ASSUME k + 1 <= Len(applies), C[k + 1].flaws = {}
                PROVE  \E X : C[k + 1].calls \in Seq(X) /\ \A c \in X : Good(c)
    OBVIOUS
  <2>1. k + 1 \in 1..Len(applies) /\ (k + 1) - 1 = k /\ k <= Len(applies)
    OBVIOUS
  <2>2. C[k + 1] = Extended(C[k], Made(k + 1))
    BY <1>1, <2>1
  <2>3. /\ C[k + 1].calls = Append(C[k].calls, Made(k + 1).call)
        /\ C[k].flaws = {} /\ Made(k + 1).flaws = {}
    BY <2>2 DEF Extended
  <2>4. Good(Made(k + 1).call)
    BY <1>2, <2>1, <2>3
  <2>5. PICK X : C[k].calls \in Seq(X) /\ \A c \in X : Good(c)
    BY <2>1, <2>3
  <2>. DEFINE Y == X \cup {Made(k + 1).call}
  <2>6. \A c \in Y : Good(c)
    BY <2>4, <2>5
  <2>7. C[k].calls \in Seq(Y) /\ Made(k + 1).call \in Y
    <3>1. \A s \in Seq(X) : s \in Seq(Y)
      OBVIOUS
    <3>. QED  BY <2>5, <3>1
  <2>. HIDE DEF Y
  <2>8. C[k + 1].calls \in Seq(Y)
    BY <2>3, <2>7, AppendProperties
  <2>. QED  BY <2>6, <2>8
<1>. HIDE DEF Fine
<1>5. S = Nat
  BY <1>3, <1>4, Induct
<1>6. Fine(Len(applies)) /\ C[Len(applies)] = CompileCalls(p, path, applies, input)
  BY <1>5 DEF CompileCalls, C
<1>7. PICK X : CompileCalls(p, path, applies, input).calls \in Seq(X) /\ \A c \in X : Good(c)
  BY <1>6 DEF Fine
<1>. DEFINE calls == CompileCalls(p, path, applies, input).calls
<1>. HIDE DEF calls
<1>8. calls \in Seq(X) /\ \A i \in DOMAIN calls : calls[i] \in X
  BY <1>7 DEF calls
<1>9. \A i \in DOMAIN calls : Good(calls[i])
  BY <1>7, <1>8
<1>. QED  BY <1>8, <1>9 DEF FromNodes, Good, calls

(* Every call of a program that the compiler took is made of a node that   *)
(* it found no flaw in.                                                    *)
LEMMA CallsFromNodes ==
    ASSUME NEW case \in Corpus, NEW p, p = Written(case), Flaws(p) = {},
           NEW f \in FieldsOf(Extractor(p).output), NEW calls \in Chains(Extractor(p), f)
    PROVE  FromNodes(calls)
<1>. DEFINE root == Root(p[Main])
<1>1. /\ \A path \in Documents(p) : \A name \in DOMAIN Declared(p, path) :
            TransformFlaws(p, path, Declared(p, path)[name]) = {}
      /\ OutputFlaws(p, root, OwnerMode(root)) = {}
  <2>1. LoadFlaws(p) = {}
    BY DEF Flaws
  <2>2. /\ (UNION {UNION {TransformFlaws(p, path, Declared(p, path)[name]) :
                              name \in DOMAIN Declared(p, path)} : path \in Documents(p)}) = {}
        /\ OutputFlaws(p, root, OwnerMode(root)) = {}
    BY <2>1 DEF Flaws
  <2>. QED  BY <2>2
<1>2. \A applies \in Applied(p) : Len(applies) \in Nat /\ \A k \in 1..Len(applies) : IsParsed(applies[k])
  BY ParserAssumption
<1>3. CASE calls = f.calls
  <2>1. PICK n \in Fields(root) : \E id : f = FieldIR(p, n, id)
    BY FieldShape
  <2>2. calls = CompileCalls(p, Main, Applies(n), RawType(n)).calls
    BY <1>3, <2>1 DEF FieldIR
  <2>3. \E inRow, mode : FieldFlaws(p, n, inRow, mode) = {}
    <3>1. PICK at \in Sections(root) : \E i \in DOMAIN MembersAt(root, at) :
                    MembersAt(root, at)[i].name = "field" /\ MembersAt(root, at)[i] = n
      BY <2>1 DEF Fields, NamedMembers
    <3>. DEFINE members == MembersAt(root, at)
                inRow == at # <<>>
                mode == OwnerMode(root)
    <3>2. PICK i \in DOMAIN members : members[i].name = "field" /\ members[i] = n
      BY <3>1
    <3>3. SectionFlaws(p, members, inRow, mode) = {}
      BY <1>1 DEF OutputFlaws
    <3>. HIDE DEF members, inRow, mode
    <3>4. FieldFlaws(p, members[i], inRow, mode) = {}
      BY <3>2, <3>3 DEF SectionFlaws, UnionOf
    <3>. QED  BY <3>2, <3>4
  <2>4. CompileCalls(p, Main, Applies(n), RawType(n)).flaws = {}
    BY <2>3 DEF FieldFlaws, ChainFlaws
  <2>5. Applies(n) \in Applied(p)
    BY <2>1 DEF Applied
  <2>. QED  BY <1>2, <2>2, <2>4, <2>5, ChainFromNodes
<1>4. CASE \E t \in Kinded(Extractor(p).transforms, "pipeline") : calls = t.calls
  <2>1. PICK t \in Transforms(p) : t.kind = "pipeline" /\ calls = t.calls
    BY <1>4 DEF Kinded, Extractor
  <2>2. PICK path \in Documents(p) : \E name \in DOMAIN Declared(p, path) :
                t = TransformIR(p, path, name, Declared(p, path)[name])
    BY DEF Transforms
  <2>3. PICK name \in DOMAIN Declared(p, path) :
                t = TransformIR(p, path, name, Declared(p, path)[name])
    BY <2>2
  <2>. DEFINE d == Declared(p, path)[name]
              body == Bodies(d.node)[1]
  <2>4. TransformFlaws(p, path, d) = {}
    BY <1>1
  <2>5. Applies(body) \in Applied(p)
    BY DEF Applied
  <2>. HIDE DEF d
  <2>6. t = TransformIR(p, path, name, d)
    BY <2>3 DEF d
  <2>. HIDE DEF body
  <2>7. body.name = "pipeline" /\ calls = CompileCalls(p, path, Applies(body), d.input).calls
    BY <2>1, <2>6 DEF TransformIR, body
  <2>8. PipelineFlaws(p, path, d, body) = {}
    BY <2>4, <2>7 DEF TransformFlaws, body
  <2>9. CompileCalls(p, path, Applies(body), d.input).flaws = {}
    BY <2>8 DEF PipelineFlaws, ChainFlaws
  <2>. QED  BY <1>2, <2>5, <2>7, <2>9, ChainFromNodes
<1>. QED  BY <1>3, <1>4 DEF Chains

-----------------------------------------------------------------------------
(* The arguments that a call of a built-in has at run time.                *)

(* A set of numbers that has a bound has a maximum. *)
LEMMA MaxIn ==
    ASSUME NEW n \in Nat, NEW T \in SUBSET (1..n), T # {}
    PROVE  Max(T) \in T
<1>. DEFINE U == {k \in Nat : n - k \in T}
<1>1. U # {} /\ U \in SUBSET Nat
  <2>1. PICK y \in T : TRUE
    OBVIOUS
  <2>2. n - y \in Nat /\ n - (n - y) = y
    OBVIOUS
  <2>. QED  BY <2>1, <2>2
<1>2. PICK x \in U : \A y \in U : x <= y
  BY <1>1, Least
<1>3. n - x \in T
  BY <1>2
<1>4. ASSUME NEW y \in T  PROVE n - x >= y
  <2>1. n - y \in Nat /\ n - (n - y) = y
    OBVIOUS
  <2>2. x <= n - y
    BY <2>1, <1>2
  <2>. QED  BY <2>2, <1>2
<1>5. \E z \in T : \A y \in T : z >= y
  BY <1>3, <1>4
<1>. QED  BY <1>5 DEF Max

(* An argument is what the node's last property of the name became. *)
LEMMA ArgumentFacts ==
    ASSUME NEW c, NEW n, Checked(c, n), NEW x
    PROVE  /\ ~HasProperty(n, x) => Argument(c, x) = <<"absent">> /\ x \notin Required(c.target.name)
           /\ HasProperty(n, x) =>
                 /\ Argument(c, x) = RawJSON(Property(n, x)) /\ IsLiteral(Property(n, x))
                 /\ x \in DOMAIN Allowed[c.target.name]
                 /\ MatchesExpectation(Property(n, x), Allowed[c.target.name][x])
                 /\ \E a \in ToSet(c.named) : a.name = x /\ a.value = Argument(c, x)
<1>. DEFINE name == c.target.name
            at == {i \in DOMAIN c.named : c.named[i].name = x}
<1>1. c.named = [i \in DOMAIN n.props |->
                    [name |-> n.props[i].name, value |-> RawJSON(n.props[i].value)]]
  <2>. DEFINE target == [kind |-> "builtin", name |-> name]
  <2>. HIDE DEF target
  <2>1. c = Call(target, n, c.input, c.output)
    BY DEF Checked, target
  <2>. QED  BY <2>1 DEF Call
<1>2. DOMAIN c.named = DOMAIN n.props /\ at = Positions(n, x)
  BY <1>1 DEF Positions
<1>3. BuiltInFlaws(n, c.input, name) = {}
  BY DEF Checked
<1>4. CASE ~HasProperty(n, x)
  <2>1. at = {}
    BY <1>2, <1>4 DEF HasProperty
  <2>2. Argument(c, x) = <<"absent">>
    BY <2>1 DEF Argument
  <2>3. Required(name) \subseteq {q.name : q \in ToSet(n.props)}
    BY <1>3 DEF BuiltInFlaws, Flag
  <2>4. ~\E i \in DOMAIN n.props : n.props[i].name = x
    BY <1>4 DEF HasProperty, Positions
  <2>5. x \notin {q.name : q \in ToSet(n.props)}
    BY <2>4 DEF ToSet
  <2>. QED  BY <1>4, <2>2, <2>3, <2>5
<1>5. CASE HasProperty(n, x)
  <2>. DEFINE i == Max(Positions(n, x))
              known == {j \in DOMAIN n.props : n.props[j].name \in DOMAIN Allowed[name]}
  <2>1. Len(n.props) \in Nat /\ DOMAIN n.props = 1..Len(n.props)
    BY DEF Checked, IsParsed
  <2>2. Positions(n, x) # {} /\ Positions(n, x) \in SUBSET (1..Len(n.props))
    BY <1>5, <2>1 DEF HasProperty, Positions
  <2>3. i \in Positions(n, x)
    BY <2>1, <2>2, MaxIn
  <2>4. i \in DOMAIN n.props /\ n.props[i].name = x
    BY <2>3 DEF Positions
  <2>5. Property(n, x) = n.props[i].value
    BY DEF Property
  <2>6. Argument(c, x) = c.named[i].value
    BY <1>2, <2>2 DEF Argument
  <2>. HIDE DEF i
  <2>7. c.named[i].value = RawJSON(Property(n, x)) /\ c.named[i].name = x
    BY <1>1, <2>4, <2>5
  <2>8. IsLiteral(Property(n, x))
    BY <2>4, <2>5 DEF Checked, IsParsed
  <2>9. ValidateNode(n, 1..Len(n.args), Allowed[name]) = {}
    BY <1>3 DEF BuiltInFlaws
  <2>10. /\ known = DOMAIN n.props
         /\ \A j \in known : MatchesExpectation(n.props[j].value, Allowed[name][n.props[j].name])
    BY <2>9 DEF ValidateNode, Flag
  <2>11. x \in DOMAIN Allowed[name] /\ MatchesExpectation(Property(n, x), Allowed[name][x])
    BY <2>4, <2>5, <2>10
  <2>12. c.named[i] \in ToSet(c.named)
    BY <1>2, <2>4 DEF ToSet
  <2>. QED  BY <1>5, <2>6, <2>7, <2>8, <2>11, <2>12
<1>. QED  BY <1>4, <1>5

(* Where a text is expected, the argument is the text, or is not there. *)
LEMMA TextArgument ==
    ASSUME NEW c, NEW n, Checked(c, n), NEW x \in DOMAIN Allowed[c.target.name],
           Allowed[c.target.name][x] = "string"
    PROVE  /\ Absent(c, x) \/ IsText(c, x)
           /\ Absent(c, x) => StringProperty(n, x) = None /\ x \notin Required(c.target.name)
           /\ IsText(c, x) => Argument(c, x)[2] = StringProperty(n, x) /\ StringProperty(n, x) # None
<1>1. CASE ~HasProperty(n, x)
  <2>1. Argument(c, x) = <<"absent">> /\ x \notin Required(c.target.name)
    BY <1>1, ArgumentFacts
  <2>2. Absent(c, x) /\ ~IsText(c, x)
    BY <2>1 DEF Absent, IsText
  <2>3. StringProperty(n, x) = None
    BY <1>1 DEF StringProperty, ContentOf
  <2>. QED  BY <2>1, <2>2, <2>3
<1>2. CASE HasProperty(n, x)
  <2>. DEFINE v == Property(n, x)
  <2>1. Argument(c, x) = RawJSON(v) /\ IsLiteral(v) /\ MatchesExpectation(v, "string")
    BY <1>2, ArgumentFacts
  <2>2. StringProperty(n, x) = Content(v, "string")
    BY <1>2 DEF StringProperty, ContentOf
  <2>. HIDE DEF v
  <2>3. v[1] = "string"
    BY <2>1 DEF MatchesExpectation
  <2>4. Argument(c, x) = v /\ v[2] # None /\ StringProperty(n, x) = v[2]
    BY <2>1, <2>2, <2>3 DEF RawJSON, Numbers, IsLiteral, Content
  <2>5. IsText(c, x) /\ ~Absent(c, x)
    BY <2>3, <2>4 DEF IsText, Absent
  <2>. QED  BY <2>4, <2>5
<1>. QED  BY <1>1, <1>2

(* Where an integer is expected, it is the integer, or is not there. *)
LEMMA IntArgument ==
    ASSUME NEW c, NEW n, Checked(c, n), NEW x \in DOMAIN Allowed[c.target.name],
           Allowed[c.target.name][x] \in {"int", "non-negative-int"}
    PROVE  LET h == IntProperty(n, x)
           IN  /\ Absent(c, x) => h = None /\ x \notin Required(c.target.name)
               /\ ~Absent(c, x) =>
                     /\ Argument(c, x)[1] = "number" /\ Argument(c, x)[2] = h
                     /\ h # None /\ h \in Int /\ Fits(h, "int")
                     /\ Allowed[c.target.name][x] = "non-negative-int" => h >= 0
                     /\ ~Unusual(c) /\ x \in {"count", "start", "end", "limit", "index"} =>
                           Fits(h, "i32")
<1>. DEFINE h == IntProperty(n, x)
            e == Allowed[c.target.name][x]
<1>1. CASE ~HasProperty(n, x)
  <2>1. Argument(c, x) = <<"absent">> /\ x \notin Required(c.target.name)
    BY <1>1, ArgumentFacts
  <2>2. Absent(c, x)
    BY <2>1 DEF Absent
  <2>3. h = None
    BY <1>1 DEF IntProperty, ContentOf
  <2>. QED  BY <2>1, <2>2, <2>3
<1>2. CASE HasProperty(n, x)
  <2>. DEFINE v == Property(n, x)
  <2>1. /\ Argument(c, x) = RawJSON(v) /\ IsLiteral(v) /\ MatchesExpectation(v, e)
        /\ \E a \in ToSet(c.named) : a.name = x /\ a.value = Argument(c, x)
    BY <1>2, ArgumentFacts
  <2>2. h = Content(v, "int")
    BY <1>2 DEF IntProperty, ContentOf
  <2>. HIDE DEF v, h, e
  <2>3. v[1] = "int" /\ (e = "non-negative-int" => v[2] >= 0)
    BY <2>1 DEF MatchesExpectation, e
  <2>4. h = v[2] /\ h # None /\ h \in Int /\ Fits(h, "int")
    BY <2>1, <2>2, <2>3 DEF IsLiteral, Content
  <2>5. Argument(c, x) = <<"number", h>>
    BY <2>1, <2>3, <2>4 DEF RawJSON, Numbers
  <2>6. Argument(c, x)[1] = "number" /\ Argument(c, x)[2] = h
    BY <2>5
  <2>7. ~Absent(c, x)
    BY <2>6 DEF Absent
  <2>8. ~Unusual(c) /\ x \in {"count", "start", "end", "limit", "index"} => Fits(h, "i32")
    BY <2>1, <2>6 DEF Unusual
  <2>. QED  BY <2>3, <2>4, <2>6, <2>7, <2>8 DEF h, e
<1>. QED  BY <1>1, <1>2

(* What the table says of each built-in. *)
LEMMA AllowedFacts ==
    /\ \A name \in {"prepend", "append"} : Allowed[name] = [value |-> "string"]
    /\ \A name \in {"assert-min", "assert-max"} : Allowed[name] = [value |-> "number"]
    /\ Allowed["coalesce"] = [value |-> "scalar"]
    /\ Allowed["replace"] = [old |-> "string", new |-> "string", count |-> "non-negative-int"]
    /\ Allowed["regex-replace"] = [pattern |-> "string", replacement |-> "string",
                                   flags |-> "string", count |-> "non-negative-int"]
    /\ Allowed["regex-capture"] =
          [pattern |-> "string", group |-> "non-negative-int", flags |-> "string"]
    /\ Allowed["assert-matches"] = [pattern |-> "string", flags |-> "string"]
    /\ Allowed["substring"] = [start |-> "int", end |-> "int"]
    /\ Allowed["split"] = [separator |-> "string", limit |-> "non-negative-int"]
    /\ Allowed["join"] = [separator |-> "string"]
    /\ Allowed["parse-int"] = [as |-> "string", radix |-> "int"]
    /\ Allowed["parse-float"] = [as |-> "string"]
    /\ Allowed["parse-bool"] = [x \in {"case-sensitive", "true", "false"} |->
                                   IF x = "case-sensitive" THEN "bool" ELSE "string"]
    /\ Allowed["url-resolve"] = [base |-> "string"]
    /\ Allowed["url-query"] = [name |-> "string", index |-> "non-negative-int"]
    /\ Allowed["path-segment"] = [index |-> "int"]
<1>. DEFINE A(name) ==
        IF name \in {"prepend", "append"} THEN [value |-> "string"]
        ELSE IF name \in {"assert-min", "assert-max"} THEN [value |-> "number"]
        ELSE IF name = "coalesce" THEN [value |-> "scalar"]
        ELSE IF name = "replace"
        THEN [old |-> "string", new |-> "string", count |-> "non-negative-int"]
        ELSE IF name = "regex-replace"
        THEN [pattern |-> "string", replacement |-> "string", flags |-> "string",
              count |-> "non-negative-int"]
        ELSE IF name = "regex-capture"
        THEN [pattern |-> "string", group |-> "non-negative-int", flags |-> "string"]
        ELSE IF name = "assert-matches" THEN [pattern |-> "string", flags |-> "string"]
        ELSE IF name = "substring" THEN [start |-> "int", end |-> "int"]
        ELSE IF name = "split" THEN [separator |-> "string", limit |-> "non-negative-int"]
        ELSE IF name = "join" THEN [separator |-> "string"]
        ELSE IF name = "parse-int" THEN [as |-> "string", radix |-> "int"]
        ELSE IF name = "parse-float" THEN [as |-> "string"]
        ELSE IF name = "parse-bool"
        THEN [x \in {"case-sensitive", "true", "false"} |->
                 IF x = "case-sensitive" THEN "bool" ELSE "string"]
        ELSE IF name = "url-resolve" THEN [base |-> "string"]
        ELSE IF name = "url-query" THEN [name |-> "string", index |-> "non-negative-int"]
        ELSE IF name = "path-segment" THEN [index |-> "int"]
        ELSE NoProperties
<1>1. Allowed = [name \in Plain \cup WithProperties |-> A(name)]
  BY DEF Allowed
<1>. HIDE DEF A
<1>2. \A name \in WithProperties : Allowed[name] = A(name)
  BY <1>1
<1>. QED  BY <1>2 DEF A, WithProperties

-----------------------------------------------------------------------------
(* Built-ins: what the compiler types statically is what happens.          *)

(* An argument of a built-in is expected, and may have to be there. *)
LEMMA Expects ==
    ASSUME NEW c, NEW n, Checked(c, n), ~Unusual(c), NEW x
    PROVE  LET name == c.target.name
               e == Allowed[name][x]
           IN  /\ x \in DOMAIN Allowed[name] /\ e = "string" => IsTextIfAny(c, x)
               /\ x \in DOMAIN Allowed[name] /\ e = "string" /\ x \in Required(name) => IsText(c, x)
               /\ /\ x \in {"count", "start", "end", "limit", "index"} /\ x \in DOMAIN Allowed[name]
                  /\ e \in {"int", "non-negative-int"}
                  => /\ LiteralIntIfAny(c, x)
                     /\ x \in Required(name) => LiteralInt(c, x)
                     /\ e = "non-negative-int" => NonNegativeIfAny(c, x)
<1>. DEFINE name == c.target.name
            e == Allowed[name][x]
<1>1. ASSUME x \in DOMAIN Allowed[name], e = "string"
      PROVE  IsTextIfAny(c, x) /\ (x \in Required(name) => IsText(c, x))
  BY <1>1, TextArgument DEF IsTextIfAny
<1>2. ASSUME x \in {"count", "start", "end", "limit", "index"}, x \in DOMAIN Allowed[name],
             e \in {"int", "non-negative-int"}
      PROVE  /\ LiteralIntIfAny(c, x)
             /\ x \in Required(name) => LiteralInt(c, x)
             /\ e = "non-negative-int" => NonNegativeIfAny(c, x)
  <2>. DEFINE h == IntProperty(n, x)
  <2>1. /\ Absent(c, x) => x \notin Required(name)
        /\ ~Absent(c, x) =>
              /\ Argument(c, x)[1] = "number" /\ Argument(c, x)[2] = h
              /\ e = "non-negative-int" => h >= 0
              /\ Fits(h, "i32")
    BY <1>2, IntArgument
  <2>2. ~Absent(c, x) => LiteralInt(c, x)
    BY <2>1 DEF LiteralInt
  <2>3. ~Absent(c, x) /\ e = "non-negative-int" => LiteralInt(c, x) /\ Argument(c, x)[2] >= 0
    BY <2>1, <2>2
  <2>. QED  BY <2>1, <2>2, <2>3 DEF LiteralIntIfAny, NonNegativeIfAny
<1>. QED  BY <1>1, <1>2

(* The flaws of a call that has none, by their conditions. *)
LEMMA NoFlaws ==
    ASSUME NEW c, NEW n, Checked(c, n)
    PROVE  LET name == c.target.name
               flags == StringProperty(n, "flags")
               pattern == StringProperty(n, "pattern")
               group == IntProperty(n, "group")
               radix == IntProperty(n, "radix")
               base == StringProperty(n, "base")
           IN  /\ flags # None => PortableFlags(flags)
               /\ pattern # None => pattern \in DOMAIN Captures
               /\ name = "regex-capture" /\ pattern # None /\ group # None =>
                     ~(group > 2 * Captures[pattern])
               /\ name = "parse-int" /\ radix # None => radix \in 4..72
               /\ name = "coalesce" /\ HasProperty(n, "value") /\ IsNullable(c.input) =>
                     IsValueAssignable(Property(n, "value"), Of(c.input))
               /\ name = "url-resolve" /\ base # None => base \in BaseURLs
<1>. DEFINE name == c.target.name
<1>1. ValidateBuiltinArguments(name, c.input, n) = {}
  BY DEF Checked, BuiltInFlaws
<1>2. RegexFlaws(name, n) = {}
  BY <1>1 DEF ValidateBuiltinArguments
<1>. DEFINE flags == StringProperty(n, "flags")
            pattern == StringProperty(n, "pattern")
            compiles == /\ pattern \in DOMAIN Captures
                        /\ flags = None \/ ToSet(flags) \subseteq {"i", "m", "s", "U"}
            group == IntProperty(n, "group")
            radix == IntProperty(n, "radix")
            base == StringProperty(n, "base")
<1>3. /\ ~(flags # None /\ ~PortableFlags(flags))
      /\ ~(pattern # None /\ ~compiles)
      /\ ~(/\ name = "regex-capture" /\ pattern # None /\ compiles
           /\ group # None /\ group > 2 * Captures[pattern])
  BY <1>2 DEF RegexFlaws, Flag
<1>4. /\ ~(name = "parse-int" /\ radix # None /\ radix \notin 4..72)
      /\ ~(/\ name = "coalesce" /\ HasProperty(n, "value") /\ IsNullable(c.input)
           /\ ~IsValueAssignable(Property(n, "value"), Of(c.input)))
      /\ ~(name = "url-resolve" /\ base # None /\ base \notin BaseURLs)
  BY <1>1 DEF ValidateBuiltinArguments, Flag
<1>. QED  BY <1>3, <1>4

(* The pattern of a regular expression is one that compiles. *)
LEMMA RegexRead ==
    ASSUME NEW c, NEW n, Checked(c, n), ~Unusual(c),
           c.target.name \in {"regex-replace", "regex-capture", "assert-matches"}
    PROVE  Regex(c) /\ Argument(c, "pattern")[2] = StringProperty(n, "pattern")
           /\ StringProperty(n, "pattern") # None
<1>. DEFINE name == c.target.name
<1>1. /\ {"pattern", "flags"} \subseteq DOMAIN Allowed[name]
      /\ Allowed[name]["pattern"] = "string" /\ Allowed[name]["flags"] = "string"
  BY AllowedFacts
<1>2. "pattern" \in Required(name)
  BY <1>1 DEF Required, Optional
<1>3. /\ IsText(c, "pattern") /\ Argument(c, "pattern")[2] = StringProperty(n, "pattern")
      /\ StringProperty(n, "pattern") # None
  BY <1>1, <1>2, Expects, TextArgument
<1>4. StringProperty(n, "pattern") \in DOMAIN Captures
  BY <1>3, NoFlaws
<1>5. Absent(c, "flags") \/ (IsText(c, "flags") /\ PortableFlags(Argument(c, "flags")[2]))
  BY <1>1, TextArgument, NoFlaws
<1>. QED  BY <1>3, <1>4, <1>5 DEF Regex

(* The group of a capture is one that the pattern has. *)
LEMMA GroupRead ==
    ASSUME NEW c, NEW n, Checked(c, n), ~Unusual(c), c.target.name = "regex-capture"
    PROVE  Group(c)
<1>. DEFINE group == IntProperty(n, "group")
            pattern == StringProperty(n, "pattern")
<1>1. "group" \in DOMAIN Allowed["regex-capture"] /\ Allowed["regex-capture"]["group"] = "non-negative-int"
  BY AllowedFacts
<1>2. CASE Absent(c, "group")
  BY <1>2 DEF Group
<1>3. CASE ~Absent(c, "group")
  <2>1. /\ Argument(c, "group")[1] = "number" /\ Argument(c, "group")[2] = group
        /\ group # None /\ group \in Int /\ Fits(group, "int") /\ group >= 0
    BY <1>1, <1>3, IntArgument
  <2>2. /\ Argument(c, "pattern")[2] = pattern /\ pattern # None /\ pattern \in DOMAIN Captures
    BY RegexRead, NoFlaws
  <2>3. ~(group > 2 * Captures[pattern]) /\ Captures[pattern] \in 0..(HalfRange["i32"] - 1)
    BY <2>1, <2>2, NoFlaws, BuiltInsAssumption
  <2>. HIDE DEF group, pattern
  <2>4. HalfRange["i32"] \in Nat
    BY BuiltInsAssumption DEF Integers
  <2>5. group <= 2 * Captures[pattern] /\ group % 2 = 0
    BY <2>1, <2>3, <2>4 DEF Fits
  <2>6. group \div 2 \in -HalfRange["i32"]..(HalfRange["i32"] - 1)
    BY <2>1, <2>3, <2>4, <2>5
  <2>7. Fits(group, "i32")
    BY <2>5, <2>6 DEF Fits
  <2>. QED  BY <2>1, <2>2, <2>5, <2>7 DEF Group, NonNegativeIfAny, LiteralInt
<1>. QED  BY <1>2, <1>3

(* What an integer is parsed as is an integer type, in a radix there is. *)
LEMMA ParsedIntRead ==
    ASSUME NEW c, NEW n, Checked(c, n), ~Unusual(c), c.target.name = "parse-int"
    PROVE  LET as == Argument(c, "as")
               radix == Argument(c, "radix")
           IN  /\ as[1] = "string" /\ as[2] \in {<<i>> : i \in Integers}
               /\ Absent(c, "radix") \/ (LiteralInt(c, "radix") /\ radix[2] \in {0} \cup 4..72)
<1>. DEFINE as == Argument(c, "as")
            radix == Argument(c, "radix")
            text == StringProperty(n, "as")
            h == IntProperty(n, "radix")
<1>1. /\ {"as", "radix"} \subseteq DOMAIN Allowed["parse-int"]
      /\ Allowed["parse-int"]["as"] = "string" /\ Allowed["parse-int"]["radix"] = "int"
  BY AllowedFacts
<1>2. "as" \in Required("parse-int")
  BY <1>1 DEF Required, Optional
<1>3. IsText(c, "as") /\ as[2] = text /\ text # None /\ as[1] = "string"
  BY <1>1, <1>2, Expects, TextArgument DEF IsText
<1>4. HasProperty(n, "as")
  BY <1>2, ArgumentFacts
<1>5. \E a \in ToSet(c.named) : a.name = "as" /\ a.value = as
  BY <1>4, ArgumentFacts
<1>6. as[2] \in {<<p>> : p \in Primitives}
  BY <1>5 DEF Unusual
<1>7. PICK p \in Primitives : text = <<p>>
  BY <1>3, <1>6
<1>8. TypeProperty(n, "as") = <<Primitive(p)>>
  BY <1>3, <1>7, ParseName DEF TypeProperty
<1>9. IsInteger(Primitive(p))
  <2>1. ApplyBuiltin("parse-int", c.input, n) # <<>>
    BY DEF Checked
  <2>2. IsInteger(TypeProperty(n, "as")[1])
    BY <2>1 DEF ApplyBuiltin, TextToText, TextToNullable
  <2>. QED  BY <1>8, <2>2
<1>10. p \in Integers
  BY <1>9 DEF IsInteger, IsPrimitive, Primitive
<1>11. CASE Absent(c, "radix")
  BY <1>3, <1>7, <1>10, <1>11
<1>12. CASE ~Absent(c, "radix")
  <2>1. radix[1] = "number" /\ radix[2] = h /\ h # None /\ h \in Int /\ Fits(h, "int")
    BY <1>1, <1>12, IntArgument
  <2>2. h \in 4..72
    BY <2>1, NoFlaws
  <2>3. HalfRange["i32"] \in Nat /\ HalfRange["i32"] > 36
    BY BuiltInsAssumption DEF Integers
  <2>. HIDE DEF h
  <2>4. h % 2 = 0
    BY <2>1 DEF Fits
  <2>5. h \div 2 \in -HalfRange["i32"]..(HalfRange["i32"] - 1)
    BY <2>2, <2>3
  <2>6. Fits(h, "i32")
    BY <2>4, <2>5 DEF Fits
  <2>7. LiteralInt(c, "radix")
    BY <2>1, <2>6 DEF LiteralInt
  <2>. QED  BY <1>3, <1>7, <1>10, <2>1, <2>2, <2>7
<1>. QED  BY <1>11, <1>12

(* What stands in for nothing is of the type that coalesce yields. *)
LEMMA CoalesceRead ==
    ASSUME NEW c, NEW n, Checked(c, n), c.target.name = "coalesce", c.input \in Types
    PROVE  /\ ~Absent(c, "value")
           /\ NormalizeJSONResult(Decoded(Argument(c, "value")), c.output) # <<>>
           /\ IsNullable(c.input) /\ c.output = Of(c.input) /\ c.output \in Types
<1>1. "value" \in Required("coalesce")
  <2>1. "value" \in DOMAIN Allowed["coalesce"]
    BY AllowedFacts
  <2>. QED  BY <2>1 DEF Required, Optional
<1>2. /\ HasProperty(n, "value") /\ Argument(c, "value") = RawJSON(Property(n, "value"))
      /\ IsLiteral(Property(n, "value"))
  BY <1>1, ArgumentFacts
<1>3. ~Absent(c, "value")
  <2>. DEFINE v == Property(n, "value")
  <2>1. v[1] \in {"string", "bool", "int", "float", "null"}
    BY <1>2 DEF IsLiteral
  <2>. HIDE DEF v
  <2>2. RawJSON(v)[1] \in {"string", "bool", "number", "null"}
    BY <2>1 DEF RawJSON, Numbers
  <2>. QED  BY <1>2, <2>2 DEF Absent, v
<1>4. IsNullable(c.input) /\ c.output = Of(c.input)
  <2>1. /\ ApplyBuiltin("coalesce", c.input, n) # <<>>
        /\ c.output = ApplyBuiltin("coalesce", c.input, n)[1]
    BY DEF Checked
  <2>2. ApplyBuiltin("coalesce", c.input, n) = IF IsNullable(c.input) THEN <<Of(c.input)>> ELSE <<>>
    BY DEF ApplyBuiltin, TextToText, TextToNullable
  <2>. QED  BY <2>1, <2>2
<1>5. c.output \in Types
  <2>1. Depth(c.input) \in 0..Depth(c.input) /\ Inner(c.input, Depth(c.input)) = c.input
    BY TypeFacts, InnerWhole
  <2>2. Depth(c.input) \in 1..Depth(c.input)
    BY <1>4, <2>1, InnerMarks
  <2>3. Depth(c.input) - 1 \in 0..Depth(c.input)
    BY <2>2, TypeFacts
  <2>. QED  BY <1>4, <2>3, InnerFacts DEF Of
<1>6. IsValueAssignable(Property(n, "value"), c.output)
  BY <1>2, <1>4, NoFlaws
<1>. QED  BY <1>2, <1>3, <1>4, <1>5, <1>6, LiteralNormal

(* What the compiler lets a call say, the executor can read. *)
LEMMA BuiltinReads ==
    ASSUME NEW c, NEW n, Checked(c, n), ~Unusual(c), c.input \in Types
    PROVE  ArgumentsRead(c.target.name, c)
<1>. DEFINE name == c.target.name
            as == Argument(c, "as")
            radix == Argument(c, "radix")
            Has(x, e) == x \in DOMAIN Allowed[name] /\ Allowed[name][x] = e
            Must(x) == x \in Required(name)
<1>1. \A x : /\ Has(x, "string") => IsTextIfAny(c, x)
             /\ Has(x, "string") /\ Must(x) => IsText(c, x)
  BY Expects
<1>2. \A x \in {"count", "start", "end", "limit", "index"} :
         /\ Has(x, "int") \/ Has(x, "non-negative-int") =>
               LiteralIntIfAny(c, x) /\ (Must(x) => LiteralInt(c, x))
         /\ Has(x, "non-negative-int") => NonNegativeIfAny(c, x)
  BY Expects
<1>3. \A x : x \in DOMAIN Allowed[name] /\ x \notin Optional /\ x # "index" => Must(x)
  BY DEF Required
<1>4. \A x : x \in DOMAIN Allowed[name] /\ x \notin Optional /\ name # "url-query" => Must(x)
  BY DEF Required
<1>. HIDE DEF Must
<1>5. name \in {"prepend", "append"} => IsText(c, "value")
  BY <1>1, <1>4, AllowedFacts DEF Optional
<1>6. name = "replace" => IsText(c, "old") /\ IsText(c, "new") /\ NonNegativeIfAny(c, "count")
  BY <1>1, <1>2, <1>4, AllowedFacts DEF Optional
<1>7. name = "regex-replace" =>
         Regex(c) /\ IsText(c, "replacement") /\ NonNegativeIfAny(c, "count")
  <2>1. name = "regex-replace" => IsText(c, "replacement") /\ NonNegativeIfAny(c, "count")
    BY <1>1, <1>2, <1>4, AllowedFacts DEF Optional
  <2>. QED  BY <2>1, RegexRead
<1>8. name = "regex-capture" => Regex(c) /\ Group(c)
  BY RegexRead, GroupRead
<1>9. name = "assert-matches" => Regex(c)
  BY RegexRead
<1>10. name = "substring" => LiteralInt(c, "start") /\ LiteralIntIfAny(c, "end")
  BY <1>2, <1>4, AllowedFacts DEF Optional
<1>11. name = "split" => IsText(c, "separator") /\ NonNegativeIfAny(c, "limit")
  BY <1>1, <1>2, <1>4, AllowedFacts DEF Optional
<1>12. name = "join" => IsText(c, "separator")
  BY <1>1, <1>4, AllowedFacts DEF Optional
<1>13. name = "parse-int" =>
          /\ as[1] = "string" /\ as[2] \in {<<i>> : i \in Integers}
          /\ Absent(c, "radix") \/ (LiteralInt(c, "radix") /\ radix[2] \in {0} \cup 4..72)
  BY ParsedIntRead
<1>14. name = "parse-float" => as[1] = "string" /\ as[2] \in {<<f>> : f \in Floats}
  <2>. SUFFICES ASSUME name = "parse-float"
                PROVE  as[1] = "string" /\ as[2] \in {<<f>> : f \in Floats}
    OBVIOUS
  <2>1. IsText(c, "as") /\ Has("as", "string")
    BY <1>1, <1>4, AllowedFacts DEF Optional
  <2>2. as[1] = "string" /\ as[2] = StringProperty(n, "as")
    BY <2>1, TextArgument DEF IsText
  <2>3. ApplyBuiltin("parse-float", c.input, n) # <<>>
    BY DEF Checked
  <2>4. StringProperty(n, "as") \in {<<f>> : f \in Floats}
    BY <2>3 DEF ApplyBuiltin, TextToText, TextToNullable
  <2>. QED  BY <2>2, <2>4
<1>15. name = "parse-bool" =>
          /\ Argument(c, "case-sensitive")[1] \in {"absent", "bool"}
          /\ IsTextIfAny(c, "true") /\ IsTextIfAny(c, "false")
  <2>. SUFFICES ASSUME name = "parse-bool"
                PROVE  /\ Argument(c, "case-sensitive")[1] \in {"absent", "bool"}
                       /\ IsTextIfAny(c, "true") /\ IsTextIfAny(c, "false")
    OBVIOUS
  <2>1. Has("true", "string") /\ Has("false", "string") /\ Has("case-sensitive", "bool")
    BY AllowedFacts
  <2>2. IsTextIfAny(c, "true") /\ IsTextIfAny(c, "false")
    BY <1>1, <2>1
  <2>. DEFINE v == Property(n, "case-sensitive")
  <2>3. CASE ~HasProperty(n, "case-sensitive")
    BY <2>2, <2>3, ArgumentFacts
  <2>4. CASE HasProperty(n, "case-sensitive")
    <3>1. Argument(c, "case-sensitive") = RawJSON(v) /\ MatchesExpectation(v, "bool")
      BY <2>1, <2>4, ArgumentFacts
    <3>. HIDE DEF v
    <3>2. v[1] = "bool"
      BY <3>1 DEF MatchesExpectation
    <3>3. RawJSON(v) = v
      BY <3>2 DEF RawJSON, Numbers
    <3>. QED  BY <2>2, <3>1, <3>2, <3>3
  <2>. QED  BY <2>3, <2>4
<1>16. name = "coalesce" =>
          /\ ~Absent(c, "value")
          /\ NormalizeJSONResult(Decoded(Argument(c, "value")), c.output) # <<>>
  BY CoalesceRead
<1>17. name = "url-resolve" => IsText(c, "base") /\ Argument(c, "base")[2] \in BaseURLs
  <2>. SUFFICES ASSUME name = "url-resolve"
                PROVE  IsText(c, "base") /\ Argument(c, "base")[2] \in BaseURLs
    OBVIOUS
  <2>1. IsText(c, "base") /\ Has("base", "string")
    BY <1>1, <1>4, AllowedFacts DEF Optional
  <2>. QED  BY <2>1, TextArgument, NoFlaws
<1>18. name = "url-query" => IsText(c, "name") /\ NonNegativeIfAny(c, "index")
  BY <1>1, <1>2, <1>3, AllowedFacts DEF Optional
<1>19. name = "path-segment" => LiteralInt(c, "index")
  BY <1>2, <1>4, AllowedFacts DEF Optional
<1>20. name \in {"assert-min", "assert-max"} => Argument(c, "value")[1] = "number"
  <2>. SUFFICES ASSUME name \in {"assert-min", "assert-max"}
                PROVE  Argument(c, "value")[1] = "number"
    OBVIOUS
  <2>. DEFINE v == Property(n, "value")
  <2>1. Has("value", "number") /\ Must("value")
    BY <1>4, AllowedFacts DEF Optional
  <2>2. Argument(c, "value") = RawJSON(v) /\ MatchesExpectation(v, "number")
    BY <2>1, ArgumentFacts DEF Must
  <2>. HIDE DEF v
  <2>3. v[1] \in Numbers
    BY <2>2 DEF MatchesExpectation
  <2>. QED  BY <2>2, <2>3 DEF RawJSON
<1>. QED  BY <1>5, <1>6, <1>7, <1>8, <1>9, <1>10, <1>11, <1>12, <1>13, <1>14, <1>15, <1>16, <1>17,
             <1>18, <1>19, <1>20 DEF ArgumentsRead

(* What matches a primitive type is of its kind. *)
LEMMA PrimitiveMatch ==
    ASSUME NEW t \in Types, t.marks = <<>>, NEW v
    PROVE  MatchesRuntimeType(v, t) <=> MatchesPrimitive(v, t.name)
<1>1. Depth(t) = 0
  BY DEF Depth
<1>. QED  BY <1>1, MatchUnfold

(* The primitive type of a name. *)
LEMMA PrimitiveType ==
    ASSUME NEW name \in Primitives
    PROVE  /\ Primitive(name) \in Types /\ Primitive(name).marks = <<>> /\ Primitive(name).name = name
           /\ \A v : MatchesRuntimeType(v, Primitive(name)) <=> MatchesPrimitive(v, name)
<1>1. Primitive(name) \in Types /\ Primitive(name).marks = <<>> /\ Primitive(name).name = name
  BY DEF Primitive, Types
<1>. QED  BY <1>1, PrimitiveMatch

(* A text is of the type string, and nothing else is. *)
LEMMA StringMatch ==
    ASSUME NEW t \in Types, IsString(t), NEW v
    PROVE  MatchesRuntimeType(v, t) <=> v[1] = "string"
<1>1. t.marks = <<>> /\ t.name = "string"
  BY DEF IsString, IsPrimitive
<1>2. MatchesPrimitive(v, "string") <=> v[1] = "string"
  BY DEF MatchesPrimitive, Integers, Floats
<1>. QED  BY <1>1, <1>2, PrimitiveMatch

(* The type of texts. *)
LEMMA TextTypes ==
    /\ Primitive("string") \in Types /\ IsString(Primitive("string"))
    /\ Nullable(Primitive("string")) \in Types /\ IsNullable(Nullable(Primitive("string")))
    /\ Of(Nullable(Primitive("string"))) = Primitive("string")
    /\ Array(Primitive("string")) \in Types /\ IsArray(Array(Primitive("string")))
    /\ Of(Array(Primitive("string"))) = Primitive("string")
<1>. DEFINE t == Primitive("string")
<1>1. t = [name |-> "string", marks |-> <<>>] /\ "string" \in Primitives
  BY DEF Primitive, Primitives
<1>. HIDE DEF t
<1>2. t \in Types /\ IsString(t) /\ ~IsNullable(t) /\ Depth(t) = 0
  BY <1>1 DEF Types, IsString, IsPrimitive, IsNullable, Depth
<1>3. /\ Nullable(t) \in Types /\ Depth(Nullable(t)) = 1 /\ Inner(Nullable(t), 0) = t
  BY <1>2, NullableFacts
<1>4. IsNullable(Nullable(t))
  BY <1>2, NullableIsNullable
<1>5. Of(Nullable(t)) = t
  BY <1>3 DEF Of
<1>. DEFINE a == Array(t)
<1>6. a = [name |-> "string", marks |-> <<"[]">>]
  <2>1. Append(<<>>, "[]") = <<"[]">>
    OBVIOUS
  <2>2. t.name = "string" /\ t.marks = <<>>
    BY <1>1 DEF t
  <2>. QED  BY <2>1, <2>2 DEF Array, Marked
<1>. DEFINE marks == <<"[]">>
<1>10. /\ marks \in Seq({"[]", "?"}) /\ Len(marks) = 1 /\ marks[1] = "[]" /\ marks # <<>>
       /\ SubSeq(marks, 1, 0) = <<>>
  OBVIOUS
<1>. HIDE DEF a, marks
<1>11. a = [name |-> "string", marks |-> marks]
  BY <1>6 DEF marks
<1>7. a \in Types /\ Depth(a) = 1 /\ IsArray(a)
  BY <1>1, <1>10, <1>11 DEF Types, Depth, IsArray
<1>8. Inner(a, 0) = t
  BY <1>1, <1>10, <1>11 DEF Inner
<1>9. Of(a) = t
  BY <1>7, <1>8 DEF Of
<1>. QED  BY <1>2, <1>3, <1>4, <1>5, <1>7, <1>9 DEF t, a

(* What a call that compiles takes and yields, by its name. *)
LEMMA Signature ==
    ASSUME NEW c, NEW n, Checked(c, n)
    PROVE  LET name == c.target.name
               text == Primitive("string")
           IN  /\ name \in Plain \cup WithProperties
               /\ name \in TextToText => IsString(c.input) /\ c.output = text
               /\ name \in TextToNullable => IsString(c.input) /\ c.output = Nullable(text)
               /\ name = "split" => IsString(c.input) /\ c.output = Array(text)
               /\ name = "join" => IsStringArray(c.input) /\ c.output = text
               /\ name = "parse-int" => IsString(c.input) /\ c.output = TypeProperty(n, "as")[1]
               /\ name = "parse-float" => /\ IsString(c.input) /\ c.output = TypeProperty(n, "as")[1]
                                          /\ StringProperty(n, "as") \in {<<f>> : f \in Floats}
               /\ name = "parse-bool" => IsString(c.input) /\ c.output = Primitive("bool")
               /\ name = "to-string" => IsScalar(c.input) /\ ~IsNullable(c.input) /\ c.output = text
               /\ name = "assert-enum" => c.output = c.input
               /\ name \in {"assert-min", "assert-max"} => IsNumeric(c.input) /\ c.output = c.input
<1>. DEFINE name == c.target.name
            out == ApplyBuiltin(name, c.input, n)
            text == Primitive("string")
<1>1. out # <<>> /\ c.output = out[1]
  BY DEF Checked
<1>2. name \in Plain \cup WithProperties
  BY DEF Checked, BuiltIn, Allowed
<1>. HIDE DEF out, name, text
<1>4. name \in TextToText => IsString(c.input) /\ c.output = text
  BY <1>1 DEF out, text, ApplyBuiltin, Given
<1>5. name \in TextToNullable => IsString(c.input) /\ c.output = Nullable(text)
  BY <1>1 DEF out, text, ApplyBuiltin, TextToNullable, TextToText, Given
<1>6. /\ name = "split" => IsString(c.input) /\ c.output = Array(text)
      /\ name = "join" => IsStringArray(c.input) /\ c.output = text
      /\ name = "parse-bool" => IsString(c.input) /\ c.output = Primitive("bool")
  BY <1>1 DEF out, text, ApplyBuiltin, TextToNullable, TextToText, Given
<1>7. /\ name = "to-string" => IsScalar(c.input) /\ ~IsNullable(c.input) /\ c.output = text
      /\ name = "assert-enum" => c.output = c.input
  BY <1>1 DEF out, text, ApplyBuiltin, TextToNullable, TextToText, Given
<1>8. name \in {"assert-min", "assert-max"} => IsNumeric(c.input) /\ c.output = c.input
  BY <1>1 DEF out, text, ApplyBuiltin, TextToNullable, TextToText, Given
<1>9. name = "parse-int" => IsString(c.input) /\ c.output = TypeProperty(n, "as")[1]
  BY <1>1 DEF out, ApplyBuiltin, TextToNullable, TextToText
<1>10. name = "parse-float" => /\ IsString(c.input) /\ c.output = TypeProperty(n, "as")[1]
                               /\ StringProperty(n, "as") \in {<<f>> : f \in Floats}
  BY <1>1 DEF out, ApplyBuiltin, TextToNullable, TextToText
<1>. QED  BY <1>2, <1>4, <1>5, <1>6, <1>7, <1>8, <1>9, <1>10 DEF name, text

(* A value of the type that a call was compiled for is of a kind it takes. *)
LEMMA BuiltinTakes ==
    ASSUME NEW c, NEW n, Checked(c, n), c.input \in Types, NEW v, MatchesRuntimeType(v, c.input)
    PROVE  Takes(c.target.name, v)
<1>. DEFINE name == c.target.name
<1>1. CASE IsString(c.input)
  <2>1. v[1] = "string"
    BY <1>1, StringMatch
  <2>2. name \notin {"assert-min", "assert-max", "join"}
    BY <1>1, Signature DEF IsNumeric, IsString, IsPrimitive, Integers, Floats, IsStringArray, IsArray
  <2>. QED  BY <2>1, <2>2 DEF Takes
<1>2. CASE name \in {"assert-min", "assert-max"}
  <2>1. c.input.marks = <<>> /\ c.input.name \in Integers \cup Floats
    BY <1>2, Signature DEF IsNumeric, IsPrimitive
  <2>2. MatchesPrimitive(v, c.input.name)
    BY <2>1, PrimitiveMatch
  <2>3. v[1] \in NumberKinds
    BY <2>1, <2>2 DEF MatchesPrimitive, NumberKinds, Integers, Floats, FloatKind
  <2>. QED  BY <1>2, <2>3 DEF Takes
<1>3. CASE name = "to-string"
  <2>1. /\ c.input.marks = <<>> /\ c.input.name \in Primitives \ {"object", "unknown"}
    BY <1>3, Signature DEF IsScalar, IsPrimitive
  <2>2. MatchesPrimitive(v, c.input.name)
    BY <2>1, PrimitiveMatch
  <2>3. CASE c.input.name \in {"string", "bool"}
    BY <1>3, <2>2, <2>3 DEF Takes, MatchesPrimitive, Integers, Floats
  <2>4. CASE c.input.name \in Integers
    <3>1. v[1] = IntegerKind(c.input.name)
      BY <2>2, <2>4 DEF MatchesPrimitive, Integers, Floats
    <3>2. v[1] \in NumberKinds \ {"number"}
      BY <2>4, <3>1 DEF NumberKinds, IntegerKind, Integers
    <3>. QED  BY <1>3, <3>2 DEF Takes
  <2>5. CASE c.input.name \in Floats
    <3>1. v[1] = FloatKind(c.input.name)
      BY <2>2, <2>5 DEF MatchesPrimitive, Integers, Floats
    <3>2. v[1] \in NumberKinds \ {"number"}
      BY <3>1 DEF NumberKinds, FloatKind
    <3>. QED  BY <1>3, <3>2 DEF Takes
  <2>. QED  BY <2>1, <2>3, <2>4, <2>5 DEF Primitives
<1>4. CASE name = "join"
  <2>1. IsArray(c.input) /\ IsString(Of(c.input))
    BY <1>4, Signature DEF IsStringArray
  <2>2. IsArrayValue(v) /\ \A e \in Items(v) : MatchesRuntimeType(e, Of(c.input))
    BY <2>1, MatchUnfold
  <2>3. Of(c.input) \in Types
    <3>1. Depth(c.input) \in 0..Depth(c.input) /\ Inner(c.input, Depth(c.input)) = c.input
      BY TypeFacts, InnerWhole
    <3>2. Depth(c.input) \in 1..Depth(c.input)
      BY <2>1, <3>1, InnerMarks
    <3>3. Depth(c.input) - 1 \in 0..Depth(c.input)
      BY <3>2, TypeFacts
    <3>. QED  BY <3>3, InnerFacts DEF Of
  <2>4. \A e \in Items(v) : e[1] = "string"
    BY <2>1, <2>2, <2>3, StringMatch
  <2>. QED  BY <1>4, <2>2, <2>4 DEF Takes
<1>5. CASE name \in {"coalesce", "assert-enum"}
  BY <1>5 DEF Takes
<1>6. name \in TextToText \cup TextToNullable \cup {"split", "join", "parse-int", "parse-float",
               "parse-bool", "to-string", "coalesce", "assert-enum", "assert-min", "assert-max"}
  <2>1. name \in Plain \cup WithProperties
    BY Signature
  <2>. QED  BY <2>1 DEF Plain, WithProperties, TextToText, TextToNullable
<1>. QED  BY <1>1, <1>2, <1>3, <1>4, <1>5, <1>6, Signature

(* What a built-in yields is of the type that the compiler gave the call. *)
THEOREM BuiltinYields ==
    ASSUME NEW c, NEW n, Checked(c, n), c.input \in Types, c.output \in Types,
           NEW v, MatchesRuntimeType(v, c.input),
           NEW w \in ApplyBuiltinRuntime(c.target.name, v, c), ~Failure(w)
    PROVE  MatchesRuntimeType(w, c.output)
<1>. DEFINE name == c.target.name
            text == Primitive("string")
<1>1. /\ w \in Results(name, v, c)
      /\ ArgumentsRead(name, c) \/ (name = "coalesce" /\ v # Nil)
  <2>1. \A k \in {"!kind", "!argument", "!data"} : Failure(<<k>>)
    BY DEF Failure
  <2>. QED  BY <2>1 DEF ApplyBuiltinRuntime
<1>2. \A x : x = <<"string">> => MatchesRuntimeType(x, text)
  BY TextTypes, StringMatch
<1>3. CASE name \in TextToText \cup {"join", "to-string"}
  <2>1. w = <<"string">>
    BY <1>1, <1>3 DEF Results, TextToText, TextToNullable
  <2>. QED  BY <1>2, <1>3, <2>1, Signature
<1>4. CASE name \in TextToNullable
  <2>1. w = <<"string">> \/ w = Nil
    BY <1>1, <1>4 DEF Results, TextToText, TextToNullable
  <2>2. MatchesRuntimeType(w, Nullable(text))
    BY <1>2, <2>1, TextTypes, MatchUnfold
  <2>. QED  BY <1>4, <2>2, Signature
<1>5. CASE name = "split"
  <2>1. w = <<"strings">> \/ w = <<"list", {}>>
    BY <1>1, <1>5 DEF Results, TextToText, TextToNullable
  <2>2. IsArrayValue(w) /\ \A e \in Items(w) : e = <<"string">>
    BY <2>1 DEF IsArrayValue, Items, IsList
  <2>3. MatchesRuntimeType(w, Array(text))
    BY <1>2, <2>2, TextTypes, MatchUnfold
  <2>. QED  BY <1>5, <2>3, Signature
<1>6. CASE name \in {"parse-int", "parse-float"}
  <2>. DEFINE as == Argument(c, "as")
  <2>1. PICK p \in Integers \cup Floats : /\ as[2] = <<p>>
                                          /\ as[1] = "string"
    BY <1>1, <1>6 DEF ArgumentsRead
  <2>2. w = <<IF p \in Integers THEN IntegerKind(p) ELSE FloatKind(p)>>
    BY <1>1, <1>6, <2>1 DEF Results
  <2>3. p \in Primitives
    BY DEF Primitives
  <2>4. MatchesPrimitive(w, p)
    BY <2>2 DEF MatchesPrimitive
  <2>5. "as" \in DOMAIN Allowed[name] /\ Allowed[name]["as"] = "string"
    BY <1>6, AllowedFacts
  <2>6. IsText(c, "as")
    BY <2>1 DEF IsText
  <2>7. StringProperty(n, "as") = <<p>> /\ StringProperty(n, "as") # None
    BY <2>1, <2>5, <2>6, TextArgument
  <2>8. TypeProperty(n, "as") = <<Primitive(p)>>
    BY <2>3, <2>7, ParseName DEF TypeProperty
  <2>9. c.output = Primitive(p)
    BY <1>6, <2>8, Signature
  <2>. QED  BY <2>3, <2>4, <2>9, PrimitiveType
<1>7. CASE name = "parse-bool"
  <2>1. w = <<"bool">>
    BY <1>1, <1>7 DEF Results, TextToText, TextToNullable
  <2>2. MatchesPrimitive(w, "bool") /\ "bool" \in Primitives
    BY <2>1 DEF MatchesPrimitive, Primitives
  <2>. QED  BY <1>7, <2>2, PrimitiveType, Signature
<1>8. CASE name = "coalesce"
  <2>1. w = IF v # Nil THEN v ELSE NormalizeJSONResult(Decoded(Argument(c, "value")), c.output)[1]
    BY <1>1, <1>8 DEF Results, TextToText, TextToNullable
  <2>2. /\ NormalizeJSONResult(Decoded(Argument(c, "value")), c.output) # <<>>
        /\ IsNullable(c.input) /\ c.output = Of(c.input)
    BY <1>8, CoalesceRead
  <2>3. CASE v = Nil
    BY <2>1, <2>2, <2>3, NormalizedMatches
  <2>4. CASE v # Nil
    BY <2>1, <2>2, <2>4, MatchUnfold
  <2>. QED  BY <2>3, <2>4
<1>9. CASE name \in {"assert-enum", "assert-min", "assert-max"}
  <2>1. w = v
    BY <1>1, <1>9 DEF Results, TextToText, TextToNullable
  <2>. QED  BY <1>9, <2>1, Signature
<1>10. name \in TextToText \cup TextToNullable \cup {"split", "join", "parse-int", "parse-float",
                "parse-bool", "to-string", "coalesce", "assert-enum", "assert-min", "assert-max"}
  <2>1. name \in Plain \cup WithProperties
    BY Signature
  <2>. QED  BY <2>1 DEF Plain, WithProperties, TextToText, TextToNullable
<1>. QED  BY <1>3, <1>4, <1>5, <1>6, <1>7, <1>8, <1>9, <1>10

-----------------------------------------------------------------------------
(* Chains of calls, and the frames that hold them.                         *)

(* What a chain is made of: calls that take and yield types. *)
Formed(calls) ==
    /\ \E X : calls \in Seq(X)
    /\ \A k \in DOMAIN calls : calls[k].input \in Types /\ calls[k].output \in Types

(* The type that the value of a field has to have: that of the call that   *)
(* is due, or the one that the topmost frame has to end with.              *)
Wanted(f, frames) ==
    IF frames[1].next \in DOMAIN frames[1].calls THEN frames[1].calls[frames[1].next].input
    ELSE Expected(f, frames, 1)

(* A chain that was checked goes from its first type to its last. *)
LEMMA ChainLinked ==
    ASSUME NEW x, NEW X, NEW calls \in Seq(X), NEW initial, NEW expected,
           ChainErrors(x, calls, initial, expected) = {}
    PROVE  /\ initial \in Types /\ expected \in Types /\ Linked(calls, expected) /\ Formed(calls)
           /\ calls # <<>> => 1 \in DOMAIN calls /\ calls[1].input = initial
           /\ calls = <<>> => IsAssignable(initial, expected)
<1>. DEFINE Reaching(i) == IF i = 0 THEN initial ELSE calls[i].output
<1>1. /\ ValidType(initial) /\ ValidType(expected)
      /\ \A i \in DOMAIN calls : calls[i].input = Reaching(i - 1)
      /\ IsAssignable(Reaching(Len(calls)), expected)
  BY DEF ChainErrors, ContinuityErrors, Invalid, Flag
<1>2. \A i \in DOMAIN calls : ValidType(calls[i].input) /\ ValidType(calls[i].output)
  <2>1. \A i \in DOMAIN calls : CallErrors(x, calls[i]) = {}
    BY DEF ChainErrors, UnionOf
  <2>. QED  BY <2>1 DEF CallErrors, Invalid, Flag
<1>3. Len(calls) \in Nat /\ DOMAIN calls = 1..Len(calls) /\ (calls = <<>> <=> Len(calls) = 0)
  BY EmptySeq
<1>4. Linked(calls, expected)
  <2>. SUFFICES ASSUME NEW k \in DOMAIN calls
                PROVE  IF k = Len(calls) THEN IsAssignable(calls[k].output, expected)
                       ELSE calls[k].output = calls[k + 1].input
    BY DEF Linked
  <2>1. CASE k = Len(calls)
    BY <1>1, <1>3, <2>1
  <2>2. CASE k # Len(calls)
    <3>1. k + 1 \in DOMAIN calls /\ (k + 1) - 1 = k /\ k # 0
      BY <1>3, <2>2
    <3>. QED  BY <1>1, <2>2, <3>1
  <2>. QED  BY <2>1, <2>2
<1>5. calls = <<>> => IsAssignable(initial, expected)
  BY <1>1, <1>3
<1>6. calls # <<>> => 1 \in DOMAIN calls /\ calls[1].input = initial
  BY <1>1, <1>3
<1>. QED  BY <1>1, <1>2, <1>4, <1>5, <1>6 DEF ValidType, Formed

(* A declared transform takes what its calls hand over, and yields what    *)
(* they are said to.                                                       *)
LEMMA DeclaredFits ==
    ASSUME NEW x, StaticErrors(x) = {}, NEW f \in FieldsOf(x.output), NEW calls \in Chains(x, f),
           NEW i \in DOMAIN calls, calls[i].target.kind = "declared",
           NEW t \in x.transforms, t.symbol = calls[i].target.symbol
    PROVE  /\ IsAssignable(calls[i].input, t.input) /\ calls[i].output = t.output
           /\ t.input \in Types /\ t.output \in Types
<1>1. CallErrors(x, calls[i]) = {}
  BY CallsChecked
<1>2. DeclaredErrors(x, calls[i]) = {}
  BY <1>1 DEF CallErrors
<1>3. t \in DeclaredIn(x, calls[i].target.symbol)
  BY DEF DeclaredIn
<1>4. IsAssignable(calls[i].input, t.input) /\ calls[i].output = t.output
  BY <1>2, <1>3 DEF DeclaredErrors, Invalid, Flag
<1>5. TransformErrors(x, t) = {}
  BY DEF StaticErrors
<1>6. ValidType(t.input) /\ ValidType(t.output)
  BY <1>5 DEF TransformErrors, Invalid, Flag
<1>. QED  BY <1>4, <1>6 DEF ValidType

-----------------------------------------------------------------------------
(* Sequences that are not empty have a head and a tail. *)
LEMMA HeadTailFacts ==
    ASSUME NEW F, NEW s \in Seq(F), s # <<>>
    PROVE  /\ Head(s) \in F /\ Head(s) = s[1] /\ Tail(s) \in Seq(F)
           /\ Len(s) \in Nat /\ DOMAIN s = 1..Len(s) /\ Len(s) # 0
           /\ Len(Tail(s)) = Len(s) - 1 /\ DOMAIN Tail(s) = 1..(Len(s) - 1)
           /\ \A i \in 1..Len(Tail(s)) : Tail(s)[i] = s[i + 1]
BY HeadTailProperties, EmptySeq

(* What the lemmas use of a set of frames, whose chains are in B. *)
Frames(F, B) ==
    \A g \in F : LET e == [g EXCEPT !.next = @ + 1]
                 IN  /\ g.calls \in B
                     /\ e \in F /\ e.calls = g.calls /\ e.next = g.next + 1

(* The chains of frames are chains. *)
LEMMA FrameFields ==
    ASSUME NEW B, NEW F, Frames(F, B), NEW frames \in Seq(F), NEW i \in DOMAIN frames
    PROVE  frames[i].calls \in B
<1>1. frames[i] \in F
  OBVIOUS
<1>. QED  BY <1>1 DEF Frames

(* Frames: what they are after one is advanced, put on top, or taken off. *)
LEMMA FramesAdvanced ==
    ASSUME NEW B, NEW F, Frames(F, B), NEW frames \in Seq(F), frames # <<>>
    PROVE  /\ Len(Advanced(frames)) = Len(frames) /\ Len(Advanced(frames)) \in Nat
           /\ DOMAIN Advanced(frames) = 1..Len(frames) /\ 1 \in DOMAIN frames
           /\ Advanced(frames)[1].calls = frames[1].calls
           /\ Advanced(frames)[1].next = frames[1].next + 1
           /\ \A i \in DOMAIN frames : i # 1 => Advanced(frames)[i] = frames[i]
<1>. DEFINE h == [Head(frames) EXCEPT !.next = @ + 1]
<1>1. /\ Head(frames) \in F /\ Head(frames) = frames[1] /\ Tail(frames) \in Seq(F)
      /\ Len(Tail(frames)) = Len(frames) - 1
      /\ \A i \in 1..Len(Tail(frames)) : Tail(frames)[i] = frames[i + 1]
      /\ Len(frames) \in Nat /\ DOMAIN frames = 1..Len(frames) /\ Len(frames) # 0
  BY HeadTailFacts
<1>2. Len(frames) \in Nat /\ DOMAIN frames = 1..Len(frames) /\ Len(frames) # 0
  BY <1>1
<1>3. h \in F /\ h.calls = frames[1].calls /\ h.next = frames[1].next + 1
  BY <1>1 DEF Frames
<1>. HIDE DEF h
<1>4. <<h>> \in Seq(F) /\ Len(<<h>>) = 1 /\ <<h>>[1] = h
  BY <1>3
<1>5. /\ <<h>> \o Tail(frames) \in Seq(F)
      /\ Len(<<h>> \o Tail(frames)) = Len(<<h>>) + Len(Tail(frames))
      /\ \A i \in 1..Len(<<h>> \o Tail(frames)) :
            (<<h>> \o Tail(frames))[i] =
               IF i <= Len(<<h>>) THEN <<h>>[i] ELSE Tail(frames)[i - Len(<<h>>)]
  BY <1>1, <1>4, ConcatProperties
<1>6. Advanced(frames) = <<h>> \o Tail(frames)
  BY DEF Advanced, h
<1>. DEFINE next == <<h>> \o Tail(frames)
            tail == Tail(frames)
<1>7. Len(next) = Len(frames) /\ next[1] = h /\ DOMAIN next = 1..Len(next)
  BY <1>1, <1>2, <1>4, <1>5
<1>8. ASSUME NEW i \in DOMAIN frames, i # 1  PROVE next[i] = frames[i]
  <2>1. i \in 1..Len(next) /\ ~(i <= 1) /\ i - 1 \in 1..Len(tail) /\ (i - 1) + 1 = i
    BY <1>1, <1>2, <1>7, <1>8
  <2>. QED  BY <1>1, <1>4, <1>5, <2>1
<1>. QED  BY <1>2, <1>3, <1>6, <1>7, <1>8

(* A frame that is put on top moves the others by one. *)
LEMMA FramesPushed ==
    ASSUME NEW F, NEW g \in F, NEW frames \in Seq(F)
    PROVE  LET next == <<g>> \o frames
           IN  /\ Len(next) = Len(frames) + 1 /\ DOMAIN next = 1..Len(next) /\ next[1] = g
               /\ \A i \in 2..Len(next) : next[i] = frames[i - 1]
<1>1. <<g>> \in Seq(F) /\ Len(<<g>>) = 1 /\ <<g>>[1] = g
  OBVIOUS
<1>. DEFINE one == <<g>>
            next == one \o frames
<1>. HIDE DEF one
<1>2. /\ next \in Seq(F) /\ Len(next) = Len(one) + Len(frames)
      /\ \A i \in 1..Len(next) :
            next[i] = IF i <= Len(one) THEN one[i] ELSE frames[i - Len(one)]
  BY <1>1, ConcatProperties DEF one
<1>3. Len(frames) \in Nat /\ Len(one) = 1 /\ one[1] = g
  BY <1>1 DEF one
<1>4. Len(next) = Len(frames) + 1 /\ DOMAIN next = 1..Len(next)
  BY <1>2, <1>3
<1>5. next[1] = g /\ \A i \in 2..Len(next) : next[i] = frames[i - 1]
  BY <1>2, <1>3, <1>4
<1>. QED  BY <1>4, <1>5 DEF one

(* The type that a frame has to end with is one. *)
LEMMA ExpectedType ==
    ASSUME NEW B, \A calls \in B : Formed(calls), NEW f, f.success \in Types,
           NEW F, Frames(F, B), NEW frames \in Seq(F), LinkedFrames(f, frames),
           NEW i \in DOMAIN frames
    PROVE  Expected(f, frames, i) \in Types
<1>1. Len(frames) \in Nat /\ DOMAIN frames = 1..Len(frames)
  OBVIOUS
<1>2. CASE i = Len(frames)
  BY <1>2 DEF Expected
<1>3. CASE i # Len(frames)
  <2>. DEFINE below == frames[i + 1]
  <2>1. i + 1 \in DOMAIN frames /\ i + 1 > 1
    BY <1>1, <1>3
  <2>2. below.next \in DOMAIN below.calls /\ below.calls \in B
    BY <2>1, FrameFields DEF LinkedFrames
  <2>3. below.calls[below.next].output \in Types
    BY <2>2 DEF Formed
  <2>. QED  BY <1>3, <2>3 DEF Expected
<1>. QED  BY <1>2, <1>3

(* A call that is due and yields what it is said to leaves a value for the *)
(* next call, or for the end of its frame.                                 *)
LEMMA AdvancedLinked ==
    ASSUME NEW B, \A calls \in B : Formed(calls), NEW f, f.success \in Types,
           NEW F, Frames(F, B), NEW frames \in Seq(F), frames # <<>>,
           LinkedFrames(f, frames), frames[1].next \in DOMAIN frames[1].calls,
           NEW v, MatchesRuntimeType(v, frames[1].calls[frames[1].next].output)
    PROVE  LinkedFrames(f, Advanced(frames)) /\ MatchesRuntimeType(v, Wanted(f, Advanced(frames)))
<1>. DEFINE after == Advanced(frames)
            calls == frames[1].calls
            k == frames[1].next
            wanted == Expected(f, frames, 1)
<1>1. /\ Len(after) = Len(frames) /\ DOMAIN after = 1..Len(after) /\ Len(after) \in Nat
      /\ 1 \in DOMAIN frames /\ after[1].calls = calls /\ after[1].next = k + 1
      /\ \A i \in DOMAIN frames : i # 1 => after[i] = frames[i]
  <2>. HIDE DEF calls, k
  <2>1. frames[1].calls = calls /\ frames[1].next = k
    BY DEF calls, k
  <2>2. /\ Len(Advanced(frames)) = Len(frames) /\ Len(Advanced(frames)) \in Nat
        /\ DOMAIN Advanced(frames) = 1..Len(frames) /\ 1 \in DOMAIN frames
        /\ Advanced(frames)[1].calls = frames[1].calls
        /\ Advanced(frames)[1].next = frames[1].next + 1
        /\ \A i \in DOMAIN frames : i # 1 => Advanced(frames)[i] = frames[i]
    BY FramesAdvanced
  <2>. QED  BY <2>1, <2>2
<1>2. DOMAIN frames = 1..Len(frames)
  OBVIOUS
<1>. HIDE DEF after
<1>3. ASSUME NEW i \in DOMAIN frames  PROVE Expected(f, after, i) = Expected(f, frames, i)
  <2>1. CASE i = Len(frames)
    BY <1>1, <2>1 DEF Expected
  <2>2. CASE i # Len(frames)
    <3>1. i + 1 \in DOMAIN frames /\ i + 1 # 1
      BY <1>1, <1>2, <2>2
    <3>2. after[i + 1] = frames[i + 1]
      BY <1>1, <3>1
    <3>. QED  BY <1>1, <2>2, <3>2 DEF Expected
  <2>. QED  BY <2>1, <2>2
<1>4. LinkedFrames(f, after)
  <2>. SUFFICES ASSUME NEW i \in DOMAIN after
                PROVE  /\ Linked(after[i].calls, Expected(f, after, i))
                       /\ i > 1 => after[i].next \in DOMAIN after[i].calls
    BY DEF LinkedFrames
  <2>1. i \in DOMAIN frames
    BY <1>1, <1>2
  <2>2. after[i].calls = frames[i].calls /\ (i > 1 => after[i] = frames[i])
    BY <1>1, <1>2, <2>1
  <2>. QED  BY <1>3, <2>1, <2>2 DEF LinkedFrames
<1>5. /\ Linked(calls, wanted) /\ wanted \in Types /\ calls \in B /\ Formed(calls)
  <2>1. calls \in B
    BY <1>1, FrameFields
  <2>. QED  BY <1>1, <2>1, ExpectedType DEF LinkedFrames
<1>6. calls[k].output \in Types
  BY <1>5 DEF Formed
<1>7. PICK X : calls \in Seq(X)
  BY <1>5 DEF Formed
<1>8. Expected(f, after, 1) = wanted
  BY <1>1, <1>3
<1>. HIDE DEF calls, k, wanted
<1>9. DOMAIN calls = 1..Len(calls) /\ Len(calls) \in Nat /\ k \in DOMAIN calls
  BY <1>7 DEF calls, k
<1>10. MatchesRuntimeType(v, calls[k].output)
  BY DEF calls, k
<1>11. CASE k = Len(calls)
  <2>1. IsAssignable(calls[k].output, wanted)
    BY <1>5, <1>9, <1>11 DEF Linked
  <2>2. MatchesRuntimeType(v, wanted)
    BY <2>1, <1>5, <1>6, <1>10, AssignableMatches
  <2>3. k + 1 \notin DOMAIN calls
    BY <1>9, <1>11
  <2>4. Wanted(f, after) = wanted
    BY <1>1, <1>8, <2>3 DEF Wanted
  <2>. QED  BY <1>4, <2>2, <2>4 DEF after
<1>12. CASE k # Len(calls)
  <2>1. calls[k].output = calls[k + 1].input /\ k + 1 \in DOMAIN calls
    BY <1>5, <1>9, <1>12 DEF Linked
  <2>2. Wanted(f, after) = calls[k + 1].input
    BY <1>1, <2>1 DEF Wanted
  <2>. QED  BY <1>4, <1>10, <2>1, <2>2 DEF after
<1>. QED  BY <1>11, <1>12

(* A pipeline that is entered takes the value, and has to yield what the   *)
(* call of it is said to.                                                  *)
LEMMA PushedLinked ==
    ASSUME NEW B, NEW f, NEW F, Frames(F, B), NEW frames \in Seq(F),
           frames # <<>>, LinkedFrames(f, frames), frames[1].next \in DOMAIN frames[1].calls,
           NEW g \in F, g.next = 1, 1 \in DOMAIN g.calls,
           Linked(g.calls, frames[1].calls[frames[1].next].output),
           NEW v, MatchesRuntimeType(v, g.calls[1].input)
    PROVE  LET after == <<g>> \o frames
           IN  LinkedFrames(f, after) /\ MatchesRuntimeType(v, Wanted(f, after))
<1>. DEFINE after == <<g>> \o frames
<1>2. /\ Len(after) = Len(frames) + 1 /\ DOMAIN after = 1..Len(after) /\ after[1] = g
      /\ \A i \in 2..Len(after) : after[i] = frames[i - 1]
  BY FramesPushed
<1>3. Len(frames) \in Nat /\ DOMAIN frames = 1..Len(frames) /\ Len(frames) # 0
  BY EmptySeq
<1>. HIDE DEF after
<1>4. Expected(f, after, 1) = frames[1].calls[frames[1].next].output
  <2>1. 1 # Len(after) /\ 1 + 1 \in 2..Len(after) /\ (1 + 1) - 1 = 1
    BY <1>2, <1>3
  <2>2. after[1 + 1] = frames[1]
    BY <1>2, <2>1
  <2>. QED  BY <2>1, <2>2 DEF Expected
<1>5. ASSUME NEW i \in 2..Len(after)  PROVE Expected(f, after, i) = Expected(f, frames, i - 1)
  <2>1. CASE i = Len(after)
    BY <1>2, <1>3, <2>1 DEF Expected
  <2>2. CASE i # Len(after)
    <3>1. i + 1 \in 2..Len(after) /\ (i + 1) - 1 = (i - 1) + 1 /\ i - 1 # Len(frames)
      BY <1>2, <1>3, <2>2
    <3>2. after[i + 1] = frames[(i - 1) + 1]
      BY <1>2, <3>1
    <3>. QED  BY <2>2, <3>1, <3>2 DEF Expected
  <2>. QED  BY <2>1, <2>2
<1>6. LinkedFrames(f, after)
  <2>. SUFFICES ASSUME NEW i \in DOMAIN after
                PROVE  /\ Linked(after[i].calls, Expected(f, after, i))
                       /\ i > 1 => after[i].next \in DOMAIN after[i].calls
    BY DEF LinkedFrames
  <2>1. CASE i = 1
    BY <1>2, <1>4, <2>1
  <2>2. CASE i # 1
    <3>1. i \in 2..Len(after) /\ i - 1 \in DOMAIN frames /\ (i - 1 = 1 \/ i - 1 > 1)
      BY <1>2, <1>3, <2>2
    <3>2. after[i] = frames[i - 1] /\ Expected(f, after, i) = Expected(f, frames, i - 1)
      BY <1>2, <1>5, <3>1
    <3>3. Linked(frames[i - 1].calls, Expected(f, frames, i - 1))
      BY <3>1 DEF LinkedFrames
    <3>4. frames[i - 1].next \in DOMAIN frames[i - 1].calls
      BY <3>1 DEF LinkedFrames
    <3>. QED  BY <3>2, <3>3, <3>4
  <2>. QED  BY <2>1, <2>2
<1>7. Wanted(f, after) = g.calls[1].input
  BY <1>2 DEF Wanted
<1>. QED  BY <1>6, <1>7 DEF after

(* A pipeline that is left has yielded what the call of it is said to. *)
LEMMA PoppedLinked ==
    ASSUME NEW B, \A calls \in B : Formed(calls), NEW f, f.success \in Types,
           NEW F, Frames(F, B), NEW frames \in Seq(F), Len(frames) > 1,
           LinkedFrames(f, frames), NEW v, MatchesRuntimeType(v, Expected(f, frames, 1))
    PROVE  LET after == Advanced(Tail(frames))
           IN  LinkedFrames(f, after) /\ MatchesRuntimeType(v, Wanted(f, after))
<1>. DEFINE tail == Tail(frames)
<1>1. Len(frames) \in Nat /\ DOMAIN frames = 1..Len(frames) /\ frames # <<>>
  BY EmptySeq
<1>2. /\ tail \in Seq(F) /\ Len(tail) = Len(frames) - 1
      /\ \A i \in 1..Len(tail) : tail[i] = frames[i + 1]
      /\ DOMAIN tail = 1..(Len(frames) - 1)
  BY <1>1, HeadTailFacts
<1>. HIDE DEF tail
<1>3. DOMAIN tail = 1..Len(tail) /\ tail # <<>> /\ 1 \in DOMAIN tail
  <2>1. DOMAIN tail = 1..Len(tail) /\ 1 \in DOMAIN tail
    BY <1>1, <1>2
  <2>. QED  BY <2>1
<1>. HIDE DEF tail
<1>4. ASSUME NEW i \in DOMAIN tail  PROVE Expected(f, tail, i) = Expected(f, frames, i + 1)
  <2>1. CASE i = Len(tail)
    BY <1>1, <1>2, <2>1 DEF Expected
  <2>2. CASE i # Len(tail)
    <3>1. i + 1 \in 1..Len(tail) /\ i + 1 # Len(frames)
      BY ONLY <1>1, <1>2, <1>3, <2>2, i \in DOMAIN tail
    <3>2. tail[i + 1] = frames[(i + 1) + 1]
      BY <1>2, <3>1
    <3>. QED  BY <2>2, <3>1, <3>2 DEF Expected
  <2>. QED  BY <2>1, <2>2
<1>5. LinkedFrames(f, tail)
  <2>. SUFFICES ASSUME NEW i \in DOMAIN tail
                PROVE  /\ Linked(tail[i].calls, Expected(f, tail, i))
                       /\ i > 1 => tail[i].next \in DOMAIN tail[i].calls
    BY DEF LinkedFrames
  <2>1. i + 1 \in DOMAIN frames /\ i + 1 > 1 /\ tail[i] = frames[i + 1]
    BY <1>1, <1>2, <1>3
  <2>2. Linked(frames[i + 1].calls, Expected(f, frames, i + 1))
    BY <2>1 DEF LinkedFrames
  <2>3. frames[i + 1].next \in DOMAIN frames[i + 1].calls
    BY <2>1 DEF LinkedFrames
  <2>. QED  BY <1>4, <2>1, <2>2, <2>3
<1>6. 2 \in DOMAIN frames /\ 2 > 1 /\ 1 # Len(frames) /\ tail[1] = frames[2] /\ 1 + 1 = 2
  BY <1>1, <1>2, <1>3
<1>7. frames[2].next \in DOMAIN frames[2].calls
  BY <1>6 DEF LinkedFrames
<1>8. Expected(f, frames, 1) = frames[2].calls[frames[2].next].output
  BY <1>6 DEF Expected
<1>9. MatchesRuntimeType(v, tail[1].calls[tail[1].next].output)
  BY <1>6, <1>8
<1>. QED  BY <1>2, <1>3, <1>5, <1>6, <1>7, <1>9, AdvancedLinked DEF tail

-----------------------------------------------------------------------------
(* Types while an extraction runs.                                         *)

(* The documents are those of the corpus. *)
FromCorpus == \E case \in Corpus : program = Written(case)

(* What types are inductive with. *)
TInv == IInv /\ FromCorpus /\ Accepted /\ Typed

(* The chain of a field that was accepted and prepared goes from what is   *)
(* read to what the field wants.                                           *)
LEMMA FieldChain ==
    ASSUME TInv, phase \in {"acquiring", "extracting"}, NEW f \in FieldsOf(ir.output)
    PROVE  /\ f.source.raw \in Types /\ f.success \in Types
           /\ Linked(f.calls, f.success) /\ Formed(f.calls)
           /\ f.calls # <<>> => 1 \in DOMAIN f.calls /\ f.calls[1].input = f.source.raw
           /\ f.calls = <<>> => IsAssignable(f.source.raw, f.success)
           /\ Reads(f) => f.source.raw = Primitive("string")
           /\ \A calls \in Chains(ir, f) : FromNodes(calls)
<1>1. ir = Extractor(program) /\ StaticErrors(ir) = {} /\ OutputErrors(ir.output) = {}
  BY Running DEF TInv
<1>2. PICK case \in Corpus : program = Written(case)
  BY DEF TInv, FromCorpus
<1>3. Flaws(program) = {}
  BY DEF TInv, Accepted
<1>4. \A calls \in Chains(ir, f) : FromNodes(calls)
  BY <1>1, <1>2, <1>3, CallsFromNodes
<1>5. ChainErrors(ir, f.calls, f.source.raw, f.success) = {}
  BY <1>1 DEF StaticErrors
<1>6. PICK X : f.calls \in Seq(X)
  BY <1>4 DEF Chains, FromNodes
<1>7. FieldErrors(f) = {}
  BY <1>1 DEF OutputErrors
<1>8. Reads(f) => f.source.raw = Primitive("string")
  BY <1>7 DEF FieldErrors, SourceErrorsOf, Invalid, Flag
<1>. QED  BY <1>4, <1>5, <1>6, <1>8, ChainLinked

(* The chain of a pipeline goes from what it takes to what it yields. *)
LEMMA PipelineChain ==
    ASSUME TInv, phase \in {"acquiring", "extracting"}, NEW f \in FieldsOf(ir.output),
           NEW t \in Kinded(ir.transforms, "pipeline")
    PROVE  /\ Linked(t.calls, t.output) /\ Formed(t.calls)
           /\ 1 \in DOMAIN t.calls /\ t.calls[1].input = t.input
<1>1. StaticErrors(ir) = {}
  BY Running DEF TInv
<1>2. t \in ir.transforms /\ t.kind = "pipeline"
  BY DEF Kinded
<1>3. TransformErrors(ir, t) = {}
  BY <1>1, <1>2 DEF StaticErrors
<1>4. t.calls # <<>> /\ ChainErrors(ir, t.calls, t.input, t.output) = {}
  BY <1>2, <1>3 DEF TransformErrors, Invalid, Flag
<1>5. FromNodes(t.calls)
  BY FieldChain DEF Chains
<1>6. PICK X : t.calls \in Seq(X)
  BY <1>5 DEF FromNodes
<1>. QED  BY <1>4, <1>6, ChainLinked

(* The frames of a field hold its chains. *)
LEMMA FramesHold ==
    ASSUME TInv, phase \in {"acquiring", "extracting"}, NEW f \in FieldsOf(ir.output)
    PROVE  Frames(FramesOf(f), Chains(ir, f)) /\ \A calls \in Chains(ir, f) : Formed(calls)
<1>1. \A calls \in Chains(ir, f) : Formed(calls)
  BY FieldChain, PipelineChain DEF Chains
<1>. DEFINE symbols == {<<>>} \cup {t.symbol : t \in Kinded(ir.transforms, "pipeline")}
            F(A, B) == [symbol : A, calls : B, next : Nat]
<1>2. FramesOf(f) = F(symbols, Chains(ir, f))
  BY DEF FramesOf, Chains
<1>3. ASSUME NEW A, NEW B  PROVE Frames(F(A, B), B)
  <2>1. ASSUME NEW g \in F(A, B)
        PROVE  LET e == [g EXCEPT !.next = @ + 1]
               IN  g.calls \in B /\ e \in F(A, B) /\ e.calls = g.calls /\ e.next = g.next + 1
    OBVIOUS
  <2>. HIDE DEF F
  <2>. QED  BY <2>1 DEF Frames
<1>. HIDE DEF F
<1>. QED  BY <1>1, <1>2, <1>3

-----------------------------------------------------------------------------
(* What holds of a field that is under way. *)
LEMMA TypedNow ==
    ASSUME TInv, Applying
    PROVE  /\ phase = "extracting" /\ chain.field \in FieldsOf(ir.output)
           /\ chain.frames # <<>> /\ chain.frames \in Seq(FramesOf(chain.field))
           /\ LinkedFrames(chain.field, chain.frames)
           /\ MatchesRuntimeType(chain.value, Wanted(chain.field, chain.frames))
           /\ Top = chain.frames[1]
           /\ Due <=> chain.frames[1].next \in DOMAIN chain.frames[1].calls
           /\ Call1 = chain.frames[1].calls[chain.frames[1].next]
<1>1. phase = "extracting" /\ chain.at = "applying"
  BY DEF Applying
<1>2. /\ chain.field \in FieldsOf(ir.output) /\ chain.frames # <<>>
      /\ chain.frames \in Seq(FramesOf(chain.field))
  BY <1>1 DEF TInv, IInv, Framed
<1>3. Head(chain.frames) = chain.frames[1]
  BY <1>2, HeadTailFacts
<1>4. /\ LinkedFrames(chain.field, chain.frames)
      /\ MatchesRuntimeType(chain.value, IF Due THEN Call1.input
                                         ELSE Expected(chain.field, chain.frames, 1))
  BY DEF TInv, Typed
<1>5. Top = chain.frames[1]
  BY <1>3 DEF Top
<1>6. /\ Due <=> chain.frames[1].next \in DOMAIN chain.frames[1].calls
      /\ Call1 = chain.frames[1].calls[chain.frames[1].next]
  BY <1>5 DEF Due, Call1
<1>. QED  BY <1>1, <1>2, <1>4, <1>5, <1>6 DEF Wanted

(* A field that goes on with frames that are linked is typed. *)
LEMMA GoesTyped ==
    ASSUME phase' = "extracting", NEW f, NEW v, NEW F, NEW frames \in Seq(F), frames # <<>>,
           chain' = Chain("applying", f, v, frames),
           LinkedFrames(f, frames), MatchesRuntimeType(v, Wanted(f, frames))
    PROVE  Typed'
<1>1. /\ chain'.at = "applying" /\ chain'.field = f /\ chain'.value = v /\ chain'.frames = frames
  BY DEF Chain
<1>2. Head(frames) = frames[1]
  BY HeadTailFacts
<1>3. Top' = frames[1]
  BY <1>1, <1>2 DEF Top
<1>4. Due' <=> frames[1].next \in DOMAIN frames[1].calls
  BY <1>1, <1>3 DEF Due, Applying
<1>5. Call1' = frames[1].calls[frames[1].next]
  BY <1>3 DEF Call1
<1>6. MatchesRuntimeType(v, IF Due' THEN Call1'.input ELSE Expected(f, frames, 1))
  BY <1>4, <1>5 DEF Wanted
<1>. QED  BY <1>1, <1>6 DEF Typed

(* A field that is settled has no frames any more. *)
LEMMA SettledTyped ==
    ASSUME phase = "extracting", NEW f, NEW codes, Settled(f, codes)
    PROVE  Typed'
<1>1. phase' = "returned" \/ (phase' = "extracting" /\ (chain' = Idle \/ \E v : chain' = Delivered(f, v)))
  BY DEF Settled
<1>2. ~Applying'
  BY <1>1 DEF Applying, Idle, Delivered, Chain
<1>. QED  BY <1>1, <1>2 DEF Typed

(* A call that yields what it is said to leaves the field typed. *)
LEMMA BecomesTyped ==
    ASSUME TInv, Due, NEW v, Becomes(v), MatchesRuntimeType(v, Call1.output)
    PROVE  Typed'
<1>. DEFINE f == chain.field
            F == FramesOf(f)
            B == Chains(ir, f)
<1>1. Applying
  BY DEF Due
<1>2. /\ phase = "extracting" /\ f \in FieldsOf(ir.output)
      /\ chain.frames # <<>> /\ chain.frames \in Seq(F) /\ LinkedFrames(f, chain.frames)
      /\ chain.frames[1].next \in DOMAIN chain.frames[1].calls
      /\ Call1 = chain.frames[1].calls[chain.frames[1].next]
  BY <1>1, TypedNow
<1>3. Frames(F, B) /\ (\A calls \in B : Formed(calls)) /\ f.success \in Types
  BY <1>2, FramesHold, FieldChain
<1>4. chain' = Chain("applying", f, v, Advanced(chain.frames)) /\ phase' = phase
  BY DEF Becomes, Continues
<1>5. Advanced(chain.frames) \in Seq(F) /\ Advanced(chain.frames) # <<>>
  BY <1>2, FrameSteps DEF FramesOf
<1>. HIDE DEF f, F, B
<1>6. /\ LinkedFrames(f, Advanced(chain.frames))
      /\ MatchesRuntimeType(v, Wanted(f, Advanced(chain.frames)))
  BY <1>2, <1>3, AdvancedLinked
<1>. QED  BY <1>2, <1>4, <1>5, <1>6, GoesTyped

(* The call that is due came from a node, and is of types. *)
LEMMA DueTyped ==
    ASSUME TInv, Due
    PROVE  /\ Call1.input \in Types /\ Call1.output \in Types
           /\ MatchesRuntimeType(chain.value, Call1.input)
           /\ Call1.target.kind = "builtin" => \E n : Checked(Call1, n)
<1>1. Applying
  BY DEF Due
<1>2. /\ phase = "extracting" /\ chain.field \in FieldsOf(ir.output)
      /\ Top.next \in DOMAIN Top.calls /\ Top.calls \in Chains(ir, chain.field)
  BY DueCall DEF TInv
<1>3. FromNodes(Top.calls) /\ Formed(Top.calls)
  BY <1>2, FieldChain, FramesHold
<1>4. Call1.input \in Types /\ Call1.output \in Types
  BY <1>2, <1>3 DEF Formed, Call1
<1>5. Call1.target.kind = "builtin" => \E n : Checked(Call1, n)
  BY <1>2, <1>3 DEF FromNodes, Call1
<1>6. MatchesRuntimeType(chain.value, Call1.input)
  BY <1>1, TypedNow DEF Wanted
<1>. QED  BY <1>4, <1>5, <1>6

(* The declared transform that is reached fits the call. *)
LEMMA TargetFits ==
    ASSUME TInv, Calling("declared")
    PROVE  /\ Target1 \in ir.transforms
           /\ IsAssignable(Call1.input, Target1.input) /\ Call1.output = Target1.output
           /\ Target1.input \in Types /\ Target1.output \in Types
<1>1. Due /\ Call1.target.kind = "declared"
  BY DEF Calling
<1>2. /\ phase = "extracting" /\ chain.field \in FieldsOf(ir.output)
      /\ Top.next \in DOMAIN Top.calls /\ Top.calls \in Chains(ir, chain.field)
  BY <1>1, DueCall DEF TInv
<1>3. StaticErrors(ir) = {}
  BY <1>2, Running DEF TInv
<1>4. Target1 \in ir.transforms /\ Target1.symbol = Call1.target.symbol
  BY TargetKnown DEF TInv
<1>. QED  BY <1>1, <1>2, <1>3, <1>4, DeclaredFits DEF Call1

(* What is read is of the type that the field's chain begins with. *)
LEMMA ReadTyped ==
    ASSUME TInv, phase = "extracting", phase' = phase, NEW f \in FieldsOf(ir.output),
           NEW r \in Readings(f), r # <<>>, chain' = Read(f, r[1])
    PROVE  Typed'
<1>. DEFINE v == r[1]
            g == Frame(<<>>, f.calls)
            frames == <<g>>
            F == FramesOf(f)
<1>1. /\ f.source.raw \in Types /\ f.success \in Types
      /\ Linked(f.calls, f.success) /\ Formed(f.calls)
      /\ f.calls # <<>> => 1 \in DOMAIN f.calls /\ f.calls[1].input = f.source.raw
      /\ f.calls = <<>> => IsAssignable(f.source.raw, f.success)
      /\ Reads(f) => f.source.raw = Primitive("string")
  BY FieldChain
<1>2. MatchesRuntimeType(v, f.source.raw)
  <2>1. CASE Reads(f)
    <3>1. r = <<<<"string">>>>
      BY <2>1 DEF Readings
    <3>2. v = <<"string">> /\ v[1] = "string"
      BY <3>1
    <3>3. f.source.raw \in Types /\ IsString(f.source.raw)
      BY <1>1, <2>1, TextTypes
    <3>. HIDE DEF v
    <3>. QED  BY <3>2, <3>3, StringMatch
  <2>2. CASE ~Reads(f)
    <3>1. PICK w \in Answers : r = NormalizeJSONResult(w, f.source.raw)
      BY <2>2 DEF Readings
    <3>. QED  BY <3>1, <1>1, NormalizedMatches
  <2>. QED  BY <2>1, <2>2
<1>3. g \in F /\ g.calls = f.calls /\ g.next = 1
  BY DEF Frame, FramesOf
<1>4. chain' = Chain("applying", f, v, frames)
  BY DEF Read
<1>. HIDE DEF v, g, F
<1>5. frames \in Seq(F) /\ frames # <<>> /\ Len(frames) = 1 /\ DOMAIN frames = {1} /\ frames[1] = g
  BY <1>3
<1>. HIDE DEF frames
<1>6. Expected(f, frames, 1) = f.success
  BY <1>5 DEF Expected
<1>7. LinkedFrames(f, frames)
  BY <1>1, <1>3, <1>5, <1>6 DEF LinkedFrames
<1>8. MatchesRuntimeType(v, Wanted(f, frames))
  <2>1. CASE f.calls = <<>>
    <3>1. 1 \notin DOMAIN f.calls
      BY <2>1
    <3>2. Wanted(f, frames) = f.success
      BY <1>3, <1>5, <1>6, <3>1 DEF Wanted
    <3>. QED  BY <1>1, <1>2, <2>1, <3>2, AssignableMatches
  <2>2. CASE f.calls # <<>>
    BY <1>1, <1>2, <1>3, <1>5, <2>2 DEF Wanted
  <2>. QED  BY <2>1, <2>2
<1>. QED  BY <1>4, <1>5, <1>7, <1>8, GoesTyped

(* Every step of a field leaves it typed. *)
LEMMA FieldTyped ==
    ASSUME TInv, FieldStep
    PROVE  Typed'
<1>0. phase = "extracting" /\ UNCHANGED <<static, request, step>>
  BY FieldOutcome DEF TInv
<1>1. CASE ReadField
  <2>1. PICK f \in FieldsOf(ir.output) :
           \/ Missing(f) \/ Recover(f, "E_SELECTOR_CARDINALITY")
           \/ Recover(f, "E_JAVASCRIPT_RESULT_TYPE")
           \/ \E r \in Readings(f) : r # <<>> /\ chain' = Read(f, r[1]) /\ UNCHANGED <<phase, error>>
    BY <1>1 DEF ReadField
  <2>. QED  BY <1>0, <2>1, MissingSettles, RecoverSettles, SettledTyped, ReadTyped
<1>2. CASE CallBuiltin
  <2>1. Due /\ Call1.target.kind = "builtin"
    BY <1>2 DEF CallBuiltin, Calling
  <2>2. PICK v \in ApplyBuiltinRuntime(Call1.target.name, chain.value, Call1) :
           IF Failure(v) THEN Fails("E_TRANSFORM") ELSE Becomes(v)
    BY <1>2 DEF CallBuiltin
  <2>3. CASE Failure(v)
    BY <1>0, <2>2, <2>3, FailsSettles, SettledTyped DEF FieldCodes
  <2>4. CASE ~Failure(v)
    <3>1. PICK n : Checked(Call1, n)
      BY <2>1, DueTyped
    <3>2. MatchesRuntimeType(v, Call1.output)
      BY <2>1, <2>4, <3>1, DueTyped, BuiltinYields
    <3>. QED  BY <2>1, <2>2, <2>4, <3>2, BecomesTyped
  <2>. QED  BY <2>3, <2>4
<1>3. CASE Recursion
  <2>1. Fails("E_TRANSFORM_RECURSION")
    BY <1>3 DEF Recursion
  <2>. QED  BY <1>0, <2>1, FailsSettles, SettledTyped DEF FieldCodes
<1>4. CASE CallPipeline
  <2>. DEFINE f == chain.field
              F == FramesOf(f)
              B == Chains(ir, f)
              g == Frame(Target1.symbol, Target1.calls)
  <2>1. /\ Calling("declared") /\ Due /\ Target1.kind = "pipeline"
        /\ Continues(chain.value, <<g>> \o chain.frames)
    BY <1>4 DEF CallPipeline, Reaches, Calling
  <2>2. Target1 \in Kinded(ir.transforms, "pipeline")
    BY <2>1, TargetFits DEF Kinded
  <2>3. /\ f \in FieldsOf(ir.output)
        /\ chain.frames # <<>> /\ chain.frames \in Seq(F) /\ LinkedFrames(f, chain.frames)
        /\ chain.frames[1].next \in DOMAIN chain.frames[1].calls
        /\ Call1 = chain.frames[1].calls[chain.frames[1].next]
    BY <2>1, TypedNow DEF Due
  <2>4. /\ Linked(Target1.calls, Target1.output) /\ 1 \in DOMAIN Target1.calls
        /\ Target1.calls[1].input = Target1.input
    BY <1>0, <2>2, <2>3, PipelineChain
  <2>5. MatchesRuntimeType(chain.value, Target1.input) /\ Target1.output = Call1.output
    BY <2>1, DueTyped, TargetFits, AssignableMatches
  <2>6. g \in F /\ g.calls = Target1.calls /\ g.next = 1
    BY <2>2 DEF Frame, FramesOf
  <2>7. Frames(F, B)
    BY <1>0, <2>3, FramesHold
  <2>8. chain' = Chain("applying", f, chain.value, <<g>> \o chain.frames) /\ phase' = phase
    BY <2>1 DEF Continues
  <2>. HIDE DEF f, F, B, g
  <2>9. <<g>> \o chain.frames \in Seq(F) /\ <<g>> \o chain.frames # <<>>
    <3>1. Len(<<g>> \o chain.frames) = Len(chain.frames) + 1 /\ Len(chain.frames) \in Nat
      BY <2>3, <2>6, FramesPushed
    <3>2. <<g>> \o chain.frames \in Seq(F)
      BY <2>3, <2>6, ConcatProperties
    <3>. QED  BY <3>1, <3>2
  <2>10. Linked(g.calls, chain.frames[1].calls[chain.frames[1].next].output)
    BY <2>3, <2>4, <2>5, <2>6
  <2>11. MatchesRuntimeType(chain.value, g.calls[1].input) /\ 1 \in DOMAIN g.calls
    BY <2>4, <2>5, <2>6
  <2>12. /\ LinkedFrames(f, <<g>> \o chain.frames)
         /\ MatchesRuntimeType(chain.value, Wanted(f, <<g>> \o chain.frames))
    BY <2>3, <2>6, <2>7, <2>10, <2>11, PushedLinked
  <2>. QED  BY <1>0, <2>8, <2>9, <2>12, GoesTyped
<1>5. CASE Leave
  <2>. DEFINE f == chain.field
              F == FramesOf(f)
              B == Chains(ir, f)
              after == Advanced(Tail(chain.frames))
  <2>1. Applying /\ ~Due /\ Len(chain.frames) > 1 /\ Continues(chain.value, after)
    BY <1>5 DEF Leave
  <2>2. /\ f \in FieldsOf(ir.output) /\ chain.frames # <<>> /\ chain.frames \in Seq(F)
        /\ LinkedFrames(f, chain.frames)
        /\ MatchesRuntimeType(chain.value, Expected(f, chain.frames, 1))
    BY <2>1, TypedNow DEF Wanted
  <2>3. Frames(F, B) /\ (\A calls \in B : Formed(calls)) /\ f.success \in Types
    BY <1>0, <2>2, FramesHold, FieldChain
  <2>4. Tail(chain.frames) \in Seq(F) /\ Tail(chain.frames) # <<>>
    BY <2>1, <2>2, HeadAndTail
  <2>5. after \in Seq(F) /\ after # <<>>
    BY <2>4, FrameSteps DEF FramesOf
  <2>6. chain' = Chain("applying", f, chain.value, after) /\ phase' = phase
    BY <2>1 DEF Continues
  <2>. HIDE DEF f, F, B
  <2>7. LinkedFrames(f, after) /\ MatchesRuntimeType(chain.value, Wanted(f, after))
    BY <2>1, <2>2, <2>3, PoppedLinked
  <2>. HIDE DEF after
  <2>. QED  BY <1>0, <2>5, <2>6, <2>7, GoesTyped
<1>6. CASE CallMatch
  <2>1. Due /\ Calling("declared")
    BY <1>6 DEF CallMatch, Reaches, Calling
  <2>2. PICK literal : LET result == NormalizeJSONResult(Decoded(literal), Target1.output)
                       IN  IF result = <<>> THEN Fails("E_TRANSFORM") ELSE Becomes(result[1])
    BY <1>6 DEF CallMatch
  <2>. DEFINE result == NormalizeJSONResult(Decoded(literal), Target1.output)
  <2>3. CASE result = <<>>
    BY <1>0, <2>2, <2>3, FailsSettles, SettledTyped DEF FieldCodes
  <2>4. CASE result # <<>>
    <3>1. MatchesRuntimeType(result[1], Call1.output)
      BY <2>1, <2>4, TargetFits, NormalizedMatches
    <3>2. Becomes(result[1])
      BY <2>2, <2>4
    <3>. HIDE DEF result
    <3>. QED  BY <2>1, <3>1, <3>2, BecomesTyped
  <2>. QED  BY <2>3, <2>4
<1>7. CASE CallExternal
  <2>1. Due /\ Calling("declared") /\ Target1.kind = "external"
    BY <1>7 DEF CallExternal, Reaches, Calling
  <2>2. Target1 \in Kinded(ir.transforms, "external")
    BY <2>1, TargetFits DEF Kinded
  <2>3. Target1.external \in request.externals
    BY <1>0, <2>2, Running DEF TInv, Unbound, Flag
  <2>4. \/ Fails("E_EXTERNAL_TRANSFORM") \/ Fails("E_EXTERNAL_TRANSFORM_RESULT_TYPE")
        \/ \E v : Becomes(v) /\ MatchesRuntimeType(v, Target1.output)
    BY <1>7, <2>3 DEF CallExternal
  <2>5. CASE Fails("E_EXTERNAL_TRANSFORM") \/ Fails("E_EXTERNAL_TRANSFORM_RESULT_TYPE")
    BY <1>0, <2>5, FailsSettles, SettledTyped DEF FieldCodes
  <2>6. CASE \E v : Becomes(v) /\ MatchesRuntimeType(v, Target1.output)
    BY <2>1, <2>6, TargetFits, BecomesTyped
  <2>. QED  BY <2>4, <2>5, <2>6
<1>8. CASE EndField
  <2>1. \/ Deliver(chain.field, chain.value) \/ Fails("E_OUTPUT_TYPE")
    BY <1>8 DEF EndField
  <2>2. CASE Deliver(chain.field, chain.value)
    <3>1. chain' = Delivered(chain.field, chain.value) /\ phase' = phase
      BY <2>2 DEF Deliver
    <3>. QED  BY <1>0, <3>1 DEF Typed, Applying, Delivered, Chain
  <2>3. CASE Fails("E_OUTPUT_TYPE")
    BY <1>0, <2>3, FailsSettles, SettledTyped DEF FieldCodes
  <2>. QED  BY <2>1, <2>2, <2>3
<1>. QED  BY <1>1, <1>2, <1>3, <1>4, <1>5, <1>6, <1>7, <1>8 DEF FieldStep

(* Types stay sound: the chain that the compiler linked, its calls checked *)
(* once more when the IR is prepared, hands each value on to a call that   *)
(* is of its type.                                                         *)
LEMMA TypedInductive ==
    ASSUME TInv, IInv', [Next]_vars
    PROVE  TInv'
<1>0. FromCorpus'
  <2>1. program' = program
    BY DEF Next, vars, static, Compile, NewProgram, Begin, Acquire, RunStep, Acquired, QueryRows,
           ReadField, CallBuiltin, Recursion, CallPipeline, Leave, CallMatch, CallExternal,
           EndField, Finish
  <2>. QED  BY <2>1 DEF TInv, FromCorpus
<1>1. CASE Compile
  <2>1. /\ phase = "source" /\ program' = program /\ chain' = chain
        /\ phase' = (IF Panic \in Flaws(program) THEN "panicked"
                     ELSE IF Flaws(program) = {} THEN "compiled" ELSE "rejected")
    BY <1>1 DEF Compile, Report
  <2>2. Accepted'
    BY <2>1 DEF Accepted
  <2>3. Typed'
    BY <2>1 DEF Typed, Applying
  <2>. QED  BY <1>0, <2>2, <2>3 DEF TInv
<1>2. CASE NewProgram
  <2>1. /\ phase = "compiled" /\ program' = program /\ phase' \in {"ready", "rejected"}
    BY <1>2 DEF NewProgram
  <2>. QED  BY <1>0, <2>1 DEF TInv, Accepted, Typed, Applying
<1>3. CASE phase \notin {"source", "panicked", "rejected", "compiled"} /\ ~FieldStep
  <2>1. /\ program' = program /\ chain' = chain
        /\ phase' \notin {"source", "panicked", "rejected"} \/ phase' = phase
        /\ \/ phase' = "returned"
           \/ phase' = phase /\ chain' = chain
           \/ phase \in {"ready", "acquiring"}
           \/ chain.at # "applying" /\ phase = "extracting" /\ phase' = phase
    BY <1>3 DEF Next, vars, static, Compile, NewProgram, Begin, Acquire, RunStep, Acquired, QueryRows,
           FieldStep, Finish, Return, Extracting, Navigated
  <2>2. Accepted'
    BY <1>3, <2>1 DEF TInv, Accepted
  <2>3. Typed'
    <3>1. CASE phase' = "returned"
      BY <3>1 DEF Typed, Applying
    <3>2. CASE phase \in {"ready", "acquiring"}
      <4>1. chain = Idle
        BY <3>2 DEF TInv, IInv, Untouched, Typed
      <4>. QED  BY <2>1, <4>1 DEF Typed, Applying, Idle
    <3>3. CASE phase' = phase /\ chain' = chain
      BY <3>3 DEF TInv, Typed, Applying, Due, Top, Call1
    <3>. QED  BY <2>1, <3>1, <3>2, <3>3
  <2>. QED  BY <1>0, <2>2, <2>3 DEF TInv
<1>4. CASE FieldStep
  <2>1. phase = "extracting" /\ program' = program
    BY <1>4, FieldOutcome DEF TInv, static
  <2>2. Accepted'
    BY <2>1 DEF TInv, Accepted
  <2>. QED  BY <1>0, <1>4, <2>2, FieldTyped DEF TInv
<1>5. CASE phase \in {"source", "panicked", "rejected", "compiled"} /\ ~Compile /\ ~NewProgram
  <2>1. UNCHANGED vars
    BY <1>4, <1>5, FieldOutcome DEF Next, TInv, FieldStep, Begin, Acquire, RunStep, Acquired, QueryRows,
       Finish, Extracting, Navigated
  <2>. QED  BY <1>0, <2>1 DEF vars, TInv, Accepted, Typed, Applying, Due, Top, Call1
<1>. QED  BY <1>1, <1>2, <1>3, <1>4, <1>5

(* A call is only reached by values of the type that it was compiled for,  *)
(* which are of a kind that it takes, with arguments that it can read; and *)
(* the last call leaves a value of the type of the field.                  *)
THEOREM TypesAreSound == Spec => []WellTyped
<1>1. Init => TInv \/ ~IInv
  BY DEF Init, TInv, FromCorpus, Accepted, Typed, Applying
<1>2. TInv /\ IInv' /\ [Next]_vars => TInv'
  BY TypedInductive
<1>3. TInv => WellTyped
  <2>. SUFFICES ASSUME TInv  PROVE WellTyped
    OBVIOUS
  <2>1. ASSUME Due
        PROVE  /\ MatchesRuntimeType(chain.value, Call1.input)
               /\ Call1.target.kind = "builtin" =>
                     /\ Takes(Call1.target.name, chain.value)
                     /\ Unusual(Call1) \/ ArgumentsRead(Call1.target.name, Call1)
    BY <2>1, DueTyped, BuiltinTakes, BuiltinReads
  <2>2. ASSUME Applying, ~Due, Len(chain.frames) = 1
        PROVE  MatchesRuntimeType(chain.value, chain.field.success)
    BY <2>2, TypedNow DEF Wanted, Expected
  <2>. QED  BY <2>1, <2>2 DEF WellTyped
<1>. QED  BY <1>1, <1>2, <1>3, Inductive, PTL DEF Spec
=============================================================================
