------------------------- MODULE OutputWalkerProofs -------------------------
(***************************************************************************)
(* Theorems about OutputWalker, for every output declaration, any number   *)
(* of rows, every mixture of answers and an end of the context anywhere.   *)
(*                                                                         *)
(* The frames are a cursor into the output: each step pushes a frame,      *)
(* takes the innermost one or two off, or moves the innermost one on, so   *)
(* that what was read stays behind the cursor (Behind) and nothing is read *)
(* twice.  On that rests what is counted once the context is over.  What   *)
(* each frame has collected (AllCollected) is the second invariant: it     *)
(* makes a successful result whole.  The third ties it to what was read    *)
(* (AllAnswered, Told): values have their answers, and failures are told.  *)
(* The fourth (Explained) says where an error that returns comes from.     *)
(***************************************************************************)
EXTENDS OutputWalker, SequenceTheorems, FiniteSetTheorems, TLAPS

-----------------------------------------------------------------------------
(* Paths behind a cursor.                                                  *)

(* A call that returns an error is still in what it read. *)
LEMMA PassedReturns ==
    ASSUME NEW c, NEW q, NEW returning \in BOOLEAN, Passed(c, q, returning)
    PROVE  Passed(c, q, TRUE)
BY DEF Passed

LEMMA PassedItself ==
    ASSUME NEW c
    PROVE  Passed(c, c, TRUE)
BY DEF Passed

(* What is about to be read is not behind. *)
LEMMA NotPassed ==
    ASSUME NEW c \in Seq(Nat), c # <<>>
    PROVE  ~Passed(c, c, FALSE)
<1>. DEFINE n == Len(c)
<1>1. n \in Nat /\ n # 0 /\ c[n] \in Nat
  BY EmptySeq, LenProperties
<1>2. n \in 1..n /\ ~(c[n] < c[n])
  BY <1>1
<1>. QED  BY <1>1, <1>2 DEF Passed

(* A new frame has nothing behind it: what was read is behind the others.  *)
LEMMA PassedPushed ==
    ASSUME NEW c \in Seq(Nat), c # <<>>, NEW q \in Seq(Nat), NEW k \in Nat,
           q = c \/ Passed(c, q, FALSE)
    PROVE  Passed(Append(c, k), q, FALSE)
<1>. DEFINE n == Len(c)
            d == Append(c, k)
<1>1. /\ n \in Nat /\ n # 0 /\ Len(d) = n + 1 /\ \A i \in 1..n : d[i] = c[i]
  BY EmptySeq, LenProperties, AppendProperties
<1>2. Len(q) \in Nat /\ \A i \in 1..Len(q) : q[i] \in Nat
  BY LenProperties, ElementOfSeq
<1>. HIDE DEF n, d
<1>3. ASSUME NEW i \in 1..(n + 1), i <= Len(q), \A x \in 1..(i - 1) : q[x] = d[x]
      PROVE  q[i] < d[i] \/ (q[i] = d[i] /\ i < n + 1)
  <2>1. CASE q = c
    <3>1. i \in 1..n
      BY <1>1, <1>3, <2>1 DEF n
    <3>. QED  BY <1>1, <2>1, <3>1
  <2>2. CASE Passed(c, q, FALSE)
    <3>1. \A x \in 1..(i - 1) : q[x] = c[x]
      BY <1>1, <1>3
    <3>2. CASE i \in 1..n
      <4>1. q[i] < c[i] \/ (q[i] = c[i] /\ i < n)
        BY <1>3, <2>2, <3>1, <3>2 DEF Passed, n
      <4>. QED  BY <1>1, <3>2, <4>1
    <3>3. CASE i = n + 1
      <4>1. n \in 1..n /\ n <= Len(q) /\ \A x \in 1..(n - 1) : q[x] = c[x]
        BY <1>1, <1>2, <1>3, <3>1, <3>3
      <4>2. q[n] < c[n]
        <5>1. q[n] < c[n] \/ (q[n] = c[n] /\ n < n)
          BY <2>2, <4>1 DEF Passed, n
        <5>. QED  BY <1>1, <5>1
      <4>3. q[n] = c[n] /\ q[n] \in Nat
        BY <1>1, <1>2, <3>1, <3>3, <4>1
      <4>. QED  BY <4>2, <4>3
    <3>. QED  BY <1>1, <3>2, <3>3
  <2>. QED  BY <2>1, <2>2
<1>. QED  BY <1>1, <1>3 DEF Passed, d

(* A cursor that moves on leaves behind what it was in. *)
LEMMA PassedMoved ==
    ASSUME NEW c \in Seq(Nat), c # <<>>, NEW q \in Seq(Nat), Passed(c, q, TRUE)
    PROVE  Passed([c EXCEPT ![Len(c)] = c[Len(c)] + 1], q, FALSE)
<1>. DEFINE n == Len(c)
            d == [c EXCEPT ![n] = c[n] + 1]
<1>1. /\ n \in Nat /\ n # 0 /\ c[n] \in Nat /\ Len(d) = n /\ d[n] = c[n] + 1
      /\ \A i \in 1..(n - 1) : d[i] = c[i]
  BY EmptySeq, LenProperties
<1>2. Len(q) \in Nat /\ \A i \in 1..Len(q) : q[i] \in Nat
  BY LenProperties, ElementOfSeq
<1>. HIDE DEF n, d
<1>3. ASSUME NEW i \in 1..n, i <= Len(q), \A x \in 1..(i - 1) : q[x] = d[x]
      PROVE  q[i] < d[i] \/ (q[i] = d[i] /\ i < n)
  <2>1. \A x \in 1..(i - 1) : q[x] = c[x]
    BY <1>1, <1>3
  <2>2. q[i] < c[i] \/ q[i] = c[i]
    BY <1>3, <2>1 DEF Passed, n
  <2>3. q[i] \in Nat
    BY <1>1, <1>2, <1>3
  <2>4. CASE i = n
    BY <1>1, <2>2, <2>3, <2>4
  <2>5. CASE i # n
    BY <1>1, <1>3, <2>2, <2>5
  <2>. QED  BY <2>4, <2>5
<1>. QED  BY <1>1, <1>3 DEF Passed, d, n

(* Without its last part the cursor is in what it read there. *)
LEMMA PassedPopped ==
    ASSUME NEW c \in Seq(Nat), Len(c) > 1, NEW q \in Seq(Nat), NEW returning \in BOOLEAN,
           Passed(c, q, returning)
    PROVE  Passed(SubSeq(c, 1, Len(c) - 1), q, TRUE)
<1>. DEFINE n == Len(c)
            d == SubSeq(c, 1, n - 1)
<1>1. n \in Nat /\ n > 1 /\ Len(d) = n - 1 /\ \A i \in 1..(n - 1) : d[i] = c[i]
  BY LenProperties
<1>. HIDE DEF n, d
<1>2. ASSUME NEW i \in 1..(n - 1), i <= Len(q), \A x \in 1..(i - 1) : q[x] = d[x]
      PROVE  q[i] < d[i] \/ q[i] = d[i]
  <2>1. i \in 1..n /\ \A x \in 1..(i - 1) : q[x] = c[x]
    BY <1>1, <1>2
  <2>2. q[i] < c[i] \/ q[i] = c[i]
    BY <1>2, <2>1 DEF Passed, n
  <2>. QED  BY <1>1, <1>2, <2>2
<1>. QED  BY <1>1, <1>2 DEF Passed, d, n

-----------------------------------------------------------------------------
(* The frames.                                                             *)
LEMMA SeqIsFunction ==
    ASSUME NEW S, NEW s \in Seq(S)
    PROVE  s = [i \in 1..Len(s) |-> s[i]]
OBVIOUS

LEMMA StackIsSeq ==
    ASSUME Frames
    PROVE  /\ stack \in Seq({stack[i] : i \in DOMAIN stack})
           /\ Len(stack) \in Nat /\ Len(stack) # 0 /\ DOMAIN stack = 1..Len(stack)
           /\ Top = stack[Len(stack)] /\ Len(stack) \in DOMAIN stack
<1>1. stack = [i \in 1..Len(stack) |-> stack[i]] /\ Len(stack) \in Nat /\ Len(stack) # 0
  BY DEF Frames
<1>. QED  BY <1>1 DEF Top

LEMMA CursorIsNat ==
    ASSUME schema \in Schemas, NEW f, Object(f) \/ Rows(f)
    PROVE  Cursor(f) \in Nat
<1>1. CASE Object(f)
  <2>1. schema[f.object] \in Seq(MembersOf(schema))
    BY <1>1, WalkerAssumption DEF Object, WellFormed
  <2>2. Len(schema[f.object]) \in Nat
    BY <2>1, LenProperties
  <2>. QED  BY <1>1, <2>2 DEF Object, Cursor
<1>2. CASE Rows(f)
  BY <1>2 DEF Rows, Cursor
<1>. QED  BY <1>1, <1>2

LEMMA CursorsAreNat ==
    ASSUME schema \in Schemas, Frames
    PROVE  Cursors \in Seq(Nat) /\ Len(Cursors) = Len(stack) /\ Cursors # <<>>
<1>1. \A i \in 1..Len(stack) : Cursor(stack[i]) \in Nat
  <2>1. \A i \in 1..Len(stack) : Object(stack[i]) \/ Rows(stack[i])
    BY StackIsSeq DEF Frames
  <2>. QED  BY <2>1, CursorIsNat
<1>2. Len(stack) \in Nat /\ Len(stack) # 0
  BY StackIsSeq
<1>3. Cursors \in [1..Len(stack) -> Nat]
  BY <1>1 DEF Cursors
<1>. HIDE DEF Cursors
<1>4. Cursors \in Seq(Nat) /\ Len(Cursors) = Len(stack)
  BY <1>2, <1>3
<1>. QED  BY <1>2, <1>4

LEMMA SameFrames ==
    ASSUME Frames, Located, UNCHANGED <<schema, stack>>
    PROVE  Frames' /\ Located' /\ Cursors' = Cursors /\ Top' = Top
<1>1. Cursors' = Cursors /\ Top' = Top
  BY DEF Cursors, Cursor, Top
<1>2. Located'
  BY <1>1 DEF Located
<1>3. Object(stack[1])'
  BY DEF Frames, Object
<1>4. ASSUME NEW i \in DOMAIN stack'
      PROVE  /\ (Object(stack[i]) \/ Rows(stack[i]))'
             /\ i < Len(stack') => (IF stack[i].kind = "object"
                                   THEN AtMember(stack[i], "collection") /\ Rows(stack[i + 1])
                                   ELSE Object(stack[i + 1]))'
  <2>1. /\ Object(stack[i]) \/ Rows(stack[i])
        /\ i < Len(stack) => IF stack[i].kind = "object"
                             THEN AtMember(stack[i], "collection") /\ Rows(stack[i + 1])
                             ELSE Object(stack[i + 1])
    BY DEF Frames
  <2>. QED  BY <2>1 DEF Object, Rows, AtMember
<1>5. Frames'
  BY <1>3, <1>4 DEF Frames
<1>. QED  BY <1>1, <1>2, <1>5

(* The frames after a change of the innermost one. *)
LEMMA NewInnermost ==
    ASSUME Frames, Located, UNCHANGED schema, NEW n \in 1..(Len(stack) + 1), NEW f,
           stack' = [i \in 1..n |-> IF i = n THEN f ELSE stack[i]],
           IF n = 1 THEN Object(f)
           ELSE IF stack[n - 1].kind = "object"
                THEN AtMember(stack[n - 1], "collection") /\ Rows(f)
                ELSE Object(f),
           f.path = [x \in 1..(n - 1) |-> Cursors[x]]
    PROVE  /\ Frames' /\ Located' /\ Len(stack') = n /\ Top' = f
           /\ Cursors' = [i \in 1..n |-> IF i = n THEN Cursor(f) ELSE Cursors[i]]
<1>1. Len(stack) \in Nat /\ Len(stack) # 0 /\ DOMAIN stack = 1..Len(stack)
  BY StackIsSeq
<1>2. /\ DOMAIN stack' = 1..n /\ n \in Nat /\ n # 0 /\ stack'[n] = f
      /\ \A i \in 1..(n - 1) : i \in DOMAIN stack /\ stack'[i] = stack[i]
  BY <1>1
<1>3. Len(stack') = n /\ stack' = [i \in 1..n |-> stack'[i]]
  BY <1>2
<1>4. Frames'
  <2>1. Object(stack[1]) /\ 1 \in DOMAIN stack
    BY <1>1 DEF Frames
  <2>2. Object(stack[1])'
    <3>1. Object(stack'[1])
      BY <1>1, <1>2, <2>1
    <3>. QED  BY <3>1 DEF Object
  <2>3. ASSUME NEW i \in DOMAIN stack'
        PROVE  /\ (Object(stack[i]) \/ Rows(stack[i]))'
               /\ i < n => (IF stack[i].kind = "object"
                            THEN AtMember(stack[i], "collection") /\ Rows(stack[i + 1])
                            ELSE Object(stack[i + 1]))'
    <3>1. CASE i = n
      <4>1. Object(f) \/ Rows(f)
        BY <1>1
      <4>. QED  BY <1>2, <3>1, <4>1 DEF Object, Rows
    <3>2. CASE i = n - 1
      <4>1. Object(stack[i]) \/ Rows(stack[i])
        BY <1>2, <2>3, <3>2 DEF Frames
      <4>2. /\ Object(stack'[i]) \/ Rows(stack'[i])
            /\ IF stack'[i].kind = "object"
               THEN AtMember(stack'[i], "collection") /\ Rows(stack'[i + 1])
               ELSE Object(stack'[i + 1])
        BY <1>2, <2>3, <3>2, <4>1
      <4>. QED  BY <4>2 DEF Object, Rows, AtMember
    <3>3. CASE i < n - 1
      <4>1. /\ i \in DOMAIN stack /\ i < Len(stack)
            /\ stack'[i] = stack[i] /\ stack'[i + 1] = stack[i + 1]
        BY <1>1, <1>2, <2>3, <3>3
      <4>2. /\ Object(stack'[i]) \/ Rows(stack'[i])
            /\ IF stack'[i].kind = "object"
               THEN AtMember(stack'[i], "collection") /\ Rows(stack'[i + 1])
               ELSE Object(stack'[i + 1])
        BY <4>1 DEF Frames
      <4>. QED  BY <4>2 DEF Object, Rows, AtMember
    <3>. QED  BY <1>2, <2>3, <3>1, <3>2, <3>3
  <2>. QED  BY <1>2, <1>3, <2>2, <2>3 DEF Frames
<1>5. Cursors' = [i \in 1..n |-> IF i = n THEN Cursor(f) ELSE Cursors[i]]
  <2>1. \A i \in 1..(n - 1) : Cursors[i] = Cursor(stack[i])
    BY <1>1, <1>2 DEF Cursors
  <2>2. Cursors' = [i \in 1..n |-> Cursor(stack'[i])]
    BY <1>3 DEF Cursors, Cursor
  <2>. QED  BY <1>2, <2>1, <2>2
<1>6. Located'
  <2>1. ASSUME NEW i \in DOMAIN stack'
        PROVE  stack'[i].path = [x \in 1..(i - 1) |-> Cursors'[x]]
    <3>1. \A x \in 1..(i - 1) : Cursors'[x] = Cursors[x]
      BY <1>2, <1>5, <2>1
    <3>2. stack'[i].path = [x \in 1..(i - 1) |-> Cursors[x]]
      <4>1. CASE i = n
        BY <1>2, <4>1
      <4>2. CASE i # n
        <5>1. i \in DOMAIN stack /\ stack'[i] = stack[i]
          BY <1>2, <2>1, <4>2
        <5>. QED  BY <5>1 DEF Located
      <4>. QED  BY <4>1, <4>2
    <3>. QED  BY <3>1, <3>2
  <2>. QED  BY <2>1 DEF Located
<1>. QED  BY <1>2, <1>3, <1>4, <1>5, <1>6 DEF Top

LEMMA BelowIs ==
    ASSUME Frames
    PROVE  /\ Below = <<>> <=> Len(stack) = 1
           /\ Len(stack) # 1 =>
                 /\ Len(stack) - 1 \in DOMAIN stack /\ Len(Below) = Len(stack) - 1
                 /\ Below[Len(Below)] = stack[Len(stack) - 1]
                 /\ Below = [i \in 1..(Len(stack) - 1) |-> stack[i]]
<1>. DEFINE n == Len(stack)
<1>1. /\ stack \in Seq({stack[i] : i \in DOMAIN stack})
      /\ n \in Nat /\ n # 0 /\ DOMAIN stack = 1..n
  BY StackIsSeq
<1>2. Below = [i \in 1..(n - 1) |-> stack[i]] /\ Len(Below) = n - 1
  BY <1>1 DEF Below
<1>. HIDE DEF n
<1>3. n = 1 => Below = <<>>
  BY <1>2
<1>. QED  BY <1>1, <1>2, <1>3 DEF n

(* A call is added; the innermost one goes on; the one below it does. *)
LEMMA PushedStack ==
    ASSUME Frames, NEW f, stack' = Append(stack, f)
    PROVE  stack' = [i \in 1..(Len(stack) + 1) |-> IF i = Len(stack) + 1 THEN f ELSE stack[i]]
<1>. DEFINE n == Len(stack) + 1
            S == {stack[i] : i \in DOMAIN stack} \cup {f}
<1>1. stack \in Seq(S) /\ f \in S /\ Len(stack) \in Nat
  BY StackIsSeq
<1>. HIDE DEF S
<1>2. /\ stack' \in Seq(S) /\ Len(stack') = n /\ stack'[n] = f
      /\ \A i \in 1..Len(stack) : stack'[i] = stack[i]
  BY <1>1, AppendProperties
<1>3. n \in Nat /\ \A i \in 1..n : i = n \/ i \in 1..Len(stack)
  BY <1>1
<1>. HIDE DEF n
<1>4. stack' = [i \in 1..n |-> stack'[i]]
  BY ONLY <1>2, SeqIsFunction
<1>5. stack' = [i \in 1..n |-> IF i = n THEN f ELSE stack[i]]
  BY <1>2, <1>3, <1>4
<1>. QED  BY <1>5 DEF n

LEMMA MovedStack ==
    ASSUME Frames, NEW f, stack' = Replace(f)
    PROVE  stack' = [i \in 1..Len(stack) |-> IF i = Len(stack) THEN f ELSE stack[i]]
BY StackIsSeq DEF Replace

LEMMA PoppedStack ==
    ASSUME Frames, Below # <<>>, NEW f, stack' = [Below EXCEPT ![Len(Below)] = f]
    PROVE  stack' = [i \in 1..(Len(stack) - 1) |-> IF i = Len(stack) - 1 THEN f ELSE stack[i]]
BY StackIsSeq, BelowIs

(* A skipped row leaves its collection at the next one. *)
LEMMA SkippedStack ==
    ASSUME Frames, Below # <<>>, NEW index, SkippedAt(index)
    PROVE  stack' = [Below EXCEPT ![Len(Below)] = [Below[Len(Below)] EXCEPT !.index = index]]
<1>1. stack' = [Below EXCEPT ![Len(Below)].index = index]
  BY DEF SkippedAt
<1>2. Len(Below) = Len(stack) - 1 /\ Below = [i \in 1..(Len(stack) - 1) |-> stack[i]]
  BY BelowIs
<1>3. Len(stack) \in Nat \ {0} /\ Len(stack) # 1
  BY BelowIs DEF Frames
<1>4. Len(stack) - 1 \in 1..(Len(stack) - 1)
  <2>1. \A n \in Nat : n # 0 /\ n # 1 => n - 1 \in 1..(n - 1)
    BY ONLY TRUE
  <2>. QED  BY ONLY <1>3, <2>1, Zenon
<1>5. DOMAIN Below = 1..(Len(stack) - 1)
  BY <1>2
<1>6. Len(Below) \in DOMAIN Below
  BY ONLY <1>2, <1>4, <1>5, Zenon
<1>. QED  BY <1>1, <1>6

(* A call that begins.  A collection is called at its member. *)
LEMMA Pushed ==
    ASSUME schema \in Schemas, Frames, Located, UNCHANGED schema, NEW f, stack' = Append(stack, f),
           IF Top.kind = "object" THEN AtMember(Top, "collection") /\ Rows(f) ELSE Object(f),
           f.path = Cursors
    PROVE  /\ Frames' /\ Located' /\ Top' = f
           /\ Cursors' = Append(Cursors, Cursor(f))
<1>. DEFINE n == Len(stack) + 1
<1>1. /\ Len(stack) \in Nat /\ Len(stack) # 0 /\ Top = stack[Len(stack)]
      /\ stack \in Seq({stack[i] : i \in DOMAIN stack})
      /\ Cursors \in Seq(Nat) /\ Len(Cursors) = Len(stack)
  BY StackIsSeq, CursorsAreNat
<1>2. stack' = [i \in 1..n |-> IF i = n THEN f ELSE stack[i]]
  BY PushedStack
<1>3. f.path = [x \in 1..(n - 1) |-> Cursors[x]] /\ n - 1 = Len(stack) /\ n # 1
      /\ n \in 1..(Len(stack) + 1)
  BY <1>1
<1>. HIDE DEF n
<1>4. IF n = 1 THEN Object(f)
      ELSE IF stack[n - 1].kind = "object"
           THEN AtMember(stack[n - 1], "collection") /\ Rows(f)
           ELSE Object(f)
  BY <1>1, <1>3
<1>5. /\ Frames' /\ Located' /\ Len(stack') = n /\ Top' = f
      /\ Cursors' = [i \in 1..n |-> IF i = n THEN Cursor(f) ELSE Cursors[i]]
  BY <1>2, <1>3, <1>4, NewInnermost
<1>6. Cursor(f) \in Nat
  BY <1>1, CursorIsNat
<1>7. Append(Cursors, Cursor(f)) = [i \in 1..n |-> IF i = n THEN Cursor(f) ELSE Cursors[i]]
  <2>. DEFINE d == Append(Cursors, Cursor(f))
  <2>1. /\ d \in Seq(Nat) /\ Len(d) = n /\ d[n] = Cursor(f)
        /\ \A i \in 1..Len(stack) : d[i] = Cursors[i]
    BY <1>1, <1>3, <1>6, AppendProperties
  <2>. HIDE DEF d
  <2>2. d = [i \in 1..n |-> d[i]]
    BY <2>1
  <2>. QED  BY <1>3, <2>1, <2>2 DEF d
<1>. QED  BY <1>5, <1>7

(* The innermost frame goes on. *)
LEMMA Moved ==
    ASSUME schema \in Schemas, Frames, Located, UNCHANGED schema, NEW f, stack' = Replace(f),
           f.kind = Top.kind, Object(f) \/ Rows(f), f.path = Top.path
    PROVE  /\ Frames' /\ Located' /\ Top' = f
           /\ Cursors' = [Cursors EXCEPT ![Len(Cursors)] = Cursor(f)]
<1>. DEFINE n == Len(stack)
<1>1. /\ n \in Nat /\ n # 0 /\ Top = stack[n] /\ DOMAIN stack = 1..n
      /\ stack \in Seq({stack[i] : i \in DOMAIN stack})
      /\ Cursors \in Seq(Nat) /\ Len(Cursors) = n
  BY StackIsSeq, CursorsAreNat
<1>2. stack' = [i \in 1..n |-> IF i = n THEN f ELSE stack[i]]
  BY <1>1 DEF Replace
<1>. HIDE DEF n
<1>3. f.path = [x \in 1..(n - 1) |-> Cursors[x]]
  <2>1. n \in DOMAIN stack
    BY <1>1
  <2>. QED  BY <1>1, <2>1 DEF Located
<1>4. IF n = 1 THEN Object(f)
      ELSE IF stack[n - 1].kind = "object"
           THEN AtMember(stack[n - 1], "collection") /\ Rows(f)
           ELSE Object(f)
  <2>1. f.kind = stack[n].kind
    BY <1>1
  <2>2. CASE n = 1
    <3>1. Object(stack[n])
      BY <2>2 DEF Frames
    <3>. QED  BY <2>1, <2>2, <3>1 DEF Object, Rows
  <2>3. CASE n # 1
    <3>1. n - 1 \in DOMAIN stack /\ n - 1 < n /\ (n - 1) + 1 = n
      BY <1>1, <2>3
    <3>2. IF stack[n - 1].kind = "object"
          THEN AtMember(stack[n - 1], "collection") /\ Rows(stack[n])
          ELSE Object(stack[n])
      BY <3>1 DEF Frames, n
    <3>. QED  BY <2>1, <2>3, <3>2 DEF Object, Rows
  <2>. QED  BY <2>2, <2>3
<1>5. n \in 1..(Len(stack) + 1)
  BY <1>1 DEF n
<1>6. /\ Frames' /\ Located' /\ Len(stack') = n /\ Top' = f
      /\ Cursors' = [i \in 1..n |-> IF i = n THEN Cursor(f) ELSE Cursors[i]]
  BY <1>2, <1>3, <1>4, <1>5, NewInnermost
<1>7. Cursors = [i \in 1..n |-> Cursors[i]]
  BY <1>1
<1>. QED  BY <1>1, <1>6, <1>7

(* The innermost call returns, and the one below it goes on or fails too.  *)
LEMMA Popped ==
    ASSUME schema \in Schemas, Frames, Located, UNCHANGED schema, Below # <<>>, NEW f,
           stack' = [Below EXCEPT ![Len(Below)] = f],
           f.kind = Below[Len(Below)].kind, Object(f) \/ Rows(f),
           f.path = Below[Len(Below)].path
    PROVE  /\ Frames' /\ Located' /\ Top' = f
           /\ Cursors' = [SubSeq(Cursors, 1, Len(Cursors) - 1)
                             EXCEPT ![Len(Cursors) - 1] = Cursor(f)]
<1>. DEFINE n == Len(stack) - 1
<1>1. /\ Len(stack) \in Nat /\ Len(stack) = n + 1 /\ n # 0 /\ n \in Nat
      /\ DOMAIN stack = 1..(n + 1) /\ n \in DOMAIN stack
      /\ Len(Below) = n /\ Below[n] = stack[n] /\ Below = [i \in 1..n |-> stack[i]]
      /\ Cursors \in Seq(Nat) /\ Len(Cursors) = n + 1
  <2>1. Len(stack) \in Nat /\ Len(stack) # 0 /\ DOMAIN stack = 1..Len(stack) /\ Len(stack) # 1
    BY StackIsSeq, BelowIs
  <2>2. Len(stack) = n + 1 /\ n # 0 /\ n \in Nat
    BY <2>1
  <2>3. /\ n \in DOMAIN stack /\ Len(Below) = n /\ Below[n] = stack[n]
        /\ Below = [i \in 1..n |-> stack[i]]
    BY <2>1, BelowIs
  <2>4. Cursors \in Seq(Nat) /\ Len(Cursors) = Len(stack)
    BY CursorsAreNat
  <2>. HIDE DEF n
  <2>. QED  BY <2>1, <2>2, <2>3, <2>4
<1>. HIDE DEF n
<1>2. stack' = [i \in 1..n |-> IF i = n THEN f ELSE stack[i]]
  BY PoppedStack DEF n
<1>3. f.path = [x \in 1..(n - 1) |-> Cursors[x]] /\ f.kind = stack[n].kind
  BY <1>1 DEF Located
<1>4. IF n = 1 THEN Object(f)
      ELSE IF stack[n - 1].kind = "object"
           THEN AtMember(stack[n - 1], "collection") /\ Rows(f)
           ELSE Object(f)
  <2>2. CASE n = 1
    <3>1. Object(stack[n])
      BY <2>2 DEF Frames
    <3>. QED  BY <1>3, <2>2, <3>1 DEF Object, Rows
  <2>3. CASE n # 1
    <3>1. n - 1 \in DOMAIN stack /\ n - 1 < Len(stack) /\ (n - 1) + 1 = n
      BY <1>1, <2>3
    <3>2. IF stack[n - 1].kind = "object"
          THEN AtMember(stack[n - 1], "collection") /\ Rows(stack[n])
          ELSE Object(stack[n])
      BY <3>1 DEF Frames
    <3>. QED  BY <1>3, <2>3, <3>2 DEF Object, Rows
  <2>. QED  BY <2>2, <2>3
<1>5. n \in 1..(Len(stack) + 1)
  BY <1>1
<1>6. /\ Frames' /\ Located' /\ Len(stack') = n /\ Top' = f
      /\ Cursors' = [i \in 1..n |-> IF i = n THEN Cursor(f) ELSE Cursors[i]]
  BY ONLY Frames, Located, schema' = schema, <1>2, <1>3, <1>4, <1>5, NewInnermost
<1>7. SubSeq(Cursors, 1, n) = [i \in 1..n |-> Cursors[i]] /\ Len(Cursors) - 1 = n
  BY <1>1
<1>. QED  BY <1>1, <1>6, <1>7

-----------------------------------------------------------------------------
(* What a step does to what was read and to the warnings.                  *)

(* The innermost frame, its path, and the frame it returns to. *)
LEMMA PathIsCursors ==
    ASSUME IInv
    PROVE  /\ Append(Top.path, Cursor(Top)) = Cursors /\ Cursors \in Seq(Nat)
           /\ Object(Top) \/ Rows(Top)
<1>. DEFINE n == Len(stack)
            p == [x \in 1..(n - 1) |-> Cursors[x]]
<1>1. /\ n \in Nat /\ n # 0 /\ n \in DOMAIN stack /\ Top = stack[n] /\ DOMAIN stack = 1..n
      /\ schema \in Schemas /\ Cursors \in Seq(Nat) /\ Len(Cursors) = n
  BY StackIsSeq, CursorsAreNat DEF IInv, TypeOK
<1>2. Object(Top) \/ Rows(Top)
  BY <1>1 DEF IInv, Frames
<1>3. Top.path = p
  BY <1>1 DEF IInv, Located
<1>4. Cursors[n] = Cursor(Top) /\ Cursor(Top) \in Nat
  BY <1>1, <1>2, CursorIsNat DEF Cursors
<1>5. p \in Seq(Nat) /\ Len(p) = n - 1 /\ \A x \in 1..(n - 1) : p[x] = Cursors[x]
  BY <1>1
<1>. HIDE DEF n, p
<1>. DEFINE d == Append(p, Cursor(Top))
<1>6. /\ d \in Seq(Nat) /\ Len(d) = n /\ d[n] = Cursor(Top)
      /\ \A x \in 1..(n - 1) : d[x] = p[x]
  <2>1. /\ d \in Seq(Nat) /\ Len(d) = Len(p) + 1 /\ d[Len(p) + 1] = Cursor(Top)
        /\ \A x \in 1..Len(p) : d[x] = p[x]
    BY <1>4, <1>5, AppendProperties
  <2>2. Len(p) + 1 = n
    BY <1>1, <1>5
  <2>. QED  BY <1>5, <2>1, <2>2
<1>. HIDE DEF d
<1>7. \A x \in 1..Len(d) : d[x] = Cursors[x]
  <2>1. \A x \in 1..n : x = n \/ x \in 1..(n - 1)
    BY <1>1
  <2>. QED  BY <1>4, <1>5, <1>6, <2>1
<1>8. d = Cursors
  BY <1>1, <1>6, <1>7, SeqEqual
<1>. QED  BY <1>1, <1>2, <1>3, <1>8 DEF d

(* The path of the innermost frame, and of the one below it. *)
LEMMA TopPathIsSeq ==
    ASSUME IInv
    PROVE  /\ Top.path \in Seq(Nat) /\ Len(Top.path) = Len(stack) - 1
           /\ Below # <<>> =>
                 /\ Len(Below[Len(Below)].path) = Len(stack) - 2
                 /\ \A x \in 1..(Len(stack) - 2) : Below[Len(Below)].path[x] = Top.path[x]
<1>. DEFINE n == Len(stack)
<1>1. /\ n \in Nat /\ n # 0 /\ n \in DOMAIN stack /\ Top = stack[n]
      /\ schema \in Schemas /\ Cursors \in Seq(Nat) /\ Len(Cursors) = n
  BY StackIsSeq, CursorsAreNat DEF IInv, TypeOK
<1>2. Top.path = [x \in 1..(n - 1) |-> Cursors[x]]
  BY <1>1 DEF IInv, Located
<1>3. ASSUME Below # <<>>
      PROVE  /\ n - 2 \in Nat
             /\ Below[Len(Below)].path = [x \in 1..(n - 2) |-> Cursors[x]]
  <2>1. /\ Below[Len(Below)] = stack[n - 1] /\ n - 1 \in DOMAIN stack /\ n - 2 \in Nat
        /\ (n - 1) - 1 = n - 2
    BY <1>1, <1>3, BelowIs DEF IInv
  <2>2. \A i \in DOMAIN stack : stack[i].path = [x \in 1..(i - 1) |-> Cursors[x]]
    BY DEF IInv, Located
  <2>. HIDE DEF n
  <2>3. stack[n - 1].path = [x \in 1..((n - 1) - 1) |-> Cursors[x]]
    BY <2>1, <2>2
  <2>. QED  BY <2>1, <2>3
<1>. HIDE DEF n
<1>4. Top.path \in Seq(Nat) /\ Len(Top.path) = n - 1
  BY <1>1, <1>2
<1>5. ASSUME Below # <<>>
      PROVE  /\ Len(Below[Len(Below)].path) = n - 2
             /\ \A x \in 1..(n - 2) : Below[Len(Below)].path[x] = Top.path[x]
  BY <1>1, <1>2, <1>3, <1>5
<1>. QED  BY <1>4, <1>5 DEF n

LEMMA BelowFrame ==
    ASSUME IInv
    PROVE  /\ Top.kind = "rows" => Below # <<>>
           /\ Below # <<>> =>
                 IF Top.kind = "object" THEN Rows(Below[Len(Below)])
                 ELSE /\ Object(Below[Len(Below)])
                      /\ AtMember(Below[Len(Below)], "collection")
<1>. DEFINE n == Len(stack)
<1>1. /\ n \in Nat /\ n # 0 /\ n \in DOMAIN stack /\ Top = stack[n] /\ DOMAIN stack = 1..n
      /\ Frames
  BY StackIsSeq DEF IInv
<1>2. Below = <<>> <=> n = 1
  BY <1>1, BelowIs
<1>3. Top.kind = "rows" => n # 1
  BY <1>1 DEF Frames, Object
<1>4. ASSUME n # 1
      PROVE  /\ Below[Len(Below)] = stack[n - 1]
             /\ Object(stack[n - 1]) \/ Rows(stack[n - 1])
             /\ IF stack[n - 1].kind = "object"
                THEN AtMember(stack[n - 1], "collection") /\ Rows(stack[n])
                ELSE Object(stack[n])
  <2>. HIDE DEF n
  <2>1. n - 1 \in DOMAIN stack /\ n - 1 < n /\ (n - 1) + 1 = n
    BY <1>1, <1>4
  <2>2. Below[Len(Below)] = stack[n - 1]
    BY <1>1, <1>4, BelowIs DEF n
  <2>. QED  BY <1>1, <2>1, <2>2 DEF Frames, n
<1>. HIDE DEF n
<1>. QED  BY <1>1, <1>2, <1>3, <1>4 DEF Object, Rows

(* The path of a read is where the frames are, and nothing was read there. *)
LEMMA MemberPathIsCursors ==
    ASSUME IInv, mode \in {"read", "query"}
    PROVE  /\ Top.kind = "object" /\ Object(Top) /\ Top.next <= Members
           /\ Member \in MembersOf(schema)
           /\ Member.kind = IF mode = "read" THEN "field" ELSE "collection"
           /\ MemberPath = Cursors /\ Cursors \in Seq(Nat)
           /\ MemberPath \notin DOMAIN answers
<1>. DEFINE n == Len(stack)
<1>. USE DEF IInv
<1>1. /\ n \in Nat /\ n # 0 /\ n \in DOMAIN stack /\ Top = stack[n] /\ DOMAIN stack = 1..n
      /\ schema \in Schemas /\ Cursors \in Seq(Nat) /\ Len(Cursors) = n
      /\ Cursors # <<>>
  BY StackIsSeq, CursorsAreNat DEF TypeOK
<1>. HIDE DEF n
<1>2. Top.kind = "object" /\ AtMember(Top, IF mode = "read" THEN "field" ELSE "collection")
  BY DEF Reading
<1>3. Object(Top)
  <2>1. Object(Top) \/ Rows(Top)
    BY <1>1 DEF Frames
  <2>. QED  BY <1>2, <2>1 DEF Rows
<1>4. schema[Top.object] \in Seq(MembersOf(schema))
  BY <1>1, <1>3, WalkerAssumption DEF Object, WellFormed
<1>5. Top.next \in 1..Members
  <2>1. Len(schema[Top.object]) \in Nat
    BY <1>4, LenProperties
  <2>. QED  BY <1>2, <1>3, <2>1 DEF Object, AtMember, Members
<1>6. Member \in MembersOf(schema)
  BY <1>4, <1>5, ElementOfSeq DEF Member, Members
<1>7. MemberPath = Cursors
  BY <1>2, PathIsCursors DEF MemberPath, Cursor
<1>8. MemberPath \notin DOMAIN answers
  <2>1. ~Passed(Cursors, Cursors, FALSE)
    BY <1>1, NotPassed
  <2>2. \A q \in DOMAIN answers : Passed(Cursors, q, FALSE)
    BY DEF Behind
  <2>. QED  BY <1>7, <2>1, <2>2
<1>. QED  BY <1>1, <1>2, <1>3, <1>5, <1>6, <1>7, <1>8 DEF AtMember, Member, Members

LEMMA Answered ==
    ASSUME IInv, mode \in {"read", "query"}, NEW a, NEW n, Answer(MemberPath, a, n)
    PROVE  /\ UNCHANGED <<schema, ended, answersBefore>>
           /\ DOMAIN answers' = DOMAIN answers \cup {Cursors}
           /\ DOMAIN answers' \subseteq Seq(Nat) /\ IsFiniteSet(DOMAIN answers')
           /\ ended' # None => Cardinality(DOMAIN answers') <= answersBefore' + 1
<1>1. MemberPath = Cursors /\ Cursors \in Seq(Nat) /\ Cursors \notin DOMAIN answers
  BY MemberPathIsCursors
<1>2. /\ UNCHANGED <<schema, ended, answersBefore>>
      /\ DOMAIN answers' = DOMAIN answers \cup {Cursors}
  BY <1>1 DEF Answer
<1>3. /\ IsFiniteSet(DOMAIN answers) /\ DOMAIN answers \subseteq Seq(Nat) /\ answersBefore \in Nat
  BY DEF IInv, TypeOK
<1>4. /\ IsFiniteSet(DOMAIN answers')
      /\ Cardinality(DOMAIN answers') = Cardinality(DOMAIN answers) + 1
  BY <1>1, <1>2, <1>3, FS_AddElement
<1>5. ended # None => Cardinality(DOMAIN answers) + 1 <= answersBefore + 1
  BY DEF IInv, OneInProgress
<1>. QED  BY <1>1, <1>2, <1>3, <1>4, <1>5

LEMMA WarningAdded ==
    ASSUME IInv, NEW w \in Warning, warnings' = Append(warnings, w)
    PROVE  warnings' \in Seq(Warning)
BY AppendProperties DEF IInv, TypeOK

(* An error that is raised, before a read or by one. *)
LEMMA Raised ==
    ASSUME IInv, NEW code \in Codes, Raise(code), mode \in {"walk", "read", "query"},
           \/ UNCHANGED <<schema, ended, answers, answersBefore>>
           \/ mode # "walk" /\ \E a, n : Answer(MemberPath, a, n)
    PROVE  IInv'
<1>1. /\ UNCHANGED <<stack, warnings>> /\ mode' = "unwind" /\ err' = code
  BY DEF Raise
<1>2. /\ UNCHANGED <<schema, ended, answersBefore>>
      /\ DOMAIN answers' \subseteq DOMAIN answers \cup {Cursors}
      /\ DOMAIN answers' \subseteq Seq(Nat) /\ IsFiniteSet(DOMAIN answers')
      /\ ended' # None => Cardinality(DOMAIN answers') <= answersBefore' + 1
  <2>1. CASE UNCHANGED <<schema, ended, answers, answersBefore>>
    <3>1. ended # None => Cardinality(DOMAIN answers) <= answersBefore + 1
      <4>1. Cardinality(DOMAIN answers) \in Nat /\ answersBefore \in Nat
        BY FS_CardinalityType DEF IInv, TypeOK
      <4>. QED  BY <4>1 DEF IInv, OneInProgress
    <3>. QED  BY <2>1, <3>1 DEF IInv, TypeOK
  <2>2. CASE mode # "walk" /\ \E a, n : Answer(MemberPath, a, n)
    BY <2>2, Answered
  <2>. QED  BY <2>1, <2>2
<1>3. TypeOK'
  BY <1>1, <1>2 DEF IInv, TypeOK
<1>4. Cursors' = Cursors
  BY <1>1, <1>2, SameFrames DEF IInv
<1>5. Frames' /\ Located' /\ Reading'
  <2>1. Frames' /\ Located'
    BY <1>1, <1>2, SameFrames DEF IInv
  <2>. QED  BY <1>1, <2>1 DEF Reading
<1>6. Behind'
  <2>1. ASSUME NEW q \in DOMAIN answers'
        PROVE  Passed(Cursors, q, TRUE)
    <3>1. CASE q = Cursors
      BY <3>1, PassedItself
    <3>2. CASE q \in DOMAIN answers
      BY <3>2, PassedReturns DEF IInv, Behind
    <3>. QED  BY <1>2, <3>1, <3>2
  <2>. QED  BY <1>1, <1>4, <2>1 DEF Behind
<1>7. OneInProgress'
  <2>1. Cardinality(DOMAIN answers') \in Nat
    BY <1>2, FS_CardinalityType
  <2>. QED  BY <1>1, <1>2, <2>1 DEF OneInProgress
<1>. QED  BY <1>3, <1>5, <1>6, <1>7 DEF IInv

(* A member's value is delivered, after its read or after its rows. *)
LEMMA DeliveredIs ==
    ASSUME schema \in Schemas, NEW f, NEW value, Object(f), f.next <= Len(schema[f.object])
    PROVE  /\ Object(Delivered(f, value)) /\ Delivered(f, value).kind = f.kind
           /\ Delivered(f, value).path = f.path
           /\ Cursor(Delivered(f, value)) = Cursor(f) + 1
<1>1. schema[f.object] \in Seq(MembersOf(schema))
  BY WalkerAssumption DEF Object, WellFormed
<1>2. Len(schema[f.object]) \in Nat
  BY <1>1, LenProperties
<1>3. f.next + 1 \in 1..(Len(schema[f.object]) + 1) /\ f.next \in Nat
  BY <1>2 DEF Object
<1>4. Delivered(f, value) = [f EXCEPT !.out = Append(f.out, value), !.next = f.next + 1]
  BY ONLY DEF Delivered
<1>. DEFINE d == Delivered(f, value)
<1>5. /\ DOMAIN d = DOMAIN f /\ d.kind = f.kind /\ d.path = f.path
      /\ d.object = f.object /\ d.next = f.next + 1
  BY <1>4 DEF Object
<1>. HIDE DEF d
<1>6. Object(d) /\ Cursor(d) = Cursor(f) + 1
  BY <1>3, <1>5 DEF Object, Cursor
<1>. QED  BY <1>5, <1>6 DEF d

LEMMA Read ==
    ASSUME IInv, mode = "read", NEW value, Deliver(value),
           \E a, n : Answer(MemberPath, a, n),
           warnings' \in Seq(Warning)
    PROVE  IInv'
<1>1. /\ UNCHANGED <<schema, ended, answersBefore>>
      /\ DOMAIN answers' = DOMAIN answers \cup {Cursors}
      /\ DOMAIN answers' \subseteq Seq(Nat) /\ IsFiniteSet(DOMAIN answers')
      /\ ended' # None => Cardinality(DOMAIN answers') <= answersBefore' + 1
  BY Answered
<1>2. schema \in Schemas /\ Frames /\ Located /\ Object(Top) /\ Top.next <= Members
      /\ Cursors \in Seq(Nat) /\ Cursors # <<>> /\ DOMAIN answers \subseteq Seq(Nat)
  BY MemberPathIsCursors, CursorsAreNat DEF IInv, TypeOK
<1>3. stack' = Replace(Delivered(Top, value)) /\ mode' = "walk"
  BY DEF Deliver
<1>4. /\ Object(Delivered(Top, value)) /\ Delivered(Top, value).kind = Top.kind
      /\ Delivered(Top, value).path = Top.path
      /\ Cursor(Delivered(Top, value)) = Cursor(Top) + 1
  BY <1>2, DeliveredIs DEF Members
<1>5. /\ Frames' /\ Located'
      /\ Cursors' = [Cursors EXCEPT ![Len(Cursors)] = Cursor(Top) + 1]
  BY <1>1, <1>2, <1>3, <1>4, Moved
<1>6. Cursor(Top) = Cursors[Len(Cursors)]
  BY <1>2, StackIsSeq, CursorsAreNat DEF Cursors
<1>7. Behind'
  <2>1. ASSUME NEW q \in DOMAIN answers'
        PROVE  Passed(Cursors', q, FALSE)
    <3>1. q \in Seq(Nat)
      BY <1>1
    <3>2. Passed(Cursors, q, TRUE)
      <4>1. CASE q = Cursors
        BY <4>1, PassedItself
      <4>2. CASE q \in DOMAIN answers
        BY <4>2, PassedReturns DEF IInv, Behind
      <4>. QED  BY <1>1, <4>1, <4>2
    <3>. QED  BY <1>2, <1>5, <1>6, <3>1, <3>2, PassedMoved
  <2>. QED  BY <1>3, <2>1 DEF Behind
<1>8. TypeOK' /\ Reading'
  BY <1>1, <1>3 DEF IInv, TypeOK, Reading
<1>9. OneInProgress'
  <2>1. Cardinality(DOMAIN answers') \in Nat
    BY <1>1, FS_CardinalityType
  <2>. QED  BY <1>1, <1>3, <2>1 DEF OneInProgress
<1>. QED  BY <1>5, <1>7, <1>8, <1>9 DEF IInv

(* A call of a collection, after its query, or of a row. *)
LEMMA Called ==
    ASSUME IInv, NEW f, stack' = Append(stack, f),
           IF Top.kind = "object" THEN AtMember(Top, "collection") /\ Rows(f) ELSE Object(f),
           f.path = Cursors,
           mode' = "walk", UNCHANGED warnings,
           \/ mode = "walk" /\ UNCHANGED <<schema, ended, answers, answersBefore>>
           \/ mode = "query" /\ \E a, n : Answer(MemberPath, a, n)
    PROVE  IInv'
<1>1. /\ UNCHANGED <<schema, ended, answersBefore>>
      /\ DOMAIN answers' \subseteq DOMAIN answers \cup {Cursors}
      /\ DOMAIN answers' \subseteq Seq(Nat) /\ IsFiniteSet(DOMAIN answers')
      /\ ended' # None => Cardinality(DOMAIN answers') <= answersBefore' + 1
  <2>1. CASE mode = "walk" /\ UNCHANGED <<schema, ended, answers, answersBefore>>
    <3>1. ended # None => Cardinality(DOMAIN answers) <= answersBefore + 1
      <4>1. Cardinality(DOMAIN answers) \in Nat /\ answersBefore \in Nat
        BY FS_CardinalityType DEF IInv, TypeOK
      <4>. QED  BY <4>1 DEF IInv, OneInProgress
    <3>. QED  BY <2>1, <3>1 DEF IInv, TypeOK
  <2>2. CASE mode = "query" /\ \E a, n : Answer(MemberPath, a, n)
    BY <2>2, Answered
  <2>. QED  BY <2>1, <2>2
<1>2. schema \in Schemas /\ Frames /\ Located /\ Cursors \in Seq(Nat) /\ Cursors # <<>>
  BY CursorsAreNat DEF IInv, TypeOK
<1>3. /\ Frames' /\ Located' /\ Top' = f /\ Cursors' = Append(Cursors, Cursor(f))
  BY <1>1, <1>2, Pushed
<1>4. Cursor(f) \in Nat
  BY <1>2, CursorIsNat
<1>5. Behind'
  <2>1. ASSUME NEW q \in DOMAIN answers'
        PROVE  Passed(Cursors', q, FALSE)
    <3>1. q \in Seq(Nat) /\ (q \in DOMAIN answers \/ q = Cursors)
      BY <1>1
    <3>2. q = Cursors \/ Passed(Cursors, q, FALSE)
      <4>1. mode \notin {"unwind", "done"}
        OBVIOUS
      <4>. QED  BY <3>1, <4>1 DEF IInv, Behind
    <3>. QED  BY <1>2, <1>3, <1>4, <3>1, <3>2, PassedPushed
  <2>. QED  BY <2>1 DEF Behind
<1>6. TypeOK' /\ Reading'
  BY <1>1 DEF IInv, TypeOK, Reading
<1>7. OneInProgress'
  <2>1. Cardinality(DOMAIN answers') \in Nat
    BY <1>1, FS_CardinalityType
  <2>. QED  BY <1>1, <2>1 DEF OneInProgress
<1>. QED  BY <1>3, <1>5, <1>6, <1>7 DEF IInv

(* A call returns to the one below it, which goes on with the next member  *)
(* or row, or, when f is the same frame, returns an error itself.          *)
LEMMA Returned ==
    ASSUME IInv, Below # <<>>, NEW f, stack' = [Below EXCEPT ![Len(Below)] = f],
           Object(f) \/ Rows(f), f.kind = Below[Len(Below)].kind,
           f.path = Below[Len(Below)].path,
           \/ Cursor(f) = Cursor(Below[Len(Below)]) + 1
           \/ Cursor(f) = Cursor(Below[Len(Below)]) /\ mode' = "unwind",
           mode \in {"walk", "unwind"}, mode' \in {"walk", "unwind"},
           mode' = "unwind" => err' \in Codes,
           UNCHANGED <<schema, ended, answers, answersBefore>>,
           warnings' \in Seq(Warning)
    PROVE  IInv'
<1>. DEFINE c == SubSeq(Cursors, 1, Len(Cursors) - 1)
            n == Len(Cursors) - 1
<1>1. schema \in Schemas /\ Frames /\ Located /\ DOMAIN answers \subseteq Seq(Nat)
  BY DEF IInv, TypeOK
<1>2. Frames' /\ Located' /\ Cursors' = [c EXCEPT ![n] = Cursor(f)]
  BY <1>1, Popped
<1>3. /\ Cursors \in Seq(Nat) /\ Len(Cursors) = Len(stack) /\ Len(Cursors) \in Nat
      /\ Len(Cursors) > 1 /\ DOMAIN stack = 1..Len(stack)
  BY <1>1, CursorsAreNat, StackIsSeq, BelowIs
<1>4. /\ c \in Seq(Nat) /\ Len(c) = n /\ c # <<>> /\ c[n] = Cursors[n] /\ n \in 1..Len(stack)
      /\ n = Len(stack) - 1
  <2>. DEFINE m == Len(Cursors)
  <2>0. m \in Nat /\ m > 1 /\ Len(stack) = m /\ Cursors \in Seq(Nat) /\ n = m - 1
    BY <1>3
  <2>. HIDE DEF m, n
  <2>1. n \in Nat /\ n # 0 /\ n < m /\ n \in 1..Len(stack) /\ n = Len(stack) - 1
    BY ONLY <2>0
  <2>2. c = SubSeq(Cursors, 1, n) /\ \A i \in 1..n : Cursors[i] \in Nat
    BY <2>0, <2>1 DEF m, n
  <2>. HIDE DEF n, c
  <2>3. c \in Seq(Nat) /\ Len(c) = n /\ c[n] = Cursors[n]
    BY <2>1, <2>2, SubSeqProperties
  <2>. QED  BY <2>1, <2>3
<1>5. c[n] = Cursor(Below[Len(Below)])
  <2>1. Below[Len(Below)] = stack[n]
    BY <1>1, <1>4, BelowIs
  <2>2. Cursors[n] = Cursor(stack[n])
    BY <1>4 DEF Cursors
  <2>. QED  BY <1>4, <2>1, <2>2
<1>6. ASSUME NEW q \in DOMAIN answers
      PROVE  q \in Seq(Nat) /\ Passed(c, q, TRUE)
  <2>1. q \in Seq(Nat) /\ Passed(Cursors, q, TRUE)
    BY <1>1, PassedReturns DEF IInv, Behind
  <2>. QED  BY <1>3, <2>1, PassedPopped
<1>. HIDE DEF c, n
<1>7. Behind'
  <2>1. CASE Cursor(f) = Cursor(Below[Len(Below)]) + 1
    <3>1. ASSUME NEW q \in DOMAIN answers
          PROVE  Passed(Cursors', q, FALSE)
      BY <1>2, <1>4, <1>5, <1>6, <2>1, PassedMoved
    <3>2. \A q \in DOMAIN answers : Passed(Cursors', q, TRUE)
      BY <3>1, PassedReturns
    <3>. QED  BY <3>1, <3>2 DEF Behind
  <2>2. CASE Cursor(f) = Cursor(Below[Len(Below)]) /\ mode' = "unwind"
    <3>1. Cursors' = c
      BY <1>2, <1>4, <1>5, <2>2
    <3>. QED  BY <1>6, <2>2, <3>1 DEF Behind
  <2>. QED  BY <2>1, <2>2
<1>8. TypeOK' /\ Reading'
  BY DEF IInv, TypeOK, Reading
<1>9. OneInProgress'
  <2>1. Cardinality(DOMAIN answers) \in Nat /\ answersBefore \in Nat
    BY FS_CardinalityType DEF IInv, TypeOK
  <2>. QED  BY <2>1 DEF IInv, OneInProgress
<1>. QED  BY <1>2, <1>7, <1>8, <1>9 DEF IInv

-----------------------------------------------------------------------------
(* The actions.                                                            *)

(* One that only goes from one place in the same frame to another. *)
LEMMA Stays ==
    ASSUME IInv, UNCHANGED <<schema, stack, warnings, answers>>,
           mode' \in {"walk", "read", "query", "unwind", "done"},
           mode' = "unwind" => err' \in Codes,
           mode' \in {"walk", "read", "query"} => mode \notin {"unwind", "done"},
           Reading', OneInProgress', answersBefore' \in Nat
    PROVE  IInv'
<1>1. /\ Frames' /\ Located' /\ Cursors' = Cursors
  BY SameFrames DEF IInv
<1>2. Behind'
  <2>1. ASSUME NEW q \in DOMAIN answers
        PROVE  Passed(Cursors, q, TRUE)
    BY PassedReturns DEF IInv, Behind
  <2>2. mode' \in {"walk", "read", "query"} => \A q \in DOMAIN answers : Passed(Cursors, q, FALSE)
    BY DEF IInv, Behind
  <2>. QED  BY <1>1, <2>1, <2>2 DEF Behind
<1>3. TypeOK'
  BY DEF IInv, TypeOK
<1>. QED  BY <1>1, <1>2, <1>3 DEF IInv

LEMMA CountedIsNat ==
    ASSUME IInv
    PROVE  Cardinality(DOMAIN answers) \in Nat /\ answersBefore \in Nat
BY FS_CardinalityType DEF IInv, TypeOK

LEMMA CheckMemberStep == ASSUME IInv, CheckMember PROVE IInv'
<1>1. /\ mode = "walk" /\ Top.kind = "object" /\ Top.next <= Members
      /\ UNCHANGED <<schema, ended, answers, answersBefore>>
  BY DEF CheckMember
<1>2. CASE ended # None
  BY <1>1, <1>2, Raised DEF CheckMember, Codes
<1>3. CASE ended = None
  <2>1. /\ mode' = IF Member.kind = "field" THEN "read" ELSE "query"
        /\ UNCHANGED <<stack, err, warnings>>
    BY <1>3 DEF CheckMember
  <2>2. Member.kind \in {"field", "collection"}
    <3>1. Object(Top)
      BY <1>1, PathIsCursors DEF Rows
    <3>2. schema[Top.object] \in Seq(MembersOf(schema))
      BY <3>1, WalkerAssumption DEF Object, WellFormed, IInv, TypeOK
    <3>3. Top.next \in 1..Members
      <4>1. Len(schema[Top.object]) \in Nat
        BY <3>2, LenProperties
      <4>. QED  BY <1>1, <3>1, <4>1 DEF Object, Members
    <3>4. Member \in MembersOf(schema)
      BY <3>2, <3>3, ElementOfSeq DEF Member, Members
    <3>. QED  BY <3>4 DEF MembersOf
  <2>3. Reading'
    <3>1. AtMember(Top, Member.kind)
      BY <1>1 DEF AtMember, Member, Members
    <3>2. Top' = Top /\ (AtMember(Top, "field"))' = AtMember(Top, "field")
          /\ (AtMember(Top, "collection"))' = AtMember(Top, "collection")
      BY <1>1, <2>1 DEF AtMember, Top
    <3>. QED  BY <1>1, <2>1, <2>2, <3>1, <3>2 DEF Reading
  <2>4. OneInProgress'
    BY <1>1, <1>3 DEF OneInProgress
  <2>5. answersBefore' \in Nat
    BY <1>1, CountedIsNat
  <2>. QED  BY <1>1, <2>1, <2>3, <2>4, <2>5, Stays
<1>. QED  BY <1>2, <1>3

LEMMA EndObjectStep == ASSUME IInv, EndObject PROVE IInv'
<1>1. /\ mode = "walk" /\ Top.kind = "object" /\ UNCHANGED warnings
      /\ UNCHANGED <<schema, ended, answers, answersBefore>>
  BY DEF EndObject, Finalize
<1>2. warnings' \in Seq(Warning)
  BY <1>1 DEF IInv, TypeOK
<1>3. CASE Below = <<>>
  <2>1. mode' = "done" /\ UNCHANGED stack
    BY <1>3 DEF EndObject
  <2>2. Reading' /\ OneInProgress' /\ answersBefore' \in Nat
    BY <1>1, <2>1, CountedIsNat DEF Reading, OneInProgress, IInv
  <2>. QED  BY <1>1, <2>1, <2>2, Stays
<1>4. CASE Below # <<>>
  <2>. DEFINE rows == Below[Len(Below)]
              kept == [rows EXCEPT !.out = Append(@, Top.out), !.index = @ + 1]
  <2>1. /\ stack' = [Below EXCEPT ![Len(Below)] = kept]
        /\ (mode' = "unwind" /\ err' = "E_COLLECTION_CARDINALITY") \/ mode' = mode
    BY <1>4 DEF EndObject
  <2>2. Rows(rows)
    BY <1>1, <1>4, BelowFrame
  <2>3. Rows(kept) /\ kept.kind = rows.kind /\ kept.path = rows.path
        /\ Cursor(kept) = Cursor(rows) + 1
    <3>1. kept = [rows EXCEPT !.out = Append(rows.out, Top.out), !.index = rows.index + 1]
      BY ONLY DEF kept
    <3>. HIDE DEF kept, rows
    <3>2. /\ DOMAIN kept = DOMAIN rows /\ kept.kind = rows.kind /\ kept.path = rows.path
          /\ kept.collection = rows.collection /\ kept.index = rows.index + 1
      BY <2>2, <3>1 DEF Rows
    <3>. QED  BY <2>2, <3>2 DEF Rows, Cursor
  <2>. HIDE DEF kept
  <2>. QED  BY <1>1, <1>2, <1>4, <2>1, <2>3, Returned DEF Codes
<1>. QED  BY <1>3, <1>4

LEMMA ReadFieldStep == ASSUME IInv, NEW a \in FieldAnswers, ReadField(a) PROVE IInv'
<1>1. /\ mode = "read" /\ Answer(MemberPath, a, 0)
  BY DEF ReadField
<1>2. ASSUME NEW value, Deliver(value), UNCHANGED warnings
      PROVE  IInv'
  <2>1. warnings' \in Seq(Warning)
    BY <1>2 DEF IInv, TypeOK
  <2>. QED  BY <1>1, <1>2, <2>1, Read
<1>3. ASSUME NEW code \in Codes, Raise(code)
      PROVE  IInv'
  BY <1>1, <1>3, Raised
<1>4. CASE a = "value" /\ Deliver("value") /\ UNCHANGED <<err, warnings, partial, result>>
  BY <1>2, <1>4
<1>5. CASE Missing(Member)
  BY <1>2, <1>3, <1>5 DEF Missing, Codes
<1>6. CASE a \in FieldCauses /\ Recover(Member, CodeOf[a])
  <2>1. CodeOf[a] \in Codes
    BY <1>6 DEF CodeOf, FieldCauses, Interrupts, Codes
  <2>2. CASE ~Recovers(Member)
    <3>. DEFINE code == IF Policy(Member) = "fail" THEN CodeOf[a] ELSE "E_IR_INVALID"
    <3>1. Raise(code)
      BY <1>6, <2>2 DEF Recover
    <3>2. code \in Codes
      BY <2>1 DEF Codes
    <3>. QED  BY <1>3, <3>1, <3>2
  <2>3. CASE Recovers(Member)
    <3>. DEFINE value == IF Policy(Member) = "default" THEN "default" ELSE "null"
                w == [code |-> "W_ERROR_RECOVERED", cause |-> CodeOf[a], path |-> MemberPath]
    <3>1. Deliver(value) /\ warnings' = IF Policy(Member) = "warn" THEN Append(warnings, w)
                                        ELSE warnings
      BY <1>6, <2>3 DEF Recover
    <3>2. w \in Warning
      BY <1>1, <2>1, MemberPathIsCursors DEF Warning
    <3>3. CASE warnings' = Append(warnings, w)
      BY <1>1, <3>1, <3>2, <3>3, WarningAdded, Read
    <3>4. CASE UNCHANGED warnings
      BY <1>2, <3>1, <3>4
    <3>. QED  BY <3>1, <3>3, <3>4
  <2>. QED  BY <2>2, <2>3
<1>. QED  BY <1>4, <1>5, <1>6 DEF ReadField

LEMMA QueryStep ==
    ASSUME IInv, (\E n \in 0..MaxRows : QueryRows(n)) \/ (\E a \in FieldCauses : QueryFails(a))
    PROVE  IInv'
<1>1. ASSUME NEW n \in 0..MaxRows, QueryRows(n)
      PROVE  IInv'
  <2>. DEFINE f == RowsFrame(Member, n, MemberPath)
  <2>1. /\ mode = "query" /\ mode' = "walk" /\ stack' = Append(stack, f) /\ UNCHANGED warnings
        /\ \E a, m : Answer(MemberPath, a, m)
    BY <1>1 DEF QueryRows
  <2>2. /\ Top.kind = "object" /\ AtMember(Top, "collection") /\ MemberPath = Cursors
        /\ Member \in MembersOf(schema) /\ Member.kind = "collection"
    BY <2>1, MemberPathIsCursors DEF IInv, Reading
  <2>3. Rows(f) /\ f.path = Cursors
    BY <2>2 DEF Rows, RowsFrame, MembersOf
  <2>. HIDE DEF f
  <2>. QED  BY <2>1, <2>2, <2>3, Called
<1>2. ASSUME NEW a \in FieldCauses, QueryFails(a)
      PROVE  IInv'
  <2>1. mode = "query" /\ Raise(CodeOf[a]) /\ Answer(MemberPath, a, 0)
    BY <1>2 DEF QueryFails
  <2>2. CodeOf[a] \in Codes
    BY DEF CodeOf, FieldCauses, Interrupts, Codes
  <2>. QED  BY <2>1, <2>2, Raised
<1>. QED  BY <1>1, <1>2

LEMMA StartRowStep == ASSUME IInv, StartRow PROVE IInv'
<1>1. /\ mode = "walk" /\ Top.kind = "rows"
      /\ UNCHANGED <<schema, ended, answers, answersBefore>>
  BY DEF StartRow
<1>2. CASE ended # None
  BY <1>1, <1>2, Raised DEF StartRow, Codes
<1>3. CASE ended = None
  <2>. DEFINE f == ObjectFrame(Top.collection.row, Append(Top.path, Top.index))
  <2>1. stack' = Append(stack, f) /\ mode' = "walk" /\ UNCHANGED warnings
    BY <1>1, <1>3 DEF StartRow
  <2>2. Rows(Top) /\ Append(Top.path, Top.index) = Cursors
    BY <1>1, PathIsCursors DEF Object, Cursor
  <2>3. Len(schema[Top.collection.row]) \in Nat
    <3>1. schema[Top.collection.row] \in Seq(MembersOf(schema))
      BY <2>2, WalkerAssumption DEF IInv, TypeOK, WellFormed, Rows
    <3>. QED  BY <3>1, LenProperties
  <2>4. Object(f) /\ f.path = Cursors
    BY <2>2, <2>3 DEF Object, ObjectFrame, Rows
  <2>. HIDE DEF f
  <2>. QED  BY <1>1, <2>1, <2>4, Called
<1>. QED  BY <1>2, <1>3

LEMMA EndRowsStep == ASSUME IInv, EndRows PROVE IInv'
<1>1. /\ mode = "walk" /\ Top.kind = "rows" /\ Below # <<>>
      /\ UNCHANGED <<schema, ended, answers, answersBefore>>
  BY BelowFrame DEF EndRows
<1>2. CASE TooFew(Top.collection, Len(Top.out))
  BY <1>1, <1>2, Raised DEF EndRows, Codes
<1>3. CASE ~TooFew(Top.collection, Len(Top.out))
  <2>. DEFINE object == Below[Len(Below)]
  <2>1. /\ stack' = [Below EXCEPT ![Len(Below)] = Delivered(object, Top.out)]
        /\ mode' = "walk" /\ UNCHANGED warnings
    BY <1>1, <1>3 DEF EndRows
  <2>2. Object(object) /\ object.next <= Len(schema[object.object])
    BY <1>1, BelowFrame DEF AtMember
  <2>3. schema \in Schemas /\ warnings' \in Seq(Warning)
    BY <2>1 DEF IInv, TypeOK
  <2>. HIDE DEF object
  <2>4. /\ Object(Delivered(object, Top.out)) /\ Delivered(object, Top.out).kind = object.kind
        /\ Delivered(object, Top.out).path = object.path
        /\ Cursor(Delivered(object, Top.out)) = Cursor(object) + 1
    BY <2>2, <2>3, DeliveredIs
  <2>. QED  BY <1>1, <2>1, <2>3, <2>4, Returned DEF object
<1>. QED  BY <1>2, <1>3

LEMMA UnwindStep == ASSUME IInv, Unwind PROVE IInv'
<1>1. mode = "unwind" /\ UNCHANGED <<schema, ended, answers, answersBefore>> /\ err \in Codes
  BY DEF Unwind, IInv, TypeOK
<1>2. CASE SkipsRow /\ SkipRow
  <2>. DEFINE rows == Below[Len(Below)]
              next == [rows EXCEPT !.index = rows.index + 1]
              w == [code |-> "W_ROW_SKIPPED", cause |-> err, path |-> Top.path]
  <2>1. /\ Below # <<>> /\ Top.kind = "object"
        /\ mode' = "walk" /\ warnings' = Append(warnings, w)
    BY <1>2 DEF SkipsRow, SkipRow, SkippedAt
  <2>2. Rows(rows) /\ Frames
    BY <2>1, BelowFrame DEF IInv
  <2>3. stack' = [Below EXCEPT ![Len(Below)] = next]
    BY <1>2, <2>1, <2>2, SkippedStack DEF SkipRow
  <2>4. w \in Warning
    BY <1>1, TopPathIsSeq DEF IInv, Warning
  <2>5. warnings' \in Seq(Warning)
    BY <2>1, <2>4, WarningAdded
  <2>6. Rows(next) /\ next.kind = rows.kind /\ next.path = rows.path
        /\ Cursor(next) = Cursor(rows) + 1
    BY <2>2 DEF Rows, Cursor
  <2>. HIDE DEF next
  <2>. QED  BY <1>1, <2>1, <2>3, <2>5, <2>6, Returned
<1>3. CASE Below # <<>> /\ stack' = Below /\ UNCHANGED <<mode, err, warnings, partial, result>>
  <2>. DEFINE frame == Below[Len(Below)]
  <2>1. Object(frame) \/ Rows(frame)
    BY <1>3, BelowFrame
  <2>2. stack' = [Below EXCEPT ![Len(Below)] = frame]
    <3>1. Below = [i \in 1..(Len(stack) - 1) |-> stack[i]]
      BY <1>3, BelowIs DEF IInv
    <3>. QED  BY <1>3, <3>1
  <2>3. warnings' \in Seq(Warning)
    BY <1>3 DEF IInv, TypeOK
  <2>. HIDE DEF frame
  <2>. QED  BY <1>1, <1>3, <2>1, <2>2, <2>3, Returned DEF frame
<1>4. CASE mode' = "done" /\ UNCHANGED <<stack, err, warnings, partial>>
  <2>1. Reading' /\ OneInProgress' /\ answersBefore' \in Nat
    BY <1>1, <1>4, CountedIsNat DEF Reading, OneInProgress, IInv
  <2>. QED  BY <1>1, <1>4, <2>1, Stays
<1>. QED  BY <1>2, <1>3, <1>4 DEF Unwind

LEMMA CancelStep == ASSUME IInv, NEW how, Cancel(how) PROVE IInv'
<1>1. /\ answersBefore' = Cardinality(DOMAIN answers) /\ mode' = mode /\ mode # "done"
      /\ UNCHANGED <<schema, stack, warnings, answers, err>>
  BY DEF Cancel, walker
<1>2. OneInProgress' /\ answersBefore' \in Nat
  BY <1>1, CountedIsNat DEF OneInProgress
<1>3. Reading'
  BY <1>1 DEF IInv, Reading, AtMember, Top
<1>4. mode \in {"walk", "read", "query", "unwind"} /\ (mode = "unwind" => err \in Codes)
  BY <1>1 DEF IInv, TypeOK
<1>. QED  BY <1>1, <1>2, <1>3, <1>4, Stays

LEMMA Begins == ASSUME Init PROVE IInv
<1>. DEFINE frame == ObjectFrame("root", <<>>)
<1>1. /\ schema \in Schemas /\ stack = <<frame>> /\ mode = "walk" /\ warnings = <<>>
      /\ answers = <<>> /\ answersBefore = 0 /\ ended = None
  BY DEF Init
<1>2. "root" \in DOMAIN schema /\ schema["root"] \in Seq(MembersOf(schema))
  BY <1>1, WalkerAssumption DEF WellFormed
<1>3. Object(frame) /\ frame.path = <<>>
  <2>1. Len(schema["root"]) \in Nat
    BY <1>2, LenProperties
  <2>2. 1 \in 1..(Len(schema["root"]) + 1)
    BY <2>1
  <2>. QED  BY <1>2, <2>2 DEF Object, ObjectFrame
<1>. HIDE DEF frame
<1>4. Len(stack) = 1 /\ stack[1] = frame /\ DOMAIN stack = {1}
      /\ stack = [i \in 1..Len(stack) |-> stack[i]]
  BY <1>1
<1>5. Frames
  BY <1>3, <1>4 DEF Frames
<1>6. Located
  <2>1. <<>> = [x \in 1..(1 - 1) |-> Cursors[x]]
    OBVIOUS
  <2>. QED  BY <1>3, <1>4, <2>1 DEF Located
<1>7. DOMAIN answers = {} /\ IsFiniteSet(DOMAIN answers)
  BY <1>1, FS_EmptySet
<1>8. TypeOK
  BY <1>1, <1>7 DEF TypeOK
<1>9. Reading /\ Behind /\ OneInProgress
  BY <1>1, <1>7 DEF Reading, Behind, OneInProgress
<1>. QED  BY <1>5, <1>6, <1>8, <1>9 DEF IInv

LEMMA Stutters == ASSUME IInv, UNCHANGED vars PROVE IInv'
<1>1. UNCHANGED <<schema, stack, mode, err, ended, warnings, answers, answersBefore>>
  BY DEF vars, walker
<1>2. Reading' /\ OneInProgress' /\ answersBefore' \in Nat
  BY <1>1, CountedIsNat DEF IInv, Reading, AtMember, Top, OneInProgress
<1>3. /\ mode \in {"walk", "read", "query", "unwind", "done"}
      /\ mode = "unwind" => err \in Codes
  BY DEF IInv, TypeOK
<1>. QED  BY <1>1, <1>2, <1>3, Stays

LEMMA Inductive == Spec => []IInv
<1>1. Init => IInv
  BY Begins
<1>2. IInv /\ [Next]_vars => IInv'
  <2>. SUFFICES ASSUME IInv, [Next]_vars PROVE IInv'
    OBVIOUS
  <2>1. CASE Step
    <3>1. CASE CheckMember
      BY <3>1, CheckMemberStep
    <3>2. CASE EndObject
      BY <3>2, EndObjectStep
    <3>3. CASE StartRow
      BY <3>3, StartRowStep
    <3>4. CASE EndRows
      BY <3>4, EndRowsStep
    <3>5. CASE Unwind
      BY <3>5, UnwindStep
    <3>6. CASE \E a \in FieldAnswers : ReadField(a)
      BY <3>6, ReadFieldStep
    <3>7. CASE (\E n \in 0..MaxRows : QueryRows(n)) \/ (\E a \in FieldCauses : QueryFails(a))
      BY <3>7, QueryStep
    <3>. QED  BY <2>1, <3>1, <3>2, <3>3, <3>4, <3>5, <3>6, <3>7 DEF Step
  <2>2. CASE \E how \in Interrupts : Cancel(how)
    BY <2>2, CancelStep
  <2>3. CASE UNCHANGED vars
    BY <2>3, Stutters
  <2>. QED  BY <2>1, <2>2, <2>3 DEF Next
<1>. QED  BY <1>1, <1>2, PTL DEF Spec

LEMMA AppendIsNotEmpty ==
    ASSUME NEW S, NEW s \in Seq(S), NEW e
    PROVE  Append(s, e) # <<>>
<1>1. s \in Seq(S \cup {e})
  OBVIOUS
<1>2. Len(Append(s, e)) = Len(s) + 1 /\ Len(s) \in Nat /\ Append(s, e) \in Seq(S \cup {e})
  BY <1>1, AppendProperties, LenProperties
<1>. QED  BY <1>2, EmptySeq

-----------------------------------------------------------------------------
(* The frames' results.                                                    *)
LEMMA MembersAreSeq ==
    ASSUME IInv, NEW object \in DOMAIN schema
    PROVE  schema[object] \in Seq(MembersOf(schema)) /\ Len(schema[object]) \in Nat
<1>1. schema[object] \in Seq(MembersOf(schema))
  BY WalkerAssumption DEF IInv, TypeOK, WellFormed
<1>. QED  BY <1>1, LenProperties

(* The frames below a changed one, and that one if it is the same call. *)
LEMMA NewCollected ==
    ASSUME Frames, Calls, AllCollected, UNCHANGED schema, NEW n \in 1..(Len(stack) + 1), NEW f,
           stack' = [i \in 1..n |-> IF i = n THEN f ELSE stack[i]],
           n = Len(stack) + 1 => mode # "unwind",
           IF n = 1 THEN f.object = "root"
           ELSE IF stack[n - 1].kind = "object"
                THEN f.collection = schema[stack[n - 1].object][stack[n - 1].next]
                ELSE f.object = stack[n - 1].collection.row,
           Collected(f), OverMaximum(f) => mode' = "unwind"
    PROVE  Calls' /\ AllCollected'
<1>1. Len(stack) \in Nat /\ Len(stack) # 0 /\ DOMAIN stack = 1..Len(stack)
  BY StackIsSeq
<1>2. /\ DOMAIN stack' = 1..n /\ n \in Nat /\ n # 0 /\ stack'[n] = f
      /\ \A i \in 1..(n - 1) : i \in DOMAIN stack /\ stack'[i] = stack[i]
  BY <1>1
<1>3. Len(stack') = n
  BY <1>2
<1>4. stack'[1].object = "root"
  BY <1>1, <1>2 DEF Calls
<1>5. ASSUME NEW i \in DOMAIN stack', i < n
      PROVE  IF stack'[i].kind = "object"
             THEN stack'[i + 1].collection = schema[stack'[i].object][stack'[i].next]
             ELSE stack'[i + 1].object = stack'[i].collection.row
  <2>1. i \in DOMAIN stack /\ stack'[i] = stack[i]
    BY <1>2, <1>5
  <2>2. CASE i = n - 1
    BY <1>2, <2>1, <2>2
  <2>3. CASE i < n - 1
    <3>1. i < Len(stack) /\ stack'[i + 1] = stack[i + 1]
      BY <1>1, <1>2, <1>5, <2>3
    <3>. QED  BY <2>1, <3>1 DEF Calls
  <2>. QED  BY <1>2, <1>5, <2>2, <2>3
<1>6. Calls'
  <2>1. \A i \in DOMAIN stack' : i < Len(stack') =>
           IF stack'[i].kind = "object"
           THEN stack'[i + 1].collection = schema'[stack'[i].object][stack'[i].next]
           ELSE stack'[i + 1].object = stack'[i].collection.row
    BY ONLY schema' = schema, <1>3, <1>5
  <2>. QED  BY ONLY <1>4, <2>1 DEF Calls
<1>7. ASSUME NEW i \in DOMAIN stack'
      PROVE  /\ Collected(stack'[i])
             /\ OverMaximum(stack'[i]) => i = n /\ mode' = "unwind"
  <2>1. CASE i = n
    BY <1>2, <2>1
  <2>2. CASE i # n
    <3>1. i \in DOMAIN stack /\ stack'[i] = stack[i] /\ i < n
      BY <1>2, <1>7, <2>2
    <3>2. Collected(stack[i]) /\ (OverMaximum(stack[i]) => i = Len(stack) /\ mode = "unwind")
      BY <3>1 DEF AllCollected
    <3>3. i = Len(stack) => n = Len(stack) + 1
      BY ONLY n \in 1..(Len(stack) + 1), <1>1, <3>1
    <3>. QED  BY <3>1, <3>2, <3>3
  <2>. QED  BY <2>1, <2>2
<1>8. AllCollected'
  <2>1. \A i \in DOMAIN stack' : (Collected(stack[i]))' = Collected(stack'[i])
    BY DEF Collected, InBounds, Whole
  <2>2. \A i \in DOMAIN stack' : (OverMaximum(stack[i]))' = OverMaximum(stack'[i])
    BY DEF OverMaximum
  <2>. QED  BY <1>3, <1>7, <2>1, <2>2 DEF AllCollected
<1>. QED  BY <1>6, <1>8

(* The call that a frame is of does not change while it is on the stack.   *)
LEMMA SameCall ==
    ASSUME Frames, Calls, NEW n \in DOMAIN stack, NEW f, f.kind = stack[n].kind,
           f.kind = "object" => f.object = stack[n].object,
           f.kind = "rows" => f.collection = stack[n].collection
    PROVE  IF n = 1 THEN f.object = "root"
           ELSE IF stack[n - 1].kind = "object"
                THEN f.collection = schema[stack[n - 1].object][stack[n - 1].next]
                ELSE f.object = stack[n - 1].collection.row
<1>1. Len(stack) \in Nat /\ Len(stack) # 0 /\ DOMAIN stack = 1..Len(stack)
  BY StackIsSeq
<1>2. CASE n = 1
  <2>1. stack[1].kind = "object"
    BY DEF Frames, Object
  <2>. QED  BY <1>2, <2>1 DEF Calls
<1>3. CASE n # 1
  <2>1. n - 1 \in DOMAIN stack /\ n - 1 < Len(stack) /\ (n - 1) + 1 = n
    BY <1>1, <1>3
  <2>2. IF stack[n - 1].kind = "object" THEN stack[n].kind = "rows"
        ELSE stack[n].kind = "object"
    BY <2>1 DEF Frames, Object, Rows
  <2>3. IF stack[n - 1].kind = "object"
        THEN stack[n].collection = schema[stack[n - 1].object][stack[n - 1].next]
        ELSE stack[n].object = stack[n - 1].collection.row
    BY <2>1 DEF Calls
  <2>. QED  BY <1>3, <2>2, <2>3
<1>. QED  BY <1>2, <1>3

(* The members of a row are those of the object it is a row of. *)
LEMMA Innermost ==
    ASSUME IInv, JInv
    PROVE  /\ Collected(Top) /\ (OverMaximum(Top) => mode = "unwind")
           /\ Below = <<>> => Top.kind = "object" /\ Top.object = "root"
           /\ Below # <<>> =>
                 /\ Len(stack) - 1 \in DOMAIN stack
                 /\ Below[Len(Below)] = stack[Len(stack) - 1]
                 /\ Collected(Below[Len(Below)]) /\ ~OverMaximum(Below[Len(Below)])
                 /\ IF Top.kind = "object" THEN Top.object = Below[Len(Below)].collection.row
                    ELSE Top.collection =
                            schema[Below[Len(Below)].object][Below[Len(Below)].next]
<1>. DEFINE n == Len(stack)
<1>1. /\ n \in Nat /\ n # 0 /\ n \in DOMAIN stack /\ Top = stack[n] /\ DOMAIN stack = 1..n
      /\ Frames /\ Calls /\ AllCollected
  BY StackIsSeq DEF IInv, JInv
<1>2. Below = <<>> <=> n = 1
  BY <1>1, BelowIs
<1>3. Collected(Top) /\ (OverMaximum(Top) => mode = "unwind")
  BY <1>1 DEF AllCollected
<1>4. Below = <<>> => Top.kind = "object" /\ Top.object = "root"
  BY <1>1, <1>2 DEF Frames, Object, Calls
<1>5. ASSUME Below # <<>>
      PROVE  /\ n - 1 \in DOMAIN stack
             /\ Below[Len(Below)] = stack[n - 1]
             /\ Collected(stack[n - 1]) /\ ~OverMaximum(stack[n - 1])
             /\ IF Top.kind = "object" THEN Top.object = stack[n - 1].collection.row
                ELSE Top.collection = schema[stack[n - 1].object][stack[n - 1].next]
  <2>1. Below[Len(Below)] = stack[n - 1]
    BY <1>1, <1>2, <1>5, BelowIs
  <2>. HIDE DEF n
  <2>2. n - 1 \in DOMAIN stack /\ n - 1 < n /\ (n - 1) + 1 = n /\ n - 1 # n
    BY <1>1, <1>2, <1>5
  <2>3. Collected(stack[n - 1]) /\ ~OverMaximum(stack[n - 1])
    BY <1>1, <2>2 DEF AllCollected, n
  <2>4. IF stack[n - 1].kind = "object" THEN stack[n].kind = "rows"
        ELSE stack[n].kind = "object"
    BY <1>1, <2>2 DEF Frames, Object, Rows, n
  <2>5. IF stack[n - 1].kind = "object"
        THEN stack[n].collection = schema[stack[n - 1].object][stack[n - 1].next]
        ELSE stack[n].object = stack[n - 1].collection.row
    BY <1>1, <2>2 DEF Calls, n
  <2>. QED  BY <1>1, <2>1, <2>2, <2>3, <2>4, <2>5
<1>. QED  BY <1>3, <1>4, <1>5

(* A value for one more member, a collection's within its bounds. *)
LEMMA DeliveredCollected ==
    ASSUME IInv, NEW f, NEW value, Object(f), f.next <= Len(schema[f.object]), Collected(f),
           schema[f.object][f.next].kind = "collection"
              => Within(schema[f.object][f.next], Len(value))
    PROVE  LET d == Delivered(f, value)
           IN  Collected(d) /\ d.kind = "object" /\ d.object = f.object
<1>. DEFINE d == Delivered(f, value)
            S == {f.out[x] : x \in 1..Len(f.out)} \cup {value}
            n == Len(f.out)
<1>1. /\ Len(schema[f.object]) \in Nat /\ f.kind = "object"
      /\ DOMAIN f = {"kind", "object", "next", "path", "out"} /\ f.next \in Nat
  BY MembersAreSeq DEF Object
<1>2. d = [f EXCEPT !.out = Append(f.out, value), !.next = f.next + 1]
  BY ONLY DEF Delivered, d
<1>3. /\ d.kind = "object" /\ d.object = f.object /\ d.next = f.next + 1
      /\ d.out = Append(f.out, value)
  BY <1>1, <1>2
<1>4. f.out \in Seq(S) /\ n \in Nat /\ n = f.next - 1 /\ InBounds(f.object, f.out)
  BY <1>1 DEF Collected
<1>. HIDE DEF d, S
<1>5. /\ d.out \in Seq(S) /\ Len(d.out) = n + 1 /\ d.out[n + 1] = value
      /\ \A x \in 1..n : d.out[x] = f.out[x]
  BY <1>3, <1>4, AppendProperties DEF S
<1>6. ASSUME NEW x \in 1..Len(d.out), schema[f.object][x].kind = "collection"
      PROVE  Within(schema[f.object][x], Len(d.out[x]))
  <2>1. x \in 1..n \/ x = n + 1
    BY <1>4, <1>5
  <2>2. CASE x \in 1..n
    BY <1>4, <1>5, <1>6, <2>2 DEF InBounds
  <2>3. CASE x = n + 1
    <3>1. x = f.next
      BY <1>1, <1>4, <2>3
    <3>. QED  BY <1>5, <1>6, <2>3, <3>1
  <2>. QED  BY <2>1, <2>2, <2>3
<1>7. InBounds(d.object, d.out)
  BY <1>3, <1>6 DEF InBounds
<1>8. Len(d.out) = d.next - 1 /\ Len(d.out) \in Nat
  BY <1>1, <1>3, <1>4, <1>5
<1>9. d.out = [x \in 1..Len(d.out) |-> d.out[x]]
  BY <1>5, SeqIsFunction
<1>. QED  BY <1>3, <1>7, <1>8, <1>9 DEF Collected, d

(* A whole row more. *)
LEMMA KeptCollected ==
    ASSUME NEW f, NEW value, Rows(f), Collected(f), Whole(f.collection.row, value)
    PROVE  LET d == [f EXCEPT !.out = Append(@, value), !.index = @ + 1]
           IN  /\ Collected(d) /\ d.kind = "rows" /\ d.collection = f.collection
<1>. DEFINE d == [f EXCEPT !.out = Append(@, value), !.index = @ + 1]
            S == {f.out[x] : x \in 1..Len(f.out)} \cup {value}
            n == Len(f.out)
<1>1. d = [f EXCEPT !.out = Append(f.out, value), !.index = f.index + 1]
  BY ONLY DEF d
<1>. HIDE DEF d, S
<1>2. d.kind = "rows" /\ d.collection = f.collection /\ d.out = Append(f.out, value)
      /\ f.kind = "rows"
  BY <1>1 DEF Rows
<1>3. f.out \in Seq(S) /\ n \in Nat /\ \A x \in 1..n : Whole(f.collection.row, f.out[x])
  BY <1>2 DEF Collected, S
<1>4. /\ d.out \in Seq(S) /\ Len(d.out) = n + 1 /\ d.out[n + 1] = value
      /\ \A x \in 1..n : d.out[x] = f.out[x]
  BY <1>2, <1>3, AppendProperties DEF S
<1>5. d.out = [x \in 1..Len(d.out) |-> d.out[x]] /\ Len(d.out) \in Nat
  <2>1. d.out = [x \in 1..Len(d.out) |-> d.out[x]]
    BY ONLY <1>4, SeqIsFunction
  <2>. QED  BY <1>3, <1>4, <2>1
<1>6. \A x \in 1..Len(d.out) : Whole(d.collection.row, d.out[x])
  <2>1. \A x \in 1..Len(d.out) : x = n + 1 \/ x \in 1..n
    BY <1>3, <1>4
  <2>. QED  BY <1>2, <1>3, <1>4, <2>1
<1>. QED  BY <1>2, <1>5, <1>6 DEF Collected, d

-----------------------------------------------------------------------------
(* The actions keep the frames' results.                                   *)

(* The frames stay; an error is not taken back while a collection is over  *)
(* its maximum.                                                            *)
LEMMA StaysCollected ==
    ASSUME IInv, JInv, UNCHANGED <<schema, stack>>,
           mode = "unwind" => mode' = "unwind" \/ Below = <<>>,
           Flagged', WholeResult'
    PROVE  JInv'
<1>. DEFINE n == Len(stack)
<1>1. /\ n \in Nat /\ n # 0 /\ n \in DOMAIN stack /\ Top = stack[n] /\ Frames
      /\ stack = [i \in 1..n |-> stack[i]] /\ Calls /\ AllCollected
  BY StackIsSeq DEF IInv, JInv, Frames
<1>2. /\ Collected(Top) /\ (OverMaximum(Top) => mode' = "unwind")
  BY Innermost DEF OverMaximum
<1>3. IF n = 1 THEN Top.object = "root"
      ELSE IF stack[n - 1].kind = "object"
           THEN Top.collection = schema[stack[n - 1].object][stack[n - 1].next]
           ELSE Top.object = stack[n - 1].collection.row
  BY <1>1, SameCall
<1>4. stack' = [i \in 1..n |-> IF i = n THEN Top ELSE stack[i]]
  BY <1>1
<1>5. n \in 1..(Len(stack) + 1) /\ n # Len(stack) + 1
  <2>1. Len(stack) \in Nat /\ Len(stack) # 0
    BY <1>1
  <2>. QED  BY ONLY <2>1 DEF n
<1>. HIDE DEF n
<1>6. Calls' /\ AllCollected'
  BY <1>1, <1>2, <1>3, <1>4, <1>5, NewCollected
<1>. QED  BY <1>6 DEF JInv

LEMMA RaisedCollected ==
    ASSUME IInv, JInv, NEW code, Raise(code), UNCHANGED schema
    PROVE  JInv'
<1>1. mode' = "unwind" /\ UNCHANGED <<stack, warnings, partial>>
  BY DEF Raise
<1>2. Flagged' /\ WholeResult'
  BY <1>1 DEF JInv, Flagged, WholeResult
<1>. QED  BY <1>1, <1>2, StaysCollected

LEMMA CalledCollected ==
    ASSUME IInv, JInv, NEW f, stack' = Append(stack, f), UNCHANGED <<schema, warnings, partial>>,
           mode # "unwind", mode' = "walk", f.out = <<>>,
           IF Top.kind = "object"
           THEN /\ f.kind = "rows" /\ f.collection = schema[Top.object][Top.next]
                /\ ~TooMany(f.collection, 0)
           ELSE f.kind = "object" /\ f.object = Top.collection.row /\ f.next = 1
    PROVE  JInv'
<1>. DEFINE n == Len(stack) + 1
<1>1. /\ Len(stack) \in Nat /\ Len(stack) # 0 /\ Top = stack[Len(stack)] /\ Frames
      /\ Calls /\ AllCollected
  BY StackIsSeq DEF IInv, JInv
<1>2. stack' = [i \in 1..n |-> IF i = n THEN f ELSE stack[i]]
  BY <1>1, PushedStack
<1>3. Len(f.out) = 0 /\ f.out = [x \in 1..Len(f.out) |-> f.out[x]]
  OBVIOUS
<1>4. Collected(f) /\ ~OverMaximum(f)
  BY <1>3 DEF Collected, InBounds, OverMaximum
<1>5. n \in 1..(Len(stack) + 1) /\ n # 1 /\ n - 1 = Len(stack)
  BY <1>1
<1>. HIDE DEF n
<1>6. IF n = 1 THEN f.object = "root"
      ELSE IF stack[n - 1].kind = "object"
           THEN f.collection = schema[stack[n - 1].object][stack[n - 1].next]
           ELSE f.object = stack[n - 1].collection.row
  BY <1>1, <1>5
<1>7. Calls' /\ AllCollected'
  BY <1>1, <1>2, <1>4, <1>5, <1>6, NewCollected
<1>8. Flagged' /\ WholeResult'
  BY DEF JInv, Flagged, WholeResult
<1>. QED  BY <1>7, <1>8 DEF JInv

LEMMA MovedCollected ==
    ASSUME IInv, JInv, NEW f, stack' = Replace(f), UNCHANGED schema, mode' = "walk",
           Collected(f), f.kind = "object", Top.kind = "object", f.object = Top.object,
           Flagged'
    PROVE  JInv'
<1>. DEFINE n == Len(stack)
<1>1. /\ n \in Nat /\ n # 0 /\ n \in DOMAIN stack /\ Top = stack[n] /\ Frames
      /\ Calls /\ AllCollected
  BY StackIsSeq DEF IInv, JInv
<1>2. stack' = [i \in 1..n |-> IF i = n THEN f ELSE stack[i]]
  BY <1>1, MovedStack
<1>3. IF n = 1 THEN f.object = "root"
      ELSE IF stack[n - 1].kind = "object"
           THEN f.collection = schema[stack[n - 1].object][stack[n - 1].next]
           ELSE f.object = stack[n - 1].collection.row
  BY <1>1, SameCall
<1>4. n \in 1..(Len(stack) + 1) /\ n # Len(stack) + 1
  BY <1>1
<1>. HIDE DEF n
<1>5. Calls' /\ AllCollected'
  BY <1>1, <1>2, <1>3, <1>4, NewCollected DEF OverMaximum
<1>6. WholeResult'
  BY DEF WholeResult
<1>. QED  BY <1>5, <1>6 DEF JInv

LEMMA ReturnedCollected ==
    ASSUME IInv, JInv, Below # <<>>, NEW f, stack' = [Below EXCEPT ![Len(Below)] = f],
           UNCHANGED schema, Collected(f), OverMaximum(f) => mode' = "unwind",
           f.kind = Below[Len(Below)].kind,
           f.kind = "object" => f.object = Below[Len(Below)].object,
           f.kind = "rows" => f.collection = Below[Len(Below)].collection,
           mode' \in {"walk", "unwind"}, Flagged'
    PROVE  JInv'
<1>. DEFINE n == Len(stack) - 1
<1>1. /\ Len(stack) \in Nat /\ Len(stack) # 0 /\ DOMAIN stack = 1..Len(stack)
      /\ n \in DOMAIN stack /\ Below[Len(Below)] = stack[n] /\ Frames /\ Calls /\ AllCollected
  BY StackIsSeq, Innermost DEF IInv, JInv
<1>2. stack' = [i \in 1..n |-> IF i = n THEN f ELSE stack[i]]
  BY <1>1, PoppedStack
<1>3. n \in 1..(Len(stack) + 1) /\ n # Len(stack) + 1
  <2>1. Len(stack) \in Nat /\ n \in 1..Len(stack)
    BY <1>1
  <2>. HIDE DEF n
  <2>2. \A k \in Nat : n \in 1..k => n \in 1..(k + 1) /\ n # k + 1
    BY ONLY TRUE
  <2>. QED  BY ONLY <2>1, <2>2
<1>. HIDE DEF n
<1>4. IF n = 1 THEN f.object = "root"
      ELSE IF stack[n - 1].kind = "object"
           THEN f.collection = schema[stack[n - 1].object][stack[n - 1].next]
           ELSE f.object = stack[n - 1].collection.row
  BY <1>1, SameCall
<1>5. Calls' /\ AllCollected'
  BY <1>1, <1>2, <1>3, <1>4, NewCollected
<1>6. WholeResult'
  BY DEF WholeResult
<1>. QED  BY <1>5, <1>6 DEF JInv

(* An object at its end has a value for each member. *)
LEMMA EndedIsWhole ==
    ASSUME IInv, JInv, Top.kind = "object", Top.next > Members
    PROVE  Whole(Top.object, Top.out)
<1>1. Object(Top)
  BY PathIsCursors DEF Rows
<1>2. Len(schema[Top.object]) \in Nat /\ Top.next \in 1..(Len(schema[Top.object]) + 1)
  BY <1>1, MembersAreSeq DEF Object
<1>3. Top.next = Len(schema[Top.object]) + 1
  BY <1>2 DEF Members
<1>4. Len(Top.out) = Top.next - 1 /\ InBounds(Top.object, Top.out)
  BY Innermost DEF Collected
<1>. QED  BY <1>2, <1>3, <1>4 DEF Whole

LEMMA EndObjectCollected == ASSUME IInv, JInv, EndObject PROVE JInv'
<1>1. /\ mode = "walk" /\ Top.kind = "object" /\ Top.next > Members
      /\ UNCHANGED <<schema, warnings, partial>>
  BY DEF EndObject, Finalize
<1>2. Whole(Top.object, Top.out) /\ Flagged'
  BY <1>1, EndedIsWhole DEF JInv, Flagged
<1>3. CASE Below = <<>>
  <2>1. mode' = "done" /\ UNCHANGED stack /\ Finalize
    BY <1>3 DEF EndObject
  <2>2. Top.object = "root"
    BY <1>3, Innermost
  <2>3. WholeResult'
    <3>1. result'.value = Top.out /\ result'.partial = partial
          /\ result'.warnings = IF partial THEN Append(warnings, [code |-> "W_PARTIAL_EXTRACTION"])
                                ELSE warnings
      BY <2>1 DEF Finalize
    <3>2. (Whole("root", result.value))'
      BY <1>1, <1>2, <2>2, <3>1 DEF Whole, InBounds
    <3>3. warnings \in Seq(Warning) /\ partial \in BOOLEAN /\ (warnings # <<>> => partial)
      BY DEF IInv, TypeOK, JInv, Flagged
    <3>4. Append(warnings, [code |-> "W_PARTIAL_EXTRACTION"]) # <<>>
      BY <3>3, AppendIsNotEmpty
    <3>5. (result.partial <=> result.warnings # <<>>)'
      BY <3>1, <3>3, <3>4
    <3>. QED  BY <3>2, <3>5 DEF WholeResult
  <2>. QED  BY <1>1, <1>2, <2>1, <2>3, StaysCollected
<1>4. CASE Below # <<>>
  <2>. DEFINE rows == Below[Len(Below)]
              kept == [rows EXCEPT !.out = Append(@, Top.out), !.index = @ + 1]
  <2>1. /\ stack' = [Below EXCEPT ![Len(Below)] = kept]
        /\ IF TooMany(rows.collection, Len(kept.out)) THEN mode' = "unwind" ELSE mode' = mode
    BY <1>4 DEF EndObject
  <2>2. Rows(rows) /\ Collected(rows) /\ Top.object = rows.collection.row
    BY <1>1, <1>4, BelowFrame, Innermost
  <2>3. Collected(kept) /\ kept.kind = "rows" /\ kept.collection = rows.collection
    BY <1>2, <2>2, KeptCollected
  <2>. HIDE DEF kept, rows
  <2>4. /\ rows.kind = "rows" /\ mode' \in {"walk", "unwind"}
        /\ OverMaximum(kept) => mode' = "unwind"
    BY <1>1, <2>1, <2>2, <2>3 DEF OverMaximum, Rows
  <2>. QED  BY <1>1, <1>2, <1>4, <2>1, <2>3, <2>4, ReturnedCollected DEF rows
<1>. QED  BY <1>3, <1>4

LEMMA ReadFieldCollected ==
    ASSUME IInv, JInv, NEW a \in FieldAnswers, ReadField(a)
    PROVE  JInv'
<1>1. /\ mode = "read" /\ UNCHANGED schema
  BY DEF ReadField, Answer
<1>2. /\ Top.kind = "object" /\ Object(Top) /\ Top.next <= Len(schema[Top.object])
      /\ schema[Top.object][Top.next].kind = "field"
  BY <1>1, MemberPathIsCursors DEF Member, Members
<1>3. ASSUME NEW value, Deliver(value), Flagged'
      PROVE  JInv'
  <2>. DEFINE d == Delivered(Top, value)
  <2>1. stack' = Replace(d) /\ mode' = "walk"
    BY <1>3 DEF Deliver
  <2>2. Collected(d) /\ d.kind = "object" /\ d.object = Top.object
    BY <1>2, Innermost, DeliveredCollected
  <2>. HIDE DEF d
  <2>. QED  BY <1>1, <1>2, <1>3, <2>1, <2>2, MovedCollected
<1>4. UNCHANGED <<warnings, partial>> => Flagged'
  BY DEF JInv, Flagged
<1>5. CASE a = "value" /\ Deliver("value") /\ UNCHANGED <<err, warnings, partial, result>>
  BY <1>3, <1>4, <1>5
<1>6. CASE Missing(Member)
  BY <1>1, <1>3, <1>4, <1>6, RaisedCollected DEF Missing
<1>7. CASE a \in FieldCauses /\ Recover(Member, CodeOf[a])
  <2>1. CASE ~Recovers(Member)
    BY <1>1, <1>7, <2>1, RaisedCollected DEF Recover
  <2>2. CASE Recovers(Member)
    <3>1. partial' = TRUE /\ Deliver(IF Policy(Member) = "default" THEN "default" ELSE "null")
      BY <1>7, <2>2 DEF Recover
    <3>2. Flagged'
      BY <3>1 DEF Flagged
    <3>. QED  BY <1>3, <3>1, <3>2
  <2>. QED  BY <2>1, <2>2
<1>. QED  BY <1>5, <1>6, <1>7 DEF ReadField

LEMMA QueryCollected ==
    ASSUME IInv, JInv,
           (\E n \in 0..MaxRows : QueryRows(n)) \/ (\E a \in FieldCauses : QueryFails(a))
    PROVE  JInv'
<1>1. ASSUME NEW n \in 0..MaxRows, QueryRows(n)
      PROVE  JInv'
  <2>. DEFINE f == RowsFrame(Member, n, MemberPath)
  <2>1. /\ mode = "query" /\ mode' = "walk" /\ stack' = Append(stack, f)
        /\ UNCHANGED <<schema, warnings, partial>>
    BY <1>1 DEF QueryRows, Answer
  <2>2. Top.kind = "object" /\ Member \in MembersOf(schema) /\ Member.kind = "collection"
    BY <2>1, MemberPathIsCursors
  <2>3. Member.max \in Nat
    BY <2>2 DEF MembersOf
  <2>4. /\ f.kind = "rows" /\ f.collection = schema[Top.object][Top.next] /\ f.out = <<>>
        /\ ~TooMany(f.collection, 0)
    BY <2>3 DEF RowsFrame, Member, TooMany
  <2>. HIDE DEF f
  <2>. QED  BY <2>1, <2>2, <2>4, CalledCollected
<1>2. ASSUME NEW a \in FieldCauses, QueryFails(a)
      PROVE  JInv'
  BY <1>2, RaisedCollected DEF QueryFails, Answer
<1>. QED  BY <1>1, <1>2

LEMMA StartRowCollected == ASSUME IInv, JInv, StartRow PROVE JInv'
<1>1. mode = "walk" /\ Top.kind = "rows" /\ UNCHANGED schema
  BY DEF StartRow
<1>2. CASE ended # None
  BY <1>1, <1>2, RaisedCollected DEF StartRow
<1>3. CASE ended = None
  <2>. DEFINE f == ObjectFrame(Top.collection.row, Append(Top.path, Top.index))
  <2>1. stack' = Append(stack, f) /\ mode' = "walk" /\ UNCHANGED <<warnings, partial>>
    BY <1>1, <1>3 DEF StartRow
  <2>2. f.kind = "object" /\ f.object = Top.collection.row /\ f.next = 1 /\ f.out = <<>>
    BY DEF ObjectFrame
  <2>. HIDE DEF f
  <2>. QED  BY <1>1, <2>1, <2>2, CalledCollected
<1>. QED  BY <1>2, <1>3

LEMMA EndRowsCollected == ASSUME IInv, JInv, EndRows PROVE JInv'
<1>1. mode = "walk" /\ Top.kind = "rows" /\ UNCHANGED schema /\ Below # <<>>
  BY BelowFrame DEF EndRows
<1>2. CASE TooFew(Top.collection, Len(Top.out))
  BY <1>1, <1>2, RaisedCollected DEF EndRows
<1>3. CASE ~TooFew(Top.collection, Len(Top.out))
  <2>. DEFINE object == Below[Len(Below)]
              d == Delivered(object, Top.out)
  <2>1. /\ stack' = [Below EXCEPT ![Len(Below)] = d]
        /\ mode' = "walk" /\ UNCHANGED <<warnings, partial>>
    BY <1>1, <1>3 DEF EndRows
  <2>2. /\ Object(object) /\ Collected(object) /\ object.next <= Len(schema[object.object])
        /\ Top.collection = schema[object.object][object.next]
    BY <1>1, BelowFrame, Innermost DEF AtMember
  <2>3. Within(schema[object.object][object.next], Len(Top.out))
    BY <1>1, <1>3, <2>2, Innermost DEF Within, OverMaximum
  <2>. HIDE DEF object
  <2>4. Collected(d) /\ d.kind = "object" /\ d.object = object.object
    BY <2>2, <2>3, DeliveredCollected
  <2>. HIDE DEF d
  <2>5. object.kind = "object" /\ ~OverMaximum(d)
    BY <2>2, <2>4 DEF Object, OverMaximum
  <2>6. Flagged'
    BY <2>1 DEF JInv, Flagged
  <2>. QED  BY <1>1, <2>1, <2>4, <2>5, <2>6, ReturnedCollected DEF object
<1>. QED  BY <1>2, <1>3

LEMMA UnwindCollected == ASSUME IInv, JInv, Unwind PROVE JInv'
<1>1. mode = "unwind" /\ UNCHANGED schema
  BY DEF Unwind
<1>2. CASE SkipsRow /\ SkipRow
  <2>. DEFINE rows == Below[Len(Below)]
              next == [rows EXCEPT !.index = rows.index + 1]
  <2>1. Below # <<>> /\ Top.kind = "object" /\ mode' = "walk" /\ partial' = TRUE
    BY <1>2 DEF SkipsRow, SkipRow, SkippedAt
  <2>2. Rows(rows) /\ Collected(rows) /\ ~OverMaximum(rows)
    BY <2>1, BelowFrame, Innermost
  <2>3. stack' = [Below EXCEPT ![Len(Below)] = next]
    BY <1>2, <2>1, SkippedStack DEF SkipRow, IInv
  <2>4. next.kind = "rows" /\ rows.kind = "rows" /\ next.collection = rows.collection
        /\ next.out = rows.out
    BY <2>2 DEF Rows
  <2>. HIDE DEF next, rows
  <2>5. Collected(next) /\ ~OverMaximum(next)
    BY <2>2, <2>4 DEF Collected, OverMaximum
  <2>6. Flagged'
    BY <2>1 DEF Flagged
  <2>. QED  BY <1>1, <2>1, <2>3, <2>4, <2>5, <2>6, ReturnedCollected DEF rows
<1>3. CASE Below # <<>> /\ stack' = Below /\ UNCHANGED <<mode, err, warnings, partial, result>>
  <2>. DEFINE frame == Below[Len(Below)]
  <2>1. Collected(frame) /\ ~OverMaximum(frame)
    BY <1>3, Innermost
  <2>2. stack' = [Below EXCEPT ![Len(Below)] = frame]
    <3>1. Below = [i \in 1..(Len(stack) - 1) |-> stack[i]]
      BY <1>3, BelowIs DEF IInv
    <3>. QED  BY <1>3, <3>1
  <2>3. Flagged'
    BY <1>3 DEF JInv, Flagged
  <2>. HIDE DEF frame
  <2>. QED  BY <1>1, <1>3, <2>1, <2>2, <2>3, ReturnedCollected DEF frame
<1>4. CASE /\ Below = <<>> /\ mode' = "done" /\ UNCHANGED <<stack, err, warnings, partial>>
           /\ result' = [ok |-> FALSE, code |-> err]
  <2>1. Flagged' /\ WholeResult'
    BY <1>4 DEF JInv, Flagged, WholeResult
  <2>. QED  BY <1>1, <1>4, <2>1, StaysCollected
<1>. QED  BY <1>2, <1>3, <1>4 DEF Unwind

LEMMA CollectedInductive == Spec => []JInv
<1>1. Init => JInv
  <2>. SUFFICES ASSUME Init PROVE JInv
    OBVIOUS
  <2>. DEFINE frame == ObjectFrame("root", <<>>)
  <2>1. /\ stack = <<frame>> /\ mode = "walk" /\ warnings = <<>> /\ partial = FALSE
    BY DEF Init
  <2>2. frame.kind = "object" /\ frame.object = "root" /\ frame.next = 1 /\ frame.out = <<>>
    BY DEF ObjectFrame
  <2>. HIDE DEF frame
  <2>3. Len(stack) = 1 /\ stack[1] = frame /\ DOMAIN stack = {1}
    BY <2>1
  <2>4. Len(frame.out) = 0 /\ frame.out = [x \in 1..Len(frame.out) |-> frame.out[x]]
    BY <2>2
  <2>5. Collected(frame) /\ ~OverMaximum(frame)
    BY <2>2, <2>4 DEF Collected, InBounds, OverMaximum
  <2>6. Calls /\ AllCollected
    BY <2>2, <2>3, <2>5 DEF Calls, AllCollected
  <2>7. Flagged /\ WholeResult
    BY <2>1 DEF Flagged, WholeResult
  <2>. QED  BY <2>6, <2>7 DEF JInv
<1>2. IInv /\ JInv /\ [Next]_vars => JInv'
  <2>. SUFFICES ASSUME IInv, JInv, [Next]_vars PROVE JInv'
    OBVIOUS
  <2>1. CASE CheckMember
    <3>1. mode = "walk" /\ UNCHANGED schema
      BY <2>1 DEF CheckMember
    <3>2. CASE ended # None
      BY <2>1, <3>1, <3>2, RaisedCollected DEF CheckMember
    <3>3. CASE ended = None
      <4>1. mode' \in {"read", "query"} /\ UNCHANGED <<stack, warnings, partial>>
        BY <2>1, <3>3 DEF CheckMember
      <4>2. Flagged' /\ WholeResult'
        BY <4>1 DEF JInv, Flagged, WholeResult
      <4>. QED  BY <3>1, <4>1, <4>2, StaysCollected
    <3>. QED  BY <3>2, <3>3
  <2>2. CASE EndObject
    BY <2>2, EndObjectCollected
  <2>3. CASE StartRow
    BY <2>3, StartRowCollected
  <2>4. CASE EndRows
    BY <2>4, EndRowsCollected
  <2>5. CASE Unwind
    BY <2>5, UnwindCollected
  <2>6. CASE \E a \in FieldAnswers : ReadField(a)
    BY <2>6, ReadFieldCollected
  <2>7. CASE (\E n \in 0..MaxRows : QueryRows(n)) \/ (\E a \in FieldCauses : QueryFails(a))
    BY <2>7, QueryCollected
  <2>8. CASE (\E how \in Interrupts : Cancel(how)) \/ UNCHANGED vars
    <3>1. UNCHANGED <<schema, stack, mode, warnings, partial, result>>
      BY <2>8 DEF Cancel, vars, walker
    <3>2. Flagged' /\ WholeResult'
      BY <3>1 DEF JInv, Flagged, WholeResult, Whole, InBounds
    <3>. QED  BY <3>1, <3>2, StaysCollected
  <2>. QED  BY <2>1, <2>2, <2>3, <2>4, <2>5, <2>6, <2>7, <2>8 DEF Next, Step
<1>. QED  BY <1>1, <1>2, Inductive, PTL DEF Spec

-----------------------------------------------------------------------------
(* What is delivered is what was answered.                                 *)

(* A read does not change what was answered before. *)
LEMMA AnswersKept ==
    ASSUME IInv, mode \in {"read", "query"}, NEW a, NEW n, Answer(MemberPath, a, n)
    PROVE  /\ \A q \in DOMAIN answers : q \in DOMAIN answers' /\ answers'[q] = answers[q]
           /\ DOMAIN answers' = DOMAIN answers \cup {MemberPath}
           /\ answers'[MemberPath].as = a
           /\ UNCHANGED schema
<1>1. MemberPath \notin DOMAIN answers
  BY MemberPathIsCursors
<1>2. answers' = [q \in DOMAIN answers \cup {MemberPath} |->
                     IF q = MemberPath THEN [as |-> a, rows |-> n] ELSE answers[q]]
      /\ UNCHANGED schema
  BY DEF Answer
<1>. QED  BY <1>1, <1>2

(* What an object has collected stays what was answered. *)
LEMMA StaysAnswered ==
    ASSUME UNCHANGED schema,
           \A q \in DOMAIN answers : q \in DOMAIN answers' /\ answers'[q] = answers[q],
           NEW object, NEW path, NEW out, AsAnswered(object, path, out)
    PROVE  AsAnswered(object, path, out)'
BY DEF AsAnswered, Taken, FieldValue

LEMMA NewAnswered ==
    ASSUME Frames, AllAnswered, UNCHANGED schema, NEW n \in 1..(Len(stack) + 1), NEW f,
           stack' = [i \in 1..n |-> IF i = n THEN f ELSE stack[i]],
           \A q \in DOMAIN answers : q \in DOMAIN answers' /\ answers'[q] = answers[q],
           f.kind = "object" => AsAnswered(f.object, f.path, f.out)'
    PROVE  AllAnswered'
<1>1. Len(stack) \in Nat /\ Len(stack) # 0 /\ DOMAIN stack = 1..Len(stack)
  BY StackIsSeq
<1>2. /\ DOMAIN stack' = 1..n /\ n \in Nat /\ n # 0 /\ stack'[n] = f
      /\ \A i \in 1..(n - 1) : i \in DOMAIN stack /\ stack'[i] = stack[i]
  BY <1>1
<1>3. ASSUME NEW i \in DOMAIN stack', NEW g, stack'[i] = g, g.kind = "object"
      PROVE  AsAnswered(g.object, g.path, g.out)'
  <2>1. CASE i = n
    BY <1>2, <1>3, <2>1
  <2>2. CASE i # n
    <3>1. i \in DOMAIN stack /\ stack[i] = g
      BY <1>2, <1>3, <2>2
    <3>2. AsAnswered(g.object, g.path, g.out)
      BY <1>3, <3>1 DEF AllAnswered
    <3>. QED  BY <3>2, StaysAnswered
  <2>. QED  BY <2>1, <2>2
<1>. QED  BY <1>3 DEF AllAnswered, AsAnswered

LEMMA StaysTrue ==
    ASSUME IInv, KInv, UNCHANGED <<schema, stack>>,
           \A q \in DOMAIN answers : q \in DOMAIN answers' /\ answers'[q] = answers[q],
           Told', AnsweredResult'
    PROVE  KInv'
<1>1. PICK f : f = Top
  OBVIOUS
<1>2. /\ Frames /\ AllAnswered /\ Len(stack) \in Nat /\ Len(stack) # 0
      /\ Len(stack) \in DOMAIN stack /\ stack[Len(stack)] = f
      /\ stack = [i \in 1..Len(stack) |-> stack[i]]
  BY <1>1, StackIsSeq DEF IInv, KInv, Frames
<1>3. f.kind = "object" => AsAnswered(f.object, f.path, f.out)
  BY <1>2 DEF AllAnswered
<1>4. f.kind = "object" => AsAnswered(f.object, f.path, f.out)'
  BY <1>3, StaysAnswered
<1>5. stack' = [i \in 1..Len(stack) |-> IF i = Len(stack) THEN f ELSE stack[i]]
  BY <1>2
<1>6. Len(stack) \in 1..(Len(stack) + 1)
  BY <1>2
<1>7. AllAnswered'
  BY <1>2, <1>4, <1>5, <1>6, NewAnswered
<1>. QED  BY <1>7 DEF KInv

LEMMA CalledTrue ==
    ASSUME IInv, KInv, NEW f, stack' = Append(stack, f), UNCHANGED schema, mode' = "walk",
           \A q \in DOMAIN answers : q \in DOMAIN answers' /\ answers'[q] = answers[q],
           f.out = <<>>, Told'
    PROVE  KInv'
<1>1. Frames /\ AllAnswered /\ Len(stack) + 1 \in 1..(Len(stack) + 1)
  BY StackIsSeq DEF IInv, KInv
<1>2. stack' = [i \in 1..(Len(stack) + 1) |-> IF i = Len(stack) + 1 THEN f ELSE stack[i]]
  BY <1>1, PushedStack
<1>3. AsAnswered(f.object, f.path, f.out)'
  BY DEF AsAnswered
<1>4. AllAnswered'
  BY <1>1, <1>2, <1>3, NewAnswered
<1>. QED  BY <1>4 DEF KInv, AnsweredResult

LEMMA MovedTrue ==
    ASSUME IInv, KInv, NEW f, stack' = Replace(f), UNCHANGED schema, mode' = "walk",
           \A q \in DOMAIN answers : q \in DOMAIN answers' /\ answers'[q] = answers[q],
           AsAnswered(f.object, f.path, f.out)', Told'
    PROVE  KInv'
<1>1. Frames /\ AllAnswered /\ Len(stack) \in 1..(Len(stack) + 1)
  BY StackIsSeq DEF IInv, KInv
<1>2. stack' = [i \in 1..Len(stack) |-> IF i = Len(stack) THEN f ELSE stack[i]]
  BY <1>1, MovedStack
<1>3. AllAnswered'
  BY <1>1, <1>2, NewAnswered
<1>. QED  BY <1>3 DEF KInv, AnsweredResult

LEMMA ReturnedTrue ==
    ASSUME IInv, KInv, Below # <<>>, NEW f, stack' = [Below EXCEPT ![Len(Below)] = f],
           UNCHANGED <<schema, answers>>, mode' \in {"walk", "unwind"},
           f.kind = "object" => AsAnswered(f.object, f.path, f.out)', Told'
    PROVE  KInv'
<1>1. Frames /\ AllAnswered /\ Len(stack) - 1 \in 1..(Len(stack) + 1)
  <2>1. Len(stack) \in Nat /\ Len(stack) # 0 /\ Len(stack) # 1
    BY StackIsSeq, BelowIs DEF IInv
  <2>2. Len(stack) - 1 \in 1..(Len(stack) + 1)
    BY ONLY <2>1
  <2>. QED  BY <2>2 DEF IInv, KInv
<1>2. stack' = [i \in 1..(Len(stack) - 1) |-> IF i = Len(stack) - 1 THEN f ELSE stack[i]]
  BY <1>1, PoppedStack
<1>3. AllAnswered'
  BY <1>1, <1>2, NewAnswered
<1>. QED  BY <1>3 DEF KInv, AnsweredResult

(* A field with its answer, or a collection, is delivered to object g. *)
LEMMA DeliveredAnswered ==
    ASSUME NEW g, NEW value, NEW d, d = Delivered(g, value), Object(g), g.next \in Nat,
           Collected(g), AsAnswered(g.object, g.path, g.out), UNCHANGED schema,
           \A q \in DOMAIN answers : q \in DOMAIN answers' /\ answers'[q] = answers[q],
           LET m == schema[g.object][g.next]
               p == Append(g.path, g.next)
           IN  m.kind = "field" =>
                  /\ p \in DOMAIN answers' /\ Taken(m, answers'[p].as)
                  /\ value = FieldValue(m, answers'[p].as)
    PROVE  AsAnswered(d.object, d.path, d.out)'
<1>. DEFINE S == {g.out[x] : x \in 1..Len(g.out)} \cup {value}
            n == Len(g.out)
<1>1. d = [g EXCEPT !.out = Append(g.out, value), !.next = g.next + 1]
  BY ONLY d = Delivered(g, value) DEF Delivered
<1>2. d.object = g.object /\ d.path = g.path /\ d.out = Append(g.out, value) /\ g.kind = "object"
  BY <1>1 DEF Object
<1>3. g.out \in Seq(S) /\ n \in Nat /\ n = g.next - 1
  BY <1>2 DEF Collected
<1>. HIDE DEF S
<1>4. /\ Len(d.out) = n + 1 /\ d.out[n + 1] = value /\ n + 1 = g.next
      /\ \A x \in 1..n : d.out[x] = g.out[x]
  BY <1>2, <1>3, AppendProperties DEF S
<1>5. AsAnswered(g.object, g.path, g.out)'
  BY StaysAnswered
<1>6. ASSUME NEW x \in 1..(n + 1), schema[g.object][x].kind = "field"
      PROVE  /\ Append(g.path, x) \in DOMAIN answers'
             /\ Taken(schema[g.object][x], answers'[Append(g.path, x)].as)
             /\ d.out[x] = FieldValue(schema[g.object][x], answers'[Append(g.path, x)].as)
  <2>1. CASE x = n + 1
    BY <1>4, <1>6, <2>1
  <2>2. CASE x # n + 1
    <3>1. x \in 1..n
      BY <1>3, <2>2
    <3>. QED  BY <1>4, <1>5, <1>6, <3>1 DEF AsAnswered, Taken, FieldValue
  <2>. QED  BY <2>1, <2>2
<1>. QED  BY <1>2, <1>4, <1>6 DEF AsAnswered, Taken, FieldValue

LEMMA KeepsAnswers ==
    ASSUME UNCHANGED answers
    PROVE  /\ \A q \in DOMAIN answers : q \in DOMAIN answers' /\ answers'[q] = answers[q]
           /\ NothingFailed' = NothingFailed
BY DEF NothingFailed

LEMMA ReadFieldTrue ==
    ASSUME IInv, JInv, KInv, NEW a \in FieldAnswers, ReadField(a)
    PROVE  KInv'
<1>1. /\ mode = "read" /\ Answer(MemberPath, a, 0)
  BY DEF ReadField
<1>2. /\ \A q \in DOMAIN answers : q \in DOMAIN answers' /\ answers'[q] = answers[q]
      /\ DOMAIN answers' = DOMAIN answers \cup {MemberPath}
      /\ answers'[MemberPath].as = a
      /\ UNCHANGED schema
  BY <1>1, AnswersKept
<1>3. /\ Top.kind = "object" /\ Object(Top) /\ Top.next \in Nat
      /\ Member.kind = "field" /\ Collected(Top)
      /\ AsAnswered(Top.object, Top.path, Top.out)
  <2>1. Top.kind = "object" /\ Object(Top) /\ Member.kind = "field"
    BY <1>1, MemberPathIsCursors
  <2>2. AsAnswered(Top.object, Top.path, Top.out)
    BY <2>1, StackIsSeq DEF IInv, KInv, AllAnswered
  <2>. QED  BY <2>1, <2>2, Innermost DEF Object
<1>4. ASSUME NEW value, Deliver(value), Taken(Member, a), value = FieldValue(Member, a), Told'
      PROVE  KInv'
  <2>1. PICK g : g = Top
    OBVIOUS
  <2>2. PICK d : d = Delivered(g, value)
    OBVIOUS
  <2>3. AsAnswered(d.object, d.path, d.out)'
    <3>1. /\ schema[g.object][g.next] = Member /\ Append(g.path, g.next) = MemberPath
      BY <2>1 DEF Member, MemberPath
    <3>2. /\ Object(g) /\ g.next \in Nat /\ Collected(g)
          /\ AsAnswered(g.object, g.path, g.out)
      BY <1>3, <2>1
    <3>. QED  BY <1>2, <1>4, <2>2, <3>1, <3>2, DeliveredAnswered
  <2>4. stack' = Replace(d) /\ mode' = "walk"
    BY <1>4, <2>1, <2>2 DEF Deliver
  <2>. QED  BY <1>2, <1>4, <2>3, <2>4, MovedTrue
<1>5. ASSUME NEW code, Raise(code)
      PROVE  KInv'
  <2>1. mode' = "unwind" /\ UNCHANGED stack
    BY <1>5 DEF Raise
  <2>. QED  BY <1>2, <2>1, StaysTrue DEF Told, AnsweredResult
<1>6. a \notin FieldCauses /\ UNCHANGED partial => Told'
  <2>1. partial = TRUE \/ NothingFailed
    BY <1>1 DEF KInv, Told
  <2>2. a \notin FieldCauses /\ NothingFailed => NothingFailed'
    BY <1>2 DEF NothingFailed
  <2>. QED  BY <2>1, <2>2 DEF Told
<1>7. CASE a = "value" /\ Deliver("value") /\ UNCHANGED <<err, warnings, partial, result>>
  BY <1>4, <1>6, <1>7 DEF Taken, FieldValue, FieldCauses, Interrupts
<1>8. CASE a = "missing" /\ Missing(Member)
  <2>1. CASE Member.required
    BY <1>5, <1>8, <2>1 DEF Missing
  <2>2. CASE ~Member.required
    BY <1>4, <1>6, <1>8, <2>2 DEF Missing, Taken, FieldValue, FieldCauses, Interrupts
  <2>. QED  BY <2>1, <2>2
<1>9. CASE a \in FieldCauses /\ Recover(Member, CodeOf[a])
  <2>1. CASE ~Recovers(Member)
    BY <1>5, <1>9, <2>1 DEF Recover
  <2>2. CASE Recovers(Member)
    <3>1. partial' = TRUE /\ Deliver(FieldValue(Member, a))
      BY <1>9, <2>2 DEF Recover, FieldValue, FieldCauses, Interrupts
    <3>2. Taken(Member, a)
      BY <1>9, <2>2 DEF Taken
    <3>. QED  BY <1>4, <3>1, <3>2 DEF Told
  <2>. QED  BY <2>1, <2>2
<1>. QED  BY <1>7, <1>8, <1>9 DEF ReadField

LEMMA QueryTrue ==
    ASSUME IInv, JInv, KInv,
           (\E n \in 0..MaxRows : QueryRows(n)) \/ (\E a \in FieldCauses : QueryFails(a))
    PROVE  KInv'
<1>1. ASSUME NEW n \in 0..MaxRows, QueryRows(n)
      PROVE  KInv'
  <2>1. PICK f : f = RowsFrame(Member, n, MemberPath)
    OBVIOUS
  <2>2. /\ mode = "query" /\ mode' = "walk" /\ stack' = Append(stack, f) /\ UNCHANGED partial
        /\ Answer(MemberPath, "rows", n)
    BY <1>1, <2>1 DEF QueryRows
  <2>3. /\ \A q \in DOMAIN answers : q \in DOMAIN answers' /\ answers'[q] = answers[q]
        /\ DOMAIN answers' = DOMAIN answers \cup {MemberPath}
        /\ answers'[MemberPath].as = "rows"
        /\ UNCHANGED schema
    BY <2>2, AnswersKept
  <2>4. Told'
    <3>1. partial = TRUE \/ NothingFailed
      BY <2>2 DEF KInv, Told
    <3>2. NothingFailed => NothingFailed'
      BY <2>3 DEF NothingFailed, FieldCauses, Interrupts
    <3>. QED  BY <2>2, <3>1, <3>2 DEF Told
  <2>5. f.out = <<>>
    BY <2>1 DEF RowsFrame
  <2>. QED  BY <2>2, <2>3, <2>4, <2>5, CalledTrue
<1>2. ASSUME NEW a \in FieldCauses, QueryFails(a)
      PROVE  KInv'
  <2>1. mode = "query" /\ mode' = "unwind" /\ UNCHANGED stack /\ Answer(MemberPath, a, 0)
    BY <1>2 DEF QueryFails, Raise
  <2>2. /\ \A q \in DOMAIN answers : q \in DOMAIN answers' /\ answers'[q] = answers[q]
        /\ UNCHANGED schema
    BY <2>1, AnswersKept
  <2>. QED  BY <2>1, <2>2, StaysTrue DEF Told, AnsweredResult
<1>. QED  BY <1>1, <1>2

LEMMA EndObjectTrue == ASSUME IInv, JInv, KInv, EndObject PROVE KInv'
<1>1. /\ mode = "walk" /\ Top.kind = "object" /\ UNCHANGED <<schema, answers, partial>>
  BY DEF EndObject, Finalize
<1>2. partial = TRUE \/ NothingFailed
  BY <1>1 DEF KInv, Told
<1>3. Told'
  BY <1>1, <1>2, KeepsAnswers DEF Told
<1>4. CASE Below = <<>>
  <2>1. mode' = "done" /\ UNCHANGED stack /\ Finalize
    BY <1>4 DEF EndObject
  <2>2. Len(stack) = 1 /\ 1 \in DOMAIN stack /\ stack[1] = Top
    BY <1>4, BelowIs, StackIsSeq DEF IInv
  <2>3. Top.object = "root" /\ Top.path = <<>>
    <3>1. Top.path = [x \in 1..(1 - 1) |-> Cursors[x]]
      BY <2>2 DEF IInv, Located
    <3>2. [x \in 1..(1 - 1) |-> Cursors[x]] = <<>>
      OBVIOUS
    <3>. QED  BY <1>4, <3>1, <3>2, Innermost
  <2>4. PICK out : out = Top.out
    OBVIOUS
  <2>5. AsAnswered("root", <<>>, out)
    BY <1>1, <2>2, <2>3, <2>4 DEF KInv, AllAnswered
  <2>6. AsAnswered("root", <<>>, out)'
    BY <1>1, <2>5, KeepsAnswers, StaysAnswered
  <2>7. result'.value = out /\ result'.partial = partial
    BY <2>1, <2>4 DEF Finalize
  <2>8. AnsweredResult'
    BY <1>2, <2>6, <2>7, <1>1, KeepsAnswers DEF AnsweredResult, AsAnswered
  <2>. QED  BY <1>1, <1>3, <2>1, <2>8, KeepsAnswers, StaysTrue
<1>5. CASE Below # <<>>
  <2>1. PICK kept : kept = [Below[Len(Below)] EXCEPT !.out = Append(@, Top.out), !.index = @ + 1]
    OBVIOUS
  <2>2. stack' = [Below EXCEPT ![Len(Below)] = kept] /\ mode' \in {"walk", "unwind"}
    BY <1>1, <1>5, <2>1 DEF EndObject
  <2>3. kept.kind # "object"
    <3>1. Rows(Below[Len(Below)])
      BY <1>1, <1>5, BelowFrame
    <3>. QED  BY <2>1, <3>1 DEF Rows
  <2>. QED  BY <1>1, <1>3, <1>5, <2>2, <2>3, ReturnedTrue
<1>. QED  BY <1>4, <1>5

LEMMA StartRowTrue == ASSUME IInv, JInv, KInv, StartRow PROVE KInv'
<1>1. mode = "walk" /\ UNCHANGED <<schema, answers>>
  BY DEF StartRow
<1>2. CASE ended # None
  <2>1. mode' = "unwind" /\ UNCHANGED stack
    BY <1>2 DEF StartRow, Raise
  <2>. QED  BY <1>1, <2>1, KeepsAnswers, StaysTrue DEF Told, AnsweredResult
<1>3. CASE ended = None
  <2>1. PICK f : f = ObjectFrame(Top.collection.row, Append(Top.path, Top.index))
    OBVIOUS
  <2>2. stack' = Append(stack, f) /\ mode' = "walk" /\ UNCHANGED partial /\ f.out = <<>>
    BY <1>1, <1>3, <2>1 DEF StartRow, ObjectFrame
  <2>3. Told'
    BY <1>1, <2>2, KeepsAnswers DEF KInv, Told
  <2>. QED  BY <1>1, <2>2, <2>3, KeepsAnswers, CalledTrue
<1>. QED  BY <1>2, <1>3

LEMMA EndRowsTrue == ASSUME IInv, JInv, KInv, EndRows PROVE KInv'
<1>1. mode = "walk" /\ Top.kind = "rows" /\ UNCHANGED <<schema, answers>> /\ Below # <<>>
  BY BelowFrame DEF EndRows
<1>2. CASE TooFew(Top.collection, Len(Top.out))
  <2>1. mode' = "unwind" /\ UNCHANGED stack
    BY <1>2 DEF EndRows, Raise
  <2>. QED  BY <1>1, <2>1, KeepsAnswers, StaysTrue DEF Told, AnsweredResult
<1>3. CASE ~TooFew(Top.collection, Len(Top.out))
  <2>1. PICK g : g = Below[Len(Below)]
    OBVIOUS
  <2>2. PICK d : d = Delivered(g, Top.out)
    OBVIOUS
  <2>3. stack' = [Below EXCEPT ![Len(Below)] = d] /\ mode' = "walk" /\ UNCHANGED partial
    BY <1>1, <1>3, <2>1, <2>2 DEF EndRows
  <2>4. Object(g) /\ AtMember(g, "collection") /\ Collected(g)
        /\ Len(stack) - 1 \in DOMAIN stack /\ g = stack[Len(stack) - 1]
    BY <1>1, <2>1, BelowFrame, Innermost
  <2>5. AsAnswered(g.object, g.path, g.out) /\ g.next \in Nat
    BY <2>4 DEF KInv, AllAnswered, Object
  <2>6. schema[g.object][g.next].kind # "field"
    BY <2>4 DEF AtMember
  <2>7. AsAnswered(d.object, d.path, d.out)'
    BY <1>1, <2>2, <2>4, <2>5, <2>6, KeepsAnswers, DeliveredAnswered
  <2>8. Told'
    BY <1>1, <2>3, KeepsAnswers DEF KInv, Told
  <2>. QED  BY <1>1, <2>3, <2>7, <2>8, ReturnedTrue
<1>. QED  BY <1>2, <1>3

LEMMA UnwindTrue == ASSUME IInv, JInv, KInv, Unwind PROVE KInv'
<1>1. mode = "unwind" /\ UNCHANGED <<schema, answers>>
  BY DEF Unwind
<1>2. CASE SkipsRow /\ SkipRow
  <2>1. PICK f : f = [Below[Len(Below)] EXCEPT !.index = Below[Len(Below)].index + 1]
    OBVIOUS
  <2>2. /\ Below # <<>> /\ Top.kind = "object" /\ mode' = "walk" /\ partial' = TRUE
        /\ SkippedAt(Below[Len(Below)].index + 1)
    BY <1>2 DEF SkipsRow, SkipRow, SkippedAt
  <2>3. stack' = [Below EXCEPT ![Len(Below)] = f]
    BY <2>1, <2>2, SkippedStack DEF IInv
  <2>4. f.kind # "object"
    BY <2>1, <2>2, BelowFrame DEF Rows
  <2>5. Told'
    BY <2>2 DEF Told
  <2>. QED  BY <1>1, <2>2, <2>3, <2>4, <2>5, ReturnedTrue
<1>3. CASE Below # <<>> /\ stack' = Below /\ UNCHANGED <<mode, err, warnings, partial, result>>
  <2>1. PICK f : f = Below[Len(Below)]
    OBVIOUS
  <2>2. stack' = [Below EXCEPT ![Len(Below)] = f]
    <3>1. Below = [i \in 1..(Len(stack) - 1) |-> stack[i]]
      BY <1>3, BelowIs DEF IInv
    <3>. QED  BY <1>3, <2>1, <3>1
  <2>3. Len(stack) - 1 \in DOMAIN stack /\ f = stack[Len(stack) - 1]
    BY <1>3, <2>1, Innermost
  <2>4. f.kind = "object" => AsAnswered(f.object, f.path, f.out)
    BY <2>3 DEF KInv, AllAnswered
  <2>5. f.kind = "object" => AsAnswered(f.object, f.path, f.out)'
    BY <1>1, <2>4, KeepsAnswers, StaysAnswered
  <2>. QED  BY <1>1, <1>3, <2>2, <2>5, ReturnedTrue DEF Told
<1>4. CASE /\ Below = <<>> /\ mode' = "done" /\ UNCHANGED <<stack, err, warnings, partial>>
           /\ result' = [ok |-> FALSE, code |-> err]
  BY <1>1, <1>4, KeepsAnswers, StaysTrue DEF Told, AnsweredResult
<1>. QED  BY <1>2, <1>3, <1>4 DEF Unwind

LEMMA AnsweredInductive == Spec => []KInv
<1>1. Init => KInv
  <2>. SUFFICES ASSUME Init PROVE KInv
    OBVIOUS
  <2>. DEFINE frame == ObjectFrame("root", <<>>)
  <2>1. stack = <<frame>> /\ mode = "walk" /\ answers = <<>>
    BY DEF Init
  <2>2. frame.out = <<>>
    BY DEF ObjectFrame
  <2>. HIDE DEF frame
  <2>3. DOMAIN stack = {1} /\ stack[1] = frame /\ DOMAIN answers = {} /\ Len(frame.out) = 0
    BY <2>1, <2>2
  <2>. QED  BY <2>1, <2>3
            DEF KInv, AllAnswered, AsAnswered, Told, NothingFailed, AnsweredResult
<1>2. IInv /\ JInv /\ KInv /\ [Next]_vars => KInv'
  <2>. SUFFICES ASSUME IInv, JInv, KInv, [Next]_vars PROVE KInv'
    OBVIOUS
  <2>1. CASE CheckMember
    <3>1. mode = "walk" /\ UNCHANGED <<schema, stack, answers, partial, result>>
          /\ mode' \in {"unwind", "read", "query"}
      BY <2>1 DEF CheckMember, Raise
    <3>2. Told' /\ AnsweredResult'
      BY <3>1, KeepsAnswers DEF KInv, Told, AnsweredResult
    <3>. QED  BY <3>1, <3>2, KeepsAnswers, StaysTrue
  <2>2. CASE EndObject
    BY <2>2, EndObjectTrue
  <2>3. CASE StartRow
    BY <2>3, StartRowTrue
  <2>4. CASE EndRows
    BY <2>4, EndRowsTrue
  <2>5. CASE Unwind
    BY <2>5, UnwindTrue
  <2>6. CASE \E a \in FieldAnswers : ReadField(a)
    BY <2>6, ReadFieldTrue
  <2>7. CASE (\E n \in 0..MaxRows : QueryRows(n)) \/ (\E a \in FieldCauses : QueryFails(a))
    BY <2>7, QueryTrue
  <2>8. CASE (\E how \in Interrupts : Cancel(how)) \/ UNCHANGED vars
    <3>1. UNCHANGED <<schema, stack, mode, answers, partial, result>>
      BY <2>8 DEF Cancel, vars, walker
    <3>2. Told' /\ AnsweredResult'
      BY <3>1, KeepsAnswers DEF KInv, Told, AnsweredResult, AsAnswered, Taken, FieldValue
    <3>. QED  BY <3>1, <3>2, KeepsAnswers, StaysTrue
  <2>. QED  BY <2>1, <2>2, <2>3, <2>4, <2>5, <2>6, <2>7, <2>8 DEF Next, Step
<1>. QED  BY <1>1, <1>2, Inductive, CollectedInductive, PTL DEF Spec

-----------------------------------------------------------------------------
(* Why a row is dropped.                                                   *)
LEMMA BecauseStays ==
    ASSUME \A q \in DOMAIN answers : q \in DOMAIN answers' /\ answers'[q] = answers[q],
           NEW p, NEW code, Because(p, code)
    PROVE  Because(p, code)'
<1>1. PICK q \in DOMAIN answers : Inside(q, p) /\ Explains(answers[q].as, code)
  BY DEF Because
<1>2. q \in DOMAIN answers' /\ Explains(answers'[q].as, code)
  BY <1>1
<1>. QED  BY <1>1, <1>2 DEF Because

LEMMA NewRows ==
    ASSUME Frames, RowsAnswered, NEW n \in 1..(Len(stack) + 1), NEW f,
           stack' = [i \in 1..n |-> IF i = n THEN f ELSE stack[i]],
           \A q \in DOMAIN answers : q \in DOMAIN answers' /\ answers'[q] = answers[q],
           f.kind = "rows" => f.path \in DOMAIN answers' /\ answers'[f.path].as = "rows"
    PROVE  RowsAnswered'
<1>1. Len(stack) \in Nat /\ Len(stack) # 0 /\ DOMAIN stack = 1..Len(stack)
  BY StackIsSeq
<1>2. /\ DOMAIN stack' = 1..n /\ n \in Nat /\ n # 0 /\ stack'[n] = f
      /\ \A i \in 1..(n - 1) : i \in DOMAIN stack /\ stack'[i] = stack[i]
  BY <1>1
<1>3. ASSUME NEW i \in DOMAIN stack', stack'[i].kind = "rows"
      PROVE  stack'[i].path \in DOMAIN answers' /\ answers'[stack'[i].path].as = "rows"
  <2>1. CASE i = n
    BY <1>2, <1>3, <2>1
  <2>2. CASE i # n
    <3>1. i \in DOMAIN stack /\ stack'[i] = stack[i]
      BY <1>2, <1>3, <2>2
    <3>2. stack[i].path \in DOMAIN answers /\ answers[stack[i].path].as = "rows"
      BY <1>3, <3>1 DEF RowsAnswered
    <3>. QED  BY <3>1, <3>2
  <2>. QED  BY <2>1, <2>2
<1>. QED  BY <1>3 DEF RowsAnswered

LEMMA SameRows ==
    ASSUME RowsAnswered, UNCHANGED stack,
           \A q \in DOMAIN answers : q \in DOMAIN answers' /\ answers'[q] = answers[q]
    PROVE  RowsAnswered'
BY DEF RowsAnswered

LEMMA SameDrops ==
    ASSUME DroppedForAnswer, UNCHANGED warnings,
           \A q \in DOMAIN answers : q \in DOMAIN answers' /\ answers'[q] = answers[q]
    PROVE  DroppedForAnswer'
<1>1. ASSUME NEW i \in 1..Len(warnings), warnings[i].code = "W_ROW_SKIPPED"
      PROVE  Because(warnings[i].path, warnings[i].cause)'
  <2>1. PICK p, code : p = warnings[i].path /\ code = warnings[i].cause
    OBVIOUS
  <2>2. Because(p, code)
    BY <1>1, <2>1 DEF DroppedForAnswer
  <2>3. Because(p, code)'
    BY <2>2, BecauseStays
  <2>. QED  BY <2>1, <2>3 DEF Because
<1>. QED  BY <1>1 DEF DroppedForAnswer

LEMMA NewDrop ==
    ASSUME IInv, DroppedForAnswer, NEW w \in Warning, warnings' = Append(warnings, w),
           \A q \in DOMAIN answers : q \in DOMAIN answers' /\ answers'[q] = answers[q],
           w.code = "W_ROW_SKIPPED" => Because(w.path, w.cause)'
    PROVE  DroppedForAnswer'
<1>1. /\ Len(warnings') = Len(warnings) + 1 /\ Len(warnings) \in Nat
      /\ \A i \in 1..Len(warnings) : warnings'[i] = warnings[i]
      /\ warnings'[Len(warnings) + 1] = w
  BY AppendProperties, LenProperties DEF IInv, TypeOK
<1>2. ASSUME NEW i \in 1..Len(warnings'), NEW p, NEW code,
             warnings'[i].code = "W_ROW_SKIPPED",
             p = warnings'[i].path, code = warnings'[i].cause
      PROVE  Because(p, code)'
  <2>1. CASE i = Len(warnings) + 1
    BY <1>1, <1>2, <2>1
  <2>2. CASE i # Len(warnings) + 1
    <3>1. i \in 1..Len(warnings)
      BY <1>1, <2>2
    <3>2. Because(p, code)
      BY <1>1, <1>2, <3>1 DEF DroppedForAnswer
    <3>. QED  BY <3>2, BecauseStays
  <2>. QED  BY <2>1, <2>2
<1>. QED  BY <1>2 DEF DroppedForAnswer, Because

(* An answer at a member explains the code it raises in its object. *)
LEMMA RaisedExplained ==
    ASSUME IInv, LInv, mode \in {"read", "query"}, NEW a, NEW n, NEW code,
           Answer(MemberPath, a, n), Raise(code), code # Canceled => Explains(a, code)
    PROVE  LInv'
<1>1. /\ \A q \in DOMAIN answers : q \in DOMAIN answers' /\ answers'[q] = answers[q]
      /\ MemberPath \in DOMAIN answers' /\ answers'[MemberPath].as = a
  BY AnswersKept
<1>2. mode' = "unwind" /\ err' = code /\ UNCHANGED <<stack, warnings>> /\ Top' = Top
  BY DEF Raise, Top
<1>3. Inside(MemberPath, Top.path)
  BY TopPathIsSeq, MemberPathIsCursors, AppendProperties, LenProperties DEF MemberPath, Inside
<1>4. PICK p, q : p = Top.path /\ q = MemberPath
  OBVIOUS
<1>5. code # Canceled => Because(p, code)'
  <2>. SUFFICES ASSUME code # Canceled PROVE Because(p, code)'
    OBVIOUS
  <2>1. q \in DOMAIN answers' /\ Inside(q, p) /\ Explains(answers'[q].as, code)
    BY <1>1, <1>3, <1>4
  <2>. QED  BY <2>1 DEF Because
<1>6. Explained'
  BY <1>2, <1>4, <1>5 DEF Explained, Because
<1>. QED  BY <1>1, <1>2, <1>6, SameRows, SameDrops DEF LInv

(* The bounds of a collection are those of rows that were answered. *)
LEMMA CardinalityExplained ==
    ASSUME NEW p \in Seq(Nat), p \in DOMAIN answers, answers[p].as = "rows", UNCHANGED answers
    PROVE  Because(p, "E_COLLECTION_CARDINALITY")'
BY DEF Because, Inside, Explains

LEMMA ReadFieldExplained ==
    ASSUME IInv, LInv, NEW a \in FieldAnswers, ReadField(a)
    PROVE  LInv'
<1>1. /\ mode = "read" /\ Answer(MemberPath, a, 0)
  BY DEF ReadField
<1>2. \A q \in DOMAIN answers : q \in DOMAIN answers' /\ answers'[q] = answers[q]
  BY <1>1, AnswersKept
<1>3. ASSUME NEW value, Deliver(value), DroppedForAnswer'
      PROVE  LInv'
  <2>1. PICK f : f = Delivered(Top, value)
    OBVIOUS
  <2>2. /\ Frames /\ RowsAnswered /\ stack' = Replace(f) /\ mode' = "walk"
        /\ Len(stack) \in 1..(Len(stack) + 1)
    BY <1>3, <2>1, StackIsSeq DEF Deliver, IInv, LInv
  <2>3. stack' = [i \in 1..Len(stack) |-> IF i = Len(stack) THEN f ELSE stack[i]]
    BY <2>2, MovedStack
  <2>4. f.kind # "rows"
    BY <1>1, <2>1, MemberPathIsCursors DEF Object, Delivered
  <2>5. RowsAnswered'
    BY <1>2, <2>2, <2>3, <2>4, NewRows
  <2>. QED  BY <1>3, <2>2, <2>5 DEF LInv, Explained
<1>4. UNCHANGED warnings => DroppedForAnswer'
  BY <1>2, SameDrops DEF LInv
<1>5. CASE a = "value" /\ Deliver("value") /\ UNCHANGED <<err, warnings, partial, result>>
  BY <1>3, <1>4, <1>5
<1>6. CASE a = "missing" /\ Missing(Member)
  <2>1. CASE Member.required
    BY <1>1, <1>6, <2>1, RaisedExplained DEF Missing, Explains
  <2>2. CASE ~Member.required
    BY <1>3, <1>4, <1>6, <2>2 DEF Missing
  <2>. QED  BY <2>1, <2>2
<1>7. CASE a \in FieldCauses /\ Recover(Member, CodeOf[a])
  <2>1. CASE ~Recovers(Member)
    <3>. DEFINE code == IF Policy(Member) = "fail" THEN CodeOf[a] ELSE "E_IR_INVALID"
    <3>1. Raise(code)
      BY <1>7, <2>1 DEF Recover
    <3>2. code # Canceled => Explains(a, code)
      BY <1>7 DEF Explains, Canceled
    <3>. QED  BY <1>1, <3>1, <3>2, RaisedExplained
  <2>2. CASE Recovers(Member)
    <3>. DEFINE w == [code |-> "W_ERROR_RECOVERED", cause |-> CodeOf[a], path |-> MemberPath]
    <3>1. /\ Deliver(IF Policy(Member) = "default" THEN "default" ELSE "null")
          /\ warnings' = IF Policy(Member) = "warn" THEN Append(warnings, w) ELSE warnings
      BY <1>7, <2>2 DEF Recover
    <3>2. CodeOf[a] \in Codes
      BY <1>7 DEF CodeOf, FieldCauses, Interrupts, Codes
    <3>3. w \in Warning /\ w.code # "W_ROW_SKIPPED"
      BY <1>1, <3>2, MemberPathIsCursors DEF Warning
    <3>. HIDE DEF w
    <3>4. DroppedForAnswer'
      BY <1>2, <1>4, <3>1, <3>3, NewDrop DEF LInv
    <3>. QED  BY <1>3, <3>1, <3>4
  <2>. QED  BY <2>1, <2>2
<1>. QED  BY <1>5, <1>6, <1>7 DEF ReadField

LEMMA QueryExplained ==
    ASSUME IInv, LInv,
           (\E n \in 0..MaxRows : QueryRows(n)) \/ (\E a \in FieldCauses : QueryFails(a))
    PROVE  LInv'
<1>1. ASSUME NEW n \in 0..MaxRows, QueryRows(n)
      PROVE  LInv'
  <2>1. PICK f : f = RowsFrame(Member, n, MemberPath)
    OBVIOUS
  <2>2. /\ mode = "query" /\ mode' = "walk" /\ stack' = Append(stack, f) /\ UNCHANGED warnings
        /\ Answer(MemberPath, "rows", n)
    BY <1>1, <2>1 DEF QueryRows
  <2>3. /\ \A q \in DOMAIN answers : q \in DOMAIN answers' /\ answers'[q] = answers[q]
        /\ MemberPath \in DOMAIN answers' /\ answers'[MemberPath].as = "rows"
    BY <2>2, AnswersKept
  <2>4. Frames /\ RowsAnswered /\ Len(stack) + 1 \in 1..(Len(stack) + 1)
    BY StackIsSeq DEF IInv, LInv
  <2>5. stack' = [i \in 1..(Len(stack) + 1) |-> IF i = Len(stack) + 1 THEN f ELSE stack[i]]
    BY <2>2, <2>4, PushedStack
  <2>6. f.path \in DOMAIN answers' /\ answers'[f.path].as = "rows"
    BY <2>1, <2>3 DEF RowsFrame
  <2>7. RowsAnswered'
    BY <2>3, <2>4, <2>5, <2>6, NewRows
  <2>. QED  BY <2>2, <2>3, <2>7, SameDrops DEF LInv, Explained
<1>2. ASSUME NEW a \in FieldCauses, QueryFails(a)
      PROVE  LInv'
  <2>1. mode = "query" /\ Raise(CodeOf[a]) /\ Answer(MemberPath, a, 0)
    BY <1>2 DEF QueryFails
  <2>2. CodeOf[a] # Canceled => Explains(a, CodeOf[a])
    BY DEF Explains
  <2>. QED  BY <2>1, <2>2, RaisedExplained
<1>. QED  BY <1>1, <1>2

(* A step that reads nothing and drops no row. *)
LEMMA StaysExplained ==
    ASSUME LInv, UNCHANGED <<answers, warnings>>, RowsAnswered', Explained'
    PROVE  LInv'
BY SameDrops DEF LInv

(* A step to the frame below, which goes on or returns an error itself. *)
LEMMA ReturnedExplained ==
    ASSUME IInv, LInv, Below # <<>>, NEW f, stack' = [Below EXCEPT ![Len(Below)] = f],
           UNCHANGED answers, f.kind = Below[Len(Below)].kind, f.path = Below[Len(Below)].path
    PROVE  RowsAnswered' /\ Top'.path = Below[Len(Below)].path
<1>1. Frames /\ RowsAnswered /\ Len(stack) - 1 \in 1..(Len(stack) + 1)
  <2>1. Len(stack) \in Nat /\ Len(stack) # 0 /\ Len(stack) # 1
    BY StackIsSeq, BelowIs DEF IInv
  <2>2. Len(stack) - 1 \in 1..(Len(stack) + 1)
    BY ONLY <2>1
  <2>. QED  BY <2>2 DEF IInv, LInv
<1>2. stack' = [i \in 1..(Len(stack) - 1) |-> IF i = Len(stack) - 1 THEN f ELSE stack[i]]
  BY <1>1, PoppedStack
<1>3. f.kind = "rows" => f.path \in DOMAIN answers /\ answers[f.path].as = "rows"
  <2>1. Len(stack) - 1 \in DOMAIN stack /\ Below[Len(Below)] = stack[Len(stack) - 1]
    BY <1>1, BelowIs
  <2>. QED  BY <2>1 DEF LInv, RowsAnswered
<1>4. RowsAnswered'
  BY <1>1, <1>2, <1>3, NewRows
<1>5. Top' = f
  <2>. DEFINE n == Len(stack) - 1
  <2>1. n \in Nat /\ n # 0 /\ stack' = [i \in 1..n |-> IF i = n THEN f ELSE stack[i]]
    <3>1. Len(stack) \in Nat
      BY <1>1, StackIsSeq
    <3>2. \A m \in Nat : m - 1 \in 1..(m + 1) => m - 1 \in Nat /\ m - 1 # 0
      BY ONLY TRUE
    <3>3. n \in Nat /\ n # 0
      BY ONLY <1>1, <3>1, <3>2, Zenon DEF n
    <3>. QED  BY <1>2, <3>3
  <2>. HIDE DEF n
  <2>2. Len(stack') = n /\ stack'[n] = f
    BY <2>1
  <2>. QED  BY <2>2 DEF Top
<1>. QED  BY <1>4, <1>5

LEMMA EndObjectExplained == ASSUME IInv, LInv, EndObject PROVE LInv'
<1>1. mode = "walk" /\ Top.kind = "object" /\ UNCHANGED <<answers, warnings>>
  BY DEF EndObject, Finalize
<1>2. CASE Below = <<>>
  <2>1. mode' = "done" /\ UNCHANGED stack
    BY <1>2 DEF EndObject
  <2>2. RowsAnswered' /\ Explained'
    BY <1>1, <2>1 DEF LInv, RowsAnswered, Explained
  <2>. QED  BY <1>1, <2>2, StaysExplained
<1>3. CASE Below # <<>>
  <2>. DEFINE rows == Below[Len(Below)]
  <2>1. PICK kept : kept = [rows EXCEPT !.out = Append(@, Top.out), !.index = @ + 1]
    OBVIOUS
  <2>2. /\ stack' = [Below EXCEPT ![Len(Below)] = kept]
        /\ (mode' = "unwind" /\ err' = "E_COLLECTION_CARDINALITY") \/ mode' = mode
    BY <1>3, <2>1 DEF EndObject
  <2>3. Rows(rows)
    BY <1>1, <1>3, BelowFrame
  <2>. HIDE DEF rows
  <2>4. kept.kind = rows.kind /\ kept.path = rows.path
    BY <2>1, <2>3 DEF Rows
  <2>5. RowsAnswered' /\ Top'.path = rows.path
    BY <1>1, <1>3, <2>2, <2>4, ReturnedExplained DEF rows
  <2>6. rows.path \in DOMAIN answers /\ answers[rows.path].as = "rows"
    <3>1. Len(stack) - 1 \in DOMAIN stack /\ rows = stack[Len(stack) - 1]
      BY <1>3, BelowIs DEF IInv, rows
    <3>. QED  BY <2>3, <3>1 DEF LInv, RowsAnswered, Rows
  <2>7. Explained'
    <3>1. PICK p : p = rows.path
      OBVIOUS
    <3>2. Because(p, "E_COLLECTION_CARDINALITY")'
      BY <1>1, <2>6, <3>1, CardinalityExplained DEF IInv, TypeOK
    <3>. QED  BY <1>1, <2>2, <2>5, <3>1, <3>2 DEF Explained, Because
  <2>. QED  BY <1>1, <2>5, <2>7, StaysExplained
<1>. QED  BY <1>2, <1>3

LEMMA StartRowExplained == ASSUME IInv, LInv, StartRow PROVE LInv'
<1>1. mode = "walk" /\ UNCHANGED <<answers, warnings>>
  BY DEF StartRow, Raise
<1>2. CASE ended # None
  <2>1. err' = Canceled /\ UNCHANGED stack
    BY <1>2 DEF StartRow, Raise
  <2>2. RowsAnswered' /\ Explained'
    BY <1>1, <2>1 DEF LInv, RowsAnswered, Explained
  <2>. QED  BY <1>1, <2>2, StaysExplained
<1>3. CASE ended = None
  <2>1. PICK f : f = ObjectFrame(Top.collection.row, Append(Top.path, Top.index))
    OBVIOUS
  <2>2. stack' = Append(stack, f) /\ mode' = "walk" /\ f.kind # "rows"
    BY <1>1, <1>3, <2>1 DEF StartRow, ObjectFrame
  <2>3. Frames /\ RowsAnswered /\ Len(stack) + 1 \in 1..(Len(stack) + 1)
    BY StackIsSeq DEF IInv, LInv
  <2>4. stack' = [i \in 1..(Len(stack) + 1) |-> IF i = Len(stack) + 1 THEN f ELSE stack[i]]
    BY <2>2, <2>3, PushedStack
  <2>5. RowsAnswered'
    BY <1>1, <2>2, <2>3, <2>4, NewRows
  <2>. QED  BY <1>1, <2>2, <2>5, StaysExplained DEF Explained
<1>. QED  BY <1>2, <1>3

LEMMA EndRowsExplained == ASSUME IInv, LInv, EndRows PROVE LInv'
<1>1. mode = "walk" /\ Top.kind = "rows" /\ UNCHANGED <<answers, warnings>> /\ Below # <<>>
  BY BelowFrame DEF EndRows, Raise
<1>2. CASE TooFew(Top.collection, Len(Top.out))
  <2>1. mode' = "unwind" /\ err' = "E_COLLECTION_CARDINALITY" /\ UNCHANGED stack
    BY <1>2 DEF EndRows, Raise
  <2>2. PICK p : p = Top.path
    OBVIOUS
  <2>3. p \in Seq(Nat) /\ p \in DOMAIN answers /\ answers[p].as = "rows"
    BY <1>1, <2>2, TopPathIsSeq, StackIsSeq DEF IInv, LInv, RowsAnswered
  <2>4. Because(p, "E_COLLECTION_CARDINALITY")'
    BY <1>1, <2>3, CardinalityExplained
  <2>5. Top'.path = p
    BY <2>1, <2>2 DEF Top
  <2>6. RowsAnswered' /\ Explained'
    BY <1>1, <2>1, <2>4, <2>5 DEF LInv, RowsAnswered, Explained, Because
  <2>. QED  BY <1>1, <2>6, StaysExplained
<1>3. CASE ~TooFew(Top.collection, Len(Top.out))
  <2>1. PICK g : g = Below[Len(Below)]
    OBVIOUS
  <2>2. PICK d : d = Delivered(g, Top.out)
    OBVIOUS
  <2>3. stack' = [Below EXCEPT ![Len(Below)] = d] /\ mode' = "walk"
    BY <1>1, <1>3, <2>1, <2>2 DEF EndRows
  <2>4. Object(g)
    BY <1>1, <2>1, BelowFrame
  <2>5. d.kind = g.kind /\ d.path = g.path
    BY <2>2, <2>4 DEF Delivered, Object
  <2>6. RowsAnswered'
    BY <1>1, <2>1, <2>3, <2>5, ReturnedExplained
  <2>. QED  BY <1>1, <2>3, <2>6, StaysExplained DEF Explained
<1>. QED  BY <1>2, <1>3

LEMMA UnwindExplained == ASSUME IInv, LInv, Unwind PROVE LInv'
<1>1. mode = "unwind" /\ UNCHANGED answers /\ err \in Codes
  BY DEF Unwind, IInv, TypeOK
<1>2. CASE SkipsRow /\ SkipRow
  <2>0. PICK w : w = [code |-> "W_ROW_SKIPPED", cause |-> err, path |-> Top.path]
    OBVIOUS
  <2>1. PICK f : f = [Below[Len(Below)] EXCEPT !.index = Below[Len(Below)].index + 1]
    OBVIOUS
  <2>2. /\ Below # <<>> /\ Top.kind = "object" /\ err # Canceled /\ mode' = "walk"
        /\ warnings' = Append(warnings, w) /\ SkippedAt(Below[Len(Below)].index + 1)
    BY <1>2, <2>0 DEF SkipsRow, SkipRow, SkippedAt
  <2>3. stack' = [Below EXCEPT ![Len(Below)] = f]
    BY <2>1, <2>2, SkippedStack DEF IInv
  <2>4. f.kind = Below[Len(Below)].kind /\ f.path = Below[Len(Below)].path
    BY <2>1, <2>2, BelowFrame DEF Rows
  <2>5. RowsAnswered'
    BY <1>1, <2>2, <2>3, <2>4, ReturnedExplained
  <2>6. w \in Warning
    BY <1>1, <2>0, TopPathIsSeq DEF Warning
  <2>7. Because(w.path, w.cause)'
    <3>1. w.path = Top.path /\ w.cause = err
      BY <2>0
    <3>2. Because(w.path, w.cause)
      BY <1>1, <2>2, <3>1 DEF LInv, Explained
    <3>. QED  BY <1>1, <3>2, BecauseStays
  <2>8. DroppedForAnswer'
    BY <1>1, <2>2, <2>6, <2>7, NewDrop DEF LInv
  <2>. QED  BY <2>2, <2>5, <2>8 DEF LInv, Explained
<1>3. CASE Below # <<>> /\ stack' = Below /\ UNCHANGED <<mode, err, warnings, partial, result>>
  <2>1. PICK f : f = Below[Len(Below)]
    OBVIOUS
  <2>2. stack' = [Below EXCEPT ![Len(Below)] = f]
    <3>1. Below = [i \in 1..(Len(stack) - 1) |-> stack[i]]
      BY <1>3, BelowIs DEF IInv
    <3>. QED  BY <1>3, <2>1, <3>1
  <2>3. RowsAnswered' /\ Top'.path = f.path
    BY <1>1, <1>3, <2>1, <2>2, ReturnedExplained
  <2>4. ASSUME err # Canceled
        PROVE  Because(f.path, err)
    <3>1. PICK q \in DOMAIN answers : Inside(q, Top.path) /\ Explains(answers[q].as, err)
      BY <1>1, <2>4 DEF LInv, Explained, Because
    <3>2. /\ Len(Top.path) = Len(stack) - 1 /\ Len(f.path) = Len(stack) - 2
          /\ \A x \in 1..(Len(stack) - 2) : f.path[x] = Top.path[x]
          /\ Len(stack) \in Nat
      BY <1>3, <2>1, TopPathIsSeq, StackIsSeq DEF IInv
    <3>3. Len(q) \in Nat
      BY LenProperties DEF IInv, TypeOK
    <3>4. Inside(q, f.path)
      BY <3>1, <3>2, <3>3 DEF Inside
    <3>. QED  BY <3>1, <3>4 DEF Because
  <2>5. Explained'
    BY <1>1, <1>3, <2>3, <2>4 DEF Explained, Because
  <2>. QED  BY <1>1, <1>3, <2>3, <2>5, StaysExplained
<1>4. CASE mode' = "done" /\ UNCHANGED <<stack, err, warnings, partial>>
  <2>1. RowsAnswered' /\ Explained'
    BY <1>1, <1>4 DEF LInv, RowsAnswered, Explained
  <2>. QED  BY <1>1, <1>4, <2>1, StaysExplained
<1>. QED  BY <1>2, <1>3, <1>4 DEF Unwind

LEMMA ExplainedInductive == Spec => []LInv
<1>1. Init => LInv
  <2>. SUFFICES ASSUME Init PROVE LInv
    OBVIOUS
  <2>1. stack = <<ObjectFrame("root", <<>>)>> /\ mode = "walk" /\ warnings = <<>>
    BY DEF Init
  <2>2. DOMAIN stack = {1} /\ stack[1].kind = "object" /\ Len(warnings) = 0
    BY <2>1 DEF ObjectFrame
  <2>. QED  BY <2>1, <2>2 DEF LInv, RowsAnswered, Explained, DroppedForAnswer
<1>2. IInv /\ LInv /\ [Next]_vars => LInv'
  <2>. SUFFICES ASSUME IInv, LInv, [Next]_vars PROVE LInv'
    OBVIOUS
  <2>1. CASE CheckMember
    <3>1. /\ mode = "walk" /\ UNCHANGED <<stack, answers, warnings>>
          /\ mode' \in {"read", "query"} \/ err' = Canceled
      BY <2>1 DEF CheckMember, Raise
    <3>2. RowsAnswered' /\ Explained'
      BY <3>1 DEF LInv, RowsAnswered, Explained
    <3>. QED  BY <3>1, <3>2, StaysExplained
  <2>2. CASE EndObject
    BY <2>2, EndObjectExplained
  <2>3. CASE StartRow
    BY <2>3, StartRowExplained
  <2>4. CASE EndRows
    BY <2>4, EndRowsExplained
  <2>5. CASE Unwind
    BY <2>5, UnwindExplained
  <2>6. CASE \E a \in FieldAnswers : ReadField(a)
    BY <2>6, ReadFieldExplained
  <2>7. CASE (\E n \in 0..MaxRows : QueryRows(n)) \/ (\E a \in FieldCauses : QueryFails(a))
    BY <2>7, QueryExplained
  <2>8. CASE (\E how \in Interrupts : Cancel(how)) \/ UNCHANGED vars
    <3>1. UNCHANGED <<stack, mode, err, answers, warnings>>
      BY <2>8 DEF Cancel, vars, walker
    <3>2. RowsAnswered' /\ Explained'
      BY <3>1 DEF LInv, RowsAnswered, Explained, Because, Top
    <3>. QED  BY <3>1, <3>2, StaysExplained
  <2>. QED  BY <2>1, <2>2, <2>3, <2>4, <2>5, <2>6, <2>7, <2>8 DEF Next, Step
<1>. QED  BY <1>1, <1>2, Inductive, PTL DEF Spec

-----------------------------------------------------------------------------
(* What the walk promises.                                                 *)

(* The error that returns through the frames is one of the codes the       *)
(* walker reports, and a recovery's warning names one of them.             *)
THEOREM TypeCorrect == Spec => []TypeOK
<1>1. IInv => TypeOK
  BY DEF IInv
<1>. QED  BY <1>1, Inductive, PTL

(* The frames below the one that runs are those of the calls it returns    *)
(* to: collections and rows alternate, each at the member or the row it    *)
(* waits for, and each frame's path is where those before it are.          *)
THEOREM FramesAreTheCalls == Spec => [](Frames /\ Located)
<1>1. IInv => Frames /\ Located
  BY DEF IInv
<1>. QED  BY <1>1, Inductive, PTL

(* No member of no row is read twice, whatever is recovered or skipped on  *)
(* the way.                                                                *)
THEOREM NothingReadTwice == Spec => []ReadsAreNew
<1>1. IInv => ReadsAreNew
  BY MemberPathIsCursors DEF ReadsAreNew
<1>. QED  BY <1>1, Inductive, PTL

(* A row is dropped only for something that was answered at or inside it,  *)
(* which is what its warning says, and never for the end of the context    *)
(* seen between two reads; for every declaration, however deep its         *)
(* collections are and whatever was recovered or dropped before.           *)
THEOREM DropsAreExplained == Spec => []DroppedForAnswer
<1>1. LInv => DroppedForAnswer
  BY DEF LInv
<1>. QED  BY <1>1, ExplainedInductive, PTL

(* Once the context is done at most the read in progress is answered, for  *)
(* every declaration and every number of rows.                             *)
THEOREM StopsOnceCanceled == Spec => []StopsReading
<1>1. IInv => StopsReading
  <2>. SUFFICES ASSUME IInv, ended # None
                PROVE  Cardinality(DOMAIN answers) <= answersBefore + 1
    BY DEF StopsReading
  <2>1. CASE mode \in {"read", "query"}
    <3>1. Cardinality(DOMAIN answers) + 1 <= answersBefore + 1
      BY <2>1 DEF IInv, OneInProgress
    <3>. QED  BY <3>1, CountedIsNat
  <2>2. CASE mode \notin {"read", "query"}
    <3>1. Cardinality(DOMAIN answers) + 0 <= answersBefore + 1
      BY <2>2 DEF IInv, OneInProgress
    <3>. QED  BY <3>1, CountedIsNat
  <2>. QED  BY <2>1, <2>2
<1>. QED  BY <1>1, Inductive, PTL

(* A successful result has a value for each member of the output, each     *)
(* collection in it is within its bounds, and it is partial exactly when   *)
(* it comes with warnings.                                                 *)
THEOREM ResultIsWhole == Spec => []WholeResult
<1>1. JInv => WholeResult
  BY DEF JInv
<1>. QED  BY <1>1, CollectedInductive, PTL

(* So is each row that is kept, however deep, and each collection that is  *)
(* delivered, while the walk is under way.                                 *)
THEOREM RowsAreWhole == Spec => []AllCollected
<1>1. JInv => AllCollected
  BY DEF JInv
<1>. QED  BY <1>1, CollectedInductive, PTL

(* Each field of a successful result has what was answered for it, or what *)
(* its declaration or policy puts in the place of a missing or failed      *)
(* value; and a result that is not partial comes from a walk in which no   *)
(* read of any row failed.                                                 *)
THEOREM ResultIsAnswered == Spec => []AnsweredResult
<1>1. KInv => AnsweredResult
  BY DEF KInv
<1>. QED  BY <1>1, AnsweredInductive, PTL

(* The same of every object the walk is in: a row's fields are those that  *)
(* were read at its own path, whatever became of the rows before it.       *)
THEOREM RowsAreAnswered == Spec => []AllAnswered
<1>1. KInv => AllAnswered
  BY DEF KInv
<1>. QED  BY <1>1, AnsweredInductive, PTL
=============================================================================
