-------------------------- MODULE TransformsProofs --------------------------
(***************************************************************************)
(* Theorems about Transforms, for every set of declared transforms, any    *)
(* fields, any answers, and a signal at any time.                          *)
(*                                                                         *)
(* The guard of either runtime names only transforms that are being        *)
(* applied, so that no recursion is reported where there is none.  Go's    *)
(* names all of them, which stops every recursion; TypeScript's does not,  *)
(* and it is only where no transform reaches itself that none is applied   *)
(* inside itself.                                                          *)
(***************************************************************************)
EXTENDS Transforms, SequenceTheorems, FunctionTheorems, FiniteSetTheorems, TLAPS

-----------------------------------------------------------------------------
(* Declarations in which no transform reaches itself: a rank goes down     *)
(* from each pipeline to the transforms that it calls.                     *)
Ranks(rank) ==
    \A s \in DOMAIN extractor.declared :
        Declared(s).kind = "pipeline" =>
            \A i \in 1..Len(Declared(s).calls) :
                IsDeclared(Declared(s).calls[i]) => rank[Declared(s).calls[i]] < rank[s]

Acyclic == \E rank \in [DOMAIN extractor.declared -> Nat] : Ranks(rank)

(* The pipelines on the stack, each called by the one around it. *)
Descends(rank) ==
    \A i, j \in 2..Len(stack) : i < j => rank[stack[j].symbol] < rank[stack[i].symbol]

-----------------------------------------------------------------------------
(* Frames.                                                                 *)
LEMMA TopFrame ==
    ASSUME TypeOK, stack # <<>>
    PROVE  /\ Len(stack) \in Nat \ {0} /\ Top = stack[Len(stack)] /\ Top \in Frame
           /\ \A i \in 1..Len(stack) : stack[i] \in Frame
<1>1. stack \in Seq(Frame)
  BY DEF TypeOK
<1>2. Len(stack) \in Nat /\ Len(stack) # 0 /\ \A i \in 1..Len(stack) : stack[i] \in Frame
  BY <1>1, EmptySeq, LenProperties, ElementOfSeq
<1>. QED  BY <1>2 DEF Top

LEMMA BelowIs ==
    ASSUME TypeOK, stack # <<>>
    PROVE  /\ Below \in Seq(Frame) /\ Len(Below) = Len(stack) - 1
           /\ \A i \in 1..(Len(stack) - 1) : Below[i] = stack[i]
<1>. DEFINE n == Len(stack)
<1>1. n \in Nat \ {0} /\ \A i \in 1..n : stack[i] \in Frame
  BY TopFrame
<1>. HIDE DEF n
<1>2. n - 1 \in Int /\ \A i \in 1..(n - 1) : stack[i] \in Frame
  BY <1>1
<1>3. /\ SubSeq(stack, 1, n - 1) \in Seq(Frame) /\ Len(SubSeq(stack, 1, n - 1)) = n - 1
      /\ \A i \in 1..(n - 1) : SubSeq(stack, 1, n - 1)[i] = stack[i]
  BY ONLY <1>1, <1>2, SubSeqProperties
<1>. QED  BY <1>3 DEF Below, n

(* What is called is a name. *)
LEMMA TargetIsName ==
    ASSUME TypeOK, Calls
    PROVE  Target \in STRING
<1>1. Top \in Frame /\ Top.next <= Len(Top.calls)
  BY TopFrame DEF Calls
<1>2. Top.calls \in Seq(STRING) /\ Top.next \in Nat \ {0} /\ Len(Top.calls) \in Nat
  BY <1>1, LenProperties DEF Frame
<1>3. Top.next \in 1..Len(Top.calls)
  BY <1>1, <1>2
<1>. QED  BY <1>2, <1>3, ElementOfSeq DEF Target

(* A pipeline's calls are names. *)
LEMMA PipelineCalls ==
    ASSUME TypeOK, NEW s, IsDeclared(s), Declared(s).kind = "pipeline"
    PROVE  Declared(s).calls \in Seq(STRING)
BY TransformAssumption DEF TypeOK, WellFormed, IsDeclared, Declared

(* The frames of a call that goes on, or returned to the one around it.    *)
LEMMA Kept ==
    ASSUME TypeOK, Frames, UNCHANGED extractor, stack' \in Seq(Frame),
           Len(stack') <= Len(stack),
           \A i \in 1..Len(stack') : /\ stack'[i].symbol = stack[i].symbol
                                     /\ stack'[i].calls = stack[i].calls
    PROVE  /\ Frames' /\ (RecursionDetected => RecursionDetected')
           /\ Symbols' \subseteq Symbols
           /\ Len(stack') = Len(stack) => Symbols' = Symbols
           /\ \A rank : Descends(rank) => Descends(rank)'
<1>1. Len(stack) \in Nat /\ Len(stack') \in Nat
  BY LenProperties DEF TypeOK
<1>2. \A i \in 1..Len(stack') : i \in 1..Len(stack)
  BY <1>1
<1>3. Frames'
  BY <1>2 DEF Frames, IsDeclared, Declared
<1>4. RecursionDetected => RecursionDetected'
  BY <1>2 DEF RecursionDetected
<1>5. Symbols' \subseteq Symbols
  BY <1>2 DEF Symbols
<1>6. Len(stack') = Len(stack) => Symbols' = Symbols
  BY DEF Symbols
<1>7. ASSUME NEW rank, Descends(rank)
      PROVE  Descends(rank)'
  <2>1. \A i \in 2..Len(stack') : i \in 1..Len(stack') /\ i \in 2..Len(stack)
    BY <1>1
  <2>. QED  BY <1>7, <2>1 DEF Descends
<1>. QED  BY <1>3, <1>4, <1>5, <1>6, <1>7

(* A frame that is at its next call. *)
LEMMA NextCall ==
    ASSUME NEW g \in Frame
    PROVE  LET f == [g EXCEPT !.next = g.next + 1]
           IN  f \in Frame /\ f.symbol = g.symbol /\ f.calls = g.calls
<1>1. g.next \in Nat \ {0} /\ g.next + 1 \in Nat \ {0}
  BY DEF Frame
<1>. QED  BY <1>1 DEF Frame

(* The frame of the next call is at its next call. *)
LEMMA Moved ==
    ASSUME IInv, UNCHANGED extractor, stack # <<>>,
           stack' = [stack EXCEPT ![Len(stack)].next = @ + 1]
    PROVE  /\ stack' \in Seq(Frame) /\ stack' # <<>> /\ Frames' /\ Symbols' = Symbols
           /\ RecursionDetected => RecursionDetected'
           /\ \A rank : Descends(rank) => Descends(rank)'
<1>1. TypeOK /\ Frames /\ stack \in Seq(Frame)
  BY DEF IInv, TypeOK
<1>2. Len(stack) \in Nat \ {0} /\ \A i \in 1..Len(stack) : stack[i] \in Frame
  BY <1>1, TopFrame
<1>3. DOMAIN stack = 1..Len(stack)
  BY <1>1, LenProperties
<1>. DEFINE n == Len(stack)
            f == [stack[n] EXCEPT !.next = stack[n].next + 1]
<1>4. stack' = [stack EXCEPT ![n] = f]
  BY DEF f
<1>5. n \in 1..n /\ stack[n] \in Frame
  BY <1>2
<1>6. f \in Frame /\ f.symbol = stack[n].symbol /\ f.calls = stack[n].calls
  BY <1>5, NextCall
<1>. HIDE DEF f
<1>7. stack' \in Seq(Frame) /\ Len(stack') = n
  BY <1>1, <1>2, <1>3, <1>4, <1>6
<1>8. \A i \in 1..n : /\ stack'[i].symbol = stack[i].symbol
                      /\ stack'[i].calls = stack[i].calls
  BY <1>3, <1>4, <1>6
<1>9. stack' # <<>>
  BY <1>2, <1>7, EmptySeq
<1>. QED  BY <1>1, <1>2, <1>7, <1>8, <1>9, Kept

(* A pipeline that is not being applied begins. *)
LEMMA Pushed ==
    ASSUME IInv, UNCHANGED extractor, stack # <<>>,
           NEW s, IsDeclared(s), Declared(s).kind = "pipeline",
           stack' = Append(stack, Chain(s, Declared(s).calls))
    PROVE  /\ stack' \in Seq(Frame) /\ stack' # <<>> /\ Frames'
           /\ Symbols' = Symbols \cup {s}
           /\ RecursionDetected /\ s \notin Symbols => RecursionDetected'
           /\ \A rank : Descends(rank) /\ (\A i \in 2..Len(stack) : rank[s] < rank[stack[i].symbol])
                        => Descends(rank)'
<1>. DEFINE f == Chain(s, Declared(s).calls)
            n == Len(stack)
<1>1. TypeOK /\ Frames /\ stack \in Seq(Frame)
  BY DEF IInv, TypeOK
<1>2. n \in Nat \ {0}
  BY <1>1, TopFrame
<1>3. s \in DOMAIN extractor.declared /\ s # None
  BY <1>1, TransformAssumption DEF IsDeclared, TypeOK, WellFormed
<1>4. f \in Frame /\ f.symbol = s /\ f.calls = Declared(s).calls
  BY <1>1, <1>3, PipelineCalls DEF Chain, Frame
<1>. HIDE DEF f
<1>5. /\ stack' \in Seq(Frame) /\ Len(stack') = n + 1 /\ stack'[n + 1] = f
      /\ \A i \in 1..n : stack'[i] = stack[i]
  BY <1>1, <1>4, AppendProperties DEF f
<1>. HIDE DEF n
<1>6. \A i \in 1..(n + 1) : \/ i \in 1..n /\ stack'[i] = stack[i]
                            \/ i = n + 1 /\ i # 1 /\ stack'[i] = f
  BY <1>2, <1>5
<1>7. Frames'
  BY <1>1, <1>4, <1>5, <1>6 DEF Frames, IsDeclared, Declared, n
<1>8. Symbols' = Symbols \cup {s}
  <2>1. Symbols' \subseteq Symbols \cup {s}
    BY <1>4, <1>5, <1>6 DEF Symbols, n
  <2>2. \A i \in 1..n : i \in 1..(n + 1)
    BY <1>2
  <2>3. Symbols \subseteq Symbols'
    BY <1>5, <2>2 DEF Symbols, n
  <2>4. n + 1 \in 1..(n + 1)
    BY <1>2
  <2>5. s \in Symbols'
    BY <1>3, <1>4, <1>5, <2>4 DEF Symbols
  <2>. QED  BY <2>1, <2>3, <2>5
<1>9. RecursionDetected /\ s \notin Symbols => RecursionDetected'
  <2>. SUFFICES ASSUME RecursionDetected, s \notin Symbols,
                       NEW i \in 1..(n + 1), NEW j \in 1..(n + 1),
                       stack'[i].symbol = stack'[j].symbol, stack'[i].symbol # None
                PROVE  i = j
    BY <1>5 DEF RecursionDetected
  <2>1. \A k \in 1..n : stack[k].symbol # s
    BY <1>3 DEF Symbols, n
  <2>. QED  BY <1>4, <1>6, <2>1 DEF RecursionDetected, n
<1>10. stack' # <<>>
  BY <1>2, <1>5, EmptySeq
<1>11. ASSUME NEW rank, Descends(rank),
              \A i \in 2..n : rank[s] < rank[stack[i].symbol]
       PROVE  Descends(rank)'
  <2>. SUFFICES ASSUME NEW i \in 2..(n + 1), NEW j \in 2..(n + 1), i < j
                PROVE  rank[stack'[j].symbol] < rank[stack'[i].symbol]
    BY <1>5 DEF Descends
  <2>1. i \in 2..n /\ i \in 1..n /\ (j = n + 1 \/ (j \in 2..n /\ j \in 1..n))
    BY <1>2
  <2>. QED  BY <1>4, <1>5, <1>11, <2>1 DEF Descends, n
<1>. QED  BY <1>5, <1>7, <1>8, <1>9, <1>10, <1>11 DEF n

(* The pipeline that ran last returns to the frame around it. *)
LEMMA Popped ==
    ASSUME IInv, UNCHANGED extractor, stack # <<>>, Below # <<>>,
           stack' = [Below EXCEPT ![Len(Below)].next = @ + 1]
    PROVE  /\ stack' \in Seq(Frame) /\ stack' # <<>> /\ Frames'
           /\ Symbols' \subseteq Symbols /\ Symbols \subseteq Symbols' \cup {Top.symbol}
           /\ RecursionDetected => RecursionDetected' /\ Top.symbol \notin Symbols'
           /\ \A rank : Descends(rank) => Descends(rank)'
<1>. DEFINE n == Len(stack)
            g == Below[Len(Below)]
            f == [g EXCEPT !.next = g.next + 1]
<1>1. TypeOK /\ Frames /\ stack \in Seq(Frame)
  BY DEF IInv, TypeOK
<1>2. n \in Nat \ {0} /\ (\A i \in 1..n : stack[i] \in Frame) /\ Top = stack[n]
  BY <1>1, TopFrame
<1>3. /\ Below \in Seq(Frame) /\ Len(Below) = n - 1
      /\ \A i \in 1..(n - 1) : Below[i] = stack[i]
  BY <1>1, BelowIs
<1>. HIDE DEF n
<1>4. n - 1 \in Nat \ {0}
  BY <1>2, <1>3, EmptySeq
<1>5. DOMAIN Below = 1..(n - 1) /\ n - 1 \in 1..(n - 1) /\ n - 1 \in 1..n /\ n \in 1..n
  BY <1>2, <1>3, <1>4, LenProperties
<1>6. stack' = [Below EXCEPT ![n - 1] = f]
  BY <1>3 DEF f
<1>7. f \in Frame /\ f.symbol = stack[n - 1].symbol /\ f.calls = stack[n - 1].calls
  BY <1>2, <1>3, <1>5, NextCall
<1>. HIDE DEF f
<1>8. stack' \in Seq(Frame) /\ Len(stack') = n - 1
  BY <1>3, <1>4, <1>5, <1>6, <1>7
<1>9. \A i \in 1..(n - 1) : /\ stack'[i].symbol = stack[i].symbol
                            /\ stack'[i].calls = stack[i].calls
  BY <1>3, <1>5, <1>6, <1>7
<1>10. n - 1 <= n /\ stack' # <<>>
  BY <1>2, <1>4, <1>8, EmptySeq
<1>11. /\ Frames' /\ (RecursionDetected => RecursionDetected') /\ Symbols' \subseteq Symbols
       /\ \A rank : Descends(rank) => Descends(rank)'
  BY <1>1, <1>8, <1>9, <1>10, Kept DEF n
<1>12. \A i \in 1..n : i \in 1..(n - 1) \/ i = n
  BY <1>2
<1>13. Symbols \subseteq Symbols' \cup {Top.symbol}
  BY <1>2, <1>8, <1>9, <1>12 DEF Symbols, n
<1>14. RecursionDetected => Top.symbol \notin Symbols'
  <2>. SUFFICES ASSUME RecursionDetected, NEW i \in 1..(n - 1), stack[i].symbol = Top.symbol,
                       Top.symbol # None
                PROVE  FALSE
    BY <1>8, <1>9 DEF Symbols
  <2>1. i \in 1..n /\ i # n
    BY <1>2
  <2>. QED  BY <1>2, <1>5, <2>1 DEF RecursionDetected, n
<1>. QED  BY <1>8, <1>10, <1>11, <1>13, <1>14

(* A field begins, or there is none left. *)
LEMMA Begun ==
    ASSUME extractor \in Extractors, UNCHANGED extractor, NEW k \in Nat \ {0},
           stack' = FieldChain(k) \/ stack' = <<>>
    PROVE  /\ stack' \in Seq(Frame) /\ Frames' /\ Symbols' = {} /\ RecursionDetected'
           /\ \A rank : Descends(rank)'
<1>1. CASE stack' = <<>>
  <2>1. stack' \in Seq(Frame) /\ Len(stack') = 0
    BY <1>1, EmptySeq
  <2>. QED  BY <2>1 DEF Frames, Symbols, RecursionDetected, Descends
<1>2. ASSUME k <= Len(Fields), stack' = <<Chain(None, Fields[k])>>
      PROVE  /\ stack' \in Seq(Frame) /\ Frames' /\ Symbols' = {} /\ RecursionDetected'
             /\ \A rank : Descends(rank)'
  <2>1. Fields \in Seq(Seq(STRING))
    BY TransformAssumption DEF WellFormed, Fields
  <2>2. k \in 1..Len(Fields)
    BY <1>2, <2>1, LenProperties
  <2>3. Fields[k] \in Seq(STRING)
    BY <2>1, <2>2, ElementOfSeq
  <2>4. Chain(None, Fields[k]) \in Frame /\ Chain(None, Fields[k]).symbol = None
    BY <2>3 DEF Chain, Frame
  <2>5. stack' \in Seq(Frame) /\ Len(stack') = 1 /\ stack'[1].symbol = None
    BY <1>2, <2>4
  <2>6. \A i \in 1..Len(stack') : i = 1 /\ stack'[i].symbol = None
    BY <2>5
  <2>7. 2..Len(stack') = {}
    BY <2>5
  <2>. QED  BY <2>5, <2>6, <2>7 DEF Frames, Symbols, RecursionDetected, Descends
<1>. QED  BY <1>1, <1>2 DEF FieldChain

-----------------------------------------------------------------------------
(* What the guard has to do with the frames.                               *)

(* A symbol on the stack is a pipeline's: an external that has not         *)
(* answered is not one of them.                                            *)
LEMMA SymbolsArePipelines ==
    ASSUME Frames
    PROVE  \A s \in Symbols : IsDeclared(s) /\ Declared(s).kind = "pipeline" /\ s # None
BY DEF Frames, Symbols

LEMMA AwaitedIsNew ==
    ASSUME IInv
    PROVE  awaiting \notin Symbols
BY SymbolsArePipelines DEF IInv, Waiting

(* While nothing is awaited the pipelines are all there is. *)
LEMMA ActiveIsSymbols ==
    ASSUME awaiting = None
    PROVE  Active = Symbols
BY DEF Active, Symbols

-----------------------------------------------------------------------------
(* The three ways of the frames.                                           *)

(* The field is done. *)
LEMMA Ended ==
    ASSUME IInv, UNCHANGED extractor, callStack' \cap Active = {}, callStack' \subseteq callStack,
           awaiting' = None, applied' = <<>>, results' \in Seq(Result),
           stack' = FieldChain(Len(results) + 2) \/ stack' = <<>>
    PROVE  IInv'
<1>1. extractor \in Extractors /\ results \in Seq(Result)
  BY DEF IInv, TypeOK
<1>2. Len(results) + 2 \in Nat \ {0}
  BY <1>1, LenProperties
<1>3. stack' \in Seq(Frame) /\ Frames' /\ Symbols' = {} /\ RecursionDetected'
  BY <1>1, <1>2, Begun
<1>4. applied' \in Seq(STRING) /\ Frame' = Frame
  BY EmptySeq DEF Frame
<1>5. TypeOK'
  BY <1>1, <1>3, <1>4 DEF TypeOK
<1>6. callStack' = {} /\ Active' = {}
  BY <1>3 DEF IInv, Guard, Active
<1>7. Guard' /\ Waiting'
  BY <1>6 DEF Guard, Waiting
<1>. QED  BY <1>3, <1>5, <1>7 DEF IInv

(* The call has a value. *)
LEMMA HasValue ==
    ASSUME IInv, UNCHANGED extractor, stack # <<>>, NEW name \in STRING, Answered(name),
           awaiting' = None, callStack' \subseteq Symbols,
           ~TypeScript => Symbols \subseteq callStack'
    PROVE  IInv'
<1>1. /\ stack' \in Seq(Frame) /\ Frames' /\ Symbols' = Symbols
      /\ RecursionDetected => RecursionDetected'
  BY Moved DEF Answered
<1>2. applied' \in Seq(STRING) /\ results' = results /\ Frame' = Frame
  BY AppendProperties DEF Answered, IInv, TypeOK, Frame
<1>3. TypeOK'
  BY <1>1, <1>2 DEF IInv, TypeOK
<1>4. Guard' /\ Waiting'
  BY <1>1 DEF Guard, Waiting, Active, TypeScript
<1>. QED  BY <1>1, <1>3, <1>4 DEF IInv, TypeScript

-----------------------------------------------------------------------------
(* The actions.                                                            *)
LEMMA CodeIsKnown ==
    ASSUME NEW cause \in {"canceled", "builtin", "recursion", "external", "type"}
    PROVE  Code(cause) \in Codes
BY Zenon DEF Code, Codes

LEMMA FieldFailsStep ==
    ASSUME IInv, UNCHANGED <<extractor, awaiting>>, awaiting = None,
           NEW cause \in {"canceled", "builtin", "recursion"}, FieldFails(cause)
    PROVE  IInv'
<1>1. /\ callStack' = callStack \ Symbols /\ Active = Symbols
  BY ActiveIsSymbols DEF FieldFails
<1>2. callStack' \cap Active = {} /\ callStack' \subseteq callStack
  BY <1>1
<1>3. Code(cause) \in Codes /\ applied \in Seq(STRING) /\ results \in Seq(Result)
  BY CodeIsKnown DEF IInv, TypeOK
<1>4. /\ [ok |-> FALSE, code |-> Code(cause)] \in Result
      /\ [ok |-> FALSE, code |-> Code(cause), applied |-> applied] \in Result
  BY <1>3 DEF Result
<1>5. results' \in Seq(Result) /\ applied' = <<>>
      /\ (stack' = FieldChain(Len(results) + 2) \/ stack' = <<>>)
  <2>1. CASE cause = "canceled"
    BY <1>3, <1>4, <2>1, AppendProperties DEF FieldFails
  <2>2. CASE cause # "canceled"
    BY <1>3, <1>4, <2>2, AppendProperties DEF FieldFails, NextField
  <2>. QED  BY <2>1, <2>2
<1>. QED  BY <1>2, <1>5, Ended

LEMMA ExternalFailsStep ==
    ASSUME IInv, NEW cause \in {"external", "type"}, ExternalFails(cause)
    PROVE  IInv'
<1>1. /\ callStack' = callStack \ (Symbols \cup {awaiting}) /\ awaiting # None /\ awaiting' = None
      /\ NextField([ok |-> FALSE, code |-> Code(cause), applied |-> applied])
      /\ UNCHANGED extractor
  BY DEF ExternalFails
<1>2. callStack' \cap Active = {} /\ callStack' \subseteq callStack
  BY <1>1 DEF Active
<1>3. Code(cause) \in Codes /\ applied \in Seq(STRING) /\ results \in Seq(Result)
  BY CodeIsKnown DEF IInv, TypeOK
<1>4. [ok |-> FALSE, code |-> Code(cause), applied |-> applied] \in Result
  BY <1>3 DEF Result
<1>5. results' \in Seq(Result) /\ applied' = <<>> /\ stack' = FieldChain(Len(results) + 2)
  BY <1>1, <1>3, <1>4, AppendProperties DEF NextField
<1>. QED  BY <1>1, <1>2, <1>5, Ended

LEMMA ReturnStep == ASSUME IInv, Return PROVE IInv'
<1>1. stack # <<>> /\ awaiting = None /\ UNCHANGED <<extractor, awaiting, canceled>>
  BY DEF Return
<1>2. Active = Symbols /\ TypeOK /\ Frames /\ Guard
  BY <1>1, ActiveIsSymbols DEF IInv
<1>3. Len(stack) \in Nat \ {0} /\ stack \in Seq(Frame)
  BY <1>1, <1>2, TopFrame DEF TypeOK
<1>4. CASE Below = <<>>
  <2>1. Len(stack) = 1
    <3>1. Len(Below) = Len(stack) - 1
      BY <1>1, <1>2, BelowIs
    <3>2. Len(Below) = 0
      BY ONLY <1>4, EmptySeq
    <3>. QED  BY ONLY <1>3, <3>1, <3>2
  <2>2. Symbols = {}
    BY <1>2, <2>1 DEF Frames, Symbols
  <2>3. NextField([ok |-> TRUE, applied |-> applied]) /\ UNCHANGED callStack
    BY <1>4 DEF Return
  <2>4. [ok |-> TRUE, applied |-> applied] \in Result /\ results \in Seq(Result)
    BY <1>2 DEF Result, TypeOK
  <2>5. results' \in Seq(Result) /\ applied' = <<>> /\ stack' = FieldChain(Len(results) + 2)
    BY <2>3, <2>4, AppendProperties DEF NextField
  <2>6. callStack' \cap Active = {}
    BY <1>2, <2>2
  <2>. QED  BY <1>1, <2>3, <2>5, <2>6, Ended
<1>5. CASE Below # <<>>
  <2>1. /\ stack' = [Below EXCEPT ![Len(Below)].next = @ + 1]
        /\ callStack' = Left(Top.symbol) /\ UNCHANGED <<applied, results>>
    BY <1>5 DEF Return
  <2>2. /\ stack' \in Seq(Frame) /\ stack' # <<>> /\ Frames'
        /\ Symbols' \subseteq Symbols /\ Symbols \subseteq Symbols' \cup {Top.symbol}
        /\ RecursionDetected => RecursionDetected' /\ Top.symbol \notin Symbols'
    BY <1>1, <1>5, <2>1, Popped
  <2>3. TypeOK' /\ Waiting'
    BY <1>1, <1>2, <2>1, <2>2 DEF TypeOK, Waiting, Frame
  <2>4. Active' = Symbols'
    BY <1>1, <2>2 DEF Active, Symbols
  <2>5. CASE TypeScript
    BY <1>1, <2>1, <2>2, <2>3, <2>4, <2>5 DEF IInv, Guard, Left, TypeScript
  <2>6. CASE ~TypeScript
    <3>1. callStack = Symbols /\ RecursionDetected
      BY <1>2, <2>6 DEF IInv, Guard
    <3>2. callStack' = Symbols \ {Top.symbol}
      BY <2>1, <2>6, <3>1 DEF Left
    <3>3. callStack' = Symbols'
      BY <2>2, <3>1, <3>2
    <3>. QED  BY <1>1, <2>2, <2>3, <2>4, <2>6, <3>1, <3>3 DEF IInv, Guard, TypeScript
  <2>. QED  BY <2>5, <2>6
<1>. QED  BY <1>4, <1>5

LEMMA CallStep ==
    ASSUME IInv, CallBuiltin \/ CallMatch \/ ExternalAnswers
    PROVE  IInv'
<1>1. CASE CallBuiltin
  <2>1. /\ Calls /\ stack # <<>> /\ awaiting = None /\ Answered(Target)
        /\ UNCHANGED <<extractor, callStack, awaiting>>
    BY <1>1 DEF CallBuiltin, CallsNow, Calls
  <2>2. Target \in STRING
    BY <2>1, TargetIsName DEF IInv
  <2>3. callStack' \subseteq Symbols /\ (~TypeScript => Symbols \subseteq callStack')
    BY <2>1, ActiveIsSymbols DEF IInv, Guard
  <2>. QED  BY <2>1, <2>2, <2>3, HasValue
<1>2. CASE CallMatch
  <2>1. /\ Calls /\ stack # <<>> /\ awaiting = None /\ Answered(Target)
        /\ Target \notin callStack /\ callStack' = Left(Target)
        /\ UNCHANGED <<extractor, awaiting>>
    BY <1>2 DEF CallMatch, Enters, CallsNow, Calls, Recursive
  <2>2. Target \in STRING
    BY <2>1, TargetIsName DEF IInv
  <2>3. callStack' \subseteq Symbols /\ (~TypeScript => Symbols \subseteq callStack')
    BY <2>1, ActiveIsSymbols DEF IInv, Guard, Left
  <2>. QED  BY <2>1, <2>2, <2>3, HasValue
<1>3. CASE ExternalAnswers
  <2>1. /\ awaiting # None /\ awaiting' = None /\ callStack' = Left(awaiting)
        /\ Answered(awaiting) /\ UNCHANGED extractor
    BY <1>3 DEF ExternalAnswers
  <2>2. awaiting \in STRING /\ stack # <<>>
    BY <2>1 DEF IInv, Waiting
  <2>3. callStack' \subseteq Symbols /\ (~TypeScript => Symbols \subseteq callStack')
    BY <2>1, AwaitedIsNew DEF IInv, Guard, Left, Active
  <2>. QED  BY <2>1, <2>2, <2>3, HasValue
<1>. QED  BY <1>1, <1>2, <1>3

LEMMA CallExternalStep == ASSUME IInv, CallExternal PROVE IInv'
<1>1. /\ Calls /\ stack # <<>> /\ awaiting = None /\ IsDeclared(Target)
      /\ Declared(Target).kind = "external" /\ awaiting' = Target
      /\ callStack' = IF TypeScript THEN {Target} ELSE Entered(Target)
      /\ UNCHANGED <<extractor, stack, applied, results>>
  BY DEF CallExternal, Enters, CallsNow, Calls
<1>2. Target \in STRING /\ Target # None
  BY <1>1, TargetIsName, TransformAssumption DEF IInv, TypeOK, IsDeclared, WellFormed
<1>3. TypeOK' /\ Frames' /\ Symbols' = Symbols /\ (RecursionDetected => RecursionDetected')
  BY <1>1 DEF IInv, TypeOK, Frame, Frames, IsDeclared, Declared, Symbols, RecursionDetected
<1>4. Waiting'
  BY <1>1, <1>2 DEF Waiting, IsDeclared, Declared
<1>5. Active' = Symbols \cup {Target} /\ Active = Symbols
  BY <1>1, <1>2, <1>3, ActiveIsSymbols DEF Active
<1>6. Guard'
  BY <1>1, <1>5 DEF IInv, Guard, Entered, TypeScript
<1>. QED  BY <1>1, <1>3, <1>4, <1>6 DEF IInv, TypeScript

LEMMA CallPipelineStep == ASSUME IInv, CallPipeline PROVE IInv'
<1>1. /\ stack # <<>> /\ awaiting = None /\ IsDeclared(Target)
      /\ Declared(Target).kind = "pipeline" /\ Target \notin callStack
      /\ stack' = Append(stack, Chain(Target, Declared(Target).calls))
      /\ callStack' = callStack \cup {Target}
      /\ UNCHANGED <<extractor, applied, results, awaiting>>
  BY DEF CallPipeline, Enters, CallsNow, Calls, Recursive, Entered
<1>2. /\ stack' \in Seq(Frame) /\ stack' # <<>> /\ Frames'
      /\ Symbols' = Symbols \cup {Target}
      /\ RecursionDetected /\ Target \notin Symbols => RecursionDetected'
  BY <1>1, Pushed
<1>3. TypeOK' /\ Waiting'
  BY <1>1, <1>2 DEF IInv, TypeOK, Waiting, Frame
<1>4. Active = Symbols /\ Active' = Symbols'
  BY <1>1, <1>2, ActiveIsSymbols DEF Active, Symbols
<1>5. Guard'
  BY <1>1, <1>2, <1>4 DEF IInv, Guard, TypeScript
<1>6. ~TypeScript => Target \notin Symbols
  BY <1>1, <1>4 DEF IInv, Guard
<1>. QED  BY <1>1, <1>2, <1>3, <1>5, <1>6 DEF IInv, TypeScript

LEMMA Begins == ASSUME Init PROVE IInv
<1>1. extractor \in Extractors /\ stack = FieldChain(1) /\ callStack = {} /\ awaiting = None
      /\ applied = <<>> /\ results = <<>>
  BY DEF Init
<1>2. stack \in Seq(Frame) /\ Frames /\ Symbols = {} /\ RecursionDetected
  <2>1. CASE 1 <= Len(Fields)
    <3>1. Fields \in Seq(Seq(STRING))
      BY <1>1, TransformAssumption DEF WellFormed, Fields
    <3>2. Fields[1] \in Seq(STRING)
      <4>1. 1 \in 1..Len(Fields)
        BY <2>1, <3>1, LenProperties
      <4>. QED  BY <3>1, <4>1, ElementOfSeq
    <3>3. Chain(None, Fields[1]) \in Frame /\ Chain(None, Fields[1]).symbol = None
      BY <3>2 DEF Chain, Frame
    <3>4. stack \in Seq(Frame) /\ Len(stack) = 1 /\ stack[1].symbol = None
      BY <1>1, <2>1, <3>3 DEF FieldChain
    <3>5. \A i \in 1..Len(stack) : i = 1 /\ stack[i].symbol = None
      BY <3>4
    <3>. QED  BY <3>4, <3>5 DEF Frames, Symbols, RecursionDetected
  <2>2. CASE ~(1 <= Len(Fields))
    <3>1. stack \in Seq(Frame) /\ Len(stack) = 0
      BY <1>1, <2>2, EmptySeq DEF FieldChain
    <3>. QED  BY <3>1 DEF Frames, Symbols, RecursionDetected
  <2>. QED  BY <2>1, <2>2
<1>3. TypeOK /\ Waiting
  BY <1>1, <1>2, EmptySeq DEF TypeOK, Waiting
<1>4. Guard
  BY <1>1, <1>2 DEF Guard, Active
<1>. QED  BY <1>2, <1>3, <1>4 DEF IInv

LEMMA Stutters ==
    ASSUME IInv, UNCHANGED <<extractor, stack, callStack, awaiting, applied, results>>
    PROVE  IInv'
<1>1. TypeOK' /\ Frames' /\ Symbols' = Symbols /\ (RecursionDetected => RecursionDetected')
  BY DEF IInv, TypeOK, Frame, Frames, IsDeclared, Declared, Symbols, RecursionDetected
<1>2. Waiting' /\ Guard'
  BY <1>1 DEF IInv, Waiting, Guard, Active, IsDeclared, Declared, TypeScript
<1>. QED  BY <1>1, <1>2 DEF IInv, TypeScript

LEMMA StepKeeps == ASSUME IInv, [Next]_vars PROVE IInv'
<1>1. CASE BuiltinFails
  BY <1>1, FieldFailsStep DEF BuiltinFails, CallsNow, Calls
<1>2. CASE CallCanceled
  BY <1>2, FieldFailsStep DEF CallCanceled, Calls
<1>3. CASE Recursion
  BY <1>3, FieldFailsStep DEF Recursion, CallsNow, Calls
<1>4. CASE CallBuiltin \/ CallMatch \/ ExternalAnswers
  BY <1>4, CallStep
<1>5. CASE CallExternal
  BY <1>5, CallExternalStep
<1>6. CASE CallPipeline
  BY <1>6, CallPipelineStep
<1>7. CASE Return
  BY <1>7, ReturnStep
<1>8. CASE \E cause \in {"external", "type"} : ExternalFails(cause)
  BY <1>8, ExternalFailsStep
<1>9. CASE Cancel
  BY <1>9, Stutters DEF Cancel, fieldVars
<1>10. CASE UNCHANGED vars
  BY <1>10, Stutters DEF vars, fieldVars
<1>. QED
  BY <1>1, <1>2, <1>3, <1>4, <1>5, <1>6, <1>7, <1>8, <1>9, <1>10 DEF Next, Step

LEMMA Inductive == Spec => []IInv
<1>1. Init => IInv
  BY Begins
<1>2. IInv /\ [Next]_vars => IInv'
  BY StepKeeps
<1>. QED  BY <1>1, <1>2, PTL DEF Spec

-----------------------------------------------------------------------------
(* Ranks.                                                                  *)

(* What a step does to the frames. *)
LEMMA FrameSteps ==
    ASSUME IInv, [Next]_vars
    PROVE  /\ UNCHANGED extractor
           /\ \/ UNCHANGED stack
              \/ stack # <<>> /\ stack' = [stack EXCEPT ![Len(stack)].next = @ + 1]
              \/ /\ Calls /\ IsDeclared(Target) /\ Declared(Target).kind = "pipeline"
                 /\ stack' = Append(stack, Chain(Target, Declared(Target).calls))
              \/ /\ stack # <<>> /\ Below # <<>>
                 /\ stack' = [Below EXCEPT ![Len(Below)].next = @ + 1]
              \/ stack' = FieldChain(Len(results) + 2)
              \/ stack' = <<>>
<1>1. CASE CallBuiltin \/ CallMatch
  BY <1>1 DEF CallBuiltin, CallMatch, Enters, CallsNow, Calls, Answered
<1>2. CASE BuiltinFails \/ CallCanceled \/ Recursion
  BY <1>2 DEF BuiltinFails, CallCanceled, Recursion, FieldFails, NextField
<1>3. CASE ExternalAnswers
  BY <1>3 DEF IInv, Waiting, ExternalAnswers, Answered
<1>4. CASE CallPipeline
  BY <1>4 DEF CallPipeline, Enters, CallsNow
<1>5. CASE Return
  BY <1>5 DEF Return, NextField
<1>6. CASE \E cause \in {"external", "type"} : ExternalFails(cause)
  BY <1>6 DEF ExternalFails, NextField
<1>7. CASE CallExternal \/ Cancel \/ UNCHANGED vars
  BY <1>7 DEF CallExternal, Cancel, vars, fieldVars
<1>. QED  BY <1>1, <1>2, <1>3, <1>4, <1>5, <1>6, <1>7 DEF Next, Step

(* What a pipeline calls ranks below it, and below those around it. *)
LEMMA TargetIsLower ==
    ASSUME IInv, Calls, IsDeclared(Target), NEW rank \in [DOMAIN extractor.declared -> Nat],
           Ranks(rank), Descends(rank)
    PROVE  \A i \in 2..Len(stack) : rank[Target] < rank[stack[i].symbol]
<1>. DEFINE n == Len(stack)
<1>1. n \in Nat \ {0} /\ Top = stack[n] /\ Top \in Frame /\ Top.next <= Len(Top.calls) /\ Frames
  BY TopFrame DEF IInv, Calls
<1>2. Top.next \in 1..Len(Top.calls)
  BY <1>1, LenProperties DEF Frame
<1>. SUFFICES ASSUME NEW i \in 2..n PROVE rank[Target] < rank[stack[i].symbol]
  OBVIOUS
<1>3. n \in 1..n /\ n # 1 /\ i \in 1..n /\ i # 1 /\ n \in 2..n
  BY <1>1
<1>4. IsDeclared(stack[n].symbol) /\ IsDeclared(stack[i].symbol)
      /\ Declared(stack[n].symbol).kind = "pipeline"
      /\ stack[n].calls = Declared(stack[n].symbol).calls
  BY <1>1, <1>3 DEF Frames
<1>5. rank[Target] < rank[stack[n].symbol]
  BY <1>1, <1>2, <1>4 DEF Ranks, Target, IsDeclared
<1>6. i = n \/ rank[stack[n].symbol] < rank[stack[i].symbol]
  BY <1>1, <1>3 DEF Descends
<1>7. rank[Target] \in Nat /\ rank[stack[n].symbol] \in Nat /\ rank[stack[i].symbol] \in Nat
  BY <1>4 DEF IsDeclared
<1>. QED  BY <1>5, <1>6, <1>7

LEMMA DescendsStep ==
    ASSUME IInv, [Next]_vars, NEW rank \in [DOMAIN extractor.declared -> Nat],
           Ranks(rank), Descends(rank)
    PROVE  Descends(rank)'
<1>1. UNCHANGED extractor /\ extractor \in Extractors /\ Len(results) + 2 \in Nat \ {0}
  BY FrameSteps, LenProperties DEF IInv, TypeOK
<1>2. CASE UNCHANGED stack
  BY <1>2 DEF Descends
<1>3. CASE stack # <<>> /\ stack' = [stack EXCEPT ![Len(stack)].next = @ + 1]
  BY <1>1, <1>3, Moved
<1>4. CASE /\ Calls /\ IsDeclared(Target) /\ Declared(Target).kind = "pipeline"
           /\ stack' = Append(stack, Chain(Target, Declared(Target).calls))
  <2>1. \A i \in 2..Len(stack) : rank[Target] < rank[stack[i].symbol]
    BY <1>4, TargetIsLower
  <2>2. stack # <<>>
    BY <1>4 DEF Calls
  <2>. QED  BY <1>1, <1>4, <2>1, <2>2, Pushed
<1>5. CASE /\ stack # <<>> /\ Below # <<>>
           /\ stack' = [Below EXCEPT ![Len(Below)].next = @ + 1]
  BY <1>1, <1>5, Popped
<1>6. CASE stack' = FieldChain(Len(results) + 2) \/ stack' = <<>>
  BY <1>1, <1>6, Begun
<1>. QED  BY <1>2, <1>3, <1>4, <1>5, <1>6, FrameSteps

(* Every rank goes down along the stack. *)
Descending ==
    \A rank \in [DOMAIN extractor.declared -> Nat] : Ranks(rank) => Descends(rank)

LEMMA AlwaysDescending == Spec => []Descending
<1>1. Init => Descending
  <2>. SUFFICES ASSUME Init, NEW rank PROVE Descends(rank)
    BY DEF Descending
  <2>1. Len(stack) <= 1 /\ Len(stack) \in Nat
    BY DEF Init, FieldChain
  <2>2. 2..Len(stack) = {}
    BY <2>1
  <2>. QED  BY <2>2 DEF Descends
<1>2. IInv /\ Descending /\ [Next]_vars => Descending'
  <2>. SUFFICES ASSUME IInv, Descending, [Next]_vars PROVE Descending'
    OBVIOUS
  <2>1. UNCHANGED extractor
    BY FrameSteps
  <2>2. ASSUME NEW rank \in [DOMAIN extractor.declared -> Nat], Ranks(rank)
        PROVE  Descends(rank)'
    BY <2>2, DescendsStep DEF Descending
  <2>. QED  BY <2>1, <2>2 DEF Descending, Ranks, Declared, IsDeclared
<1>. QED  BY <1>1, <1>2, Inductive, PTL DEF Spec

-----------------------------------------------------------------------------
(* What the runtimes promise.                                              *)

(* Every variable keeps its type; the codes are those of Code. *)
THEOREM TypeCorrect == Spec => []TypeOK
<1>1. IInv => TypeOK
  BY DEF IInv
<1>. QED  BY <1>1, Inductive, PTL

(* callStack names only transforms that are being applied, in either       *)
(* runtime, whatever its finally clauses remove and when; Go's names them  *)
(* all.                                                                    *)
THEOREM GuardIsTrue == Spec => []Guard
<1>1. IInv => Guard
  BY DEF IInv
<1>. QED  BY <1>1, Inductive, PTL

(* Go applies no transform inside itself, whatever the transforms call;    *)
(* TypeScript does not either where no transform reaches itself.           *)
THEOREM NothingInsideItself == Spec => [](~TypeScript \/ Acyclic => RecursionDetected)
<1>1. IInv /\ Descending => (~TypeScript \/ Acyclic => RecursionDetected)
  <2>. SUFFICES ASSUME IInv, Descending, Acyclic PROVE RecursionDetected
    BY DEF IInv
  <2>1. PICK rank \in [DOMAIN extractor.declared -> Nat] : Descends(rank)
    BY DEF Descending, Acyclic
  <2>2. Frames /\ Len(stack) \in Nat
    BY LenProperties DEF IInv, TypeOK
  <2>. SUFFICES ASSUME NEW i \in 1..Len(stack), NEW j \in 1..Len(stack),
                       stack[i].symbol = stack[j].symbol, stack[i].symbol # None, i # j
                PROVE  FALSE
    BY DEF RecursionDetected
  <2>3. i # 1 /\ j # 1 /\ stack[i].symbol \in DOMAIN extractor.declared
    BY <2>2 DEF Frames, IsDeclared
  <2>4. i \in 2..Len(stack) /\ j \in 2..Len(stack) /\ (i < j \/ j < i)
    BY <2>2, <2>3
  <2>5. rank[stack[i].symbol] < rank[stack[i].symbol]
    BY <2>1, <2>4 DEF Descends
  <2>. QED  BY <2>1, <2>3, <2>5
<1>. QED  BY <1>1, Inductive, AlwaysDescending, PTL

(* A recursion is reported only of a transform that is being applied: the  *)
(* guard has forgotten those that other fields and calls have left.        *)
THEOREM RecursionIsReal == Spec => [][Recursion => Target \in Symbols]_vars
<1>1. IInv /\ [Next]_vars => [Recursion => Target \in Symbols]_vars
  BY ActiveIsSymbols DEF Recursion, Recursive, CallsNow, Calls, IInv, Guard
<1>. QED  BY <1>1, Inductive, PTL DEF Spec

(* Where no transform reaches itself, no recursion is reported.            *)
THEOREM AcyclicIsNotRecursive == Spec => [][Recursion => ~Acyclic]_vars
<1>1. IInv /\ Descending /\ [Next]_vars => [Recursion => ~Acyclic]_vars
  <2>. SUFFICES ASSUME IInv, Descending, Recursion, Acyclic PROVE FALSE
    OBVIOUS
  <2>1. Calls /\ IsDeclared(Target) /\ Target \in Symbols
    BY ActiveIsSymbols DEF Recursion, Recursive, CallsNow, Calls, IInv, Guard
  <2>2. PICK rank \in [DOMAIN extractor.declared -> Nat] : Ranks(rank) /\ Descends(rank)
    BY DEF Descending, Acyclic
  <2>3. PICK i \in 1..Len(stack) : stack[i].symbol = Target /\ Target # None
    BY <2>1 DEF Symbols
  <2>4. i \in 2..Len(stack)
    <3>1. i # 1 /\ Len(stack) \in Nat
      BY <2>3, LenProperties DEF IInv, Frames, TypeOK
    <3>. QED  BY <3>1
  <2>5. rank[Target] < rank[Target] /\ rank[Target] \in Nat
    BY <2>1, <2>2, <2>3, <2>4, TargetIsLower DEF IsDeclared
  <2>. QED  BY <2>5
<1>. QED  BY <1>1, Inductive, AlwaysDescending, PTL DEF Spec

(* The recursion of calls is no deeper than there are transforms, in Go    *)
(* always, and in TypeScript where none reaches itself.                    *)
THEOREM DepthIsBounded ==
    Spec => [](~TypeScript \/ Acyclic => Len(stack) <= Cardinality(DOMAIN extractor.declared) + 1)
<1>1. IInv /\ RecursionDetected => Len(stack) <= Cardinality(DOMAIN extractor.declared) + 1
  <2>. SUFFICES ASSUME IInv, RecursionDetected
                PROVE  Len(stack) <= Cardinality(DOMAIN extractor.declared) + 1
    OBVIOUS
  <2>. DEFINE n == Len(stack)
              T == DOMAIN extractor.declared
              f == [i \in 2..n |-> stack[i].symbol]
  <2>1. n \in Nat /\ IsFiniteSet(T) /\ None \notin T
    BY LenProperties, TransformAssumption DEF IInv, TypeOK, WellFormed
  <2>2. \A i \in 2..n : i \in 1..n /\ i # 1
    BY <2>1
  <2>3. \A i \in 2..n : stack[i].symbol \in T
    BY <2>2 DEF IInv, Frames, IsDeclared
  <2>4. \A i, j \in 2..n : stack[i].symbol = stack[j].symbol => i = j
    BY <2>1, <2>2, <2>3 DEF RecursionDetected
  <2>5. f \in Injection(2..n, T)
    <3>1. f \in [2..n -> T]
      BY <2>3
    <3>2. \A a, b \in 2..n : f[a] = f[b] => a = b
      BY <2>4
    <3>. QED  BY <3>1, <3>2, Fun_IsInj
  <2>. HIDE DEF f
  <2>6. Cardinality(2..n) <= Cardinality(T)
    BY <2>1, <2>5, FS_Injection
  <2>7. Cardinality(2..n) = IF 2 > n THEN 0 ELSE n - 2 + 1
    BY <2>1, FS_Interval
  <2>8. Cardinality(T) \in Nat
    BY <2>1, FS_CardinalityType
  <2>. QED  BY <2>1, <2>6, <2>7, <2>8
<1>. QED  BY <1>1, Inductive, NothingInsideItself, PTL
=============================================================================
