---------------------- MODULE PlaywrightAdapterProofs ----------------------
(***************************************************************************)
(* Theorems about PlaywrightAdapter, for any number of extractions.  IInv  *)
(* is inductive.  The queue (QueueExact, OneHolder) needs nothing else;    *)
(* the contexts rest on OneGeneration: only the closure of the current     *)
(* generation can own #context, and only while no context is being closed, *)
(* so #invalidate never leaves an open context behind.                     *)
(***************************************************************************)
EXTENDS PlaywrightAdapter, SequenceTheorems, TLAPS

-----------------------------------------------------------------------------
(* What the operators of the model do.                                     *)

(* #invalidate detaches the current context in any reachable state: while  *)
(* another context is being closed there is no current one.                *)
LEMMA Invalidates ==
    ASSUME TypeOK, OneGeneration, Invalidate
    PROVE  /\ fresh' = {} /\ context' = None /\ page' \in {None, page}
           /\ closing' = Invalidated
           /\ browser' = [c \in Extraction |->
                             IF c = context THEN "closing" ELSE browser[c]]
           /\ context # None => closing = None /\ Invalidated = context
<1>1. context # None => closing = None
  BY DEF OneGeneration
<1>2. CASE closing # None
  <2>1. context = None
    BY <1>1, <1>2
  <2>2. browser = [c \in Extraction |-> IF c = context THEN "closing" ELSE browser[c]]
    BY <2>1, NoneAssumption DEF TypeOK
  <2>. QED  BY <1>2, <2>1, <2>2 DEF Invalidate, Invalidated
<1>3. CASE closing = None
  BY <1>3 DEF Invalidate, Invalidated
<1>. QED  BY <1>2, <1>3

(* What is left of a queue when its i-th element is taken out. *)
LEMMA WithoutProperties ==
    ASSUME NEW S, NEW s \in Seq(S), NEW i \in 1..Len(s)
    PROVE  /\ Without(s, i) \in Seq(S)
           /\ Len(Without(s, i)) = Len(s) - 1
           /\ \A j \in 1..(Len(s) - 1) :
                 Without(s, i)[j] = IF j < i THEN s[j] ELSE s[j + 1]
<1> DEFINE n == Len(s)
<1> DEFINE a == SubSeq(s, 1, i - 1)
<1> DEFINE b == SubSeq(s, i + 1, n)
<1>1. n \in Nat /\ i \in Int /\ 1 <= i /\ i <= n /\ \A j \in 1..n : s[j] \in S
  BY LenProperties, ElementOfSeq
<1> HIDE DEF n
<1>2. /\ a \in Seq(S) /\ Len(a) = i - 1
      /\ \A j \in 1..(i - 1) : a[j] = s[j]
  <2>1. \A j \in 1..(i - 1) : s[j] \in S
    BY <1>1
  <2>2. /\ a \in Seq(S) /\ Len(a) = IF 1 <= i - 1 THEN (i - 1) - 1 + 1 ELSE 0
        /\ \A j \in 1..((i - 1) - 1 + 1) : a[j] = s[1 + j - 1]
    BY <1>1, <2>1, SubSeqProperties
  <2>. QED  BY <1>1, <2>2
<1>3. /\ b \in Seq(S) /\ Len(b) = n - i
      /\ \A j \in 1..(n - i) : b[j] = s[i + j]
  <2>1. \A j \in (i + 1)..n : s[j] \in S
    BY <1>1
  <2>2. /\ b \in Seq(S) /\ Len(b) = IF i + 1 <= n THEN n - (i + 1) + 1 ELSE 0
        /\ \A j \in 1..(n - (i + 1) + 1) : b[j] = s[(i + 1) + j - 1]
    BY <1>1, <2>1, SubSeqProperties
  <2>. QED  BY <1>1, <2>2
<1>4. Without(s, i) = a \o b
  BY DEF Without, n
<1> HIDE DEF a, b
<1>5. /\ a \o b \in Seq(S) /\ Len(a \o b) = n - 1
      /\ \A j \in 1..(n - 1) : (a \o b)[j] = IF j <= i - 1 THEN a[j] ELSE b[j - (i - 1)]
  <2>1. /\ a \o b \in Seq(S) /\ Len(a \o b) = Len(a) + Len(b)
        /\ \A j \in 1..(Len(a) + Len(b)) :
              (a \o b)[j] = IF j <= Len(a) THEN a[j] ELSE b[j - Len(a)]
    BY <1>2, <1>3, ConcatProperties
  <2>. QED  BY <1>1, <1>2, <1>3, <2>1
<1>6. ASSUME NEW j \in 1..(n - 1)
      PROVE  (a \o b)[j] = IF j < i THEN s[j] ELSE s[j + 1]
  <2>1. CASE j < i
    BY <1>1, <1>2, <1>5, <2>1
  <2>2. CASE ~(j < i)
    <3>1. (a \o b)[j] = b[j - (i - 1)]
      <4>1. ~(j <= i - 1)
        BY <1>1, <2>2
      <4>. QED  BY <1>5, <4>1
    <3>2. j - (i - 1) \in 1..(n - i) /\ i + (j - (i - 1)) = j + 1
      BY <1>1, <2>2
    <3>. QED  BY <1>3, <2>2, <3>1, <3>2
  <2>. QED  BY <2>1, <2>2
<1>. QED  BY <1>4, <1>5, <1>6 DEF n

(* A suffix of a queue. *)
LEMMA SuffixProperties ==
    ASSUME NEW S, NEW s \in Seq(S), NEW k \in 1..(Len(s) + 1)
    PROVE  /\ SubSeq(s, k + 1, Len(s)) \in Seq(S)
           /\ Len(SubSeq(s, k + 1, Len(s))) = IF k <= Len(s) THEN Len(s) - k ELSE 0
           /\ \A i \in 1..Len(SubSeq(s, k + 1, Len(s))) :
                 SubSeq(s, k + 1, Len(s))[i] = s[k + i]
<1> DEFINE n == Len(s)
<1>1. n \in Nat /\ k \in Int /\ 1 <= k /\ k <= n + 1 /\ \A j \in 1..n : s[j] \in S
  BY LenProperties, ElementOfSeq
<1> HIDE DEF n
<1>2. \A j \in (k + 1)..n : s[j] \in S
  BY <1>1
<1>3. /\ SubSeq(s, k + 1, n) \in Seq(S)
      /\ Len(SubSeq(s, k + 1, n)) = IF k + 1 <= n THEN n - (k + 1) + 1 ELSE 0
      /\ \A i \in 1..(n - (k + 1) + 1) : SubSeq(s, k + 1, n)[i] = s[(k + 1) + i - 1]
  BY <1>1, <1>2, SubSeqProperties
<1>4. Len(SubSeq(s, k + 1, n)) = IF k <= n THEN n - k ELSE 0
  BY <1>1, <1>3
<1>5. ASSUME NEW i \in 1..Len(SubSeq(s, k + 1, n))
      PROVE  SubSeq(s, k + 1, n)[i] = s[k + i]
  <2>1. i \in 1..(n - (k + 1) + 1) /\ (k + 1) + i - 1 = k + i
    BY <1>1, <1>4
  <2>. QED  BY <1>3, <2>1
<1>. QED  BY <1>3, <1>4, <1>5 DEF n

-----------------------------------------------------------------------------
(* The lease and its queue.                                                *)

(* A step that moves no extraction in or out of the lease or the queue. *)
LEMMA SameLease ==
    ASSUME QueueExact, OneHolder, UNCHANGED leaseVars,
           \A e \in Extraction :
              /\ caller'[e] \in Holding <=> caller[e] \in Holding
              /\ caller'[e] = "waiting" <=> caller[e] = "waiting"
    PROVE  QueueExact' /\ OneHolder'
  BY DEF QueueExact, OneHolder, leaseVars

(* Acquire takes a free lease, or the last place in the queue. *)
LEMMA AcquireQueue ==
    ASSUME TypeOK, QueueExact, OneHolder, NEW e \in Extraction, Acquire(e)
    PROVE  QueueExact' /\ OneHolder'
<1>1. CASE closed \/ e \in aborted
  <2>1. UNCHANGED leaseVars /\ caller[e] = "idle"
        /\ caller' = [caller EXCEPT ![e] = "done"]
    BY <1>1 DEF Acquire, CallerTo
  <2>. QED  BY <2>1, SameLease DEF TypeOK, Holding, Calls
<1>2. CASE ~(closed \/ e \in aborted) /\ ~leaseHeld
  <2>1. /\ UNCHANGED waiters /\ caller[e] = "idle" /\ leaseHeld' = TRUE
        /\ caller' = [caller EXCEPT ![e] = "acquired"]
    BY <1>2 DEF Acquire, CallerTo
  <2>2. \A d \in Extraction : caller[d] \notin Holding
    BY <1>2 DEF QueueExact
  <2>3. \A d \in Extraction : caller'[d] \in Holding <=> d = e
    BY <2>1, <2>2 DEF TypeOK, Holding, Calls
  <2>4. \A d \in Extraction : caller'[d] = "waiting" <=> caller[d] = "waiting"
    BY <2>1 DEF TypeOK
  <2>. QED  BY <2>1, <2>3, <2>4 DEF QueueExact, OneHolder
<1>3. CASE ~(closed \/ e \in aborted) /\ leaseHeld
  <2> DEFINE n == Len(waiters)
  <2>1. /\ UNCHANGED leaseHeld /\ caller[e] = "idle" /\ waiters' = Append(waiters, e)
        /\ caller' = [caller EXCEPT ![e] = "waiting"]
    BY <1>3 DEF Acquire, CallerTo
  <2>2. /\ waiters' \in Seq(Extraction) /\ Len(waiters') = n + 1
        /\ n \in Nat /\ waiters'[n + 1] = e
        /\ \A i \in 1..n : waiters'[i] = waiters[i]
    BY <2>1, AppendProperties, LenProperties DEF TypeOK
  <2> HIDE DEF n
  <2>3. \A d \in Extraction : caller'[d] \in Holding <=> caller[d] \in Holding
    BY <2>1 DEF TypeOK, Holding, Calls
  <2>4. \A i \in 1..n : waiters[i] # e
    BY <2>1 DEF QueueExact, n
  <2>5. ASSUME NEW d \in Extraction
        PROVE  caller'[d] = "waiting" <=> \E i \in 1..Len(waiters') : waiters'[i] = d
    <3>1. caller[d] = "waiting" <=> \E i \in 1..n : waiters[i] = d
      BY DEF QueueExact, n
    <3>2. CASE d = e
      BY <2>1, <2>2, <3>2 DEF TypeOK
    <3>3. CASE d # e
      <4>1. caller'[d] = caller[d]
        BY <2>1, <3>3 DEF TypeOK
      <4>2. (\E i \in 1..n : waiters[i] = d) <=> \E i \in 1..(n + 1) : waiters'[i] = d
        BY <2>2, <3>3
      <4>. QED  BY <2>2, <3>1, <4>1, <4>2
    <3>. QED  BY <3>2, <3>3
  <2>6. ASSUME NEW i \in 1..Len(waiters'), NEW j \in 1..Len(waiters'),
               waiters'[i] = waiters'[j]
        PROVE  i = j
    <3>1. i \in 1..(n + 1) /\ j \in 1..(n + 1)
      BY <2>2
    <3>2. \A x, y \in 1..n : waiters[x] = waiters[y] => x = y
      BY DEF QueueExact, n
    <3>. QED  BY <2>2, <2>4, <2>6, <3>1, <3>2
  <2>. QED  BY <1>3, <2>1, <2>3, <2>5, <2>6 DEF QueueExact, OneHolder
<1>. QED  BY <1>1, <1>2, <1>3

(* A waiter whose signal has fired leaves the queue from its own place. *)
LEMMA WaiterAbortedQueue ==
    ASSUME TypeOK, QueueExact, OneHolder, NEW e \in Extraction, WaiterAborted(e)
    PROVE  QueueExact' /\ OneHolder'
<1> DEFINE n == Len(waiters)
<1>1. PICK k \in 1..n : waiters[k] = e /\ waiters' = Without(waiters, k)
  BY DEF WaiterAborted
<1>2. /\ caller' = [caller EXCEPT ![e] = "done"] /\ caller[e] = "waiting"
      /\ UNCHANGED leaseHeld
  BY DEF WaiterAborted, CallerTo
<1>3. /\ waiters' \in Seq(Extraction) /\ Len(waiters') = n - 1 /\ n \in Nat
      /\ \A j \in 1..(n - 1) : waiters'[j] = IF j < k THEN waiters[j] ELSE waiters[j + 1]
  BY <1>1, WithoutProperties, LenProperties DEF TypeOK
<1>4. /\ \A i, j \in 1..n : waiters[i] = waiters[j] => i = j
      /\ \A d \in Extraction :
            caller[d] = "waiting" <=> \E i \in 1..n : waiters[i] = d
  BY DEF QueueExact
<1>5. leaseHeld
  <2>1. waiters # <<>>
    BY <1>1, <1>3, EmptySeq
  <2>. QED  BY <2>1 DEF QueueExact
<1> HIDE DEF n
<1>6. \A d \in Extraction : caller'[d] \in Holding <=> caller[d] \in Holding
  BY <1>2 DEF TypeOK, Holding, Calls
<1>7. ASSUME NEW i \in 1..(n - 1), NEW j \in 1..(n - 1), waiters'[i] = waiters'[j]
      PROVE  i = j
  BY <1>3, <1>4, <1>7
<1>8. \A i \in 1..(n - 1) : waiters'[i] # e
  BY <1>1, <1>3, <1>4
<1>9. ASSUME NEW d \in Extraction, d # e
      PROVE  (\E i \in 1..n : waiters[i] = d) <=> \E i \in 1..(n - 1) : waiters'[i] = d
  <2>1. ASSUME NEW i \in 1..n, waiters[i] = d
        PROVE  \E j \in 1..(n - 1) : waiters'[j] = d
    <3>1. i # k
      BY <1>1, <1>9, <2>1
    <3>2. CASE i < k
      <4>1. i \in 1..(n - 1) /\ waiters'[i] = d
        BY <1>1, <1>3, <2>1, <3>2
      <4>. QED  BY <4>1
    <3>3. CASE i > k
      <4>1. i - 1 \in 1..(n - 1) /\ ~(i - 1 < k) /\ (i - 1) + 1 = i
        BY <1>1, <1>3, <3>3
      <4>2. waiters'[i - 1] = d
        BY <1>3, <2>1, <4>1
      <4>. QED  BY <4>1, <4>2
    <3>. QED  BY <1>1, <1>3, <3>1, <3>2, <3>3
  <2>2. ASSUME NEW i \in 1..(n - 1), waiters'[i] = d
        PROVE  \E j \in 1..n : waiters[j] = d
    BY <1>1, <1>3, <2>2
  <2>. QED  BY <2>1, <2>2
<1>10. ASSUME NEW d \in Extraction
       PROVE  caller'[d] = "waiting" <=> \E i \in 1..Len(waiters') : waiters'[i] = d
  <2>1. CASE d = e
    BY <1>2, <1>3, <1>8, <2>1 DEF TypeOK
  <2>2. CASE d # e
    <3>1. caller'[d] = caller[d]
      BY <1>2, <2>2 DEF TypeOK
    <3>. QED  BY <1>3, <1>4, <1>9, <2>2, <3>1
  <2>. QED  BY <2>1, <2>2
<1>11. QueueExact'
  <2>1. leaseHeld' <=> \E d \in Extraction : caller'[d] \in Holding
    BY <1>2, <1>6 DEF QueueExact
  <2>2. \A i, j \in 1..Len(waiters') : waiters'[i] = waiters'[j] => i = j
    BY <1>3, <1>7
  <2>. QED  BY <1>2, <1>5, <1>10, <2>1, <2>2 DEF QueueExact
<1>12. OneHolder'
  BY <1>6 DEF OneHolder
<1>. QED  BY <1>11, <1>12

(* Release rejects the waiters in front of the k-th, which is the first    *)
(* live one and gets the lease; the calls that do not wait stay as they    *)
(* are.                                                                    *)
LEMMA ReleaseMoves ==
    ASSUME TypeOK, QueueExact, NEW e \in Extraction, Release(e)
    PROVE  \E k \in 1..(Len(waiters) + 1) :
              /\ waiters' = SubSeq(waiters, k + 1, Len(waiters))
              /\ leaseHeld' <=> k <= Len(waiters)
              /\ \A i \in 1..Len(waiters) :
                    /\ i < k => waiters[i] \in aborted
                    /\ caller'[waiters[i]] = IF i < k THEN "done"
                                             ELSE IF i = k THEN "acquired" ELSE "waiting"
              /\ \A d \in Extraction : caller[d] # "waiting" =>
                    caller'[d] = IF d = e THEN "done" ELSE caller[d]
<1> DEFINE n == Len(waiters)
<1>1. PICK k \in 1..(n + 1) :
         /\ \A i \in 1..(k - 1) : waiters[i] \in aborted
         /\ waiters' = SubSeq(waiters, k + 1, n)
         /\ leaseHeld' = (k <= n)
         /\ caller' = [x \in Extraction |->
                          IF x = e \/ \E i \in 1..(k - 1) : waiters[i] = x THEN "done"
                          ELSE IF k <= n /\ waiters[k] = x THEN "acquired"
                          ELSE caller[x]]
  BY DEF Release
<1>2. caller[e] = "ending" /\ n \in Nat /\ \A i \in 1..n : waiters[i] \in Extraction
  BY LenProperties, ElementOfSeq DEF Release, TypeOK
<1>3. /\ \A i, j \in 1..n : waiters[i] = waiters[j] => i = j
      /\ \A d \in Extraction :
            caller[d] = "waiting" <=> \E i \in 1..n : waiters[i] = d
  BY DEF QueueExact
<1>4. \A i \in 1..n : caller[waiters[i]] = "waiting" /\ waiters[i] # e
  BY <1>2, <1>3
<1> HIDE DEF n
<1>5. ASSUME NEW i \in 1..n
      PROVE  caller'[waiters[i]] = IF i < k THEN "done"
                                   ELSE IF i = k THEN "acquired" ELSE "waiting"
  <2>1. waiters[i] \in Extraction /\ waiters[i] # e /\ caller[waiters[i]] = "waiting"
    BY <1>2, <1>4
  <2>2. (\E j \in 1..(k - 1) : waiters[j] = waiters[i]) <=> i < k
    BY <1>2, <1>3
  <2>3. (k <= n /\ waiters[k] = waiters[i]) <=> i = k
    BY <1>2, <1>3
  <2>. QED  BY <1>1, <2>1, <2>2, <2>3
<1>6. ASSUME NEW d \in Extraction, caller[d] # "waiting"
      PROVE  caller'[d] = IF d = e THEN "done" ELSE caller[d]
  <2>1. \A i \in 1..n : waiters[i] # d
    BY <1>4, <1>6
  <2>. QED  BY <1>1, <1>2, <2>1
<1>7. \A i \in 1..n : i < k => waiters[i] \in aborted
  BY <1>1, <1>2
<1>8. leaseHeld' <=> k <= n
  BY <1>1
<1>. QED  BY <1>1, <1>5, <1>6, <1>7, <1>8 DEF n

(* The waiters behind the heir move up, nobody else holds the lease.       *)
LEMMA ReleaseQueue ==
    ASSUME TypeOK, QueueExact, OneHolder, NEW e \in Extraction, Release(e)
    PROVE  QueueExact' /\ OneHolder'
<1> DEFINE n == Len(waiters)
<1>1. PICK k \in 1..(n + 1) :
         /\ waiters' = SubSeq(waiters, k + 1, n)
         /\ leaseHeld' <=> k <= n
         /\ \A i \in 1..n :
               caller'[waiters[i]] = IF i < k THEN "done"
                                     ELSE IF i = k THEN "acquired" ELSE "waiting"
         /\ \A d \in Extraction : caller[d] # "waiting" =>
               caller'[d] = IF d = e THEN "done" ELSE caller[d]
  BY ReleaseMoves
<1>2. caller[e] = "ending" /\ n \in Nat /\ \A i \in 1..n : waiters[i] \in Extraction
  BY LenProperties, ElementOfSeq DEF Release, TypeOK
<1>3. /\ waiters' \in Seq(Extraction)
      /\ Len(waiters') = IF k <= n THEN n - k ELSE 0
      /\ \A i \in 1..Len(waiters') : waiters'[i] = waiters[k + i]
  BY <1>1, SuffixProperties DEF TypeOK
<1>4. /\ \A i, j \in 1..n : waiters[i] = waiters[j] => i = j
      /\ \A d \in Extraction :
            caller[d] = "waiting" <=> \E i \in 1..n : waiters[i] = d
  BY DEF QueueExact
<1>5. \A d \in Extraction : caller[d] \in Holding <=> d = e
  <2>1. "ending" \in Holding
    BY DEF Holding, Calls
  <2>. QED  BY <1>2, <2>1 DEF OneHolder
<1> HIDE DEF n
<1>6. \A i \in 1..Len(waiters') : k <= n /\ k + i \in 1..n
  BY <1>2, <1>3
<1>7. ASSUME NEW d \in Extraction, NEW i \in 1..n, waiters[i] = d
      PROVE  caller'[d] = IF i < k THEN "done" ELSE IF i = k THEN "acquired" ELSE "waiting"
  BY <1>1, <1>7
<1>8. ASSUME NEW d \in Extraction, \A i \in 1..n : waiters[i] # d
      PROVE  caller'[d] = IF d = e THEN "done" ELSE caller[d]
  BY <1>1, <1>4, <1>8
<1>9. ASSUME NEW d \in Extraction
       PROVE  caller'[d] = "waiting" <=> \E i \in 1..Len(waiters') : waiters'[i] = d
  <2>1. ASSUME caller'[d] = "waiting"
        PROVE  \E i \in 1..Len(waiters') : waiters'[i] = d
    <3>1. PICK j \in 1..n : waiters[j] = d
      BY <1>4, <1>8, <2>1
    <3>2. j > k
      BY <1>2, <1>7, <2>1, <3>1
    <3>3. j - k \in 1..Len(waiters') /\ k + (j - k) = j
      BY <1>2, <1>3, <3>2
    <3>4. waiters'[j - k] = d
      BY <1>3, <3>1, <3>3
    <3>. QED  BY <3>3, <3>4
  <2>2. ASSUME NEW i \in 1..Len(waiters'), waiters'[i] = d
        PROVE  caller'[d] = "waiting"
    <3>1. k + i \in 1..n /\ waiters[k + i] = d
      BY <1>3, <1>6, <2>2
    <3>2. ~(k + i < k) /\ k + i # k
      BY <1>2
    <3>. QED  BY <1>7, <3>1, <3>2
  <2>. QED  BY <2>1, <2>2
<1>10. ASSUME NEW i \in 1..Len(waiters'), NEW j \in 1..Len(waiters'),
              waiters'[i] = waiters'[j]
       PROVE  i = j
  <2>1. k + i \in 1..n /\ k + j \in 1..n /\ waiters[k + i] = waiters[k + j]
    BY <1>3, <1>6, <1>10
  <2>2. k + i = k + j
    BY <1>4, <2>1
  <2>. QED  BY <1>2, <1>3, <2>2
<1>11. ASSUME NEW d \in Extraction
       PROVE  caller'[d] \in Holding <=> k <= n /\ waiters[k] = d
  <2>1. CASE \E i \in 1..n : waiters[i] = d
    <3>1. PICK i \in 1..n : waiters[i] = d
      BY <2>1
    <3>2. caller'[d] \in Holding <=> i = k
      BY <1>2, <1>7, <3>1 DEF Holding, Calls
    <3>3. i = k <=> k <= n /\ waiters[k] = d
      BY <1>2, <1>4, <3>1
    <3>. QED  BY <3>2, <3>3
  <2>2. CASE \A i \in 1..n : waiters[i] # d
    <3>1. caller'[d] \notin Holding
      BY <1>5, <1>8, <2>2 DEF Holding, Calls
    <3>2. ~(k <= n /\ waiters[k] = d)
      BY <1>2, <2>2
    <3>. QED  BY <3>1, <3>2
  <2>. QED  BY <2>1, <2>2
<1>12. OneHolder'
  BY <1>11 DEF OneHolder
<1>13. QueueExact'
  <2>1. leaseHeld' <=> \E d \in Extraction : caller'[d] \in Holding
    <3>1. ASSUME k <= n PROVE waiters[k] \in Extraction
      BY <1>2, <3>1
    <3>. QED  BY <1>1, <1>11, <3>1
  <2>2. waiters' # <<>> => leaseHeld'
    <3>1. waiters' # <<>> => Len(waiters') # 0
      BY <1>3, EmptySeq
    <3>. QED  BY <1>1, <1>3, <3>1
  <2>. QED  BY <1>9, <1>10, <2>1, <2>2 DEF QueueExact
<1>. QED  BY <1>12, <1>13

(* close() rejects every waiter and leaves the holder its lease. *)
LEMMA CloseQueue ==
    ASSUME TypeOK, QueueExact, OneHolder, Close
    PROVE  QueueExact' /\ OneHolder'
<1>1. /\ waiters' = <<>> /\ UNCHANGED leaseHeld
      /\ caller' = [e \in Extraction |->
                       IF \E i \in 1..Len(waiters) : waiters[i] = e THEN "done"
                       ELSE caller[e]]
  BY DEF Close
<1>2. \A e \in Extraction :
         caller[e] = "waiting" <=> \E i \in 1..Len(waiters) : waiters[i] = e
  BY DEF QueueExact
<1>3. \A e \in Extraction :
         caller'[e] = IF caller[e] = "waiting" THEN "done" ELSE caller[e]
  BY <1>1, <1>2
<1>4. \A e \in Extraction :
         /\ caller'[e] # "waiting"
         /\ caller'[e] \in Holding <=> caller[e] \in Holding
  BY <1>3 DEF Holding, Calls
<1>5. Len(waiters') = 0
  BY <1>1, EmptySeq
<1>6. QueueExact'
  BY <1>1, <1>4, <1>5 DEF QueueExact
<1>7. OneHolder'
  BY <1>4 DEF OneHolder
<1>. QED  BY <1>6, <1>7

(* Every other step leaves the lease where it is. *)
LEMMA QueueStep ==
    ASSUME TypeOK, QueueExact, OneHolder, [Next]_vars
    PROVE  QueueExact' /\ OneHolder'
<1>1. ASSUME NEW e \in Extraction,
             \/ Abort(e) \/ Navigate(e) \/ NavigateThrows(e) \/ GuardTimeout(e)
             \/ NavCleaned(e) \/ OpCleaned(e) \/ EndExtraction(e)
             \/ Operate(e) \/ OperationEnds(e) \/ GuardAbort(e) \/ GuardStopsAgain(e)
      PROVE  QueueExact' /\ OneHolder'
  <2>1. /\ UNCHANGED leaseVars
        /\ \/ UNCHANGED caller
           \/ \E l \in Holding : caller[e] \in Holding /\ CallerTo(e, l)
    BY <1>1 DEF Abort, Navigate, NavigateThrows, GuardTimeout, GuardStops, NavCleaned,
       OpCleaned, EndExtraction, Operate, OperationEnds, GuardAbort, GuardStopsAgain,
       FailNavigation, CallerTo, Holding, Calls
  <2>2. \A d \in Extraction :
           /\ caller'[d] \in Holding <=> caller[d] \in Holding
           /\ caller'[d] = "waiting" <=> caller[d] = "waiting"
    BY <2>1 DEF CallerTo, TypeOK, Holding, Calls
  <2>. QED  BY <2>1, <2>2, SameLease
<1>2. ASSUME NEW e \in Extraction, NavStep(e) \/ ContextClosed(e)
      PROVE  QueueExact' /\ OneHolder'
  <2>1. /\ UNCHANGED leaseVars
        /\ \/ UNCHANGED caller
           \/ \E l \in Holding : caller[e] \in Holding /\ CallerTo(e, l)
    BY <1>2 DEF NavStep, NavCreate, NavCreated, NavPage, NavLoaded, NavFails,
       ContextClosed, FailNavigation, CallerTo, Holding, Calls
  <2>2. \A d \in Extraction :
           /\ caller'[d] \in Holding <=> caller[d] \in Holding
           /\ caller'[d] = "waiting" <=> caller[d] = "waiting"
    BY <2>1 DEF CallerTo, TypeOK, Holding, Calls
  <2>. QED  BY <2>1, <2>2, SameLease
<1>3. ASSUME CloseResolves \/ UNCHANGED vars
      PROVE  QueueExact' /\ OneHolder'
  BY <1>3, SameLease DEF CloseResolves, vars, leaseVars
<1>. QED
  BY <1>1, <1>2, <1>3, AcquireQueue, WaiterAbortedQueue, ReleaseQueue, CloseQueue
     DEF Next, Progress

-----------------------------------------------------------------------------
(* Types.                                                                  *)

(* No step leaves the types of the variables. *)
LEMMA TypeStep ==
    ASSUME TypeOK, OneGeneration, [Next]_vars
    PROVE  TypeOK'
<1>1. ASSUME NEW e \in Extraction, Acquire(e)
      PROVE  TypeOK'
  <2>1. waiters' \in Seq(Extraction)
    BY <1>1, AppendProperties DEF Acquire, TypeOK, leaseVars
  <2>2. caller' \in [Extraction -> Calls] /\ leaseHeld' \in BOOLEAN
    BY <1>1 DEF Acquire, TypeOK, leaseVars, CallerTo, Calls
  <2>. QED  BY <1>1, <2>1, <2>2 DEF Acquire, TypeOK, contextVars, closerVars
<1>2. ASSUME NEW e \in Extraction, WaiterAborted(e)
      PROVE  TypeOK'
  <2>1. waiters' \in Seq(Extraction)
    BY <1>2, WithoutProperties DEF WaiterAborted, TypeOK
  <2>2. caller' \in [Extraction -> Calls]
    BY <1>2 DEF WaiterAborted, TypeOK, CallerTo, Calls
  <2>. QED  BY <1>2, <2>1, <2>2 DEF WaiterAborted, TypeOK, contextVars, closerVars
<1>3. ASSUME NEW e \in Extraction, Release(e)
      PROVE  TypeOK'
  <2>1. waiters' \in Seq(Extraction)
    BY <1>3, SuffixProperties DEF Release, TypeOK
  <2>2. caller' \in [Extraction -> Calls]
    BY <1>3 DEF Release, TypeOK, Calls
  <2>3. leaseHeld' \in BOOLEAN
    BY <1>3 DEF Release
  <2>. QED  BY <1>3, <2>1, <2>2, <2>3 DEF Release, TypeOK, contextVars, closerVars
<1>4. ASSUME Invalidate
      PROVE  /\ fresh' \subseteq Extraction
             /\ {context', page', closing'} \subseteq Extraction \cup {None}
             /\ browser' \in [Extraction -> {"none", "open", "closing", "closed"}]
             /\ Invalidated \in Extraction \cup {None}
  BY <1>4 DEF Invalidate, Invalidated, TypeOK
<1>5. ASSUME Close
      PROVE  TypeOK'
  <2>1. waiters' \in Seq(Extraction)
    BY <1>5, EmptySeq DEF Close
  <2>2. caller' \in [Extraction -> Calls]
    BY <1>5 DEF Close, TypeOK, Calls
  <2>. QED  BY <1>4, <1>5, <2>1, <2>2 DEF Close, TypeOK
<1>6. ASSUME NEW e \in Extraction, FailNavigation(e)
      PROVE  /\ fresh' \subseteq Extraction
             /\ {context', page', closing'} \subseteq Extraction \cup {None}
             /\ browser' \in [Extraction -> {"none", "open", "closing", "closed"}]
             /\ callerAwaits' \in [Extraction -> Extraction \cup {None}]
             /\ caller' \in [Extraction -> Calls]
             /\ cut' \subseteq Extraction
  BY <1>4, <1>6 DEF FailNavigation, CallerTo, TypeOK, Calls
<1>7. ASSUME NEW e \in Extraction, GuardStops(e) \/ GuardStopsAgain(e)
      PROVE  TypeOK'
  <2>1. caller' \in [Extraction -> Calls]
    BY <1>7 DEF GuardStops, GuardStopsAgain, CallerTo, TypeOK, Calls
  <2>2. callerAwaits' \in [Extraction -> Extraction \cup {None}] /\ cut' \subseteq Extraction
    BY <1>4, <1>7 DEF GuardStops, GuardStopsAgain, TypeOK
  <2>3. Invalidate /\ UNCHANGED <<aborted, leaseVars, nav, navAwaits, opOn, closerVars>>
    BY <1>7 DEF GuardStops, GuardStopsAgain
  <2>. QED  BY <1>4, <2>1, <2>2, <2>3 DEF TypeOK, leaseVars, closerVars
<1>8. ASSUME NEW e \in Extraction, Navigate(e)
      PROVE  TypeOK'
  <2>1. CASE closed
    BY <1>8, <2>1 DEF Navigate, CallerTo, TypeOK, Calls, leaseVars, contextVars, closerVars
  <2>2. CASE ~closed /\ e \in aborted
    <3>1. FailNavigation(e) /\ UNCHANGED <<nav, navAwaits, aborted, leaseVars, opOn, closerVars>>
      BY <1>8, <2>2 DEF Navigate
    <3>. QED  BY <1>6, <3>1 DEF TypeOK, leaseVars, closerVars
  <2>3. CASE ~closed /\ e \notin aborted
    <3>1. /\ Invalidate /\ CallerTo(e, "navigating") /\ NavTo(e, "invalidating")
          /\ navAwaits' = [navAwaits EXCEPT ![e] = Invalidated]
          /\ UNCHANGED <<callerAwaits, cut, aborted, leaseVars, opOn, closerVars>>
      BY <1>8, <2>3 DEF Navigate
    <3>2. caller' \in [Extraction -> Calls] /\ nav' \in [Extraction -> Closures]
      BY <3>1 DEF CallerTo, NavTo, TypeOK, Calls, Closures
    <3>3. navAwaits' \in [Extraction -> Extraction \cup {None}]
      BY <1>4, <3>1 DEF TypeOK
    <3>. QED  BY <1>4, <3>1, <3>2, <3>3 DEF TypeOK, leaseVars, closerVars
  <2>. QED  BY <2>1, <2>2, <2>3
<1>9. ASSUME NEW e \in Extraction, NavCleaned(e)
      PROVE  TypeOK'
  BY <1>6, <1>9 DEF NavCleaned, TypeOK, leaseVars, closerVars
<1>10. ASSUME NEW e \in Extraction,
              Operate(e) \/ OperationEnds(e) \/ OpCleaned(e) \/ EndExtraction(e)
              \/ NavigateThrows(e) \/ Abort(e)
      PROVE  TypeOK'
  <2>1. caller' \in [Extraction -> Calls] /\ aborted' \subseteq Extraction
    BY <1>10 DEF Operate, OperationEnds, OpCleaned, EndExtraction, NavigateThrows, Abort,
       CallerTo, TypeOK, Calls
  <2>2. opOn' \in [Extraction -> Extraction \cup {None}]
    BY <1>10 DEF Operate, OperationEnds, OpCleaned, EndExtraction, NavigateThrows, Abort, TypeOK
  <2>3. UNCHANGED <<leaseVars, callerAwaits, nav, navAwaits, contextVars, cut, closerVars>>
    BY <1>10 DEF Operate, OperationEnds, OpCleaned, EndExtraction, NavigateThrows, Abort
  <2>. QED  BY <2>1, <2>2, <2>3 DEF TypeOK, leaseVars, contextVars, closerVars
<1>11. ASSUME NEW e \in Extraction, NavCreate(e) \/ NavCreated(e) \/ NavPage(e) \/ NavLoaded(e)
      PROVE  TypeOK'
  <2>1. caller' \in [Extraction -> Calls] /\ nav' \in [Extraction -> Closures]
    BY <1>11 DEF NavCreate, NavCreated, NavPage, NavLoaded, CallerTo, NavTo, TypeOK,
       Calls, Closures
  <2>2. fresh' \subseteq Extraction /\ {context', page', closing'} \subseteq Extraction \cup {None}
    BY <1>11 DEF NavCreate, NavCreated, NavPage, NavLoaded, TypeOK, contextVars
  <2>3. browser' \in [Extraction -> {"none", "open", "closing", "closed"}]
    BY <1>11 DEF NavCreate, NavCreated, NavPage, NavLoaded, TypeOK, contextVars
  <2>4. UNCHANGED <<aborted, leaseVars, callerAwaits, navAwaits, opOn, cut, closerVars>>
    BY <1>11 DEF NavCreate, NavCreated, NavPage, NavLoaded
  <2>. QED  BY <2>1, <2>2, <2>3, <2>4 DEF TypeOK, leaseVars, closerVars
<1>12. ASSUME NEW e \in Extraction, NavFails(e)
      PROVE  TypeOK'
  <2>1. nav' \in [Extraction -> Closures]
    BY <1>12 DEF NavFails, NavTo, TypeOK, Closures
  <2>2. UNCHANGED <<aborted, leaseVars, navAwaits, opOn, closerVars>>
    BY <1>12 DEF NavFails
  <2>3. FailNavigation(e) \/ UNCHANGED <<caller, callerAwaits, contextVars, cut>>
    BY <1>12 DEF NavFails
  <2>4. CASE FailNavigation(e)
    BY <1>6, <2>1, <2>2, <2>4 DEF TypeOK, leaseVars, closerVars
  <2>5. CASE UNCHANGED <<caller, callerAwaits, contextVars, cut>>
    BY <2>1, <2>2, <2>5 DEF TypeOK, leaseVars, closerVars, contextVars
  <2>. QED  BY <2>3, <2>4, <2>5
<1>13. ASSUME NEW c \in Extraction, ContextClosed(c)
      PROVE  TypeOK'
  BY <1>13 DEF ContextClosed, TypeOK, leaseVars, closerVars
<1>14. ASSUME CloseResolves \/ UNCHANGED vars
      PROVE  TypeOK'
  BY <1>14 DEF CloseResolves, vars, TypeOK, leaseVars, closerVars, contextVars
<1>. QED
  BY <1>1, <1>2, <1>3, <1>5, <1>7, <1>8, <1>9, <1>10, <1>11, <1>12, <1>13, <1>14
     DEF Next, Progress, NavStep, GuardTimeout, GuardAbort

-----------------------------------------------------------------------------
(* The contexts.                                                           *)
Contexts ==
    /\ ClosureFollowsCall /\ OneGeneration /\ NoOrphan /\ ClosingTracked
    /\ CutIsStale /\ PageOwned /\ Isolation

(* A call moves through the lease, or out of it, with its closure as it is *)
(* and the generation as it is or a new one.                               *)
LEMMA CallMoves ==
    ASSUME TypeOK, Contexts, TypeOK',
           UNCHANGED <<callerAwaits, nav, navAwaits, opOn, cut>>,
           UNCHANGED contextVars \/ Invalidate,
           \A e \in Extraction :
              \/ caller'[e] = caller[e]
              \/ /\ caller[e] \in {"idle", "waiting"}
                 /\ caller'[e] \in {"waiting", "acquired", "done"}
              \/ caller[e] = "ready" /\ caller'[e] = "ending"
              \/ caller[e] = "acquired" /\ caller'[e] = "ending"
              \/ caller[e] = "ending" /\ caller'[e] = "done"
    PROVE  Contexts'
<1>1. /\ fresh' \in {{}, fresh} /\ page' \in {None, page}
      /\ UNCHANGED contextVars \/
            /\ fresh' = {} /\ context' = None /\ closing' = Invalidated
            /\ browser' = [c \in Extraction |->
                              IF c = context THEN "closing" ELSE browser[c]]
            /\ context # None => closing = None /\ Invalidated = context
  BY Invalidates DEF Contexts, contextVars
<1>2. ClosureFollowsCall'
  <2>1. \A e \in Extraction : browser'[e] = browser[e] \/ browser[e] = "open"
    BY <1>1 DEF Contexts, NoOrphan, contextVars, TypeOK
  <2>2. \A e \in Extraction : browser'[e] # browser[e] => browser'[e] = "closing"
    BY <1>1 DEF contextVars, TypeOK
  <2>. QED  BY <2>1, <2>2 DEF Contexts, ClosureFollowsCall
<1>3. OneGeneration'
  <2>1. CASE UNCHANGED contextVars
    BY <2>1 DEF Contexts, ClosureFollowsCall, OneGeneration, contextVars
  <2>2. CASE ~UNCHANGED contextVars
    BY <1>1, <2>2 DEF Contexts, OneGeneration, Invalidated
  <2>. QED  BY <2>1, <2>2
<1>4. NoOrphan' /\ ClosingTracked'
  <2>1. CASE UNCHANGED contextVars
    BY <2>1 DEF Contexts, NoOrphan, ClosingTracked, contextVars
  <2>2. CASE ~UNCHANGED contextVars
    BY <1>1, <2>2, NoneAssumption DEF Contexts, NoOrphan, ClosingTracked, Invalidated, TypeOK
  <2>. QED  BY <2>1, <2>2
<1>5. CutIsStale'
  BY <1>1 DEF Contexts, CutIsStale, TypeOK
<1>6. PageOwned'
  <2>1. \A e \in Extraction : browser'[e] # "closed" => browser[e] # "closed"
    BY <1>1, NoneAssumption DEF Contexts, NoOrphan, contextVars, TypeOK
  <2>. QED  BY <1>1, <2>1 DEF Contexts, ClosureFollowsCall, PageOwned
<1>7. Isolation'
  BY <1>1 DEF Contexts, Isolation
<1>. QED  BY <1>2, <1>3, <1>4, <1>5, <1>6, <1>7 DEF Contexts

(* The lease, the end of an extraction, close(), and a second stop. *)
LEMMA LeaseContexts ==
    ASSUME TypeOK, QueueExact, Contexts, TypeOK',
           \/ \E e \in Extraction :
                 \/ Acquire(e) \/ WaiterAborted(e) \/ Release(e) \/ Abort(e)
                 \/ EndExtraction(e) \/ GuardStopsAgain(e)
           \/ Close \/ CloseResolves \/ UNCHANGED vars
    PROVE  Contexts'
<1>1. ASSUME NEW e \in Extraction, Acquire(e)
      PROVE  Contexts'
  <2>1. caller[e] = "idle" /\ \E l \in {"done", "acquired", "waiting"} : CallerTo(e, l)
    BY <1>1 DEF Acquire
  <2>2. UNCHANGED <<callerAwaits, nav, navAwaits, contextVars, opOn, cut>>
    BY <1>1 DEF Acquire
  <2>. QED  BY <2>1, <2>2, CallMoves DEF CallerTo, TypeOK
<1>2. ASSUME NEW e \in Extraction, WaiterAborted(e)
      PROVE  Contexts'
  <2>1. /\ caller[e] = "waiting" /\ CallerTo(e, "done")
        /\ UNCHANGED <<callerAwaits, nav, navAwaits, contextVars, opOn, cut>>
    BY <1>2 DEF WaiterAborted
  <2>. QED  BY <2>1, CallMoves DEF CallerTo, TypeOK
<1>3. ASSUME NEW e \in Extraction, Release(e)
      PROVE  Contexts'
  <2>1. /\ caller[e] = "ending"
        /\ UNCHANGED <<callerAwaits, nav, navAwaits, contextVars, opOn, cut>>
    BY <1>3 DEF Release
  <2>2. PICK k \in 1..(Len(waiters) + 1) :
           caller' = [x \in Extraction |->
                         IF x = e \/ \E i \in 1..(k - 1) : waiters[i] = x THEN "done"
                         ELSE IF k <= Len(waiters) /\ waiters[k] = x THEN "acquired"
                         ELSE caller[x]]
    BY <1>3 DEF Release
  <2>3. Len(waiters) \in Nat
    BY LenProperties DEF TypeOK
  <2>4. \A x \in Extraction : \A i \in 1..Len(waiters) : waiters[i] = x => caller[x] = "waiting"
    BY DEF QueueExact
  <2>5. \A i \in 1..(k - 1) : i \in 1..Len(waiters)
    BY <2>3
  <2>6. k <= Len(waiters) => k \in 1..Len(waiters)
    BY <2>3
  <2>7. ASSUME NEW x \in Extraction
        PROVE  \/ caller'[x] = caller[x]
               \/ caller[x] = "waiting" /\ caller'[x] \in {"acquired", "done"}
               \/ caller[x] = "ending" /\ caller'[x] = "done"
    BY <2>1, <2>2, <2>4, <2>5, <2>6
  <2>. QED  BY <2>1, <2>7, CallMoves
<1>4. ASSUME (\E e \in Extraction : Abort(e)) \/ CloseResolves \/ UNCHANGED vars
      PROVE  Contexts'
  <2>1. UNCHANGED <<caller, callerAwaits, nav, navAwaits, contextVars, opOn, cut>>
    BY <1>4 DEF Abort, CloseResolves, vars
  <2>. QED  BY <2>1, CallMoves
<1>5. ASSUME NEW e \in Extraction, EndExtraction(e)
      PROVE  Contexts'
  <2>1. /\ caller[e] = "ready" /\ CallerTo(e, "ending")
        /\ UNCHANGED <<callerAwaits, nav, navAwaits, contextVars, opOn, cut>>
    BY <1>5 DEF EndExtraction
  <2>. QED  BY <2>1, CallMoves DEF CallerTo, TypeOK
<1>6. ASSUME NEW e \in Extraction, GuardStopsAgain(e)
      PROVE  Contexts'
  BY <1>6, CallMoves DEF GuardStopsAgain
<1>7. CASE Close
  <2>1. /\ Invalidate /\ UNCHANGED <<callerAwaits, nav, navAwaits, opOn, cut>>
        /\ caller' = [x \in Extraction |->
                         IF \E i \in 1..Len(waiters) : waiters[i] = x THEN "done"
                         ELSE caller[x]]
    BY <1>7 DEF Close
  <2>2. \A x \in Extraction :
           \/ caller'[x] = caller[x]
           \/ caller[x] = "waiting" /\ caller'[x] = "done"
    BY <2>1 DEF QueueExact
  <2>. QED  BY <2>1, <2>2, CallMoves
<1>. QED  BY <1>1, <1>2, <1>3, <1>4, <1>5, <1>6, <1>7

(* A call that fails in its catch clause takes the generation with it. *)
LEMMA FailContexts ==
    ASSUME TypeOK, OneHolder, Contexts, TypeOK', NEW e \in Extraction,
           FailNavigation(e), UNCHANGED opOn,
           caller[e] \in {"acquired", "navigating", "navStopped"},
           nav[e] # "invalidating",
           \/ UNCHANGED <<nav, navAwaits>>
           \/ NavTo(e, "ended") /\ UNCHANGED navAwaits
              /\ (nav[e] = "discarding" => browser[e] = "closed")
    PROVE  Contexts'
<1>1. /\ fresh' = {} /\ context' = None /\ page' \in {None, page} /\ closing' = Invalidated
      /\ browser' = [c \in Extraction |-> IF c = context THEN "closing" ELSE browser[c]]
      /\ context # None => closing = None /\ Invalidated = context
  BY Invalidates DEF Contexts, FailNavigation
<1>2. /\ callerAwaits' = [callerAwaits EXCEPT ![e] = Invalidated]
      /\ caller' = [caller EXCEPT ![e] = "navFailed"] /\ cut' = cut \cup {e}
  BY DEF FailNavigation, CallerTo
<1>3. /\ navAwaits' = navAwaits
      /\ \A d \in Extraction : nav'[d] = nav[d] \/ (d = e /\ nav'[d] = "ended")
  <2>1. CASE UNCHANGED <<nav, navAwaits>>
    BY <2>1
  <2>2. CASE NavTo(e, "ended") /\ UNCHANGED navAwaits
    <3>1. nav \in [Extraction -> Closures]
      BY DEF TypeOK
    <3>. QED  BY <2>2, <3>1 DEF NavTo
  <2>. QED  BY <2>1, <2>2
<1>4. \A d \in Extraction :
         /\ caller'[d] = IF d = e THEN "navFailed" ELSE caller[d]
         /\ callerAwaits'[d] = IF d = e THEN Invalidated ELSE callerAwaits[d]
         /\ browser'[d] = IF d = context THEN "closing" ELSE browser[d]
  BY <1>1, <1>2 DEF TypeOK
<1>5. \A d \in Extraction : browser[d] = "open" <=> context = d
  BY DEF Contexts, NoOrphan
<1>6. ClosureFollowsCall'
  BY <1>3, <1>4, <1>5 DEF Contexts, ClosureFollowsCall
<1>7. OneGeneration'
  BY <1>1, <1>3 DEF Contexts, OneGeneration, Invalidated
<1>8. NoOrphan'
  BY <1>1, <1>4, <1>5, NoneAssumption DEF NoOrphan
<1>9. ClosingTracked'
  <2>1. closing' # None => browser'[closing'] = "closing"
    BY <1>1, <1>4, NoneAssumption DEF Contexts, ClosingTracked, Invalidated, TypeOK
  <2>2. ASSUME NEW c \in Extraction, browser'[c] = "closing", nav'[c] # "discarding"
        PROVE  closing' = c
    <3>1. nav[c] # "discarding" \/ browser[c] = "closed"
      BY <1>3, <2>2
    <3>2. CASE context = c
      BY <1>1, <3>2, NoneAssumption
    <3>3. CASE context # c
      BY <1>1, <1>4, <2>2, <3>1, <3>3, NoneAssumption DEF Contexts, ClosingTracked, Invalidated
    <3>. QED  BY <3>2, <3>3
  <2>. QED  BY <2>1, <2>2 DEF ClosingTracked
<1>10. CutIsStale'
  BY <1>1, <1>2, <1>4 DEF Contexts, CutIsStale, TypeOK
<1>11. PageOwned'
  <2>1. ASSUME NEW d \in Extraction, nav'[d] = "preparing", browser'[d] # "closed"
        PROVE  /\ caller'[d] \in {"navigating", "navStopped", "navFailed"}
               /\ caller'[d] = "navFailed" => callerAwaits'[d] = d
    <3>1. nav[d] = "preparing" /\ browser[d] # "closed"
      BY <1>3, <1>4, <1>5, <2>1
    <3>2. CASE d # e
      BY <1>4, <3>1, <3>2 DEF Contexts, PageOwned
    <3>3. CASE d = e
      <4>1. browser[d] \in {"open", "closing"}
        BY <3>1 DEF Contexts, ClosureFollowsCall, TypeOK
      <4>2. Invalidated = d
        BY <1>1, <1>5, <3>1, <4>1, NoneAssumption DEF Contexts, ClosingTracked, Invalidated
      <4>. QED  BY <1>4, <3>3, <4>2
    <3>. QED  BY <3>2, <3>3
  <2>2. \A d \in Extraction : nav'[d] = "loading" /\ caller'[d] = "navigating" =>
                                 page' \in {None, d}
    BY <1>1, <1>3, <1>4 DEF Contexts, PageOwned
  <2>. QED  BY <2>1, <2>2 DEF PageOwned
<1>12. Isolation'
  BY <1>1, <1>4 DEF Contexts, Isolation
<1>. QED
  BY <1>6, <1>7, <1>8, <1>9, <1>10, <1>11, <1>12 DEF Contexts

(* The beginning of a navigation: a new generation, nothing of it yet. *)
LEMMA NavigateContexts ==
    ASSUME TypeOK, OneHolder, Contexts, TypeOK', NEW e \in Extraction, Navigate(e)
    PROVE  Contexts'
<1>1. caller[e] = "acquired" /\ nav[e] = "none" /\ UNCHANGED opOn
  BY DEF Navigate, Contexts, ClosureFollowsCall
<1>2. CASE closed
  <2>1. /\ CallerTo(e, "ending")
        /\ UNCHANGED <<callerAwaits, nav, navAwaits, contextVars, opOn, cut>>
    BY <1>2 DEF Navigate
  <2>. QED  BY <1>1, <2>1, CallMoves DEF CallerTo, TypeOK
<1>3. CASE ~closed /\ e \in aborted
  <2>1. FailNavigation(e) /\ UNCHANGED <<nav, navAwaits>>
    BY <1>3 DEF Navigate
  <2>. QED  BY <1>1, <2>1, FailContexts
<1>4. CASE ~closed /\ e \notin aborted
  <2>1. /\ Invalidate /\ UNCHANGED <<callerAwaits, cut>>
        /\ caller' = [caller EXCEPT ![e] = "navigating"]
        /\ nav' = [nav EXCEPT ![e] = "invalidating"]
        /\ navAwaits' = [navAwaits EXCEPT ![e] = Invalidated]
    BY <1>4 DEF Navigate, CallerTo, NavTo
  <2>2. /\ fresh' = {} /\ context' = None /\ page' \in {None, page}
        /\ closing' = Invalidated
        /\ browser' = [c \in Extraction |-> IF c = context THEN "closing" ELSE browser[c]]
        /\ context # None => closing = None /\ Invalidated = context
    BY <2>1, Invalidates DEF Contexts
  <2>3. \A d \in Extraction :
           /\ caller'[d] = IF d = e THEN "navigating" ELSE caller[d]
           /\ nav'[d] = IF d = e THEN "invalidating" ELSE nav[d]
           /\ navAwaits'[d] = IF d = e THEN Invalidated ELSE navAwaits[d]
           /\ browser'[d] = IF d = context THEN "closing" ELSE browser[d]
    BY <2>1, <2>2 DEF TypeOK
  <2>4. \A d \in Extraction : browser[d] = "open" <=> context = d
    BY DEF Contexts, NoOrphan
  <2>5. browser[e] = "none" /\ context # e /\ closing # e
    BY <1>1, <2>4, NoneAssumption DEF Contexts, ClosureFollowsCall, ClosingTracked
  <2>6. ClosureFollowsCall'
    BY <2>3, <2>4, <2>5 DEF Contexts, ClosureFollowsCall
  <2>7. OneGeneration'
    BY <2>2, <2>3 DEF Contexts, OneGeneration, Invalidated
  <2>8. NoOrphan'
    BY <2>2, <2>3, <2>4, NoneAssumption DEF NoOrphan
  <2>9. ClosingTracked'
    BY <2>2, <2>3, <2>5, NoneAssumption DEF Contexts, ClosingTracked, Invalidated, TypeOK
  <2>10. CutIsStale'
    BY <1>1, <2>1, <2>2, <2>3 DEF Contexts, CutIsStale, TypeOK
  <2>11. PageOwned' /\ Isolation'
    BY <1>1, <2>1, <2>2, <2>3, <2>4 DEF Contexts, PageOwned, Isolation
  <2>. QED  BY <2>6, <2>7, <2>8, <2>9, <2>10, <2>11 DEF Contexts
<1>. QED  BY <1>2, <1>3, <1>4

(* The failed navigation has awaited the closing of its own context, so    *)
(* its closure can no longer set #page.                                    *)
LEMMA ThrowContexts ==
    ASSUME TypeOK, Contexts, NEW e \in Extraction, NavigateThrows(e)
    PROVE  Contexts'
<1>1. /\ caller[e] = "navFailed" /\ Settled(callerAwaits[e])
      /\ caller' = [caller EXCEPT ![e] = "ending"]
      /\ UNCHANGED <<callerAwaits, nav, navAwaits, contextVars, opOn, cut>>
  BY DEF NavigateThrows, CallerTo
<1>2. \A d \in Extraction : caller'[d] = IF d = e THEN "ending" ELSE caller[d]
  BY <1>1 DEF TypeOK
<1>3. nav[e] = "preparing" => browser[e] = "closed"
  BY <1>1, NoneAssumption DEF Contexts, PageOwned, Settled
<1>4. ClosureFollowsCall' /\ OneGeneration' /\ NoOrphan' /\ ClosingTracked'
  BY <1>1, <1>2 DEF Contexts, ClosureFollowsCall, OneGeneration, NoOrphan, ClosingTracked,
     contextVars
<1>5. CutIsStale' /\ Isolation'
  BY <1>1, <1>2 DEF Contexts, CutIsStale, Isolation, contextVars, TypeOK
<1>6. PageOwned'
  BY <1>1, <1>2, <1>3 DEF Contexts, PageOwned, contextVars
<1>. QED  BY <1>4, <1>5, <1>6 DEF Contexts

(* The closure takes the generation once no context is being closed. *)
LEMMA CreateContexts ==
    ASSUME TypeOK, OneHolder, Contexts, NEW e \in Extraction, NavCreate(e)
    PROVE  Contexts'
<1>1. /\ nav[e] = "invalidating" /\ Settled(navAwaits[e])
      /\ nav' = [nav EXCEPT ![e] = "creating"] /\ fresh' = fresh \cup {e}
      /\ UNCHANGED <<caller, callerAwaits, navAwaits, context, page, closing, browser,
                     opOn, cut>>
  BY DEF NavCreate, NavTo
<1>2. \A d \in Extraction : nav'[d] = IF d = e THEN "creating" ELSE nav[d]
  BY <1>1 DEF TypeOK
<1>3. fresh = {} /\ closing = None /\ context = None
  <2>1. fresh = {} /\ closing \in {None, navAwaits[e]}
    BY <1>1 DEF Contexts, OneGeneration
  <2>2. closing = None
    BY <1>1, <2>1 DEF Contexts, ClosingTracked, Settled
  <2>. QED  BY <2>1, <2>2 DEF Contexts, OneGeneration
<1>4. /\ caller[e] \in {"navigating", "navStopped"}
      /\ \A d \in Extraction : d # e => nav[d] # "invalidating"
  <2>1. \A d \in Extraction : nav[d] = "invalidating" => caller[d] \in {"navigating", "navStopped"}
    BY DEF Contexts, ClosureFollowsCall
  <2>2. {"navigating", "navStopped"} \subseteq Holding
    BY DEF Holding, Calls
  <2>. QED  BY <1>1, <2>1, <2>2 DEF OneHolder
<1>5. ClosureFollowsCall'
  BY <1>1, <1>2, <1>4 DEF Contexts, ClosureFollowsCall
<1>6. OneGeneration'
  BY <1>1, <1>2, <1>3, <1>4 DEF OneGeneration
<1>7. NoOrphan' /\ ClosingTracked'
  BY <1>1, <1>2 DEF Contexts, NoOrphan, ClosingTracked
<1>8. CutIsStale'
  BY <1>1, <1>4 DEF Contexts, CutIsStale, TypeOK
<1>9. PageOwned' /\ Isolation'
  BY <1>1, <1>2 DEF Contexts, PageOwned, Isolation
<1>. QED  BY <1>5, <1>6, <1>7, <1>8, <1>9 DEF Contexts

(* newContext resolves: the context becomes #context, where there is none, *)
(* or is discarded.                                                        *)
LEMMA CreatedContexts ==
    ASSUME TypeOK, Contexts, NEW e \in Extraction, NavCreated(e)
    PROVE  Contexts'
<1>1. /\ nav[e] = "creating" /\ browser[e] = "none"
      /\ UNCHANGED <<caller, callerAwaits, navAwaits, fresh, page, closing, opOn, cut>>
  BY DEF NavCreated, Contexts, ClosureFollowsCall
<1>2. closing # e /\ context # e
  BY <1>1, NoneAssumption DEF Contexts, ClosingTracked, NoOrphan
<1>3. CASE e \in fresh
  <2>1. /\ context' = e /\ browser' = [browser EXCEPT ![e] = "open"]
        /\ nav' = [nav EXCEPT ![e] = "preparing"]
    BY <1>3 DEF NavCreated, NavTo
  <2>2. \A d \in Extraction :
           /\ nav'[d] = IF d = e THEN "preparing" ELSE nav[d]
           /\ browser'[d] = IF d = e THEN "open" ELSE browser[d]
    BY <2>1 DEF TypeOK
  <2>3. context = None /\ closing = None
    BY <1>2, <1>3 DEF Contexts, OneGeneration
  <2>4. caller[e] \in {"navigating", "navStopped"}
    BY <1>1, <1>3 DEF Contexts, OneGeneration
  <2>5. ClosureFollowsCall'
    BY <1>1, <2>2, <2>4 DEF Contexts, ClosureFollowsCall
  <2>6. OneGeneration'
    BY <1>1, <1>3, <2>1, <2>2 DEF Contexts, OneGeneration
  <2>7. NoOrphan'
    BY <2>1, <2>2, <2>3, NoneAssumption DEF Contexts, NoOrphan
  <2>8. ClosingTracked'
    BY <1>1, <2>2, <2>3 DEF Contexts, ClosingTracked
  <2>9. CutIsStale' /\ Isolation'
    BY <1>1 DEF Contexts, CutIsStale, Isolation
  <2>10. PageOwned'
    BY <1>1, <2>2, <2>4 DEF Contexts, PageOwned
  <2>. QED  BY <2>5, <2>6, <2>7, <2>8, <2>9, <2>10 DEF Contexts
<1>4. CASE e \notin fresh
  <2>1. /\ UNCHANGED context /\ browser' = [browser EXCEPT ![e] = "closing"]
        /\ nav' = [nav EXCEPT ![e] = "discarding"]
    BY <1>4 DEF NavCreated, NavTo
  <2>2. \A d \in Extraction :
           /\ nav'[d] = IF d = e THEN "discarding" ELSE nav[d]
           /\ browser'[d] = IF d = e THEN "closing" ELSE browser[d]
    BY <2>1 DEF TypeOK
  <2>3. ClosureFollowsCall'
    BY <1>1, <2>2 DEF Contexts, ClosureFollowsCall
  <2>4. OneGeneration'
    BY <1>1, <1>4, <2>1, <2>2 DEF Contexts, OneGeneration
  <2>5. NoOrphan'
    BY <1>2, <2>1, <2>2 DEF Contexts, NoOrphan
  <2>6. ClosingTracked'
    <3>1. closing \in Extraction \cup {None}
      BY DEF TypeOK
    <3>. QED  BY <1>1, <1>2, <2>2, <3>1 DEF Contexts, ClosingTracked
  <2>7. CutIsStale' /\ Isolation'
    BY <1>1 DEF Contexts, CutIsStale, Isolation
  <2>8. PageOwned'
    BY <1>1, <2>2 DEF Contexts, PageOwned
  <2>. QED  BY <2>3, <2>4, <2>5, <2>6, <2>7, <2>8 DEF Contexts
<1>. QED  BY <1>3, <1>4

(* #page is assigned while the navigation's call still has the lease. *)
LEMMA PageContexts ==
    ASSUME TypeOK, OneHolder, Contexts, NEW e \in Extraction, NavPage(e)
    PROVE  Contexts'
<1>1. /\ nav[e] = "preparing" /\ browser[e] \in {"open", "closing"} /\ page' = e
      /\ nav' = [nav EXCEPT ![e] = "loading"]
      /\ UNCHANGED <<caller, callerAwaits, navAwaits, fresh, context, closing, browser,
                     opOn, cut>>
  BY DEF NavPage, NavTo
<1>2. \A d \in Extraction : nav'[d] = IF d = e THEN "loading" ELSE nav[d]
  BY <1>1 DEF TypeOK
<1>3. caller[e] \in Holding
  <2>1. caller[e] \in {"navigating", "navStopped", "navFailed"}
    BY <1>1 DEF Contexts, PageOwned
  <2>. QED  BY <2>1 DEF Holding, Calls
<1>4. \A d \in Extraction :
         caller[d] \in {"navigating", "ready", "operating", "opStopped"} => d = e
  <2>1. {"navigating", "ready", "operating", "opStopped"} \subseteq Holding
    BY DEF Holding, Calls
  <2>. QED  BY <1>3, <2>1 DEF OneHolder
<1>5. ClosureFollowsCall' /\ OneGeneration'
  BY <1>1, <1>2 DEF Contexts, ClosureFollowsCall, OneGeneration
<1>6. NoOrphan' /\ ClosingTracked' /\ CutIsStale'
  BY <1>1, <1>2 DEF Contexts, NoOrphan, ClosingTracked, CutIsStale
<1>7. PageOwned'
  BY <1>1, <1>2, <1>4 DEF Contexts, PageOwned
<1>8. Isolation'
  BY <1>1, <1>4 DEF Contexts, Isolation
<1>. QED  BY <1>5, <1>6, <1>7, <1>8 DEF Contexts

(* goto resolves in the page of this navigation. *)
LEMMA LoadedContexts ==
    ASSUME TypeOK, Contexts, NEW e \in Extraction, NavLoaded(e)
    PROVE  Contexts'
<1>1. /\ nav[e] = "loading" /\ nav' = [nav EXCEPT ![e] = "ended"]
      /\ \/ caller[e] = "navigating" /\ caller' = [caller EXCEPT ![e] = "ready"]
         \/ UNCHANGED caller
      /\ UNCHANGED <<callerAwaits, navAwaits, contextVars, opOn, cut>>
  BY DEF NavLoaded, NavTo, CallerTo
<1>2. \A d \in Extraction :
         /\ nav'[d] = IF d = e THEN "ended" ELSE nav[d]
         /\ \/ caller'[d] = caller[d]
            \/ d = e /\ caller[d] = "navigating" /\ caller'[d] = "ready"
  BY <1>1 DEF TypeOK
<1>3. ClosureFollowsCall'
  BY <1>1, <1>2 DEF Contexts, ClosureFollowsCall, contextVars
<1>4. OneGeneration'
  BY <1>1, <1>2 DEF Contexts, OneGeneration, contextVars
<1>5. NoOrphan' /\ ClosingTracked'
  BY <1>1, <1>2 DEF Contexts, NoOrphan, ClosingTracked, contextVars
<1>6. CutIsStale'
  BY <1>1, <1>2 DEF Contexts, CutIsStale, contextVars, TypeOK
<1>7. PageOwned' /\ Isolation'
  BY <1>1, <1>2 DEF Contexts, PageOwned, Isolation, contextVars
<1>. QED  BY <1>3, <1>4, <1>5, <1>6, <1>7 DEF Contexts

(* The closure fails, with its call or after it. *)
LEMMA FailsContexts ==
    ASSUME TypeOK, OneHolder, Contexts, TypeOK', NEW e \in Extraction, NavFails(e)
    PROVE  Contexts'
<1>1. /\ nav[e] \in {"creating", "preparing", "loading", "discarding"}
      /\ nav[e] = "discarding" => browser[e] = "closed"
      /\ NavTo(e, "ended") /\ UNCHANGED <<navAwaits, opOn>>
  BY DEF NavFails
<1>2. CASE caller[e] = "navigating"
  <2>1. FailNavigation(e)
    BY <1>2 DEF NavFails
  <2>. QED  BY <1>1, <1>2, <2>1, FailContexts
<1>3. CASE caller[e] # "navigating"
  <2>1. UNCHANGED <<caller, callerAwaits, contextVars, cut>>
    BY <1>3 DEF NavFails
  <2>2. \A d \in Extraction : nav'[d] = IF d = e THEN "ended" ELSE nav[d]
    BY <1>1 DEF NavTo, TypeOK
  <2>3. ClosureFollowsCall' /\ OneGeneration'
    BY <1>1, <2>1, <2>2 DEF Contexts, ClosureFollowsCall, OneGeneration, contextVars
  <2>4. NoOrphan' /\ ClosingTracked'
    BY <1>1, <2>1, <2>2 DEF Contexts, NoOrphan, ClosingTracked, contextVars
  <2>5. CutIsStale' /\ PageOwned' /\ Isolation'
    BY <1>1, <2>1, <2>2 DEF Contexts, CutIsStale, PageOwned, Isolation, contextVars
  <2>. QED  BY <2>3, <2>4, <2>5 DEF Contexts
<1>. QED  BY <1>2, <1>3

(* A context is closed, #closing with it. *)
LEMMA ClosedContexts ==
    ASSUME TypeOK, Contexts, NEW e \in Extraction, ContextClosed(e)
    PROVE  Contexts'
<1>1. /\ browser[e] = "closing" /\ browser' = [browser EXCEPT ![e] = "closed"]
      /\ closing' = IF closing = e THEN None ELSE closing
      /\ UNCHANGED <<caller, callerAwaits, nav, navAwaits, fresh, context, page, opOn, cut>>
  BY DEF ContextClosed
<1>2. \A d \in Extraction : browser'[d] = IF d = e THEN "closed" ELSE browser[d]
  BY <1>1 DEF TypeOK
<1>3. ClosureFollowsCall' /\ OneGeneration'
  BY <1>1, <1>2 DEF Contexts, ClosureFollowsCall, OneGeneration
<1>4. NoOrphan'
  BY <1>1, <1>2 DEF Contexts, NoOrphan
<1>5. ClosingTracked'
  BY <1>1, <1>2 DEF Contexts, ClosingTracked, TypeOK
<1>6. CutIsStale' /\ PageOwned' /\ Isolation'
  BY <1>1, <1>2 DEF Contexts, CutIsStale, PageOwned, Isolation
<1>. QED  BY <1>3, <1>4, <1>5, <1>6 DEF Contexts

(* An operation starts in #page, which is its extraction's, and ends. *)
LEMMA OperationContexts ==
    ASSUME TypeOK, Contexts, NEW e \in Extraction,
           Operate(e) \/ OperationEnds(e) \/ OpCleaned(e)
    PROVE  Contexts'
<1>1. /\ caller[e] \in {"ready", "operating", "opStopped"}
      /\ \E l \in {"ready", "operating"} : caller' = [caller EXCEPT ![e] = l]
      /\ \E c \in {None, page} : opOn' = [opOn EXCEPT ![e] = c]
      /\ UNCHANGED <<callerAwaits, nav, navAwaits, contextVars, cut>>
  BY DEF Operate, OperationEnds, OpCleaned, CallerTo
<1>2. \A d \in Extraction :
         /\ d = e => caller'[d] \in {"ready", "operating"} /\ opOn'[d] \in {None, page}
         /\ d # e => caller'[d] = caller[d] /\ opOn'[d] = opOn[d]
  BY <1>1 DEF TypeOK
<1>3. ClosureFollowsCall' /\ OneGeneration'
  BY <1>1, <1>2 DEF Contexts, ClosureFollowsCall, OneGeneration, contextVars
<1>4. NoOrphan' /\ ClosingTracked'
  BY <1>1 DEF Contexts, NoOrphan, ClosingTracked, contextVars
<1>5. CutIsStale'
  BY <1>1, <1>2 DEF Contexts, CutIsStale, contextVars, TypeOK
<1>6. PageOwned' /\ Isolation'
  BY <1>1, <1>2 DEF Contexts, PageOwned, Isolation, contextVars
<1>. QED  BY <1>3, <1>4, <1>5, <1>6 DEF Contexts

(* The guard stops a call: a new generation at once. *)
LEMMA StopContexts ==
    ASSUME TypeOK, Contexts, NEW e \in Extraction, GuardStops(e)
    PROVE  Contexts'
<1>1. /\ fresh' = {} /\ context' = None /\ page' \in {None, page} /\ closing' = Invalidated
      /\ browser' = [c \in Extraction |-> IF c = context THEN "closing" ELSE browser[c]]
      /\ context # None => closing = None /\ Invalidated = context
  BY Invalidates DEF Contexts, GuardStops
<1>2. /\ callerAwaits' = [callerAwaits EXCEPT ![e] = Invalidated] /\ cut' = cut \cup {e}
      /\ UNCHANGED <<nav, navAwaits, opOn>>
      /\ \/ caller[e] = "navigating" /\ caller' = [caller EXCEPT ![e] = "navStopped"]
         \/ caller[e] = "operating" /\ caller' = [caller EXCEPT ![e] = "opStopped"]
  BY DEF GuardStops, CallerTo
<1>3. \A d \in Extraction :
         /\ d # e => caller'[d] = caller[d] /\ callerAwaits'[d] = callerAwaits[d]
         /\ d = e => \/ caller[d] = "navigating" /\ caller'[d] = "navStopped"
                     \/ caller[d] = "operating" /\ caller'[d] = "opStopped"
         /\ browser'[d] = IF d = context THEN "closing" ELSE browser[d]
  BY <1>1, <1>2 DEF TypeOK
<1>4. \A d \in Extraction : browser[d] = "open" <=> context = d
  BY DEF Contexts, NoOrphan
<1>5. ClosureFollowsCall'
  BY <1>2, <1>3, <1>4 DEF Contexts, ClosureFollowsCall
<1>6. OneGeneration'
  BY <1>1, <1>2 DEF Contexts, OneGeneration, Invalidated
<1>7. NoOrphan'
  BY <1>1, <1>3, <1>4, NoneAssumption DEF NoOrphan
<1>8. ClosingTracked'
  BY <1>1, <1>2, <1>3, NoneAssumption DEF Contexts, ClosingTracked, Invalidated, TypeOK
<1>9. CutIsStale'
  BY <1>1, <1>2, <1>3 DEF Contexts, CutIsStale, TypeOK
<1>10. PageOwned' /\ Isolation'
  BY <1>1, <1>2, <1>3, <1>4 DEF Contexts, PageOwned, Isolation
<1>. QED  BY <1>5, <1>6, <1>7, <1>8, <1>9, <1>10 DEF Contexts

-----------------------------------------------------------------------------
(* The strengthening under the theorems below is inductive. *)
THEOREM Inductive == Spec => []IInv
<1>1. Init => IInv
  <2> SUFFICES ASSUME Init PROVE IInv
    OBVIOUS
  <2>1. waiters = <<>> /\ Len(waiters) = 0
    BY EmptySeq DEF Init
  <2>2. TypeOK
    BY EmptySeq DEF Init, TypeOK, Calls, Closures
  <2>3. QueueExact /\ OneHolder
    BY <2>1 DEF Init, QueueExact, OneHolder, Holding
  <2>4. ClosureFollowsCall /\ OneGeneration /\ NoOrphan /\ ClosingTracked
    BY NoneAssumption DEF Init, ClosureFollowsCall, OneGeneration, NoOrphan, ClosingTracked
  <2>5. CutIsStale /\ PageOwned /\ Isolation
    BY DEF Init, CutIsStale, PageOwned, Isolation
  <2>. QED  BY <2>2, <2>3, <2>4, <2>5 DEF IInv
<1>2. IInv /\ [Next]_vars => IInv'
  <2> SUFFICES ASSUME IInv, [Next]_vars PROVE IInv'
    OBVIOUS
  <2>1. TypeOK /\ QueueExact /\ OneHolder /\ OneGeneration /\ Contexts
    BY DEF IInv, Contexts
  <2>2. TypeOK'
    BY <2>1, TypeStep
  <2>3. QueueExact' /\ OneHolder'
    BY <2>1, QueueStep
  <2>4. ASSUME NEW e \in Extraction, NavCleaned(e)
        PROVE  Contexts'
    BY <2>1, <2>2, <2>4, FailContexts DEF NavCleaned
  <2>5. ASSUME NEW e \in Extraction, NavStep(e) \/ ContextClosed(e)
        PROVE  Contexts'
    BY <2>1, <2>2, <2>5, CreateContexts, CreatedContexts, PageContexts, LoadedContexts,
       FailsContexts, ClosedContexts DEF NavStep
  <2>6. ASSUME NEW e \in Extraction,
               \/ Acquire(e) \/ Abort(e) \/ WaiterAborted(e) \/ Progress(e)
               \/ Operate(e) \/ OperationEnds(e) \/ GuardAbort(e) \/ GuardStopsAgain(e)
        PROVE  Contexts'
    BY <2>1, <2>2, <2>4, <2>6, LeaseContexts, NavigateContexts, ThrowContexts,
       StopContexts, OperationContexts DEF Progress, GuardTimeout, GuardAbort
  <2>7. ASSUME Close \/ CloseResolves \/ UNCHANGED vars
        PROVE  Contexts'
    BY <2>1, <2>2, <2>7, LeaseContexts
  <2>8. Contexts'
    BY <2>5, <2>6, <2>7 DEF Next
  <2>. QED  BY <2>2, <2>3, <2>8 DEF IInv, Contexts
<1>. QED  BY <1>1, <1>2, PTL DEF Spec

(* Every variable keeps its type. *)
THEOREM TypeCorrect == Spec => []TypeOK
<1>1. IInv => TypeOK
  BY DEF IInv
<1>. QED  BY <1>1, Inductive, PTL

(* #leaseHeld and #leaseWaiters tell the truth (index.ts:70-78): the flag  *)
(* is set exactly while an extraction holds the lease, and the queue holds *)
(* each waiting extraction once.                                           *)
THEOREM QueueIsExact == Spec => []QueueExact
<1>1. IInv => QueueExact
  BY DEF IInv
<1>. QED  BY <1>1, Inductive, PTL

(* An operation works in the context that its own extraction's navigation  *)
(* made, whatever a navigation cut short leaves in #page.                  *)
THEOREM ExtractionsIsolated == Spec => []Isolation
<1>1. IInv => Isolation
  BY DEF IInv
<1>. QED  BY <1>1, Inductive, PTL

(* The adapter never loses an open context: the next #invalidate closes it. *)
THEOREM NoContextOrphaned == Spec => []NoOrphan
<1>1. IInv => NoOrphan
  BY DEF IInv
<1>. QED  BY <1>1, Inductive, PTL

(* The context of a navigation or operation that was cut short is gone for *)
(* good once its extraction has got its error.                             *)
THEOREM CutIsClosed == Spec => []CutStaysClosed
<1>1. IInv => CutStaysClosed
  BY NoneAssumption DEF IInv, NoOrphan, OneGeneration, CutIsStale, CutStaysClosed, TypeOK
<1>. QED  BY <1>1, Inductive, PTL

-----------------------------------------------------------------------------
(* The lease goes to the first live waiter: only Release gives it to one   *)
(* that waits, and those in front of it had their signals fired.           *)
THEOREM FirstLiveWaiterNext == Spec => NoOvertaking
<1> DEFINE Overtakes ==
       \A i, j \in 1..Len(waiters) :
          i < j /\ caller'[waiters[j]] = "acquired" => waiters[i] \in aborted
<1>1. IInv /\ [Next]_vars => [Overtakes]_vars
  <2> SUFFICES ASSUME IInv, Next,
                      NEW i \in 1..Len(waiters), NEW j \in 1..Len(waiters),
                      i < j, caller'[waiters[j]] = "acquired"
               PROVE  waiters[i] \in aborted
    OBVIOUS
  <2>1. TypeOK /\ QueueExact
    BY DEF IInv
  <2>2. waiters[j] \in Extraction /\ caller[waiters[j]] = "waiting"
    BY <2>1, ElementOfSeq DEF TypeOK, QueueExact
  <2>3. ASSUME NEW e \in Extraction, Release(e)
        PROVE  waiters[i] \in aborted
    <3>1. PICK k \in 1..(Len(waiters) + 1) :
             \A x \in 1..Len(waiters) :
                /\ x < k => waiters[x] \in aborted
                /\ caller'[waiters[x]] = IF x < k THEN "done"
                                         ELSE IF x = k THEN "acquired" ELSE "waiting"
      BY <2>1, <2>3, ReleaseMoves
    <3>2. j = k
      BY <3>1
    <3>. QED  BY <3>1, <3>2
  <2>4. ASSUME NEW e \in Extraction,
               \/ Acquire(e) \/ Abort(e) \/ WaiterAborted(e) \/ Navigate(e)
               \/ NavigateThrows(e) \/ GuardTimeout(e) \/ NavCleaned(e) \/ OpCleaned(e)
               \/ EndExtraction(e)
        PROVE  caller'[waiters[j]] # "acquired"
    <3>1. \/ UNCHANGED caller
          \/ /\ caller[e] # "waiting"
             /\ \E l \in Calls : CallerTo(e, l)
          \/ CallerTo(e, "done")
      BY <2>4 DEF Acquire, Abort, WaiterAborted, Navigate, NavigateThrows, GuardTimeout,
         GuardStops, NavCleaned, OpCleaned, EndExtraction, FailNavigation, CallerTo, Calls
    <3>. QED  BY <2>1, <2>2, <3>1 DEF CallerTo, TypeOK
  <2>5. ASSUME NEW e \in Extraction,
               \/ NavStep(e) \/ Operate(e) \/ OperationEnds(e) \/ GuardAbort(e)
               \/ GuardStopsAgain(e) \/ ContextClosed(e)
        PROVE  caller'[waiters[j]] # "acquired"
    <3>1. UNCHANGED caller \/ (caller[e] # "waiting" /\ \E l \in Calls : CallerTo(e, l))
      BY <2>5 DEF NavStep, NavCreate, NavCreated, NavPage, NavLoaded, NavFails, Operate,
         OperationEnds, GuardAbort, GuardStops, GuardStopsAgain, ContextClosed,
         FailNavigation, CallerTo, Calls
    <3>. QED  BY <2>1, <2>2, <3>1 DEF CallerTo, TypeOK
  <2>6. ASSUME Close \/ CloseResolves
        PROVE  caller'[waiters[j]] # "acquired"
    BY <2>2, <2>6 DEF Close, CloseResolves
  <2>. QED  BY <2>3, <2>4, <2>5, <2>6 DEF Next, Progress
<1>. QED  BY <1>1, Inductive, PTL DEF Spec, NoOvertaking

-----------------------------------------------------------------------------
(* The flag and the queue implement the extraction lease: every step of    *)
(* the adapter is a request, a grant, a refusal, a release that may name   *)
(* an heir, or a stutter of ExclusiveLease.                                *)
THEOREM Refinement == Spec => LeaseSpec
<1>. DEFINE phases == [e \in Extraction |-> Phase(e)]
<1>1. Init => Lease!Init
  BY DEF Init, Lease!Init, Phase, Holding
<1>2. IInv /\ [Next]_vars => [Lease!Next]_phases
  <2> SUFFICES ASSUME IInv, [Next]_vars PROVE Lease!Next \/ UNCHANGED phases
    OBVIOUS
  <2>1. TypeOK /\ QueueExact /\ OneHolder
    BY DEF IInv
  <2>2. ASSUME NEW e \in Extraction, Acquire(e)
        PROVE  Lease!Next \/ UNCHANGED phases
    <3>1. CASE closed \/ e \in aborted
      BY <2>1, <2>2, <3>1 DEF Acquire, CallerTo, TypeOK, Phase, Holding, Calls
    <3>2. CASE ~(closed \/ e \in aborted) /\ ~leaseHeld
      <4>1. phases[e] = "out" /\ phases' = [phases EXCEPT ![e] = "holding"]
        BY <2>1, <2>2, <3>2 DEF Acquire, CallerTo, TypeOK, Phase, Holding, Calls
      <4>2. \A d \in Extraction : phases[d] # "holding"
        BY <2>1, <3>2 DEF QueueExact, Phase
      <4>3. Lease!Grant(e)
        BY <4>1, <4>2 DEF Lease!Grant, Lease!In
      <4>. QED  BY <4>3 DEF Lease!Next
    <3>3. CASE ~(closed \/ e \in aborted) /\ leaseHeld
      <4>1. Lease!Request(e)
        BY <2>1, <2>2, <3>3 DEF Acquire, CallerTo, TypeOK, Phase, Holding, Calls, Lease!Request
      <4>. QED  BY <4>1 DEF Lease!Next
    <3>. QED  BY <3>1, <3>2, <3>3
  <2>3. ASSUME NEW e \in Extraction, WaiterAborted(e)
        PROVE  Lease!Next
    <3>1. Lease!Refuse({e})
      BY <2>1, <2>3 DEF WaiterAborted, CallerTo, TypeOK, Phase, Holding, Lease!Refuse, Lease!In
    <3>. QED  BY <3>1 DEF Lease!Next
  <2>4. ASSUME NEW e \in Extraction, Release(e)
        PROVE  Lease!Next
    <3>1. PICK k \in 1..(Len(waiters) + 1) :
             /\ \A i \in 1..Len(waiters) :
                   /\ i < k => waiters[i] \in aborted
                   /\ caller'[waiters[i]] = IF i < k THEN "done"
                                            ELSE IF i = k THEN "acquired" ELSE "waiting"
             /\ \A d \in Extraction : caller[d] # "waiting" =>
                   caller'[d] = IF d = e THEN "done" ELSE caller[d]
      BY <2>1, <2>4, ReleaseMoves
    <3> DEFINE turnedAway == {d \in Extraction : caller[d] = "waiting" /\ caller'[d] = "done"}
    <3> DEFINE heirs == {d \in Extraction : caller[d] = "waiting" /\ caller'[d] = "acquired"}
    <3>2. \A d \in Extraction : caller[d] = "waiting" =>
             \E i \in 1..Len(waiters) : waiters[i] = d
      BY <2>1 DEF QueueExact
    <3>3. \A c, d \in heirs : c = d
      <4>1. ASSUME NEW d \in heirs PROVE k \in 1..Len(waiters) /\ waiters[k] = d
        BY <3>1, <3>2
      <4>. QED  BY <4>1
    <3>4. caller[e] = "ending"
      BY <2>4 DEF Release
    <3>5. \A d \in Extraction :
             phases'[d] = IF d \in turnedAway \cup {e} THEN "out"
                          ELSE IF d \in heirs THEN "holding" ELSE phases[d]
      <4>1. ASSUME NEW d \in Extraction, caller[d] = "waiting"
            PROVE  caller'[d] \in {"done", "acquired", "waiting"}
        BY <3>1, <3>2, <4>1
      <4>2. ASSUME NEW d \in Extraction, caller[d] # "waiting"
            PROVE  caller'[d] = IF d = e THEN "done" ELSE caller[d]
        BY <3>1, <4>2
      <4>. QED  BY <3>4, <4>1, <4>2 DEF Phase, Holding, Calls
    <3>6. phases' = [d \in Extraction |->
                        IF d \in turnedAway \cup {e} THEN "out"
                        ELSE IF d \in heirs THEN "holding" ELSE phases[d]]
      BY <3>5
    <3>7. phases[e] = "holding" /\ turnedAway \cup heirs \subseteq Lease!In("waiting")
      BY <3>4 DEF Phase, Holding, Calls, Lease!In
    <3>8. turnedAway \cap heirs = {}
      OBVIOUS
    <3>9. Lease!Release(e, turnedAway, heirs)
      BY <3>3, <3>6, <3>7, <3>8 DEF Lease!Release
    <3>10. turnedAway \in SUBSET Extraction /\ heirs \in SUBSET Extraction
      OBVIOUS
    <3>. QED  BY <3>9, <3>10 DEF Lease!Next
  <2>5. ASSUME Close
        PROVE  Lease!Next
    <3> DEFINE turnedAway == {d \in Extraction : caller[d] = "waiting"}
    <3>1. \A d \in Extraction :
             caller'[d] = IF d \in turnedAway THEN "done" ELSE caller[d]
      BY <2>1, <2>5 DEF Close, QueueExact
    <3>2. phases' = [d \in Extraction |-> IF d \in turnedAway THEN "out" ELSE phases[d]]
      BY <3>1 DEF Phase, Holding
    <3>3. turnedAway \in SUBSET Extraction /\ turnedAway \subseteq Lease!In("waiting")
      BY DEF Phase, Lease!In
    <3>4. Lease!Refuse(turnedAway)
      BY <3>2, <3>3 DEF Lease!Refuse
    <3>. QED  BY <3>3, <3>4 DEF Lease!Next
  <2>6. ASSUME NEW e \in Extraction,
               \/ Abort(e) \/ Navigate(e) \/ NavigateThrows(e) \/ GuardTimeout(e)
               \/ NavCleaned(e) \/ OpCleaned(e) \/ EndExtraction(e)
        PROVE  UNCHANGED phases
    <3>1. UNCHANGED caller \/ \E l \in Holding : caller[e] \in Holding /\ CallerTo(e, l)
      BY <2>6 DEF Abort, Navigate, NavigateThrows, GuardTimeout, GuardStops, NavCleaned,
         OpCleaned, EndExtraction, FailNavigation, CallerTo, Holding, Calls
    <3>. QED  BY <2>1, <3>1 DEF CallerTo, TypeOK, Phase, Holding, Calls
  <2>7. ASSUME NEW e \in Extraction,
               \/ NavStep(e) \/ Operate(e) \/ OperationEnds(e) \/ GuardAbort(e)
               \/ GuardStopsAgain(e) \/ ContextClosed(e)
        PROVE  UNCHANGED phases
    <3>1. UNCHANGED caller \/ \E l \in Holding : caller[e] \in Holding /\ CallerTo(e, l)
      BY <2>7 DEF NavStep, NavCreate, NavCreated, NavPage, NavLoaded, NavFails, Operate,
         OperationEnds, GuardAbort, GuardStops, GuardStopsAgain, ContextClosed,
         FailNavigation, CallerTo, Holding, Calls
    <3>. QED  BY <2>1, <3>1 DEF CallerTo, TypeOK, Phase, Holding, Calls
  <2>8. ASSUME CloseResolves \/ UNCHANGED vars
        PROVE  UNCHANGED phases
    BY <2>8 DEF CloseResolves, vars, Phase
  <2>. QED  BY <2>2, <2>3, <2>4, <2>5, <2>6, <2>7, <2>8 DEF Next, Progress
<1>. QED  BY <1>1, <1>2, Inductive, PTL DEF Spec, LeaseSpec, Lease!Spec
=============================================================================
