-------------------------- MODULE RodAdapterProofs --------------------------
(***************************************************************************)
(* Theorems about RodAdapter, for any number of extractions and closers.   *)
(* IInv is inductive: exclusive use of the page and of the mutex comes     *)
(* from the token, and what Navigate may assume about the headers comes    *)
(* from the exclusive use.                                                 *)
(***************************************************************************)
EXTENDS RodAdapter, TLAPS

(* No goroutine is both an extraction and a closer. *)
LEMMA ProcSplit ==
    /\ \A e \in Extraction : e \in Proc /\ e \notin Closer
    /\ \A c \in Closer : c \in Proc /\ c \notin Extraction
  BY RodAssumption DEF Proc

(* The steps of Acquire, the release and the operations move a goroutine   *)
(* between locations and leave the page and its headers alone.             *)
LEMMA LeaseSteps ==
    ASSUME IInv, NEW p \in Proc,
           \/ Request(p)
           \/ TakeToken(p)
           \/ p \in Extraction /\ (AcquireCanceled(p) \/ Cancel(p) \/ EndOperations(p))
           \/ Release(p)
    PROVE  IInv'
<1>1. TypeOK'
  BY RodAssumption DEF IInv, TypeOK, Proc, Locations, Request, TakeToken,
     AcquireCanceled, Cancel, EndOperations, Release, Goto, pageVars
<1>2. LeaseExclusive'
  BY DEF IInv, TypeOK, LeaseExclusive, HasLease, Request, TakeToken,
     AcquireCanceled, Cancel, EndOperations, Release, Goto
<1>3. MutexHolder'
  BY RodAssumption DEF IInv, TypeOK, Proc, MutexHolder, Request, TakeToken,
     AcquireCanceled, Cancel, EndOperations, Release, Goto
<1>4. PageStays' /\ ClosedOnce' /\ CleanupStored' /\ OwnHeaders' /\ CloseClearsHeaders'
  BY DEF IInv, TypeOK, PageStays, ClosedOnce, CleanupStored, OwnHeaders,
     CloseClearsHeaders, Proc, Request, TakeToken, AcquireCanceled, Cancel,
     EndOperations, Release, Goto, pageVars
<1>. QED  BY <1>1, <1>2, <1>3, <1>4 DEF IInv

(* Navigate refuses a closed page, or finds the mutex free and leaves the  *)
(* page without headers, or with a residue.                                *)
LEMMA NavigateBeginStep ==
    ASSUME IInv, NEW e \in Extraction, NavigateBegin(e)
    PROVE  IInv'
<1>1. TypeOK'
  BY RodAssumption DEF IInv, TypeOK, Proc, Locations, NavigateBegin, RunCleanup, Goto
<1>2. LeaseExclusive' /\ MutexHolder'
  BY RodAssumption DEF IInv, TypeOK, LeaseExclusive, MutexHolder, HasLease, Proc,
     NavigateBegin, Goto
<1>3. PageStays' /\ ClosedOnce'
  BY RodAssumption DEF IInv, TypeOK, PageStays, ClosedOnce, Proc, NavigateBegin, Goto
<1>4. CleanupStored' /\ OwnHeaders' /\ CloseClearsHeaders'
  BY RodAssumption DEF IInv, TypeOK, LeaseExclusive, HasLease, CleanupStored,
     OwnHeaders, CloseClearsHeaders, Proc, NavigateBegin, RunCleanup, Goto
<1>. QED  BY <1>1, <1>2, <1>3, <1>4 DEF IInv

(* Navigate installs the session's headers, or fails on the way. *)
LEMMA NavigateSteps ==
    ASSUME IInv, NEW e \in Extraction, SetHeaders(e) \/ SetHeadersFails(e) \/ Load(e)
    PROVE  IInv'
<1>1. TypeOK'
  BY RodAssumption DEF IInv, TypeOK, Proc, Locations, SetHeaders, SetHeadersFails,
     Load, Goto, pageVars
<1>2. LeaseExclusive' /\ MutexHolder'
  BY RodAssumption DEF IInv, TypeOK, LeaseExclusive, MutexHolder, HasLease, Proc,
     SetHeaders, SetHeadersFails, Load, Goto
<1>3. PageStays' /\ ClosedOnce'
  BY RodAssumption DEF IInv, TypeOK, PageStays, ClosedOnce, Proc,
     SetHeaders, SetHeadersFails, Load, Goto, pageVars
<1>4. CleanupStored' /\ OwnHeaders' /\ CloseClearsHeaders'
  BY RodAssumption DEF IInv, TypeOK, LeaseExclusive, HasLease, PageStays,
     CleanupStored, OwnHeaders, CloseClearsHeaders, Proc,
     SetHeaders, SetHeadersFails, Load, Goto, pageVars
<1>. QED  BY <1>1, <1>2, <1>3, <1>4 DEF IInv

(* Close waits for the lease, so it finds no extraction on the page. *)
LEMMA CloseSteps ==
    ASSUME IInv, NEW c \in Closer, CloseLock(c) \/ ClosePage(c)
    PROVE  IInv'
<1>1. CASE CloseLock(c)
  <2>1. TypeOK'
    BY <1>1, RodAssumption DEF IInv, TypeOK, Proc, Locations, CloseLock, Goto, pageVars
  <2>2. LeaseExclusive' /\ MutexHolder'
    BY <1>1, RodAssumption DEF IInv, TypeOK, LeaseExclusive, MutexHolder, HasLease,
       Proc, CloseLock, Goto
  <2>3. PageStays' /\ ClosedOnce' /\ CleanupStored' /\ OwnHeaders' /\ CloseClearsHeaders'
    BY <1>1, RodAssumption DEF IInv, TypeOK, PageStays, ClosedOnce, CleanupStored,
       OwnHeaders, CloseClearsHeaders, Proc, CloseLock, Goto, pageVars
  <2>. QED  BY <2>1, <2>2, <2>3 DEF IInv
<1>2. CASE ClosePage(c)
  <2>1. TypeOK'
    <3>1. closes' \in Nat
      BY <1>2 DEF IInv, TypeOK, ClosePage
    <3>2. cleanup' \in Extraction \cup {None} /\ headers' \in Extraction \cup {None}
      BY <1>2 DEF IInv, TypeOK, ClosePage, RunCleanup
    <3>3. residue' \in BOOLEAN
      BY <1>2 DEF IInv, TypeOK, ClosePage, RunCleanup
    <3>4. pc' \in [Proc -> Locations]
          /\ (\A e \in Extraction : pc'[e] \notin {"close", "done"})
          /\ (\A d \in Closer : pc'[d] \notin {"navigate", "load", "operate"})
      BY <1>2, RodAssumption DEF IInv, TypeOK, Proc, Locations, ClosePage, Goto
    <3>. QED  BY <1>2, <3>1, <3>2, <3>3, <3>4 DEF IInv, TypeOK, ClosePage
  <2>2. LeaseExclusive' /\ MutexHolder'
    BY <1>2, RodAssumption DEF IInv, TypeOK, LeaseExclusive, MutexHolder, HasLease,
       Proc, ClosePage, Goto
  <2>3. PageStays' /\ ClosedOnce'
    BY <1>2, RodAssumption DEF IInv, TypeOK, LeaseExclusive, HasLease, PageStays,
       ClosedOnce, Proc, ClosePage, Goto
  <2>4. CleanupStored' /\ OwnHeaders' /\ CloseClearsHeaders'
    BY <1>2, RodAssumption DEF IInv, TypeOK, LeaseExclusive, HasLease, CleanupStored,
       OwnHeaders, CloseClearsHeaders, Proc, ClosePage, RunCleanup, Goto
  <2>. QED  BY <2>1, <2>2, <2>3, <2>4 DEF IInv
<1>. QED  BY <1>1, <1>2

(* IInv holds in every reachable state: the strengthening under all the    *)
(* theorems below.                                                         *)
THEOREM Inductive == Spec => []IInv
<1>1. Init => IInv
  <2> SUFFICES ASSUME Init PROVE IInv
    OBVIOUS
  <2>1. TypeOK
    <3>1. pc \in [Proc -> Locations] /\ \A p \in Proc : pc[p] = "idle"
      BY DEF Init, Locations
    <3>2. lease \in 0..1 /\ closes \in Nat
      BY DEF Init
    <3>3. residue \in BOOLEAN
      BY DEF Init
    <3>. QED  BY <3>1, <3>2, <3>3, ProcSplit DEF Init, TypeOK
  <2>2. LeaseExclusive /\ MutexHolder
    BY RodAssumption DEF Init, LeaseExclusive, HasLease, MutexHolder, Proc
  <2>3. PageStays /\ ClosedOnce /\ CleanupStored /\ OwnHeaders /\ CloseClearsHeaders
    BY RodAssumption DEF Init, PageStays, ClosedOnce, CleanupStored, OwnHeaders,
       CloseClearsHeaders, Proc
  <2>. QED  BY <2>1, <2>2, <2>3 DEF IInv
<1>2. IInv /\ [Next]_vars => IInv'
  <2> SUFFICES ASSUME IInv, [Next]_vars PROVE IInv'
    OBVIOUS
  <2>1. ASSUME NEW e \in Extraction, ExtractionStep(e) PROVE IInv'
    BY <2>1, LeaseSteps, NavigateBeginStep, NavigateSteps DEF ExtractionStep, Proc
  <2>2. ASSUME NEW c \in Closer, CloserStep(c) PROVE IInv'
    BY <2>2, LeaseSteps, CloseSteps DEF CloserStep, Proc
  <2>3. CASE UNCHANGED vars
    BY <2>3 DEF vars, pageVars, IInv, TypeOK, LeaseExclusive, MutexHolder, PageStays,
       ClosedOnce, CleanupStored, OwnHeaders, CloseClearsHeaders
  <2>. QED  BY <2>1, <2>2, <2>3 DEF Next
<1>. QED  BY <1>1, <1>2, PTL DEF Spec

-----------------------------------------------------------------------------
(* Every variable keeps its type. *)
THEOREM TypeCorrect == Spec => []TypeOK
<1>1. IInv => TypeOK
  BY DEF IInv
<1>. QED  BY <1>1, Inductive, PTL

(* At most one goroutine is past Acquire (adapter.go:128-131), and the     *)
(* token is in the channel exactly when none is, so release never blocks.  *)
THEOREM Exclusion == Spec => []LeaseExclusive
<1>1. IInv => LeaseExclusive
  BY DEF IInv
<1>. QED  BY <1>1, Inductive, PTL

(* A goroutine about to lock the mutex finds it free: Navigate and Close   *)
(* never wait for each other a second time once they have the lease.       *)
THEOREM NoContention == Spec => []MutexFree
<1>1. IInv => MutexFree
  BY RodAssumption DEF IInv, TypeOK, LeaseExclusive, HasLease, MutexHolder, MutexFree,
     Proc
<1>. QED  BY <1>1, Inductive, PTL

(* The page of a running extraction is neither closed nor dropped, and     *)
(* concurrent Close calls close an owned page once.                        *)
THEOREM PageOutlivesExtraction == Spec => []PageStays
<1>1. IInv => PageStays
  BY DEF IInv
<1>. QED  BY <1>1, Inductive, PTL

(* An extraction never works under headers of another session that the     *)
(* adapter could have undone.                                              *)
THEOREM HeadersIsolated == Spec => []OwnHeaders
<1>1. IInv => OwnHeaders
  BY DEF IInv
<1>. QED  BY <1>1, Inductive, PTL

(* Close leaves no such headers behind.                                    *)
THEOREM CloseLeavesNothing == Spec => []CloseClearsHeaders
<1>1. IInv => CloseClearsHeaders
  BY DEF IInv
<1>. QED  BY <1>1, Inductive, PTL

-----------------------------------------------------------------------------
(* The channel of one token implements the extraction lease: every step of *)
(* the adapter is a request, a grant, a refusal, a release or a stutter of *)
(* ExclusiveLease.                                                         *)
THEOREM Refinement == Spec => LeaseSpec
<1>. DEFINE phases == [p \in Proc |-> Phase(p)]
<1>1. Init => Lease!Init
  BY DEF Init, Lease!Init, Phase, HasLease
<1>2. IInv /\ [Next]_vars => [Lease!Next]_phases
  <2> SUFFICES ASSUME IInv, [Next]_vars PROVE Lease!Next \/ UNCHANGED phases
    OBVIOUS
  <2>1. ASSUME NEW p \in Proc, Request(p) PROVE Lease!Request(p)
    BY <2>1 DEF IInv, TypeOK, Request, Goto, Phase, HasLease, Lease!Request
  <2>2. ASSUME NEW p \in Proc, TakeToken(p) PROVE Lease!Grant(p)
    <3>1. lease = 1
      BY <2>2 DEF IInv, TypeOK, TakeToken
    <3>2. \A q \in Proc : phases[q] # "holding"
      BY <3>1 DEF IInv, LeaseExclusive, Phase
    <3>3. phases[p] = "waiting"
      BY <2>2 DEF TakeToken, Phase
    <3>4. phases' = [phases EXCEPT ![p] = "holding"]
      BY <2>2 DEF IInv, TypeOK, TakeToken, Goto, Phase, HasLease
    <3>. QED  BY <3>2, <3>3, <3>4 DEF Lease!Grant, Lease!In
  <2>3. ASSUME NEW e \in Extraction, AcquireCanceled(e) PROVE Lease!Refuse({e})
    BY <2>3, ProcSplit DEF IInv, TypeOK, AcquireCanceled, Goto, Phase, HasLease,
       Lease!Refuse, Lease!In
  <2>4. ASSUME NEW p \in Proc, Release(p) PROVE Lease!Release(p, {}, {})
    BY <2>4 DEF IInv, TypeOK, Release, Goto, Phase, HasLease, Lease!Release, Lease!In
  <2>5. ASSUME NEW e \in Extraction,
               \/ Cancel(e) \/ NavigateBegin(e) \/ SetHeaders(e)
               \/ SetHeadersFails(e) \/ Load(e) \/ EndOperations(e)
        PROVE  UNCHANGED phases
    BY <2>5, ProcSplit DEF IInv, TypeOK, Cancel, NavigateBegin, SetHeaders,
       SetHeadersFails, Load, EndOperations, Goto, Phase, HasLease
  <2>6. ASSUME NEW c \in Closer, CloseLock(c) \/ ClosePage(c)
        PROVE  UNCHANGED phases
    BY <2>6, ProcSplit DEF IInv, TypeOK, CloseLock, ClosePage, Goto, Phase, HasLease
  <2>7. CASE UNCHANGED vars
    BY <2>7 DEF vars, Phase
  <2>8. ASSUME NEW p \in Proc, Request(p) \/ TakeToken(p) \/ Release(p)
        PROVE  Lease!Next
    BY <2>1, <2>2, <2>4, <2>8 DEF Lease!Next
  <2>9. ASSUME NEW e \in Extraction, AcquireCanceled(e) PROVE Lease!Next
    BY <2>3, <2>9, ProcSplit DEF Lease!Next
  <2>. QED
    BY <2>5, <2>6, <2>7, <2>8, <2>9, ProcSplit
       DEF Next, ExtractionStep, CloserStep
<1>. QED  BY <1>1, <1>2, Inductive, PTL DEF Spec, LeaseSpec, Lease!Spec
=============================================================================
