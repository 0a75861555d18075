---------------------- MODULE BrowserExtractionProofs -----------------------
(***************************************************************************)
(* Theorems about BrowserExtraction, for any number of extractions and     *)
(* operations: what the lease promises is enough for an extraction to work *)
(* on its own page from the navigation to the last read.                   *)
(***************************************************************************)
EXTENDS BrowserExtraction, TLAPS

(* What happens before the lease leaves the page alone; asking for the     *)
(* lease goes with the program counter.                                    *)
LEMMA BeforeLeaseSteps ==
    ASSUME IInv, NEW e \in Extraction, Preflight(e) \/ Approve(e) \/ Reject(e)
    PROVE  IInv'
<1>1. TypeOK'
  <2>1. CASE Preflight(e)
    BY <2>1 DEF IInv, TypeOK, Places, Outcomes, Preflight, Goto, Return, pageVars
  <2>2. CASE Approve(e)
    BY <2>2 DEF IInv, TypeOK, Places, Approve, Goto, pageVars, Lease!Request
  <2>3. CASE Reject(e)
    BY <2>3 DEF IInv, TypeOK, Places, Outcomes, Reject, Goto, Return, pageVars
  <2>. QED  BY <2>1, <2>2, <2>3
<1>2. LeaseFollowsRun' /\ Exclusive'
  BY DEF IInv, TypeOK, LeaseFollowsRun, Exclusive, OnPage, Preflight, Approve, Reject,
     Goto, Return, Lease!Request
<1>3. HolderPage' /\ OwnPage'
  BY DEF IInv, TypeOK, HolderPage, OwnPage, Preflight, Approve, Reject, Goto, Return,
     pageVars
<1>. QED  BY <1>1, <1>2, <1>3 DEF IInv

(* The adapter grants the lease only when nobody holds it. *)
LEMMA AcquireSteps ==
    ASSUME IInv, NEW e \in Extraction, Grant(e) \/ Refuse(e) \/ Acquired(e)
    PROVE  IInv'
<1>1. TypeOK'
  <2>1. CASE Grant(e)
    BY <2>1 DEF IInv, TypeOK, Grant, pageVars, Lease!Grant
  <2>2. CASE Refuse(e)
    BY <2>2 DEF ErrorCodes, IInv, TypeOK, Places, Outcomes, Refuse, Goto, Return, pageVars,
       Lease!Refuse
  <2>3. CASE Acquired(e)
    BY <2>3 DEF IInv, TypeOK, Places, Outcomes, Acquired, Goto, pageVars
  <2>. QED  BY <2>1, <2>2, <2>3
<1>2. LeaseFollowsRun' /\ Exclusive'
  BY DEF IInv, TypeOK, LeaseFollowsRun, Exclusive, OnPage, Grant, Refuse, Acquired,
     Goto, Return, Lease!Grant, Lease!Refuse, Lease!In
<1>3. HolderPage' /\ OwnPage'
  BY DEF IInv, TypeOK, HolderPage, OwnPage, Grant, Refuse, Acquired, Goto, Return,
     pageVars
<1>. QED  BY <1>1, <1>2, <1>3 DEF IInv

(* Navigation and operations change the page, which is the holder's: no    *)
(* other extraction has its program counter on it.                         *)
LEMMA PageSteps ==
    ASSUME IInv, NEW e \in Extraction,
           \/ Navigated(e) \/ NavigateFails(e) \/ Operate(e) \/ OperateFails(e)
           \/ Complete(e)
    PROVE  IInv'
<1>1. TypeOK'
  <2>1. CASE Navigated(e)
    BY <2>1 DEF IInv, TypeOK, Places, Navigated, Goto
  <2>2. CASE NavigateFails(e)
    <3>1. shown' \in Extraction \cup {None} /\ touched' \subseteq Extraction
      BY <2>2 DEF IInv, TypeOK, NavigateFails
    <3>2. pc' \in [Extraction -> Places]
      BY <2>2 DEF IInv, TypeOK, Places, NavigateFails, Return, Goto
    <3>3. outcome' \in [Extraction -> Outcomes]
      BY <2>2 DEF IInv, TypeOK, Outcomes, ErrorCodes, NavigateFails, Return
    <3>. QED  BY <2>2, <3>1, <3>2, <3>3 DEF IInv, TypeOK, NavigateFails
  <2>3. CASE Operate(e)
    <3>1. operation' \in [Extraction -> 0..Operations]
      BY <2>3, ExtractionAssumption DEF IInv, TypeOK, Operate
    <3>2. saw' \in [Extraction -> SUBSET (Extraction \cup {None})]
      BY <2>3 DEF IInv, TypeOK, Operate
    <3>. QED  BY <2>3, <3>1, <3>2 DEF IInv, TypeOK, Operate
  <2>4. CASE OperateFails(e) \/ Complete(e)
    <3>1. pc' \in [Extraction -> Places]
      BY <2>4 DEF IInv, TypeOK, Places, OperateFails, Complete, Return, Goto
    <3>2. outcome' \in [Extraction -> Outcomes]
      BY <2>4 DEF IInv, TypeOK, Outcomes, ErrorCodes, OperateFails, Complete, Return
    <3>. QED  BY <2>4, <3>1, <3>2 DEF IInv, TypeOK, OperateFails, Complete, pageVars
  <2>. QED  BY <2>1, <2>2, <2>3, <2>4
<1>2. LeaseFollowsRun' /\ Exclusive'
  BY DEF IInv, TypeOK, LeaseFollowsRun, Exclusive, OnPage, Navigated, NavigateFails,
     Operate, OperateFails, Complete, Goto, Return
<1>3. leased => \A f \in Extraction : f # e => pc[f] # "operate"
  BY DEF IInv, LeaseFollowsRun, Exclusive, OnPage, Navigated, NavigateFails, Operate,
     OperateFails, Complete
<1>4. HolderPage'
  BY <1>3 DEF IInv, TypeOK, HolderPage, Navigated, NavigateFails, Operate,
     OperateFails, Complete, Goto, Return, pageVars
<1>5. OwnPage'
  <2>1. CASE Operate(e)
    <3>1. leased => shown = e /\ touched \subseteq {e}
      BY <2>1 DEF IInv, HolderPage, Operate
    <3>2. leased => saw'[e] \subseteq {e}
      BY <2>1, <3>1 DEF IInv, TypeOK, OwnPage, Operate
    <3>3. \A f \in Extraction : f # e => saw'[f] = saw[f]
      BY <2>1 DEF IInv, TypeOK, Operate
    <3>. QED  BY <2>1, <3>2, <3>3 DEF IInv, OwnPage, Operate
  <2>2. CASE ~Operate(e)
    BY <2>2 DEF IInv, OwnPage, Navigated, NavigateFails, OperateFails, Complete, pageVars
  <2>. QED  BY <2>1, <2>2
<1>. QED  BY <1>1, <1>2, <1>4, <1>5 DEF IInv

(* The release hands the lease to at most one waiting extraction. *)
LEMMA LeaveStep ==
    ASSUME IInv, NEW e \in Extraction, Leave(e)
    PROVE  IInv'
<1>1. TypeOK'
  BY DEF IInv, TypeOK, Places, Outcomes, Leave, Goto, pageVars, Lease!Release
<1>2. LeaseFollowsRun' /\ Exclusive'
  BY DEF IInv, TypeOK, LeaseFollowsRun, Exclusive, OnPage, Leave, Goto,
     Lease!Release, Lease!In
<1>3. HolderPage' /\ OwnPage'
  BY DEF IInv, TypeOK, HolderPage, OwnPage, Leave, Goto, pageVars
<1>. QED  BY <1>1, <1>2, <1>3 DEF IInv

(* IInv holds in every reachable state: the strengthening under the        *)
(* theorems below.                                                         *)
THEOREM Inductive == Spec => []IInv
<1>1. Init => IInv
  <2> SUFFICES ASSUME Init PROVE IInv
    OBVIOUS
  <2>1. TypeOK
    <3>1. phase \in [Extraction -> {"out", "waiting", "holding"}]
      BY DEF Init, Lease!Init
    <3>2. operation \in [Extraction -> 0..Operations]
      <4>1. 0 \in 0..Operations
        BY ExtractionAssumption
      <4>. QED  BY <4>1 DEF Init
    <3>3. pc \in [Extraction -> Places] /\ outcome \in [Extraction -> Outcomes]
      BY DEF Init, Places, Outcomes
    <3>4. saw \in [Extraction -> SUBSET (Extraction \cup {None})]
      BY DEF Init
    <3>. QED  BY <3>1, <3>2, <3>3, <3>4 DEF Init, TypeOK
  <2>2. LeaseFollowsRun /\ Exclusive /\ HolderPage /\ OwnPage
    BY DEF Init, Lease!Init, LeaseFollowsRun, OnPage, Exclusive, HolderPage, OwnPage
  <2>. QED  BY <2>1, <2>2 DEF IInv
<1>2. IInv /\ [Next]_vars => IInv'
  <2> SUFFICES ASSUME IInv, [Next]_vars PROVE IInv'
    OBVIOUS
  <2>1. ASSUME NEW e \in Extraction, Run(e) PROVE IInv'
    BY <2>1, BeforeLeaseSteps, AcquireSteps, PageSteps, LeaveStep DEF Run
  <2>2. ASSUME NEW e \in Extraction, Grant(e) \/ Refuse(e) PROVE IInv'
    BY <2>2, AcquireSteps
  <2>3. ASSUME NEW e \in Extraction, NEW how \in {"canceled", "deadline"}, End(e, how)
        PROVE  IInv'
    BY <2>3 DEF End, pageVars, IInv, TypeOK, LeaseFollowsRun, Exclusive, HolderPage,
       OwnPage
  <2>4. CASE UNCHANGED vars
    BY <2>4 DEF vars, IInv, TypeOK, LeaseFollowsRun, Exclusive, HolderPage, OwnPage
  <2>. QED  BY <2>1, <2>2, <2>3, <2>4 DEF Next
<1>. QED  BY <1>1, <1>2, PTL DEF Spec

-----------------------------------------------------------------------------
(* Every variable keeps its type, and no extraction performs more          *)
(* operations than its program has.                                        *)
THEOREM TypeCorrect == Spec => []TypeOK
<1>1. IInv => TypeOK
  BY DEF IInv
<1>. QED  BY <1>1, Inductive, PTL

(* With a lease, workflow and reads of concurrent Program.Extract calls    *)
(* do not interleave: each works on the page of its own navigation.        *)
THEOREM WorksOnOwnPage == Spec => []OwnPage
<1>1. IInv => OwnPage
  BY DEF IInv
<1>. QED  BY <1>1, Inductive, PTL

(* The lease is held exactly from the grant to the deferred release, by    *)
(* one extraction at a time.                                               *)
THEOREM LeaseHeldOnPage == Spec => [](LeaseFollowsRun /\ Exclusive)
<1>1. IInv => LeaseFollowsRun /\ Exclusive
  BY DEF IInv
<1>. QED  BY <1>1, Inductive, PTL
=============================================================================
