------------------------- MODULE BrowserExtraction --------------------------
(***************************************************************************)
(* A browser-mode extraction (executeBrowserPrepared and runWorkflow in    *)
(* internal/executor/browser.go): preflight, URL policy, lease, navigate,  *)
(* workflow, output, and the deferred release, for several extractions     *)
(* that share one adapter with one mutable page.                           *)
(*                                                                         *)
(* The adapter is external.  Its lease is the module ExclusiveLease, which *)
(* RodAdapter and PlaywrightAdapter implement; an adapter without the      *)
(* BrowserAdapterLease capability has none.  Any operation may fail, of    *)
(* itself or because the context is over, and a failed Navigate may have   *)
(* changed the page.                                                       *)
(***************************************************************************)
EXTENDS Naturals

CONSTANTS
    Extraction,     \* concurrent calls of Program.Extract
    Operations,     \* bound: workflow steps and output reads of a program
    None

ASSUME ExtractionAssumption == None \notin Extraction /\ Operations \in Nat

VARIABLES
    leased,         \* the adapter implements BrowserAdapterLease
    phase,          \* what each extraction is to the lease
    pc,
    ended,          \* how each extraction's context ended, or "no"
    shown,          \* the extraction whose navigation the page shows, or None
    touched,        \* the extractions that have operated on it since
    operation,      \* operations each extraction has performed
    saw,            \* history: extractions whose page an extraction worked on
    outcome         \* error code, "ok", or "" before the end

vars == <<leased, phase, pc, ended, shown, touched, operation, saw, outcome>>
pageVars == <<shown, touched, operation, saw>>

Lease == INSTANCE ExclusiveLease WITH Client <- Extraction

Places == {"idle", "policy", "acquire", "navigate", "operate", "leave", "done"}
OnPage == {"navigate", "operate", "leave"}
Outcomes == {"", "ok", "E_PREFLIGHT", "E_URL_POLICY", "E_BROWSER_ACQUIRE",
             "E_BROWSER_NAVIGATE", "E_OPERATION", "E_EXECUTION_CANCELED", "E_TIMEOUT"}

Init ==
    /\ leased \in BOOLEAN
    /\ Lease!Init
    /\ pc = [e \in Extraction |-> "idle"]
    /\ ended = [e \in Extraction |-> "no"]
    /\ shown = None
    /\ touched = {}
    /\ operation = [e \in Extraction |-> 0]
    /\ saw = [e \in Extraction |-> {}]
    /\ outcome = [e \in Extraction |-> ""]

Goto(e, l) == pc' = [pc EXCEPT ![e] = l]

Return(e, l, code) ==
    /\ Goto(e, l)
    /\ outcome' = [outcome EXCEPT ![e] = code]

(* operationErrorCode, of an error that may be the context's. *)
ErrorCodes(e, fallback) ==
    {fallback} \cup IF ended[e] = "canceled" THEN {"E_EXECUTION_CANCELED"}
                    ELSE IF ended[e] = "deadline" THEN {"E_TIMEOUT"} ELSE {}

-----------------------------------------------------------------------------
(* Before the lease.                                                       *)

(* Options, JavaScript opt-in, external bindings, inputs and session are   *)
(* looked at without the browser.                                          *)
Preflight(e) ==
    /\ pc[e] = "idle"
    /\ \/ Goto(e, "policy") /\ UNCHANGED outcome
       \/ Return(e, "done", "E_PREFLIGHT")
    /\ UNCHANGED <<leased, phase, ended, pageVars>>

(* The policy accepts.  With a lease the adapter is asked for it. *)
Approve(e) ==
    /\ pc[e] = "policy"
    /\ IF leased
       THEN Lease!Request(e) /\ Goto(e, "acquire")
       ELSE Goto(e, "navigate") /\ UNCHANGED phase
    /\ UNCHANGED <<leased, ended, pageVars, outcome>>

Reject(e) ==
    /\ pc[e] = "policy"
    /\ Return(e, "done", "E_URL_POLICY")
    /\ UNCHANGED <<leased, phase, ended, pageVars>>

-----------------------------------------------------------------------------
(* Acquire.                                                                *)
Grant(e) ==
    /\ leased /\ phase[e] = "waiting"
    /\ Lease!Grant(e)
    /\ UNCHANGED <<leased, pc, ended, pageVars, outcome>>

(* The adapter turns a waiting extraction away, or returns no release      *)
(* function.                                                               *)
Refuse(e) ==
    /\ pc[e] = "acquire"
    /\ Lease!Refuse({e}) /\ phase[e] = "waiting"
    /\ \E code \in ErrorCodes(e, "E_BROWSER_ACQUIRE") : Return(e, "done", code)
    /\ UNCHANGED <<leased, ended, pageVars>>

(* Mutant of Acquired: the lease is given back at once (release() where    *)
(* the code has `defer release()`).                                        *)
AcquiredReleased(e) ==
    /\ pc[e] = "acquire" /\ phase[e] = "holding"
    /\ Lease!Release(e, {}, {})
    /\ Goto(e, "navigate")
    /\ UNCHANGED <<leased, ended, pageVars, outcome>>

Acquired(e) ==
    /\ pc[e] = "acquire" /\ phase[e] = "holding"
    /\ Goto(e, "navigate")
    /\ UNCHANGED <<leased, phase, ended, pageVars, outcome>>

-----------------------------------------------------------------------------
(* On the page.                                                            *)
Navigated(e) ==
    /\ pc[e] = "navigate"
    /\ shown' = e
    /\ touched' = {}
    /\ Goto(e, "operate")
    /\ UNCHANGED <<leased, phase, ended, operation, saw, outcome>>

(* Mutant of NavigateFails: it returns before the release is deferred. *)
NavigateFailsAtOnce(e) ==
    /\ pc[e] = "navigate"
    /\ \/ shown' = e /\ touched' = {}
       \/ UNCHANGED <<shown, touched>>
    /\ \E code \in ErrorCodes(e, "E_BROWSER_NAVIGATE") : Return(e, "done", code)
    /\ UNCHANGED <<leased, phase, ended, operation, saw>>

NavigateFails(e) ==
    /\ pc[e] = "navigate"
    /\ \/ shown' = e /\ touched' = {}
       \/ UNCHANGED <<shown, touched>>
    /\ \E code \in ErrorCodes(e, "E_BROWSER_NAVIGATE") : Return(e, "leave", code)
    /\ UNCHANGED <<leased, phase, ended, operation, saw>>

(* A workflow step or a read of the output works on whatever page there is *)
(* and leaves its traces, whether it succeeds or fails within what the     *)
(* output tolerates.                                                       *)
Operate(e) ==
    /\ pc[e] = "operate" /\ operation[e] < Operations
    /\ operation' = [operation EXCEPT ![e] = @ + 1]
    /\ saw' = [saw EXCEPT ![e] = @ \cup {shown} \cup touched]
    /\ touched' = touched \cup {e}
    /\ UNCHANGED <<leased, phase, pc, ended, shown, outcome>>

(* It fails, in the workflow or past every policy of the output; the       *)
(* output also looks at the context, whose end is then a cancellation.     *)
OperateFails(e) ==
    /\ pc[e] = "operate"
    /\ \/ \E code \in ErrorCodes(e, "E_OPERATION") : Return(e, "leave", code)
       \/ ended[e] # "no" /\ Return(e, "leave", "E_EXECUTION_CANCELED")
    /\ UNCHANGED <<leased, phase, ended, pageVars>>

Complete(e) ==
    /\ pc[e] = "operate" /\ operation[e] = Operations
    /\ Return(e, "leave", "ok")
    /\ UNCHANGED <<leased, phase, ended, pageVars>>

(* The deferred release.  The adapter may hand the page on in the same     *)
(* step; who it turns away sees that when it runs.                         *)
Leave(e) ==
    /\ pc[e] = "leave"
    /\ Goto(e, "done")
    /\ IF leased
       THEN \E heirs \in SUBSET Extraction : Lease!Release(e, {}, heirs)
       ELSE UNCHANGED phase
    /\ UNCHANGED <<leased, ended, pageVars, outcome>>

(* A context ends; the deadline and the cancellation exclude each other. *)
End(e, how) ==
    /\ pc[e] # "done" /\ ended[e] = "no"
    /\ ended' = [ended EXCEPT ![e] = how]
    /\ UNCHANGED <<leased, phase, pc, pageVars, outcome>>

-----------------------------------------------------------------------------
Run(e) ==
    \/ Preflight(e) \/ Approve(e) \/ Reject(e) \/ Acquired(e)
    \/ Navigated(e) \/ NavigateFails(e) \/ Operate(e) \/ OperateFails(e)
    \/ Complete(e) \/ Leave(e)

Next ==
    \E e \in Extraction :
        \/ Run(e) \/ Grant(e) \/ Refuse(e)
        \/ \E how \in {"canceled", "deadline"} : End(e, how)

Spec == Init /\ [][Next]_vars

(* Fairness: a goroutine runs, every operation has a timeout, and the      *)
(* adapter does not pass over a waiting extraction forever.                *)
FairSpec ==
    /\ Spec
    /\ \A e \in Extraction : WF_vars(Run(e)) /\ SF_vars(Grant(e))

-----------------------------------------------------------------------------
TypeOK ==
    /\ leased \in BOOLEAN
    /\ phase \in [Extraction -> {"out", "waiting", "holding"}]
    /\ pc \in [Extraction -> Places]
    /\ ended \in [Extraction -> {"no", "canceled", "deadline"}]
    /\ shown \in Extraction \cup {None}
    /\ touched \subseteq Extraction
    /\ operation \in [Extraction -> 0..Operations]
    /\ saw \in [Extraction -> SUBSET (Extraction \cup {None})]
    /\ outcome \in [Extraction -> Outcomes]

(* "preventing workflow and read operations from interleaving across       *)
(* concurrent Program.Extract calls" (adapter.go): with a lease every      *)
(* operation of an extraction works on a page that it navigated to itself  *)
(* and that nobody else has touched since.                                 *)
OwnPage == leased => \A e \in Extraction : saw[e] \subseteq {e}

(* The invariant that carries OwnPage through every step: an extraction    *)
(* holds the lease from the grant to the deferred release, on every path   *)
(* out; only one does; and the page in front of an extraction that works   *)
(* on it shows its own navigation, with no traces but its own.             *)
LeaseFollowsRun ==
    leased => \A e \in Extraction :
        /\ pc[e] \in OnPage => phase[e] = "holding"
        /\ pc[e] \notin OnPage \cup {"acquire"} => phase[e] = "out"

Exclusive == \A e, f \in Extraction : phase[e] = "holding" /\ phase[f] = "holding" => e = f

HolderPage ==
    leased => \A e \in Extraction :
        pc[e] = "operate" => shown = e /\ touched \subseteq {e}

IInv == TypeOK /\ LeaseFollowsRun /\ Exclusive /\ HolderPage /\ OwnPage

(* Every extraction that starts ends, and the lease is free again after    *)
(* it, so failures and cancellations do not starve the others.             *)
Completes == \A e \in Extraction : pc[e] # "idle" ~> pc[e] = "done" /\ phase[e] = "out"
=============================================================================
