---------------------------- MODULE Acquisition -----------------------------
(***************************************************************************)
(* What both runtimes promise of an HTTP acquisition, checked of each: the *)
(* Go runtime leaves redirects to net/http (HttpFetch), the TypeScript     *)
(* runtime makes them itself (FetchHTML).  An execution runs in one of the *)
(* two, which `runtime` remembers; the variables that are only the other's *)
(* keep their initial values.                                              *)
(***************************************************************************)
EXTENDS Naturals, Sequences

CONSTANTS
    Urls, Start, MaxBytes, SizeBound,       \* see HttpFetch and FetchHTML
    Answers, ClientLimit, HopBound,         \* HttpFetch
    Sites, Origin, CookieScope, MaxRedirects \* FetchHTML, whose URLs are Sites

VARIABLES
    runtime,                                            \* "go" or "ts"
    allowed, pc, url, sent, read, outcome,              \* either runtime's
    web, policed, ownCheck, refused, ended, size,       \* HttpFetch
    from, headers, redirect, aborted, timedOut, armed, controller   \* FetchHTML

goOnly == <<web, policed, ownCheck, refused, ended, size>>
tsOnly == <<from, headers, redirect, aborted, timedOut, armed, controller>>
vars == <<runtime, allowed, pc, url, sent, read, outcome, goOnly, tsOnly>>

Go == INSTANCE HttpFetch
Ts == INSTANCE FetchHTML WITH Urls <- Sites

ASSUME AcquisitionAssumption == Go!Parameters /\ Ts!Parameters

InGo(step) == runtime = "go" /\ step /\ UNCHANGED <<runtime, tsOnly>>
InTs(step) == runtime = "ts" /\ step /\ UNCHANGED <<runtime, goOnly>>

InitGo ==
    /\ runtime = "go"
    /\ Go!Init
    /\ from = Start /\ headers = {} /\ redirect = 0 /\ controller = "live"
    /\ aborted = FALSE /\ timedOut = FALSE /\ armed = FALSE

InitTs ==
    /\ runtime = "ts"
    /\ Ts!Init
    /\ web = <<>> /\ policed = TRUE /\ ownCheck = FALSE
    /\ refused = {} /\ ended = "no" /\ size = 0

Init == InitGo \/ InitTs

GoCheckPolicy == InGo(Go!CheckPolicy)
GoBegin == InGo(Go!Begin)
GoSend == InGo(Go!Send)
GoTransportFails == InGo(Go!TransportFails)
GoRedirect == InGo(Go!Redirect)
GoStatus == InGo(Go!Status)
GoReadMore == InGo(Go!ReadMore)
GoReadFails == InGo(Go!ReadFails)
GoEndBody == InGo(Go!EndBody)
GoDeadline == InGo(Go!Deadline)
GoCancel == InGo(Go!Cancel)

TsBegin == InTs(Ts!Begin)
TsEnterFetch == InTs(Ts!EnterFetch)
TsFollow == InTs(Ts!Follow)
TsPolicyRejects == InTs(Ts!PolicyRejects)
TsFetchRejects == InTs(Ts!FetchRejects)
TsRedirected == InTs(Ts!Redirected)
TsTurn == \E next \in Sites : InTs(Ts!Turn(next))
TsNoTarget == InTs(Ts!NoTarget)
TsBadAnswer == InTs(Ts!BadAnswer)
TsRefuse == InTs(Ts!Refuse)
TsPage == InTs(Ts!Page)
TsChunk == \E n \in 1..MaxBytes : InTs(Ts!Chunk(n))
TsTooLarge == InTs(Ts!TooLarge)
TsCancelRejects == InTs(Ts!CancelRejects)
TsReadRejects == InTs(Ts!ReadRejects)
TsEndBody == InTs(Ts!EndBody)
TsAbort == InTs(Ts!Abort)
TsTimer == InTs(Ts!Timer)

Next ==
    \/ GoCheckPolicy \/ GoBegin \/ GoSend \/ GoTransportFails \/ GoRedirect
    \/ GoStatus \/ GoReadMore \/ GoReadFails \/ GoEndBody
    \/ GoDeadline \/ GoCancel
    \/ TsBegin \/ TsEnterFetch \/ TsFollow \/ TsPolicyRejects \/ TsFetchRejects
    \/ TsRedirected \/ TsTurn \/ TsNoTarget \/ TsBadAnswer \/ TsRefuse \/ TsPage
    \/ TsChunk \/ TsTooLarge \/ TsCancelRejects \/ TsReadRejects \/ TsEndBody
    \/ TsAbort \/ TsTimer

Spec == Init /\ [][Next]_vars

(* Fairness.  Go: the goroutine runs, except that the peer need not        *)
(* answer; a request whose context is over returns; the timeout fires.     *)
(* TypeScript: the policy and cancel() settle, the timer fires, and what   *)
(* hangs on an aborted controller rejects.                                 *)
FairSpec ==
    /\ Spec
    /\ WF_vars(GoCheckPolicy \/ GoBegin \/ GoEndBody)
    /\ WF_vars(ended # "no" /\ (GoTransportFails \/ GoReadFails))
    /\ WF_vars(GoDeadline)
    /\ WF_vars(TsBegin \/ TsEnterFetch \/ TsFollow \/ TsPolicyRejects)
    /\ WF_vars(TsTurn \/ TsNoTarget \/ TsRefuse \/ TsTooLarge \/ TsCancelRejects)
    /\ WF_vars(controller # "live" /\ (TsFetchRejects \/ TsReadRejects))
    /\ WF_vars(TsTimer)

-----------------------------------------------------------------------------
(* No request goes to a URL the policy rejects, on the first hop or on any *)
(* other, whoever makes the redirects and whatever other check the caller  *)
(* has installed.                                                          *)
EveryHopApproved ==
    IF runtime = "go" THEN Go!EveryHopApproved ELSE Ts!EveryHopApproved

(* The limits bite exactly where they say: a body of exactly the limit     *)
(* passes, no longer one does, cut to size or not; the redirects that      *)
(* TypeScript counts are followed up to the limit and no further.          *)
LimitsExact == IF runtime = "go" THEN Go!WholeBody ELSE Ts!LimitsExact

(* What the code of a failure says of its cause, as far as each runtime    *)
(* keeps to it.  Both: E_TIMEOUT and E_EXECUTION_CANCELED are never given  *)
(* unless a deadline passed or the caller stopped the call; a request that *)
(* the context, the timer or the signal ended is not E_HTTP_FETCH.  Go: a  *)
(* URL was rejected exactly when the code is E_URL_POLICY, but E_HTTP_READ *)
(* tells nothing.  TypeScript: E_HTTP_READ too is the peer's, but what     *)
(* cancel() rejects with has no code.                                      *)
FailureNamed == IF runtime = "go" THEN Go!FailureNamed ELSE Ts!FailureNamed

(* The session headers of the TypeScript runtime stay within their origin  *)
(* and scope along any path of redirects.                                  *)
SessionInScope == runtime = "ts" => Ts!SessionInScope

(* Once the TypeScript runtime was stopped it sends nothing more, whichever*)
(* await it was stopped in: before the listener is there, in the policy of *)
(* a redirect, or while an answer waits to be seen.                        *)
NothingSentAfterStop == [][runtime = "ts" /\ sent' # sent => ~aborted /\ ~timedOut]_vars

(* However the redirects lead and the peer stalls, the call returns. *)
Returns == <>(pc = "done")

-----------------------------------------------------------------------------
(* Either runtime's inductive invariant. *)
IInv ==
    /\ runtime \in {"go", "ts"}
    /\ runtime = "go" => Go!IInv
    /\ runtime = "ts" => Ts!IInv
=============================================================================
