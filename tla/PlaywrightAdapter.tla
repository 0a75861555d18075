------------------------- MODULE PlaywrightAdapter -------------------------
(***************************************************************************)
(* The Playwright adapter (packages/scrape-kdl-playwright/src/index.ts):   *)
(* one lease with a queue of waiters, and at most one BrowserContext, made *)
(* anew by each navigation.  Every call runs inside #guard, which races it *)
(* against a timer and the AbortSignal; the loser goes on running, so the  *)
(* closure passed to navigate (`nav` below) outlives its caller.           *)
(*                                                                         *)
(* An action is what the event loop runs between two awaits.  Playwright   *)
(* is external: its promises settle when they like, and nothing succeeds   *)
(* in a context that is closed.  The context that the navigation of        *)
(* extraction e makes is called e.                                         *)
(***************************************************************************)
EXTENDS Naturals, Sequences

CONSTANTS
    Extraction,     \* calls of Program.extract that share the adapter
    None

ASSUME NoneAssumption == None \notin Extraction

VARIABLES
    aborted,        \* the extractions whose AbortSignal has fired
    closed,         \* #closed
    leaseHeld,      \* #leaseHeld
    waiters,        \* #leaseWaiters
    caller,         \* where the runtime's call for each extraction stands
    callerAwaits,   \* the context whose closing that call awaits, or None
    nav,            \* the closure of each extraction's navigation
    navAwaits,      \* the context whose closing the closure awaits, or None
    fresh,          \* closures whose `generation` equals #contextGeneration
    context,        \* #context, or None
    page,           \* #page, or None
    closing,        \* the context that #closing closes, or None
    browser,        \* each context in the browser
    opOn,           \* the context an extraction's operation runs in, or None
    cut,            \* history: extractions whose navigation or operation failed
    closer,         \* the application's call of close()
    closerAwaits    \* the context whose closing that call awaits, or None

leaseVars == <<leaseHeld, waiters>>
contextVars == <<fresh, context, page, closing, browser>>
closerVars == <<closed, closer, closerAwaits>>
vars == <<aborted, leaseVars, caller, callerAwaits, nav, navAwaits,
          contextVars, opOn, cut, closerVars>>

Calls == {"idle", "waiting", "acquired", "navigating", "navStopped", "navFailed",
          "ready", "operating", "opStopped", "ending", "done"}
Holding == Calls \ {"idle", "waiting", "done"}
Closures == {"none", "invalidating", "creating", "discarding", "preparing",
             "loading", "ended"}

Init ==
    /\ aborted = {}
    /\ closed = FALSE
    /\ leaseHeld = FALSE
    /\ waiters = <<>>
    /\ caller = [e \in Extraction |-> "idle"]
    /\ callerAwaits = [e \in Extraction |-> None]
    /\ nav = [e \in Extraction |-> "none"]
    /\ navAwaits = [e \in Extraction |-> None]
    /\ fresh = {}
    /\ context = None
    /\ page = None
    /\ closing = None
    /\ browser = [e \in Extraction |-> "none"]
    /\ opOn = [e \in Extraction |-> None]
    /\ cut = {}
    /\ closer = "open"
    /\ closerAwaits = None

CallerTo(e, l) == caller' = [caller EXCEPT ![e] = l]
NavTo(e, l) == nav' = [nav EXCEPT ![e] = l]

(* #invalidate: a new generation; unless a context is being closed already *)
(* the current one is detached and closed.                                 *)
Invalidate ==
    /\ fresh' = {}
    /\ IF closing # None
       THEN UNCHANGED <<context, page, closing, browser>>
       ELSE /\ context' = None
            /\ page' = None
            /\ closing' = context
            /\ browser' = [c \in Extraction |->
                              IF c = context THEN "closing" ELSE browser[c]]

(* What the promise it returns waits for. *)
Invalidated == IF closing # None THEN closing ELSE context
Settled(c) == IF c = None THEN TRUE ELSE browser[c] = "closed"

-----------------------------------------------------------------------------
(* The lease.                                                              *)
Acquire(e) ==
    /\ caller[e] = "idle"
    /\ IF closed \/ e \in aborted
       THEN CallerTo(e, "done") /\ UNCHANGED leaseVars
       ELSE IF ~leaseHeld
       THEN CallerTo(e, "acquired") /\ leaseHeld' = TRUE /\ UNCHANGED waiters
       ELSE CallerTo(e, "waiting") /\ waiters' = Append(waiters, e) /\ UNCHANGED leaseHeld
    /\ UNCHANGED <<aborted, callerAwaits, nav, navAwaits, contextVars, opOn, cut, closerVars>>

(* The signal fires; its listeners run in later steps. *)
Abort(e) ==
    /\ caller[e] # "done"
    /\ e \notin aborted
    /\ aborted' = aborted \cup {e}
    /\ UNCHANGED <<leaseVars, caller, callerAwaits, nav, navAwaits, contextVars,
                   opOn, cut, closerVars>>

Without(s, i) == SubSeq(s, 1, i - 1) \o SubSeq(s, i + 1, Len(s))

(* Mutant of WaiterAborted: the queue is not looked at. *)
WaiterStaysQueued(e) ==
    /\ caller[e] = "waiting"
    /\ e \in aborted
    /\ CallerTo(e, "done")
    /\ UNCHANGED <<aborted, leaseVars, callerAwaits, nav, navAwaits, contextVars,
                   opOn, cut, closerVars>>

(* onAbort of a waiter: out of the queue and rejected. *)
WaiterAborted(e) ==
    /\ caller[e] = "waiting"
    /\ e \in aborted
    /\ \E i \in 1..Len(waiters) : waiters[i] = e /\ waiters' = Without(waiters, i)
    /\ CallerTo(e, "done")
    /\ UNCHANGED <<aborted, leaseHeld, callerAwaits, nav, navAwaits, contextVars,
                   opOn, cut, closerVars>>

(* Mutants of Release: the flag is cleared although a waiter inherits the  *)
(* lease; the last waiter is served first; no waiter is served.            *)
ReleaseClearsFlag(e) ==
    /\ caller[e] = "ending"
    /\ leaseHeld' = FALSE
    /\ IF waiters = <<>>
       THEN CallerTo(e, "done") /\ UNCHANGED waiters
       ELSE /\ caller' = [caller EXCEPT ![e] = "done", ![Head(waiters)] = "acquired"]
            /\ waiters' = Tail(waiters)
    /\ UNCHANGED <<aborted, callerAwaits, nav, navAwaits, contextVars, opOn, cut, closerVars>>

ReleaseServesLast(e) ==
    /\ caller[e] = "ending"
    /\ leaseHeld' = (waiters # <<>>)
    /\ IF waiters = <<>>
       THEN CallerTo(e, "done") /\ UNCHANGED waiters
       ELSE /\ caller' = [caller EXCEPT ![e] = "done", ![waiters[Len(waiters)]] = "acquired"]
            /\ waiters' = SubSeq(waiters, 1, Len(waiters) - 1)
    /\ UNCHANGED <<aborted, callerAwaits, nav, navAwaits, contextVars, opOn, cut, closerVars>>

ReleaseForgetsWaiters(e) ==
    /\ caller[e] = "ending"
    /\ leaseHeld' = FALSE
    /\ CallerTo(e, "done")
    /\ UNCHANGED <<aborted, waiters, callerAwaits, nav, navAwaits, contextVars, opOn,
                   cut, closerVars>>

(* The release callback: waiters whose signal has fired are rejected, the  *)
(* first other one gets the lease.                                         *)
Release(e) ==
    /\ caller[e] = "ending"
    /\ \E k \in 1..(Len(waiters) + 1) :
          /\ \A i \in 1..(k - 1) : waiters[i] \in aborted
          /\ k <= Len(waiters) => waiters[k] \notin aborted
          /\ waiters' = SubSeq(waiters, k + 1, Len(waiters))
          /\ leaseHeld' = (k <= Len(waiters))
          /\ caller' = [x \in Extraction |->
                           IF x = e \/ \E i \in 1..(k - 1) : waiters[i] = x THEN "done"
                           ELSE IF k <= Len(waiters) /\ waiters[k] = x THEN "acquired"
                           ELSE caller[x]]
    /\ UNCHANGED <<aborted, callerAwaits, nav, navAwaits, contextVars, opOn, cut, closerVars>>

-----------------------------------------------------------------------------
(* navigate, as its caller sees it.                                        *)

(* Mutant of FailNavigation: the catch clause only throws. *)
FailWithoutInvalidating(e) ==
    /\ callerAwaits' = [callerAwaits EXCEPT ![e] = None]
    /\ CallerTo(e, "navFailed")
    /\ cut' = cut \cup {e}
    /\ UNCHANGED contextVars

(* The call fails in its own catch clause, which invalidates once more. *)
FailNavigation(e) ==
    /\ Invalidate
    /\ callerAwaits' = [callerAwaits EXCEPT ![e] = Invalidated]
    /\ CallerTo(e, "navFailed")
    /\ cut' = cut \cup {e}

Navigate(e) ==
    /\ caller[e] = "acquired"
    /\ IF closed
       THEN /\ CallerTo(e, "ending")
            /\ UNCHANGED <<callerAwaits, nav, navAwaits, contextVars, cut>>
       ELSE IF e \in aborted
       THEN FailNavigation(e) /\ UNCHANGED <<nav, navAwaits>>
       ELSE /\ Invalidate
            /\ CallerTo(e, "navigating")
            /\ NavTo(e, "invalidating")
            /\ navAwaits' = [navAwaits EXCEPT ![e] = Invalidated]
            /\ UNCHANGED <<callerAwaits, cut>>
    /\ UNCHANGED <<aborted, leaseVars, opOn, closerVars>>

(* The catch clause has awaited its invalidation. *)
NavigateThrows(e) ==
    /\ caller[e] = "navFailed"
    /\ Settled(callerAwaits[e])
    /\ CallerTo(e, "ending")
    /\ UNCHANGED <<aborted, leaseVars, callerAwaits, nav, navAwaits, contextVars,
                   opOn, cut, closerVars>>

-----------------------------------------------------------------------------
(* navigate, as its closure runs.                                          *)

(* The first #invalidate is over: take the generation, ask for a context. *)
NavCreate(e) ==
    /\ nav[e] = "invalidating"
    /\ Settled(navAwaits[e])
    /\ NavTo(e, "creating")
    /\ fresh' = fresh \cup {e}
    /\ UNCHANGED <<aborted, leaseVars, caller, callerAwaits, navAwaits,
                   context, page, closing, browser, opOn, cut, closerVars>>

(* Mutants of NavCreated: the generation is not compared; the context of   *)
(* an older generation is dropped without being closed.                    *)
NavCreatedUnchecked(e) ==
    /\ nav[e] = "creating"
    /\ context' = e
    /\ browser' = [browser EXCEPT ![e] = "open"]
    /\ NavTo(e, "preparing")
    /\ UNCHANGED <<aborted, leaseVars, caller, callerAwaits, navAwaits,
                   fresh, page, closing, opOn, cut, closerVars>>

NavCreatedDropped(e) ==
    /\ nav[e] = "creating"
    /\ browser' = [browser EXCEPT ![e] = "open"]
    /\ IF e \in fresh
       THEN context' = e /\ NavTo(e, "preparing")
       ELSE NavTo(e, "loading") /\ UNCHANGED context
    /\ UNCHANGED <<aborted, leaseVars, caller, callerAwaits, navAwaits,
                   fresh, page, closing, opOn, cut, closerVars>>

(* newContext resolves.  A context of an older generation is closed. *)
NavCreated(e) ==
    /\ nav[e] = "creating"
    /\ IF e \in fresh
       THEN /\ context' = e
            /\ browser' = [browser EXCEPT ![e] = "open"]
            /\ NavTo(e, "preparing")
       ELSE /\ browser' = [browser EXCEPT ![e] = "closing"]
            /\ NavTo(e, "discarding")
            /\ UNCHANGED context
    /\ UNCHANGED <<aborted, leaseVars, caller, callerAwaits, navAwaits,
                   fresh, page, closing, opOn, cut, closerVars>>

(* addCookies and newPage resolve.  Their answer may be on its way when    *)
(* the context starts closing; only #page is assigned, nothing is checked. *)
NavPage(e) ==
    /\ nav[e] = "preparing"
    /\ browser[e] \in {"open", "closing"}
    /\ page' = e
    /\ NavTo(e, "loading")
    /\ UNCHANGED <<aborted, leaseVars, caller, callerAwaits, navAwaits,
                   fresh, context, closing, browser, opOn, cut, closerVars>>

(* goto resolves. *)
NavLoaded(e) ==
    /\ nav[e] = "loading"
    /\ browser[e] \in {"open", "closing"}
    /\ NavTo(e, "ended")
    /\ IF caller[e] = "navigating" THEN CallerTo(e, "ready") ELSE UNCHANGED caller
    /\ UNCHANGED <<aborted, leaseVars, callerAwaits, navAwaits, contextVars,
                   opOn, cut, closerVars>>

(* newContext, addCookies, newPage or goto rejects, or the discarded       *)
(* context is closed.  A caller still racing fails with it.                *)
NavFails(e) ==
    /\ \/ nav[e] \in {"creating", "preparing", "loading"}
       \/ nav[e] = "discarding" /\ browser[e] = "closed"
    /\ NavTo(e, "ended")
    /\ IF caller[e] = "navigating"
       THEN FailNavigation(e)
       ELSE UNCHANGED <<caller, callerAwaits, contextVars, cut>>
    /\ UNCHANGED <<aborted, leaseVars, navAwaits, opOn, closerVars>>

(* context.close() settles, and with it #closing.  An assumption about     *)
(* Playwright: once it has settled the context is closed, also when it     *)
(* rejected.  #invalidate swallows the rejection and has forgotten the     *)
(* context; in #createContext it is the error of the navigation.           *)
ContextClosed(c) ==
    /\ browser[c] = "closing"
    /\ browser' = [browser EXCEPT ![c] = "closed"]
    /\ closing' = IF closing = c THEN None ELSE closing
    /\ UNCHANGED <<aborted, leaseVars, caller, callerAwaits, nav, navAwaits,
                   fresh, context, page, opOn, cut, closerVars>>

-----------------------------------------------------------------------------
(* The other operations.                                                   *)
Operate(e) ==
    /\ caller[e] = "ready"
    /\ ~closed /\ e \notin aborted /\ page # None
    /\ opOn' = [opOn EXCEPT ![e] = page]
    /\ CallerTo(e, "operating")
    /\ UNCHANGED <<aborted, leaseVars, callerAwaits, nav, navAwaits, contextVars,
                   cut, closerVars>>

(* It settles; the runtime may recover from a failure and go on. *)
OperationEnds(e) ==
    /\ caller[e] = "operating"
    /\ CallerTo(e, "ready")
    /\ opOn' = [opOn EXCEPT ![e] = None]
    /\ UNCHANGED <<aborted, leaseVars, callerAwaits, nav, navAwaits, contextVars,
                   cut, closerVars>>

(* The extraction is over, with a result or an error. *)
EndExtraction(e) ==
    /\ caller[e] = "ready"
    /\ CallerTo(e, "ending")
    /\ UNCHANGED <<aborted, leaseVars, callerAwaits, nav, navAwaits, contextVars,
                   opOn, cut, closerVars>>

-----------------------------------------------------------------------------
(* #guard: the timer or the signal ends the race.                          *)
GuardStops(e) ==
    /\ caller[e] \in {"navigating", "operating"}
    /\ Invalidate
    /\ callerAwaits' = [callerAwaits EXCEPT ![e] = Invalidated]
    /\ CallerTo(e, IF caller[e] = "navigating" THEN "navStopped" ELSE "opStopped")
    /\ cut' = cut \cup {e}
    /\ UNCHANGED <<aborted, leaseVars, nav, navAwaits, opOn, closerVars>>

(* A timer does not fire between a settled promise and its continuation. *)
GuardTimeout(e) ==
    /\ ~(nav[e] = "invalidating" /\ Settled(navAwaits[e]))
    /\ GuardStops(e)

GuardAbort(e) == e \in aborted /\ GuardStops(e)

(* Until the catch clause is done the other of the two may fire as well. *)
GuardStopsAgain(e) ==
    /\ caller[e] \in {"navStopped", "opStopped"}
    /\ ~Settled(callerAwaits[e])
    /\ Invalidate
    /\ UNCHANGED <<aborted, leaseVars, caller, callerAwaits, nav, navAwaits,
                   opOn, cut, closerVars>>

(* The catch clause has awaited the cleanup.  In navigate the closure that *)
(* awaits the same closing registered first, so it resumes first.          *)
NavCleaned(e) ==
    /\ caller[e] = "navStopped"
    /\ Settled(callerAwaits[e])
    /\ nav[e] # "invalidating"
    /\ FailNavigation(e)
    /\ UNCHANGED <<aborted, leaseVars, nav, navAwaits, opOn, closerVars>>

OpCleaned(e) ==
    /\ caller[e] = "opStopped"
    /\ Settled(callerAwaits[e])
    /\ CallerTo(e, "ready")
    /\ opOn' = [opOn EXCEPT ![e] = None]
    /\ UNCHANGED <<aborted, leaseVars, callerAwaits, nav, navAwaits, contextVars,
                   cut, closerVars>>

-----------------------------------------------------------------------------
(* close(): no new call starts, the waiters are rejected, the context goes. *)
Close ==
    /\ closer = "open"
    /\ closed' = TRUE
    /\ waiters' = <<>>
    /\ caller' = [e \in Extraction |->
                     IF \E i \in 1..Len(waiters) : waiters[i] = e THEN "done"
                     ELSE caller[e]]
    /\ Invalidate
    /\ closerAwaits' = Invalidated
    /\ closer' = "closing"
    /\ UNCHANGED <<aborted, leaseHeld, callerAwaits, nav, navAwaits, opOn, cut>>

CloseResolves ==
    /\ closer = "closing"
    /\ Settled(closerAwaits)
    /\ closer' = "closed"
    /\ UNCHANGED <<aborted, leaseVars, caller, callerAwaits, nav, navAwaits,
                   contextVars, opOn, cut, closed, closerAwaits>>

-----------------------------------------------------------------------------
(* What the runtime and the event loop certainly run once they may. *)
Progress(e) ==
    \/ Release(e) \/ Navigate(e) \/ NavigateThrows(e) \/ GuardTimeout(e)
    \/ NavCleaned(e) \/ OpCleaned(e) \/ EndExtraction(e)

NavStep(e) ==
    \/ NavCreate(e) \/ NavCreated(e) \/ NavPage(e) \/ NavLoaded(e) \/ NavFails(e)

Next ==
    \/ \E e \in Extraction :
          \/ Acquire(e) \/ Abort(e) \/ WaiterAborted(e) \/ Progress(e) \/ NavStep(e)
          \/ Operate(e) \/ OperationEnds(e) \/ GuardAbort(e) \/ GuardStopsAgain(e)
          \/ ContextClosed(e)
    \/ Close \/ CloseResolves

Spec == Init /\ [][Next]_vars

(* Fairness: a promise that can settle does, a timer fires, a context that *)
(* is being closed closes, and the runtime calls a bounded number of       *)
(* operations (EndExtraction is strongly fair).                            *)
FairSpec ==
    /\ Spec
    /\ \A e \in Extraction :
          /\ WF_vars(Progress(e)) /\ SF_vars(EndExtraction(e))
          /\ WF_vars(NavStep(e)) /\ WF_vars(ContextClosed(e))
          /\ WF_vars(WaiterAborted(e))
    /\ WF_vars(CloseResolves)

-----------------------------------------------------------------------------
(* #leaseHeld is set exactly while an extraction is past acquire, and the  *)
(* queue holds each waiting extraction once and nobody else, whatever      *)
(* mixture of aborts, releases and close() took the others out of it.      *)
QueueExact ==
    /\ leaseHeld <=> \E e \in Extraction : caller[e] \in Holding
    /\ \A e \in Extraction :
          caller[e] = "waiting" <=> \E i \in 1..Len(waiters) : waiters[i] = e
    /\ \A i, j \in 1..Len(waiters) : waiters[i] = waiters[j] => i = j
    /\ waiters # <<>> => leaseHeld

(* "A cookie, a storage value, a mutation of a page, or a failed operation *)
(* from one extraction cannot go into the next" (playwright.md): an        *)
(* operation runs in the context of its own extraction, and so would the   *)
(* next one of an extraction that has navigated, although a navigation cut *)
(* short may leave the page of a closing context in #page.                 *)
Isolation ==
    \A e \in Extraction :
        /\ opOn[e] \in {None, e}
        /\ caller[e] \in {"ready", "operating", "opStopped"} => page \in {None, e}

(* Every open context is #context, so a later #invalidate can close it. *)
NoOrphan == \A c \in Extraction : browser[c] = "open" <=> context = c

(* Once a navigation or operation has been cut short and its extraction    *)
(* has got its error, the extraction's context is not open and never will  *)
(* be, however late newContext resolves.                                   *)
CutStaysClosed ==
    \A e \in Extraction :
        e \in cut /\ caller[e] \in {"ending", "done"} =>
            browser[e] # "open" /\ e \notin fresh

(* The lease goes to the first waiter whose signal has not fired: nobody   *)
(* else in front of the new holder is still waiting.                       *)
NoOvertaking ==
    [][\A i, j \in 1..Len(waiters) :
          i < j /\ caller'[waiters[j]] = "acquired" => waiters[i] \in aborted]_vars

(* Every extraction that asks for the lease gets an answer and ends. *)
EveryExtractionEnds ==
    \A e \in Extraction : caller[e] # "idle" ~> caller[e] = "done"

-----------------------------------------------------------------------------
(* What the proofs of PlaywrightAdapterProofs rest on. *)
TypeOK ==
    /\ aborted \subseteq Extraction /\ closed \in BOOLEAN /\ leaseHeld \in BOOLEAN
    /\ waiters \in Seq(Extraction)
    /\ caller \in [Extraction -> Calls]
    /\ callerAwaits \in [Extraction -> Extraction \cup {None}]
    /\ nav \in [Extraction -> Closures]
    /\ navAwaits \in [Extraction -> Extraction \cup {None}]
    /\ fresh \subseteq Extraction
    /\ {context, page, closing} \subseteq Extraction \cup {None}
    /\ browser \in [Extraction -> {"none", "open", "closing", "closed"}]
    /\ opOn \in [Extraction -> Extraction \cup {None}]
    /\ cut \subseteq Extraction
    /\ closer \in {"open", "closing", "closed"}
    /\ closerAwaits \in Extraction \cup {None}

(* The lease has one holder. *)
OneHolder ==
    \A d, e \in Extraction : caller[d] \in Holding /\ caller[e] \in Holding => d = e

(* A closure does nothing before its extraction has the lease, keeps the   *)
(* lease while it invalidates, and has no context before it is created.    *)
ClosureFollowsCall ==
    \A e \in Extraction :
        /\ caller[e] \in {"idle", "waiting", "acquired"} => nav[e] = "none"
        /\ nav[e] = "invalidating" => caller[e] \in {"navigating", "navStopped"}
        /\ nav[e] \in {"none", "invalidating", "creating"} => browser[e] = "none"
        /\ nav[e] \in {"discarding", "preparing", "loading"} => browser[e] # "none"

(* At most one closure is of the current generation, and only its context  *)
(* can be #context; no context is being closed then.                       *)
OneGeneration ==
    /\ \A d, e \in fresh : d = e
    /\ fresh # {} => closing = None
    /\ context # None => context \in fresh
    /\ \A e \in Extraction :
          /\ e \in fresh => nav[e] \notin {"none", "invalidating"}
          /\ e \in fresh /\ nav[e] = "creating" => caller[e] \in {"navigating", "navStopped"}
          /\ nav[e] = "invalidating" => fresh = {} /\ closing \in {None, navAwaits[e]}

(* #closing is the context being closed, unless its closure discards it. *)
ClosingTracked ==
    /\ closing # None => browser[closing] = "closing"
    /\ \A c \in Extraction :
          browser[c] = "closing" /\ nav[c] # "discarding" => closing = c

(* A navigation or operation cut short has lost the current generation     *)
(* once its catch clause has invalidated.                                  *)
CutIsStale ==
    \A e \in cut :
        /\ caller[e] \in {"navStopped", "navFailed", "ready", "operating", "opStopped",
                           "ending", "done"}
        /\ caller[e] # "navStopped" => e \notin fresh

(* The call outlasts its context while the closure can still set #page. *)
PageOwned ==
    \A e \in Extraction :
        /\ nav[e] = "preparing" /\ browser[e] # "closed" =>
              caller[e] \in {"navigating", "navStopped", "navFailed"}
        /\ nav[e] = "preparing" /\ caller[e] = "navFailed" /\ browser[e] # "closed" =>
              callerAwaits[e] = e
        /\ nav[e] = "loading" /\ caller[e] = "navigating" => page \in {None, e}

IInv ==
    /\ TypeOK /\ QueueExact /\ OneHolder /\ ClosureFollowsCall /\ OneGeneration
    /\ NoOrphan /\ ClosingTracked /\ CutIsStale /\ PageOwned /\ Isolation

-----------------------------------------------------------------------------
(* A statement of the documentation that the adapter does not keep.        *)

(* docs/www/npm/playwright.md: "adapter.close() closes the contexts of the *)
(* adapter".                                                               *)
CloseClosesContexts ==
    closer = "closed" => \A c \in Extraction : browser[c] # "open"

-----------------------------------------------------------------------------
Phase(e) ==
    IF caller[e] = "waiting" THEN "waiting"
    ELSE IF caller[e] \in Holding THEN "holding" ELSE "out"

Lease == INSTANCE ExclusiveLease
            WITH Client <- Extraction, phase <- [e \in Extraction |-> Phase(e)]

(* The queue implements the extraction lease. *)
LeaseSpec == Lease!Spec
=============================================================================
