----------------------------- MODULE RodAdapter -----------------------------
(***************************************************************************)
(* The go-rod adapter (adapters/rod/adapter.go): one mutable page that     *)
(* several goroutines share.  The lease is a channel holding one token     *)
(* (line 123); an extraction takes it before Navigate and gives it back    *)
(* when it ends, on every path (browser.go:119-141, `defer release()`).    *)
(* Close takes it too.                                                     *)
(*                                                                         *)
(* The browser behind the page is external.  A call to it may fail, and a  *)
(* call that reports a failure may still have taken effect.  The cleanup   *)
(* returned by SetExtraHeaders has no result and is bound to the context   *)
(* of the navigation that made it, so the adapter cannot see whether it    *)
(* did anything.                                                           *)
(***************************************************************************)
EXTENDS Naturals

CONSTANTS
    Extraction,     \* goroutines in Program.Extract, one call after another
    Closer,         \* goroutines that call Adapter.Close
    WithHeaders,    \* the extractions whose session has headers
    Owned,          \* NewBrowser made the page, so Close closes it
    None

ASSUME RodAssumption ==
    /\ WithHeaders \subseteq Extraction
    /\ Owned \in BOOLEAN
    /\ Extraction \cap Closer = {}
    /\ None \notin Extraction \cup Closer

Proc == Extraction \cup Closer

VARIABLES
    pc,             \* where each goroutine is
    canceled,       \* the extractions whose context is done
    lease,          \* tokens in the lease channel
    mu,             \* the goroutine that holds the mutex, or None
    page,           \* "set", or "nil" once Close has run
    closes,         \* calls to page.Close
    cleanup,        \* the extraction whose header cleanup is stored, or None
    headers,        \* the extraction whose headers the page sends, or None
    residue         \* those headers outlived what the adapter can undo

vars == <<pc, canceled, lease, mu, page, closes, cleanup, headers, residue>>
pageVars == <<page, closes, cleanup, headers, residue>>

Locations == {"idle", "acquire", "lock", "navigate", "load", "operate",
              "close", "release", "done"}
HasLease == {"lock", "navigate", "load", "operate", "close", "release"}

Init ==
    /\ pc = [p \in Proc |-> "idle"]
    /\ canceled = {}
    /\ lease = 1
    /\ mu = None
    /\ page = "set"
    /\ closes = 0
    /\ cleanup = None
    /\ headers = None
    /\ residue = FALSE

Goto(p, l) == pc' = [pc EXCEPT ![p] = l]

-----------------------------------------------------------------------------
(* Acquire: the select over ctx.Done and the lease channel.                *)

(* Mutant of Request: Close does not take the lease. *)
RequestWithoutLease(p) ==
    /\ pc[p] = "idle"
    /\ Goto(p, IF p \in Closer THEN "lock" ELSE "acquire")
    /\ canceled' = canceled \ {p}
    /\ UNCHANGED <<lease, mu, pageVars>>

(* Program.Extract reaches Acquire, with a context of its own; Close calls *)
(* it with context.Background().                                           *)
Request(p) ==
    /\ pc[p] = "idle"
    /\ Goto(p, "acquire")
    /\ canceled' = canceled \ {p}
    /\ UNCHANGED <<lease, mu, pageVars>>

(* The caller's context ends, canceled or past its deadline. *)
Cancel(e) ==
    /\ pc[e] # "idle"
    /\ e \notin canceled
    /\ canceled' = canceled \cup {e}
    /\ UNCHANGED <<pc, lease, mu, pageVars>>

(* Mutant of TakeToken: the token is seen but not received. *)
PeekToken(p) ==
    /\ pc[p] = "acquire"
    /\ lease > 0
    /\ Goto(p, "lock")
    /\ UNCHANGED <<canceled, lease, mu, pageVars>>

TakeToken(p) ==
    /\ pc[p] = "acquire"
    /\ lease > 0
    /\ lease' = lease - 1
    /\ Goto(p, "lock")
    /\ UNCHANGED <<canceled, mu, pageVars>>

(* Mutant of AcquireCanceled: the error is dropped.                        *)
CancelIgnored(e) ==
    /\ pc[e] = "acquire"
    /\ e \in canceled
    /\ Goto(e, "lock")
    /\ UNCHANGED <<canceled, lease, mu, pageVars>>

AcquireCanceled(e) ==
    /\ pc[e] = "acquire"
    /\ e \in canceled
    /\ Goto(e, "idle")
    /\ UNCHANGED <<canceled, lease, mu, pageVars>>

(* The callback sends the token back; the channel holds one. *)
Release(p) ==
    /\ pc[p] = "release"
    /\ lease < 1
    /\ lease' = lease + 1
    /\ Goto(p, IF p \in Closer THEN "done" ELSE "idle")
    /\ UNCHANGED <<canceled, mu, pageVars>>

-----------------------------------------------------------------------------
(* Navigate and the operations on the page.                                *)

(* a.cleanup(), when there is one: it clears the page's extra headers, or  *)
(* does nothing because the context it was bound to is over.               *)
RunCleanup ==
    /\ cleanup' = None
    /\ IF cleanup = None
       THEN UNCHANGED <<headers, residue>>
       ELSE \/ headers' = None /\ residue' = FALSE
            \/ headers' = headers /\ residue' = TRUE

(* Mutant of NavigateBegin: the stored cleanup is not run. *)
NavigateKeepsHeaders(e) ==
    /\ pc[e] = "lock"
    /\ mu = None
    /\ IF page = "nil"
       THEN Goto(e, "release") /\ UNCHANGED mu
       ELSE mu' = e /\ Goto(e, "navigate")
    /\ UNCHANGED <<canceled, lease, pageVars>>

(* Navigate takes the mutex, refuses a closed page and drops the headers   *)
(* of the extraction before.                                               *)
NavigateBegin(e) ==
    /\ pc[e] = "lock"
    /\ mu = None
    /\ IF page = "nil"
       THEN /\ Goto(e, "release")
            /\ UNCHANGED <<mu, cleanup, headers, residue>>
       ELSE /\ mu' = e
            /\ RunCleanup
            /\ Goto(e, "navigate")
    /\ UNCHANGED <<canceled, lease, page, closes>>

(* SetUserAgent and setHeaders succeed. *)
SetHeaders(e) ==
    /\ pc[e] = "navigate"
    /\ IF e \in WithHeaders
       THEN headers' = e /\ cleanup' = e /\ residue' = FALSE
       ELSE UNCHANGED <<headers, cleanup, residue>>
    /\ Goto(e, "load")
    /\ UNCHANGED <<canceled, lease, mu, page, closes>>

(* One of them fails.  A failed SetExtraHeaders may have been applied, and *)
(* its cleanup is dropped.                                                 *)
SetHeadersFails(e) ==
    /\ pc[e] = "navigate"
    /\ \/ UNCHANGED <<headers, residue>>
       \/ e \in WithHeaders /\ headers' = e /\ residue' = TRUE
    /\ mu' = None
    /\ Goto(e, "release")
    /\ UNCHANGED <<canceled, lease, page, closes, cleanup>>

(* Mutant of Load: a failed navigation returns before the release is       *)
(* deferred.                                                               *)
LoadLosesToken(e) ==
    /\ pc[e] = "load"
    /\ mu' = None
    /\ pc' \in {[pc EXCEPT ![e] = "operate"], [pc EXCEPT ![e] = "idle"]}
    /\ UNCHANGED <<canceled, lease, pageVars>>

(* setCookies, page.Navigate and WaitLoad. *)
Load(e) ==
    /\ pc[e] = "load"
    /\ mu' = None
    /\ pc' \in {[pc EXCEPT ![e] = "operate"], [pc EXCEPT ![e] = "release"]}
    /\ UNCHANGED <<canceled, lease, pageVars>>

(* The workflow steps and output reads, which take no mutex, then the end  *)
(* of the extraction, successful or not.                                   *)
EndOperations(e) ==
    /\ pc[e] = "operate"
    /\ Goto(e, "release")
    /\ UNCHANGED <<canceled, lease, mu, pageVars>>

-----------------------------------------------------------------------------
(* Close, under the lease and then the mutex.                              *)
CloseLock(c) ==
    /\ pc[c] = "lock"
    /\ mu = None
    /\ mu' = c
    /\ Goto(c, "close")
    /\ UNCHANGED <<canceled, lease, pageVars>>

(* Mutant of ClosePage: the cleanup is left for a navigation that never    *)
(* comes.                                                                  *)
CloseKeepsHeaders(c) ==
    /\ pc[c] = "close"
    /\ page' = "nil"
    /\ closes' = IF Owned /\ page = "set" THEN closes + 1 ELSE closes
    /\ mu' = None
    /\ Goto(c, "release")
    /\ UNCHANGED <<canceled, lease, cleanup, headers, residue>>

ClosePage(c) ==
    /\ pc[c] = "close"
    /\ RunCleanup
    /\ page' = "nil"
    /\ closes' = IF Owned /\ page = "set" THEN closes + 1 ELSE closes
    /\ mu' = None
    /\ Goto(c, "release")
    /\ UNCHANGED <<canceled, lease>>

-----------------------------------------------------------------------------
ExtractionStep(e) ==
    \/ Request(e) \/ Cancel(e) \/ TakeToken(e) \/ AcquireCanceled(e)
    \/ NavigateBegin(e) \/ SetHeaders(e) \/ SetHeadersFails(e) \/ Load(e)
    \/ EndOperations(e) \/ Release(e)

CloserStep(c) ==
    \/ Request(c) \/ TakeToken(c) \/ CloseLock(c) \/ ClosePage(c) \/ Release(c)

Next ==
    \/ \E e \in Extraction : ExtractionStep(e)
    \/ \E c \in Closer : CloserStep(c)

Spec == Init /\ [][Next]_vars

(* Fairness.  Every call to the page ends, because contextPage gives it a  *)
(* timeout (normalizeTimeout), so a holder gets to its release.  The Go    *)
(* channel serves its receivers in order, so a receiver does not lose the  *)
(* token forever.  Nothing makes an extraction start or its context end.   *)
HolderSteps(e) ==
    \/ NavigateBegin(e) \/ SetHeaders(e) \/ SetHeadersFails(e) \/ Load(e)
    \/ EndOperations(e) \/ Release(e)

FairSpec ==
    /\ Spec
    /\ \A e \in Extraction : WF_vars(HolderSteps(e))
    /\ \A c \in Closer : WF_vars(CloseLock(c) \/ ClosePage(c) \/ Release(c))
    /\ \A p \in Proc : SF_vars(TakeToken(p))

-----------------------------------------------------------------------------
TypeOK ==
    /\ pc \in [Proc -> Locations]
    /\ \A e \in Extraction : pc[e] \notin {"close", "done"}
    /\ \A c \in Closer : pc[c] \notin {"navigate", "load", "operate"}
    /\ canceled \subseteq Extraction
    /\ lease \in 0..1
    /\ mu \in Proc \cup {None}
    /\ page \in {"set", "nil"}
    /\ closes \in Nat
    /\ cleanup \in Extraction \cup {None}
    /\ headers \in Extraction \cup {None}
    /\ residue \in BOOLEAN

(* "preventing workflow and read operations from interleaving across       *)
(* concurrent Program.Extract calls" (adapter.go:128-131): at most one     *)
(* goroutine is past Acquire, and the token is in the channel exactly when *)
(* none is, so no release ever blocks on a full channel.                   *)
LeaseExclusive ==
    /\ \A p, q \in Proc : pc[p] \in HasLease /\ pc[q] \in HasLease => p = q
    /\ lease = 1 <=> \A p \in Proc : pc[p] \notin HasLease

(* Under the lease the mutex is never contended: a goroutine about to lock *)
(* it finds it free, so the two locks cannot be waited for crosswise.      *)
MutexFree == \A p \in Proc : pc[p] = "lock" => mu = None

(* Close waits for the extraction: the page of a running one stays set and *)
(* open, and an owned page is closed at most once however many goroutines  *)
(* call Close.                                                             *)
PageStays ==
    /\ \A e \in Extraction :
          pc[e] \in {"navigate", "load", "operate"} => page = "set" /\ closes = 0
    /\ closes <= 1

(* An extraction works under the headers of its own session, or none: the  *)
(* headers of an earlier one survive only as a residue, of a call or a     *)
(* cleanup whose effect the adapter cannot observe, and only when this     *)
(* extraction sets none of its own.                                        *)
OwnHeaders ==
    \A e \in Extraction :
        pc[e] \in {"load", "operate"} =>
            IF e \in WithHeaders THEN headers = e ELSE headers = None \/ residue

(* "Close releases adapter-managed state": a closed adapter keeps no       *)
(* headers on the page, which stays the caller's when it is not owned.     *)
CloseClearsHeaders == page = "nil" => cleanup = None /\ (headers = None \/ residue)

(* The invariant that carries the three above through every step: the      *)
(* mutex is held where Navigate and Close hold it, headers that can still  *)
(* be undone have their cleanup stored, and Navigate sets headers on a     *)
(* page that has none.                                                     *)
MutexHolder ==
    /\ mu # None => pc[mu] \in {"navigate", "load", "close"}
    /\ \A p \in Proc : pc[p] \in {"navigate", "load", "close"} => mu = p

CleanupStored ==
    /\ headers # None /\ ~residue => cleanup = headers
    /\ \A e \in Extraction :
          pc[e] = "navigate" => cleanup = None /\ (headers = None \/ residue)

ClosedOnce == page = "set" => closes = 0

IInv ==
    /\ TypeOK
    /\ LeaseExclusive
    /\ MutexHolder
    /\ PageStays
    /\ ClosedOnce
    /\ CleanupStored
    /\ OwnHeaders
    /\ CloseClearsHeaders

(* Close gets the page although extractions keep asking for it. *)
CloseReturns == \A c \in Closer : pc[c] = "acquire" ~> pc[c] = "done"

-----------------------------------------------------------------------------
(* The channel implements the extraction lease. *)
Phase(p) ==
    IF pc[p] = "acquire" THEN "waiting"
    ELSE IF pc[p] \in HasLease THEN "holding" ELSE "out"

Lease == INSTANCE ExclusiveLease
            WITH Client <- Proc, phase <- [p \in Proc |-> Phase(p)]

LeaseSpec == Lease!Spec
=============================================================================
