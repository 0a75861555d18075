----------------------------- MODULE FetchHTML ------------------------------
(***************************************************************************)
(* HTTP acquisition in the TypeScript runtime (fetchHTML in                *)
(* packages/scrape-kdl/src/runtime.ts, entered from executeProgram): it    *)
(* follows redirects itself, asks the URL policy before each hop, narrows  *)
(* the session headers when the origin changes, and bounds time and bytes. *)
(*                                                                         *)
(* An action is what runs between two awaits.  The fetch implementation    *)
(* and the policy are external: a fetch under an aborted controller        *)
(* rejects, and its answer may be settled before the abort is seen.  A     *)
(* body that is not wanted is canceled, and that is awaited too: cancel()  *)
(* rejects when the stream has failed meanwhile, an abort included.        *)
(***************************************************************************)
EXTENDS Naturals, Sequences

CONSTANTS
    Urls,
    Start,          \* the expanded URL template
    Origin,         \* the origin of each URL
    CookieScope,    \* the origins that a domain cookie of the session covers
    MaxRedirects,   \* MAX_REDIRECTS
    MaxBytes,       \* maxResponseBytes
    SizeBound       \* bound: length of a response body

(* What Acquisition assumes of them. *)
Parameters ==
    /\ Start \in Urls
    /\ CookieScope \subseteq {Origin[u] : u \in Urls}
    /\ MaxRedirects \in Nat /\ MaxBytes \in Nat /\ SizeBound \in Nat

VARIABLES
    allowed,        \* the URLs the policy accepts
    pc,
    url,            \* the URL of the current hop, or the one the policy looks at
    from,           \* the URL that redirected there
    headers,        \* what of the session the headers carry
    redirect,       \* the loop counter
    aborted,        \* options.signal has fired
    timedOut,       \* timedOut
    armed,          \* the timer is set and the listener registered
    controller,     \* why the controller is aborted, or "live"
    sent,           \* history: the requests, as [to, with]
    read,           \* bytes of the body
    outcome         \* [code, cause]; code is "uncoded" for a foreign error

vars == <<allowed, pc, url, from, headers, redirect, aborted, timedOut, armed,
          controller, sent, read, outcome>>

(* authorization and friends; a cookie without a domain, or a cookie       *)
(* header; a cookie with a domain; any other header.                       *)
Parts == {"authorization", "hostCookie", "domainCookie", "other"}
InScope(u) == IF Origin[u] \in CookieScope THEN {"domainCookie"} ELSE {}
SessionHeaders(u) == {"authorization", "hostCookie", "other"} \cup InScope(u)

Init ==
    /\ allowed \in SUBSET Urls
    /\ pc = "start"
    /\ url = Start
    /\ from = Start
    /\ headers = {}
    /\ redirect = 0
    /\ aborted = FALSE
    /\ timedOut = FALSE
    /\ armed = FALSE
    /\ controller = "live"
    /\ sent = <<>>
    /\ read = 0
    /\ outcome = [code |-> "none", cause |-> "none"]

(* The finally clause clears the timer and the listener. *)
Throw(code, cause) ==
    /\ pc' = "done"
    /\ armed' = FALSE
    /\ outcome' = [code |-> code, cause |-> cause]
    /\ UNCHANGED sent

(* executeProgram looks at the signal; preflight, inputs and the template  *)
(* are synchronous, then the policy is awaited.                            *)
Begin ==
    /\ pc = "start"
    /\ IF aborted
       THEN Throw("E_EXECUTION_CANCELED", "signal")
       ELSE pc' = "policy" /\ UNCHANGED <<armed, sent, outcome>>
    /\ UNCHANGED <<allowed, url, from, headers, redirect, aborted, timedOut, controller, read>>

-----------------------------------------------------------------------------
(* The head of the loop: the signal is looked at and fetch is called.      *)

(* Mutant of CallFetch: the signal, which may have fired before there was  *)
(* a listener, is not looked at. *)
CallFetchUnchecked(with) ==
    /\ pc' = "response"
    /\ armed' = TRUE
    /\ sent' = IF controller = "live" THEN Append(sent, [to |-> url, with |-> with]) ELSE sent
    /\ UNCHANGED outcome

CallFetch(with) ==
    IF aborted
    THEN Throw("E_EXECUTION_CANCELED", "signal")
    ELSE /\ pc' = "response"
         /\ armed' = TRUE
         /\ sent' = IF controller = "live" THEN Append(sent, [to |-> url, with |-> with])
                    ELSE sent
         /\ UNCHANGED outcome

(* The first policy accepts: fetchHTML sets its timer and listener. *)
EnterFetch ==
    /\ pc = "policy" /\ url \in allowed
    /\ headers' = SessionHeaders(url)
    /\ CallFetch(SessionHeaders(url))
    /\ UNCHANGED <<allowed, url, from, redirect, aborted, timedOut, controller, read>>

(* Mutant of Narrowed: only a cookie header is dropped. *)
NarrowCookiesOnly(next) ==
    IF Origin[next] = Origin[from] THEN headers
    ELSE (headers \ {"hostCookie", "domainCookie"}) \cup InScope(next)

(* The headers of the next hop: to another origin, no authorization, and   *)
(* only those session cookies whose domain covers it.                      *)
Narrowed(next) ==
    IF Origin[next] = Origin[from] THEN headers
    ELSE (headers \ {"authorization", "hostCookie", "domainCookie"}) \cup InScope(next)

(* Mutant of Follow: the policy is only asked about the first URL. *)
FollowUnasked ==
    /\ pc = "redirect"
    /\ headers' = Narrowed(url)
    /\ redirect' = redirect + 1
    /\ CallFetch(Narrowed(url))
    /\ UNCHANGED <<allowed, url, from, aborted, timedOut, controller, read>>

(* The policy accepts a redirect. *)
Follow ==
    /\ pc = "redirect" /\ url \in allowed
    /\ headers' = Narrowed(url)
    /\ redirect' = redirect + 1
    /\ CallFetch(Narrowed(url))
    /\ UNCHANGED <<allowed, url, from, aborted, timedOut, controller, read>>

(* The policy refuses, or gives up because the signal it was given has     *)
(* fired: enforceURLPolicy has one code for whatever it throws.            *)
PolicyRejects ==
    /\ pc \in {"policy", "redirect"} /\ (url \notin allowed \/ aborted)
    /\ Throw("E_URL_POLICY", IF url \in allowed THEN "signal" ELSE "policy")
    /\ UNCHANGED <<allowed, url, from, headers, redirect, aborted, timedOut, controller, read>>

-----------------------------------------------------------------------------
(* What fetch answers.                                                     *)
Sending == controller = "live" \/ (sent # <<>> /\ Len(sent) = redirect + 1)

(* Mutant of ErrorCode: the timer is forgotten. *)
ErrorCodeNoTimer(fallback) ==
    IF aborted THEN "E_EXECUTION_CANCELED" ELSE fallback

ErrorCode(fallback) ==
    IF timedOut THEN "E_TIMEOUT"
    ELSE IF aborted THEN "E_EXECUTION_CANCELED" ELSE fallback

FetchRejects ==
    /\ pc = "response"
    /\ Throw(ErrorCode("E_HTTP_FETCH"), "transport")
    /\ UNCHANGED <<allowed, url, from, headers, redirect, aborted, timedOut, controller, read>>

(* Mutant of AtLimit: one redirect more. *)
AtLimitPlusOne == redirect = MaxRedirects + 1
AtLimit == redirect = MaxRedirects

(* A redirect: its body is canceled before anything else is looked at. *)
Redirected ==
    /\ pc = "response" /\ Sending
    /\ pc' = "redirected"
    /\ UNCHANGED <<allowed, url, from, headers, redirect, aborted, timedOut, armed,
                   controller, sent, read, outcome>>

(* It has a target that can be fetched, which the policy is asked about.   *)
Turn(next) ==
    /\ pc = "redirected"
    /\ IF AtLimit
       THEN Throw("E_HTTP_FETCH", "limit") /\ UNCHANGED <<url, from>>
       ELSE /\ pc' = "redirect"
            /\ from' = url
            /\ url' = next
            /\ UNCHANGED <<armed, sent, outcome>>
    /\ UNCHANGED <<allowed, headers, redirect, aborted, timedOut, controller, read>>

(* It has no Location, or one that is no HTTP URL. *)
NoTarget ==
    /\ pc = "redirected"
    /\ \/ Throw("E_HTTP_STATUS", "answer")
       \/ ~AtLimit /\ Throw("E_HTTP_FETCH", "answer")
    /\ UNCHANGED <<allowed, url, from, headers, redirect, aborted, timedOut, controller, read>>

(* Another status: the body is canceled, then the status is refused. *)
BadAnswer ==
    /\ pc = "response" /\ Sending
    /\ pc' = "refused"
    /\ UNCHANGED <<allowed, url, from, headers, redirect, aborted, timedOut, armed,
                   controller, sent, read, outcome>>

Refuse ==
    /\ pc = "refused"
    /\ Throw("E_HTTP_STATUS", "answer")
    /\ UNCHANGED <<allowed, url, from, headers, redirect, aborted, timedOut, controller, read>>

(* Mutant of Page: the timer is cleared when the headers are here. *)
PageStopsTimer ==
    /\ pc = "response" /\ Sending
    /\ pc' = "body"
    /\ armed' = FALSE
    /\ UNCHANGED <<allowed, url, from, headers, redirect, aborted, timedOut,
                   controller, sent, read, outcome>>

Page ==
    /\ pc = "response" /\ Sending
    /\ pc' = "body"
    /\ UNCHANGED <<allowed, url, from, headers, redirect, aborted, timedOut, armed,
                   controller, sent, read, outcome>>

-----------------------------------------------------------------------------
(* readBoundedBody, then decodeHTML.                                       *)

Exceeds(total) == total > MaxBytes

Chunk(n) ==
    /\ pc = "body" /\ read + n <= SizeBound
    /\ read' = read + n
    /\ pc' = IF Exceeds(read + n) THEN "excess" ELSE "body"
    /\ UNCHANGED <<allowed, url, from, headers, redirect, aborted, timedOut, armed,
                   controller, sent, outcome>>

(* The reader is canceled, then the length is refused. *)
TooLarge ==
    /\ pc = "excess"
    /\ Throw("E_HTTP_BODY_TOO_LARGE", "size")
    /\ UNCHANGED <<allowed, url, from, headers, redirect, aborted, timedOut, controller, read>>

(* Nothing catches what cancel() rejects with, in any of the three places. *)
CancelRejects ==
    /\ pc \in {"redirected", "refused", "excess"}
    /\ Throw("uncoded", "discard")
    /\ UNCHANGED <<allowed, url, from, headers, redirect, aborted, timedOut, controller, read>>

ReadRejects ==
    /\ pc = "body"
    /\ Throw(ErrorCode("E_HTTP_READ"), "transport")
    /\ UNCHANGED <<allowed, url, from, headers, redirect, aborted, timedOut, controller, read>>

EndBody ==
    /\ pc = "body"
    /\ \E code \in {"ok", "E_HTML_DECODE"} : Throw(code, "none")
    /\ UNCHANGED <<allowed, url, from, headers, redirect, aborted, timedOut, controller, read>>

-----------------------------------------------------------------------------
(* The signal fires; the listener, when there is one, aborts the           *)
(* controller.                                                             *)
Abort ==
    /\ ~aborted /\ pc # "done"
    /\ aborted' = TRUE
    /\ controller' = IF armed /\ controller = "live" THEN "abort" ELSE controller
    /\ UNCHANGED <<allowed, pc, url, from, headers, redirect, timedOut, armed, sent,
                   read, outcome>>

Timer ==
    /\ armed /\ ~timedOut
    /\ timedOut' = TRUE
    /\ controller' = IF controller = "live" THEN "timeout" ELSE controller
    /\ UNCHANGED <<allowed, pc, url, from, headers, redirect, aborted, armed, sent,
                   read, outcome>>

Next ==
    \/ Begin \/ EnterFetch \/ Follow \/ PolicyRejects \/ FetchRejects
    \/ Redirected \/ (\E next \in Urls : Turn(next)) \/ NoTarget \/ BadAnswer \/ Refuse
    \/ Page \/ (\E n \in 1..MaxBytes : Chunk(n)) \/ TooLarge \/ CancelRejects
    \/ ReadRejects \/ EndBody
    \/ Abort \/ Timer

Spec == Init /\ [][Next]_vars

-----------------------------------------------------------------------------
(* "removes an authorization header and a host-only cookie header between  *)
(* the origins" (npm/compile-and-extract.md), on any path of redirects,    *)
(* one that comes back included, and a domain cookie only goes to origins  *)
(* in its scope.                                                           *)
SessionInScope ==
    \A i \in 1..Len(sent) :
        /\ (\E j \in 1..i : Origin[sent[j].to] # Origin[Start])
              => sent[i].with \cap {"authorization", "hostCookie"} = {}
        /\ "domainCookie" \in sent[i].with => Origin[sent[i].to] \in CookieScope

(* "The TypeScript runtime makes each redirect itself, thus the policy     *)
(* sees each hop".                                                         *)
EveryHopApproved == \A i \in 1..Len(sent) : sent[i].to \in allowed

(* Both limits bite exactly where they say: MAX_REDIRECTS redirects are    *)
(* followed, no more, and no fewer before the limit is blamed; a document  *)
(* has at most MaxBytes, and a body of exactly MaxBytes is not too large.  *)
LimitsExact ==
    /\ Len(sent) <= MaxRedirects + 1
    /\ outcome.cause = "limit" => Len(sent) = MaxRedirects + 1
    /\ outcome.code = "ok" => read <= MaxBytes
    /\ outcome.code = "E_HTTP_BODY_TOO_LARGE" => read > MaxBytes

(* What a code says of its cause.  E_TIMEOUT: the timer has fired.         *)
(* E_EXECUTION_CANCELED: the signal has.  E_URL_POLICY: the policy refused *)
(* the URL, or was given up on by the signal.  A request or a read that    *)
(* fails is blamed on the peer exactly when neither has fired, the timer   *)
(* taking precedence.  Nothing is said of cancel(), whose rejection leaves *)
(* without a code whatever caused it.                                      *)
FailureNamed ==
    /\ outcome.code = "E_TIMEOUT" => timedOut
    /\ outcome.code = "E_EXECUTION_CANCELED" => aborted
    /\ outcome.code = "E_URL_POLICY" => url \notin allowed \/ aborted
    /\ outcome.cause = "transport" =>
          /\ outcome.code = "E_TIMEOUT" <=> timedOut
          /\ outcome.code \in {"E_HTTP_FETCH", "E_HTTP_READ"} <=> ~timedOut /\ ~aborted

-----------------------------------------------------------------------------
(* The invariant from which they follow.                                   *)
Fetching == pc \in {"response", "redirected", "redirect", "refused", "body", "excess"}

TypeOK ==
    /\ Fetching \/ pc \in {"start", "policy", "done"}
    /\ url \in Urls /\ from \in Urls /\ headers \subseteq Parts /\ redirect \in Nat
    /\ aborted \in BOOLEAN /\ timedOut \in BOOLEAN /\ armed \in BOOLEAN
    /\ controller \in {"live", "abort", "timeout"}
    /\ sent \in Seq([to : Urls, with : SUBSET Parts])
    /\ read \in Nat

(* The loop counter counts the requests, one ahead of them only when the   *)
(* controller was dead before fetch was called.                            *)
Hops ==
    /\ pc \in {"start", "policy"} => sent = <<>> /\ redirect = 0 /\ url = Start
    /\ redirect <= MaxRedirects /\ Len(sent) <= redirect + 1
    /\ pc = "redirect" => redirect < MaxRedirects /\ Len(sent) = redirect + 1
    /\ pc = "response" /\ controller = "live" => Len(sent) = redirect + 1
    /\ pc = "redirected" => Len(sent) = redirect + 1
    /\ pc = "body" => read <= MaxBytes
    /\ pc = "excess" => read > MaxBytes
    /\ pc \notin {"body", "excess", "done"} => read = 0

(* The controller knows of every stop while there is a listener.           *)
Stopping ==
    /\ armed <=> Fetching
    /\ pc \in {"start", "policy"} => controller = "live" /\ ~timedOut
    /\ Fetching => (controller = "live" <=> ~aborted /\ ~timedOut)
    /\ pc # "done" => outcome.code = "none" /\ outcome.cause = "none"

(* The URL of the last request, or of the one that is being made. *)
At == IF pc = "redirect" THEN from ELSE url

(* Headers that only the origin may see are dropped for good once it has   *)
(* been left.                                                              *)
HeadersInScope ==
    Fetching =>
        /\ "domainCookie" \in headers => Origin[At] \in CookieScope
        /\ headers \cap {"authorization", "hostCookie"} # {} =>
              /\ Origin[At] = Origin[Start]
              /\ \A i \in 1..Len(sent) : Origin[sent[i].to] = Origin[Start]

IInv ==
    /\ TypeOK /\ Hops /\ Stopping /\ HeadersInScope
    /\ SessionInScope /\ EveryHopApproved /\ LimitsExact /\ FailureNamed
=============================================================================
