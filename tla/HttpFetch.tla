----------------------------- MODULE HttpFetch ------------------------------
(***************************************************************************)
(* HTTP acquisition in the Go runtime (internal/executor/fetch.go and      *)
(* policy.go, entered from executeHTTPPrepared): the URL policy, the       *)
(* request and its redirects under one timeout, and the bounded body.      *)
(*                                                                         *)
(* The network and net/http's Client are external.  `web` is what each URL *)
(* answers; a redirect goes to the client's CheckRedirect, which           *)
(* clientWithURLPolicy replaces when there is a policy.  The default       *)
(* CheckRedirect stops after ClientLimit requests (net/http: 10); one of   *)
(* the caller's own stops or goes on as it likes.  The caller's client may *)
(* be the guarded one of urlguard.go, whose dialer refuses addresses.      *)
(***************************************************************************)
EXTENDS Naturals, Sequences

CONSTANTS
    Urls,
    Start,          \* the expanded URL template
    Answers,        \* what a URL may answer: records [kind, to]
    ClientLimit,    \* requests the default CheckRedirect allows
    MaxBytes,       \* Options.MaxResponseBytes
    HopBound,       \* bound: requests before the timeout has certainly fired
    SizeBound       \* bound: length of a response body

(* What Acquisition assumes of them. *)
Parameters ==
    /\ Start \in Urls
    /\ Answers \subseteq [kind : {"page", "status", "redirect"}, to : Urls]
    /\ ClientLimit \in Nat \ {0} /\ HopBound \in Nat \ {0}
    /\ MaxBytes \in Nat /\ SizeBound \in Nat

VARIABLES
    web,            \* the answer of each URL
    policed,        \* Options.URLPolicy is set
    allowed,        \* the URLs it accepts
    ownCheck,       \* the supplied client has a CheckRedirect
    pc,
    url,            \* the URL of the request being made
    sent,           \* history: the URLs that were requested
    refused,        \* history: the URLs the policy, or the dialer, rejected
    ended,          \* how the request's context ended, or "no"
    size,           \* length of the body the server sends
    read,           \* bytes of it that were read
    outcome         \* [code, cause] of the result

setup == <<web, policed, allowed, ownCheck>>
vars == <<setup, pc, url, sent, refused, ended, size, read, outcome>>

CodeOf(fallback) ==
    CASE ended = "deadline" -> "E_TIMEOUT"
      [] ended = "canceled" -> "E_EXECUTION_CANCELED"
      [] OTHER -> fallback

Init ==
    /\ web \in [Urls -> Answers]
    /\ policed \in BOOLEAN
    /\ allowed \in SUBSET Urls
    /\ ownCheck \in BOOLEAN
    /\ pc = "policy"
    /\ url = Start
    /\ sent = <<>>
    /\ refused = {}
    /\ ended = "no"
    /\ size \in 0..SizeBound
    /\ read = 0
    /\ outcome = [code |-> "none", cause |-> "none"]

Return(code, cause) ==
    /\ pc' = "done"
    /\ outcome' = [code |-> code, cause |-> cause]

(* What ended an operation that the context interrupts, or the peer. *)
Cause == IF ended = "no" THEN "peer" ELSE ended

Accepts(u) == policed => u \in allowed

(* A policy refuses, or gives up because the context it was given is over; *)
(* every error of a policy is a rejection.                                 *)
Rejects(u) == policed /\ (u \notin allowed \/ ended # "no")

-----------------------------------------------------------------------------
(* Before the request.                                                     *)
CheckPolicy ==
    /\ pc = "policy"
    /\ \/ Accepts(url) /\ pc' = "start" /\ UNCHANGED <<refused, outcome>>
       \/ Rejects(url) /\ Return("E_URL_POLICY", "policy") /\ refused' = refused \cup {url}
    /\ UNCHANGED <<setup, url, sent, ended, size, read>>

(* fetchDocument looks at the context once before it starts its timer. *)
Begin ==
    /\ pc = "start"
    /\ IF ended # "no"
       THEN Return(CodeOf("E_HTTP_FETCH"), Cause)
       ELSE pc' = "send" /\ UNCHANGED outcome
    /\ UNCHANGED <<setup, url, sent, refused, ended, size, read>>

-----------------------------------------------------------------------------
(* Client.Do.                                                              *)
Send ==
    /\ pc = "send" /\ ended = "no" /\ Len(sent) < HopBound
    /\ sent' = Append(sent, url)
    /\ pc' = "answer"
    /\ UNCHANGED <<setup, url, refused, ended, size, read, outcome>>

(* Mutant of TransportFails: the context's error is not looked at. *)
TransportFailsUnnamed ==
    /\ pc \in {"send", "answer"}
    /\ Return("E_HTTP_FETCH", Cause)
    /\ UNCHANGED <<setup, url, sent, refused, ended, size, read>>

(* Do fails.  The peer may be to blame whether or not the context is over; *)
(* the Timeout of the caller's client is an error that is a                *)
(* DeadlineExceeded too; and the guarded dialer's is the policy's error.   *)
TransportFails ==
    /\ pc \in {"send", "answer"}
    /\ \/ Return("E_HTTP_FETCH", "peer") /\ UNCHANGED refused
       \/ ended # "no" /\ Return(CodeOf("E_HTTP_FETCH"), ended) /\ UNCHANGED refused
       \/ Return("E_TIMEOUT", "clientTimeout") /\ UNCHANGED refused
       \/ /\ pc = "send"
          /\ Return("E_URL_POLICY", "dialer")
          /\ refused' = refused \cup {url}
    /\ UNCHANGED <<setup, url, sent, ended, size, read>>

(* CheckRedirect of the client that clientWithURLPolicy returns. *)
ClientFollows ==
    IF ownCheck THEN {TRUE, FALSE}
    ELSE IF policed THEN {TRUE} ELSE {Len(sent) < ClientLimit}

(* What a stopped redirect is: an error, the context's when the caller's   *)
(* check gave up on that, or with http.ErrUseLastResponse the redirect     *)
(* itself, whose status is refused.                                        *)
ClientStops ==
    {"E_HTTP_FETCH"} \cup (IF ownCheck THEN {"E_HTTP_STATUS", CodeOf("E_HTTP_FETCH")} ELSE {})

Redirected(next) ==
    \/ /\ Rejects(next)
       /\ Return("E_URL_POLICY", "policy")
       /\ refused' = refused \cup {next}
       /\ UNCHANGED url
    \/ /\ Accepts(next) /\ TRUE \in ClientFollows
       /\ url' = next /\ pc' = "send"
       /\ UNCHANGED <<refused, outcome>>
    \/ /\ Accepts(next) /\ FALSE \in ClientFollows
       /\ \E code \in ClientStops : Return(code, "client")
       /\ UNCHANGED <<url, refused>>

(* Mutants of Redirect: the client's own check takes the place of the      *)
(* policy; the policy's error is not recognised in what Do returns.        *)
RedirectOwnCheckOnly ==
    /\ pc = "answer" /\ web[url].kind = "redirect"
    /\ IF ownCheck
       THEN url' = web[url].to /\ pc' = "send" /\ UNCHANGED <<refused, outcome>>
       ELSE Redirected(web[url].to)
    /\ UNCHANGED <<setup, sent, ended, size, read>>

RedirectErrorWrapped ==
    /\ pc = "answer" /\ web[url].kind = "redirect"
    /\ IF Accepts(web[url].to)
       THEN Redirected(web[url].to)
       ELSE /\ Return(CodeOf("E_HTTP_FETCH"), "policy")
            /\ refused' = refused \cup {web[url].to}
            /\ UNCHANGED url
    /\ UNCHANGED <<setup, sent, ended, size, read>>

(* A redirect: the policy sees the target before the client's own check,   *)
(* and its error is E_URL_POLICY whatever the context does meanwhile.      *)
Redirect ==
    /\ pc = "answer" /\ web[url].kind = "redirect"
    /\ Redirected(web[url].to)
    /\ UNCHANGED <<setup, sent, ended, size, read>>

Status ==
    /\ pc = "answer" /\ web[url].kind # "redirect"
    /\ IF web[url].kind = "page"
       THEN pc' = "body" /\ UNCHANGED outcome
       ELSE Return("E_HTTP_STATUS", "status")
    /\ UNCHANGED <<setup, url, sent, refused, ended, size, read>>

-----------------------------------------------------------------------------
(* The body, through a LimitReader of one byte more than is allowed.       *)

(* Mutant of ReadLimit: the extra byte is forgotten. *)
ReadExactLimit == MaxBytes

ReadLimit == MaxBytes + 1

ReadMore ==
    /\ pc = "body" /\ read < size /\ read < ReadLimit
    /\ read' = read + 1
    /\ UNCHANGED <<setup, pc, url, sent, refused, ended, size, outcome>>

(* io.ReadAll fails: one code, whoever is to blame. *)
ReadFails ==
    /\ pc = "body" /\ read < size
    /\ Return("E_HTTP_READ", Cause)
    /\ UNCHANGED <<setup, url, sent, refused, ended, size, read>>

(* Then the charset and the parser, which may refuse the text. *)
EndBody ==
    /\ pc = "body" /\ (read = size \/ read = ReadLimit)
    /\ IF read > MaxBytes
       THEN Return("E_HTTP_BODY_TOO_LARGE", "size")
       ELSE \/ Return("ok", "none")
            \/ Return("E_HTML_DECODE", "text")
    /\ UNCHANGED <<setup, url, sent, refused, ended, size, read>>

-----------------------------------------------------------------------------
(* The caller cancels; a deadline passes, the caller's or the timeout.     *)
(* The first of them decides what the context's error is.                  *)
Ends(how) ==
    /\ ended = "no" /\ pc # "done"
    /\ ended' = how
    /\ UNCHANGED <<setup, pc, url, sent, refused, size, read, outcome>>

(* Mutant of Deadline: the request does not get the timeout's context. *)
DeadlineBeforeRequest == pc \in {"policy", "start"} /\ Ends("deadline")

Deadline == Ends("deadline")
Cancel == Ends("canceled")

Next ==
    \/ CheckPolicy \/ Begin \/ Send \/ TransportFails \/ Redirect \/ Status
    \/ ReadMore \/ ReadFails \/ EndBody
    \/ Deadline \/ Cancel

Spec == Init /\ [][Next]_vars

-----------------------------------------------------------------------------
(* "Options.URLPolicy runs before the initial request and before every     *)
(* HTTP redirect" (http-runtime.md), in front of the client's own          *)
(* CheckRedirect: no request goes to a URL the policy rejects.             *)
EveryHopApproved == policed => \A i \in 1..Len(sent) : sent[i] \in allowed

(* What a code says of its cause.  E_URL_POLICY: the policy or the guarded *)
(* dialer rejected a URL, and whenever one did, although the rejection     *)
(* reaches fetchDocument wrapped by the client.  E_TIMEOUT: a deadline has *)
(* passed.  E_EXECUTION_CANCELED: the caller has canceled.  E_HTTP_FETCH:  *)
(* the peer failed, or a redirect was stopped, never the context.  Of      *)
(* E_HTTP_READ nothing is said: fetch.go:60 gives it to every failure of   *)
(* the body, one the context caused included, and                          *)
(* TestExecuteHTTPClosesBodyAfterReadCancellation expects that.            *)
FailureNamed ==
    pc = "done" =>
        /\ outcome.code = "E_URL_POLICY" <=> refused # {}
        /\ outcome.code = "E_TIMEOUT" => ended = "deadline" \/ outcome.cause = "clientTimeout"
        /\ outcome.code = "E_EXECUTION_CANCELED" => ended = "canceled"
        /\ outcome.code = "E_HTTP_FETCH" => outcome.cause \in {"peer", "client"}

(* A document is made of the whole body or not at all: a body of exactly   *)
(* MaxBytes is accepted, and no longer one is, cut to size.                *)
WholeBody ==
    /\ outcome.code = "ok" => read = size /\ size <= MaxBytes
    /\ outcome.code = "E_HTTP_BODY_TOO_LARGE" => size > MaxBytes

-----------------------------------------------------------------------------
(* The invariant from which the three follow.                              *)
TypeOK ==
    /\ web \in [Urls -> Answers] /\ policed \in BOOLEAN /\ ownCheck \in BOOLEAN
    /\ pc \in {"policy", "start", "send", "answer", "body", "done"}
    /\ url \in Urls /\ sent \in Seq(Urls) /\ refused \subseteq Urls
    /\ ended \in {"no", "deadline", "canceled"}
    /\ size \in Nat /\ read \in Nat

(* What is sent next has been asked about; nothing is decided before the   *)
(* end; the reader never passes its limit.                                 *)
Progress ==
    /\ pc \in {"start", "send"} => Accepts(url)
    /\ pc # "done" => refused = {} /\ outcome.code = "none"
    /\ read <= size /\ read <= ReadLimit

IInv == TypeOK /\ Progress /\ EveryHopApproved /\ FailureNamed /\ WholeBody
=============================================================================
