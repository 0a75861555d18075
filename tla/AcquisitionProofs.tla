------------------------- MODULE AcquisitionProofs --------------------------
(***************************************************************************)
(* Theorems about Acquisition, for any web, any policy, any origins and    *)
(* limits: the invariant of each runtime is inductive, and a step of the   *)
(* system is a step of the one that runs.                                  *)
(***************************************************************************)
EXTENDS Acquisition, SequenceTheorems, TLAPS

-----------------------------------------------------------------------------
(* Go.  What is sent next was accepted where url was set, in CheckPolicy   *)
(* or in Redirected, and nothing comes between.                            *)

(* What a failure of the network is reported as: the context's end when    *)
(* that is the error, and never a rejection or a document.                 *)
LEMMA GoFailureCodes ==
    ASSUME ended \in {"no", "deadline", "canceled"}
    PROVE  /\ Go!CodeOf("E_HTTP_FETCH") \in {"E_HTTP_FETCH", "E_TIMEOUT", "E_EXECUTION_CANCELED"}
           /\ Go!CodeOf("E_HTTP_FETCH") = "E_TIMEOUT" <=> ended = "deadline"
           /\ Go!CodeOf("E_HTTP_FETCH") = "E_EXECUTION_CANCELED" <=> ended = "canceled"
  BY DEF Go!CodeOf

LEMMA GoBegins == Go!Parameters /\ Go!Init => Go!IInv
<1>. SUFFICES ASSUME Go!Parameters, Go!Init PROVE Go!IInv
  OBVIOUS
<1>1. Go!TypeOK
  BY EmptySeq DEF Go!Parameters, Go!Init, Go!TypeOK
<1>2. Go!Progress /\ Go!EveryHopApproved /\ Go!FailureNamed /\ Go!WholeBody
  BY DEF Go!Parameters, Go!Init, Go!Progress, Go!ReadLimit, Go!EveryHopApproved,
     Go!FailureNamed, Go!WholeBody
<1>. QED  BY <1>1, <1>2 DEF Go!IInv

(* Every step keeps the invariant. *)
LEMMA GoStep == Go!Parameters /\ Go!IInv /\ [Go!Next]_Go!vars => Go!IInv'
<1>. SUFFICES ASSUME Go!Parameters, Go!IInv, [Go!Next]_Go!vars PROVE Go!IInv'
  OBVIOUS
<1>1. CASE Go!CheckPolicy
  <2>1. \/ /\ Go!Accepts(url) /\ pc' = "start" /\ UNCHANGED <<refused, outcome>>
        \/ /\ Go!Return("E_URL_POLICY", "policy")
           /\ refused' \subseteq Urls /\ refused' # {}
    BY <1>1 DEF Go!CheckPolicy, Go!IInv, Go!TypeOK
  <2>. QED
    BY <1>1, <2>1 DEF Go!CheckPolicy, Go!Return, Go!setup, Go!IInv, Go!TypeOK, Go!Progress,
       Go!EveryHopApproved, Go!FailureNamed, Go!WholeBody, Go!Accepts, Go!ReadLimit
<1>2. CASE Go!Begin
  BY <1>2, GoFailureCodes DEF Go!Begin, Go!Return, Go!setup, Go!IInv, Go!TypeOK,
     Go!Progress, Go!EveryHopApproved, Go!FailureNamed, Go!WholeBody, Go!Accepts,
     Go!ReadLimit
<1>3. CASE Go!Send
  <2>1. url \in Urls /\ sent \in Seq(Urls) /\ Go!Accepts(url)
    BY <1>3 DEF Go!Send, Go!IInv, Go!TypeOK, Go!Progress
  <2>2. /\ sent' \in Seq(Urls) /\ Len(sent') = Len(sent) + 1
        /\ \A i \in 1..Len(sent) : sent'[i] = sent[i]
        /\ sent'[Len(sent) + 1] = url
    BY <1>3, <2>1, AppendProperties DEF Go!Send
  <2>3. Go!EveryHopApproved'
    <3>. SUFFICES ASSUME policed, NEW i \in 1..Len(sent') PROVE sent'[i] \in allowed
      BY <1>3 DEF Go!Send, Go!setup, Go!EveryHopApproved
    <3>1. i \in 1..Len(sent) \/ i = Len(sent) + 1
      BY <2>1, <2>2, LenProperties
    <3>. QED  BY <2>1, <2>2, <3>1 DEF Go!IInv, Go!EveryHopApproved, Go!Accepts
  <2>4. Go!TypeOK'
    BY <1>3, <2>2 DEF Go!Send, Go!IInv, Go!TypeOK, Go!setup
  <2>5. Go!Progress' /\ Go!FailureNamed' /\ Go!WholeBody'
    BY <1>3 DEF Go!Send, Go!setup, Go!IInv, Go!TypeOK, Go!Progress, Go!FailureNamed,
       Go!WholeBody, Go!ReadLimit
  <2>. QED  BY <2>3, <2>4, <2>5 DEF Go!IInv
<1>4. CASE Go!TransportFails
  <2>1. \/ /\ UNCHANGED refused
           /\ \/ Go!Return("E_HTTP_FETCH", "peer")
              \/ Go!Return("E_TIMEOUT", "clientTimeout")
              \/ ended # "no" /\ Go!Return(Go!CodeOf("E_HTTP_FETCH"), ended)
        \/ /\ Go!Return("E_URL_POLICY", "dialer")
           /\ refused' \subseteq Urls /\ refused' # {}
    BY <1>4 DEF Go!TransportFails, Go!IInv, Go!TypeOK
  <2>. QED
    BY <1>4, <2>1, GoFailureCodes DEF Go!TransportFails, Go!Return, Go!setup, Go!IInv,
       Go!TypeOK, Go!Progress, Go!EveryHopApproved, Go!FailureNamed, Go!WholeBody,
       Go!Accepts, Go!ReadLimit
<1>5. CASE Go!Redirect
  <2>. DEFINE next == web[url].to
  <2>1. next \in Urls
    BY <1>5 DEF Go!Redirect, Go!Parameters, Go!IInv, Go!TypeOK
  <2>2. \/ /\ Go!Return("E_URL_POLICY", "policy") /\ UNCHANGED url
           /\ refused' \subseteq Urls /\ refused' # {}
        \/ /\ Go!Accepts(next) /\ url' = next /\ pc' = "send"
           /\ UNCHANGED <<refused, outcome>>
        \/ /\ UNCHANGED <<url, refused>>
           /\ \E code \in {"E_HTTP_FETCH", "E_HTTP_STATUS", Go!CodeOf("E_HTTP_FETCH")} :
                 Go!Return(code, "client")
    BY <1>5, <2>1 DEF Go!Redirect, Go!Redirected, Go!ClientStops, Go!IInv, Go!TypeOK
  <2>. QED
    BY <1>5, <2>1, <2>2, GoFailureCodes DEF Go!Redirect, Go!Return, Go!setup, Go!IInv,
       Go!TypeOK, Go!Progress, Go!EveryHopApproved, Go!FailureNamed, Go!WholeBody,
       Go!Accepts, Go!ReadLimit
<1>6. CASE Go!Status
  BY <1>6 DEF Go!Status, Go!Return, Go!setup, Go!IInv, Go!TypeOK, Go!Progress,
     Go!EveryHopApproved, Go!FailureNamed, Go!WholeBody, Go!Accepts, Go!ReadLimit
<1>7. CASE Go!ReadMore
  BY <1>7 DEF Go!ReadMore, Go!Parameters, Go!setup, Go!IInv, Go!TypeOK, Go!Progress,
     Go!EveryHopApproved, Go!FailureNamed, Go!WholeBody, Go!Accepts, Go!ReadLimit
<1>8. CASE Go!ReadFails
  BY <1>8, GoFailureCodes DEF Go!ReadFails, Go!Return, Go!setup, Go!IInv, Go!TypeOK,
     Go!Progress, Go!EveryHopApproved, Go!FailureNamed, Go!WholeBody, Go!Accepts,
     Go!ReadLimit
<1>9. CASE Go!EndBody
  <2>1. CASE read > MaxBytes
    BY <1>9, <2>1 DEF Go!EndBody, Go!Return, Go!Parameters, Go!setup, Go!IInv,
       Go!TypeOK, Go!Progress, Go!EveryHopApproved, Go!FailureNamed, Go!WholeBody,
       Go!Accepts, Go!ReadLimit
  <2>2. CASE ~(read > MaxBytes)
    BY <1>9, <2>2 DEF Go!EndBody, Go!Return, Go!Parameters, Go!setup, Go!IInv,
       Go!TypeOK, Go!Progress, Go!EveryHopApproved, Go!FailureNamed, Go!WholeBody,
       Go!Accepts, Go!ReadLimit
  <2>. QED  BY <2>1, <2>2
<1>10. CASE Go!Deadline \/ Go!Cancel
  BY <1>10 DEF Go!Deadline, Go!Cancel, Go!Ends, Go!setup, Go!IInv, Go!TypeOK,
     Go!Progress, Go!EveryHopApproved, Go!FailureNamed, Go!WholeBody, Go!Accepts,
     Go!ReadLimit
<1>11. CASE UNCHANGED Go!vars
  BY <1>11 DEF Go!vars, Go!setup, Go!IInv, Go!TypeOK, Go!Progress, Go!EveryHopApproved,
     Go!FailureNamed, Go!WholeBody, Go!Accepts, Go!ReadLimit
<1>. QED
  BY <1>1, <1>2, <1>3, <1>4, <1>5, <1>6, <1>7, <1>8, <1>9, <1>10, <1>11 DEF Go!Next

(* The policy sees every hop in front of its request, a code says what it  *)
(* says of its cause, and a document is made of the whole body.            *)
THEOREM GoAcquisition ==
    ASSUME Go!Parameters
    PROVE  Go!Spec => [](Go!EveryHopApproved /\ Go!FailureNamed /\ Go!WholeBody)
<1>1. Go!IInv => Go!EveryHopApproved /\ Go!FailureNamed /\ Go!WholeBody
  BY DEF Go!IInv
<1>. QED  BY <1>1, GoBegins, GoStep, PTL DEF Go!Spec

-----------------------------------------------------------------------------
(* TypeScript.  The loop counter and the requests go together (Hops), the  *)
(* controller and the flags go together while there is a listener          *)
(* (Stopping), and headers for the origin only are gone once it was left   *)
(* (HeadersInScope).                                                       *)

LEMMA TsBegins == Ts!Parameters /\ Ts!Init => Ts!IInv
<1>. SUFFICES ASSUME Ts!Parameters, Ts!Init PROVE Ts!IInv
  OBVIOUS
<1>1. sent \in Seq([to : Sites, with : SUBSET Ts!Parts]) /\ Len(sent) = 0
  BY EmptySeq DEF Ts!Init
<1>2. Ts!TypeOK
  BY <1>1 DEF Ts!Parameters, Ts!Init, Ts!TypeOK
<1>3. Ts!Hops
  BY <1>1 DEF Ts!Parameters, Ts!Init, Ts!Hops
<1>4. Ts!Stopping /\ Ts!HeadersInScope
  BY DEF Ts!Init, Ts!Stopping, Ts!HeadersInScope, Ts!Fetching
<1>5. Ts!SessionInScope /\ Ts!EveryHopApproved /\ Ts!LimitsExact /\ Ts!FailureNamed
  BY <1>1 DEF Ts!Parameters, Ts!Init, Ts!SessionInScope, Ts!EveryHopApproved,
     Ts!LimitsExact, Ts!FailureNamed
<1>. QED  BY <1>2, <1>3, <1>4, <1>5 DEF Ts!IInv

(* A step that ends the call sends nothing; what it reports is all that    *)
(* there is to show.                                                       *)
LEMMA TsThrows ==
    ASSUME Ts!Parameters, Ts!IInv, NEW code, NEW cause, Ts!Throw(code, cause),
           UNCHANGED <<allowed, aborted, timedOut, controller>>,
           url' \in Sites, from' \in Sites, headers' \subseteq Ts!Parts,
           redirect' \in Nat, redirect <= redirect', redirect' <= MaxRedirects,
           read' \in Nat,
           cause = "limit" => Len(sent) = MaxRedirects + 1,
           code = "ok" => read' <= MaxBytes,
           code = "E_HTTP_BODY_TOO_LARGE" => read' > MaxBytes,
           code = "E_TIMEOUT" => timedOut,
           code = "E_EXECUTION_CANCELED" => aborted,
           code = "E_URL_POLICY" => url' \notin allowed \/ aborted,
           cause = "transport" =>
             /\ code = "E_TIMEOUT" <=> timedOut
             /\ code \in {"E_HTTP_FETCH", "E_HTTP_READ"} <=> ~timedOut /\ ~aborted
    PROVE  Ts!IInv'
<1>1. Ts!TypeOK'
  BY DEF Ts!Throw, Ts!IInv, Ts!TypeOK
<1>2. Len(sent) \in Nat
  BY LenProperties DEF Ts!IInv, Ts!TypeOK
<1>3. Ts!Hops' /\ Ts!Stopping' /\ Ts!HeadersInScope'
  BY <1>2 DEF Ts!Throw, Ts!IInv, Ts!TypeOK, Ts!Hops, Ts!Stopping, Ts!HeadersInScope,
     Ts!Fetching, Ts!Parameters
<1>4. Ts!SessionInScope' /\ Ts!EveryHopApproved'
  BY DEF Ts!Throw, Ts!IInv, Ts!SessionInScope, Ts!EveryHopApproved
<1>5. Ts!LimitsExact' /\ Ts!FailureNamed'
  BY <1>2 DEF Ts!Throw, Ts!IInv, Ts!TypeOK, Ts!Hops, Ts!LimitsExact, Ts!FailureNamed,
     Ts!Parameters
<1>. QED  BY <1>1, <1>3, <1>4, <1>5 DEF Ts!IInv

(* A request: the loop goes on with headers that are in scope. *)
LEMMA TsRequests ==
    ASSUME Ts!Parameters, Ts!IInv, NEW with \in SUBSET Ts!Parts,
           pc \in {"policy", "redirect"}, url \in allowed, ~aborted, Ts!CallFetch(with),
           headers' = with,
           redirect' = IF pc = "redirect" THEN redirect + 1 ELSE redirect,
           UNCHANGED <<allowed, url, from, aborted, timedOut, controller, read>>,
           "domainCookie" \in with => Origin[url] \in CookieScope,
           with \cap {"authorization", "hostCookie"} # {} =>
              /\ Origin[url] = Origin[Start]
              /\ \A i \in 1..Len(sent) : Origin[sent[i].to] = Origin[Start]
    PROVE  Ts!IInv'
<1>. DEFINE Request == [to : Sites, with : SUBSET Ts!Parts]
<1>1. /\ pc' = "response" /\ armed' = TRUE /\ UNCHANGED outcome
      /\ sent' = IF controller = "live" THEN Append(sent, [to |-> url, with |-> with]) ELSE sent
  BY DEF Ts!CallFetch
<1>2. sent \in Seq(Request) /\ Len(sent) \in Nat /\ [to |-> url, with |-> with] \in Request
  BY LenProperties DEF Ts!IInv, Ts!TypeOK
<1>3. CASE controller = "live"
  <2>1. /\ sent' \in Seq(Request) /\ Len(sent') = Len(sent) + 1
        /\ \A i \in 1..Len(sent) : sent'[i] = sent[i]
        /\ sent'[Len(sent) + 1] = [to |-> url, with |-> with]
    BY <1>1, <1>2, <1>3, AppendProperties
  <2>2. \A i \in 1..Len(sent') : i \in 1..Len(sent) \/ i = Len(sent) + 1
    BY <1>2, <2>1
  <2>3. \A i \in 1..Len(sent') :
           \/ i \in 1..Len(sent) /\ sent'[i] = sent[i]
           \/ i = Len(sent) + 1 /\ sent'[i].to = url /\ sent'[i].with = with
    BY <2>1, <2>2
  <2>4. Ts!TypeOK'
    BY <1>1, <2>1 DEF Ts!IInv, Ts!TypeOK, Ts!Fetching
  <2>5. Ts!Hops' /\ Ts!LimitsExact'
    BY <1>1, <1>2, <2>1 DEF Ts!IInv, Ts!TypeOK, Ts!Hops, Ts!LimitsExact, Ts!Parameters,
       Ts!Stopping
  <2>6. Ts!Stopping' /\ Ts!FailureNamed'
    BY <1>1 DEF Ts!IInv, Ts!TypeOK, Ts!Stopping, Ts!Fetching, Ts!FailureNamed
  <2>7. Ts!EveryHopApproved'
    BY <2>3 DEF Ts!IInv, Ts!EveryHopApproved
  <2>8. Ts!HeadersInScope'
    <3>1. with \cap {"authorization", "hostCookie"} # {} =>
             \A i \in 1..Len(sent') : Origin[sent'[i].to] = Origin[Start]
      BY <2>3
    <3>. QED  BY <1>1, <3>1 DEF Ts!HeadersInScope, Ts!Fetching, Ts!At
  <2>9. Ts!SessionInScope'
    <3>. SUFFICES ASSUME NEW i \in 1..Len(sent')
                  PROVE  /\ (\E j \in 1..i : Origin[sent'[j].to] # Origin[Start])
                               => sent'[i].with \cap {"authorization", "hostCookie"} = {}
                         /\ "domainCookie" \in sent'[i].with => Origin[sent'[i].to] \in CookieScope
      BY DEF Ts!SessionInScope
    <3>1. CASE i \in 1..Len(sent)
      <4>1. \A j \in 1..i : sent'[j] = sent[j]
        BY <1>2, <2>1, <3>1
      <4>. QED  BY <2>1, <3>1, <4>1 DEF Ts!IInv, Ts!SessionInScope
    <3>2. CASE i = Len(sent) + 1
      <4>1. \A j \in 1..i : j \in 1..Len(sent')
        BY <1>2, <2>1, <3>2
      <4>2. \A j \in 1..i : \/ j \in 1..Len(sent) /\ sent'[j] = sent[j]
                            \/ sent'[j].to = url
        BY <2>3, <4>1
      <4>3. sent'[i].to = url /\ sent'[i].with = with
        BY <2>1, <3>2
      <4>. QED  BY <4>2, <4>3
    <3>. QED  BY <2>2, <3>1, <3>2
  <2>. QED  BY <2>4, <2>5, <2>6, <2>7, <2>8, <2>9 DEF Ts!IInv
<1>4. CASE controller # "live"
  <2>1. pc = "redirect" /\ UNCHANGED sent
    BY <1>1, <1>4 DEF Ts!IInv, Ts!Stopping
  <2>2. Ts!TypeOK' /\ Ts!Stopping' /\ Ts!FailureNamed'
    BY <1>1, <2>1 DEF Ts!IInv, Ts!TypeOK, Ts!Stopping, Ts!Fetching, Ts!FailureNamed
  <2>3. Ts!Hops' /\ Ts!LimitsExact'
    BY <1>1, <1>2, <1>4, <2>1 DEF Ts!IInv, Ts!TypeOK, Ts!Hops, Ts!LimitsExact,
       Ts!Parameters, Ts!Stopping
  <2>4. Ts!EveryHopApproved' /\ Ts!SessionInScope' /\ Ts!HeadersInScope'
    BY <1>1, <2>1 DEF Ts!IInv, Ts!EveryHopApproved, Ts!SessionInScope,
       Ts!HeadersInScope, Ts!Fetching, Ts!At
  <2>. QED  BY <2>2, <2>3, <2>4 DEF Ts!IInv
<1>. QED  BY <1>3, <1>4

(* What failure of the transport is reported as. *)
LEMMA TsBlames ==
    ASSUME Ts!IInv, Ts!Fetching, NEW fallback \in {"E_HTTP_FETCH", "E_HTTP_READ"}
    PROVE  /\ Ts!ErrorCode(fallback) = "E_TIMEOUT" <=> timedOut
           /\ Ts!ErrorCode(fallback) = "E_EXECUTION_CANCELED" => aborted
           /\ Ts!ErrorCode(fallback) \in {"E_HTTP_FETCH", "E_HTTP_READ"} <=> ~timedOut /\ ~aborted
           /\ Ts!ErrorCode(fallback) \notin {"ok", "E_HTTP_BODY_TOO_LARGE", "E_URL_POLICY"}
  BY DEF Ts!IInv, Ts!TypeOK, Ts!ErrorCode

(* Every step keeps the invariant. *)
LEMMA TsStep == Ts!Parameters /\ Ts!IInv /\ [Ts!Next]_Ts!vars => Ts!IInv'
<1>. SUFFICES ASSUME Ts!Parameters, Ts!IInv, [Ts!Next]_Ts!vars PROVE Ts!IInv'
  OBVIOUS
<1>0. Ts!TypeOK /\ MaxRedirects \in Nat /\ redirect <= MaxRedirects
  BY DEF Ts!IInv, Ts!Hops, Ts!Parameters
<1>1. CASE Ts!Begin
  <2>1. CASE aborted
    BY <1>0, <1>1, <2>1, TsThrows DEF Ts!Begin, Ts!TypeOK
  <2>2. CASE ~aborted
    BY <1>1, <2>2 DEF Ts!Begin, Ts!IInv, Ts!TypeOK, Ts!Hops, Ts!Stopping,
       Ts!HeadersInScope, Ts!Fetching, Ts!SessionInScope, Ts!EveryHopApproved,
       Ts!LimitsExact, Ts!FailureNamed
  <2>. QED  BY <2>1, <2>2
<1>2. CASE Ts!EnterFetch
  <2>1. /\ Ts!SessionHeaders(url) \in SUBSET Ts!Parts
        /\ "domainCookie" \in Ts!SessionHeaders(url) => Origin[url] \in CookieScope
    BY DEF Ts!SessionHeaders, Ts!InScope, Ts!Parts
  <2>2. url = Start /\ sent = <<>>
    BY <1>2 DEF Ts!EnterFetch, Ts!IInv, Ts!Hops
  <2>3. CASE aborted
    BY <1>0, <1>2, <2>1, <2>3, TsThrows DEF Ts!EnterFetch, Ts!CallFetch, Ts!TypeOK
  <2>4. CASE ~aborted
    BY <1>2, <2>1, <2>2, <2>4, TsRequests DEF Ts!EnterFetch
  <2>. QED  BY <2>3, <2>4
<1>3. CASE Ts!Follow
  <2>1. /\ Ts!Narrowed(url) \in SUBSET Ts!Parts
        /\ "domainCookie" \in Ts!Narrowed(url) => Origin[url] \in CookieScope
    BY <1>0, <1>3 DEF Ts!Follow, Ts!Narrowed, Ts!InScope, Ts!Parts, Ts!IInv, Ts!TypeOK,
       Ts!HeadersInScope, Ts!Fetching, Ts!At
  <2>2. Ts!Narrowed(url) \cap {"authorization", "hostCookie"} # {} =>
            /\ Origin[url] = Origin[Start]
            /\ \A i \in 1..Len(sent) : Origin[sent[i].to] = Origin[Start]
    BY <1>3 DEF Ts!Follow, Ts!Narrowed, Ts!InScope, Ts!IInv, Ts!HeadersInScope,
       Ts!Fetching, Ts!At
  <2>3. redirect < MaxRedirects
    BY <1>3 DEF Ts!Follow, Ts!IInv, Ts!Hops
  <2>4. CASE aborted
    <3>1. redirect' = redirect + 1 /\ redirect' \in Nat /\ redirect' <= MaxRedirects
      BY <1>0, <1>3, <2>3 DEF Ts!Follow, Ts!TypeOK
    <3>. QED  BY <1>0, <1>3, <2>1, <2>4, <3>1, TsThrows DEF Ts!Follow, Ts!CallFetch,
       Ts!TypeOK
  <2>5. CASE ~aborted
    BY <1>3, <2>1, <2>2, <2>5, TsRequests DEF Ts!Follow
  <2>. QED  BY <2>4, <2>5
<1>4. CASE Ts!PolicyRejects
  BY <1>0, <1>4, TsThrows DEF Ts!PolicyRejects, Ts!TypeOK
<1>5. CASE Ts!FetchRejects
  BY <1>0, <1>5, TsThrows, TsBlames DEF Ts!FetchRejects, Ts!TypeOK, Ts!Fetching
<1>6. CASE Ts!Redirected \/ Ts!BadAnswer
  BY <1>0, <1>6 DEF Ts!Redirected, Ts!BadAnswer, Ts!Sending, Ts!IInv, Ts!TypeOK, Ts!Hops, Ts!Stopping,
     Ts!HeadersInScope, Ts!Fetching, Ts!At, Ts!SessionInScope, Ts!EveryHopApproved,
     Ts!LimitsExact, Ts!FailureNamed
<1>7. ASSUME NEW next \in Sites, Ts!Turn(next) PROVE Ts!IInv'
  <2>1. Len(sent) = redirect + 1
    BY <1>7 DEF Ts!Turn, Ts!IInv, Ts!Hops
  <2>2. CASE Ts!AtLimit
    BY <1>0, <1>7, <2>1, <2>2, TsThrows DEF Ts!Turn, Ts!AtLimit, Ts!TypeOK
  <2>3. CASE ~Ts!AtLimit
    BY <1>0, <1>7, <2>1, <2>3 DEF Ts!Turn, Ts!AtLimit, Ts!IInv, Ts!TypeOK,
       Ts!Hops, Ts!Stopping, Ts!HeadersInScope, Ts!Fetching, Ts!At, Ts!SessionInScope,
       Ts!EveryHopApproved, Ts!LimitsExact, Ts!FailureNamed
  <2>. QED  BY <2>2, <2>3
<1>8. CASE Ts!Page
  BY <1>0, <1>8 DEF Ts!Page, Ts!Parameters, Ts!IInv, Ts!TypeOK, Ts!Hops, Ts!Stopping,
     Ts!HeadersInScope, Ts!Fetching, Ts!At, Ts!SessionInScope, Ts!EveryHopApproved,
     Ts!LimitsExact, Ts!FailureNamed
<1>9. ASSUME NEW n \in 1..MaxBytes, Ts!Chunk(n) PROVE Ts!IInv'
  <2>1. read + n \in Nat
    BY <1>0 DEF Ts!TypeOK
  <2>2. /\ pc = "body" /\ pc' \in {"body", "excess"} /\ read' = read + n
        /\ pc' = "excess" <=> read' > MaxBytes
    BY <1>9 DEF Ts!Chunk, Ts!Exceeds
  <2>3. UNCHANGED <<allowed, url, from, headers, redirect, aborted, timedOut, armed,
                    controller, sent, outcome>>
    BY <1>9 DEF Ts!Chunk
  <2>. QED
    BY <1>0, <2>1, <2>2, <2>3 DEF Ts!Parameters, Ts!IInv, Ts!TypeOK, Ts!Hops, Ts!Stopping,
       Ts!HeadersInScope, Ts!Fetching, Ts!At, Ts!SessionInScope, Ts!EveryHopApproved,
       Ts!LimitsExact, Ts!FailureNamed
<1>10. CASE Ts!ReadRejects
  BY <1>0, <1>10, TsThrows, TsBlames DEF Ts!ReadRejects, Ts!TypeOK, Ts!Fetching
<1>11. CASE Ts!EndBody
  <2>1. read <= MaxBytes
    BY <1>11 DEF Ts!EndBody, Ts!IInv, Ts!Hops
  <2>. QED  BY <1>0, <1>11, <2>1, TsThrows DEF Ts!EndBody, Ts!TypeOK
<1>12. CASE Ts!NoTarget \/ Ts!Refuse \/ Ts!CancelRejects
  <2>1. PICK code, cause : /\ Ts!Throw(code, cause) /\ cause \in {"answer", "discard"}
                           /\ code \in {"E_HTTP_STATUS", "E_HTTP_FETCH", "uncoded"}
    BY <1>12 DEF Ts!NoTarget, Ts!Refuse, Ts!CancelRejects
  <2>2. UNCHANGED <<allowed, url, from, headers, redirect, aborted, timedOut, controller, read>>
    BY <1>12 DEF Ts!NoTarget, Ts!Refuse, Ts!CancelRejects
  <2>. QED  BY <1>0, <2>1, <2>2, TsThrows DEF Ts!TypeOK
<1>13. CASE Ts!TooLarge
  <2>1. read > MaxBytes
    BY <1>13 DEF Ts!TooLarge, Ts!IInv, Ts!Hops
  <2>. QED  BY <1>0, <1>13, <2>1, TsThrows DEF Ts!TooLarge, Ts!TypeOK
<1>14. CASE Ts!Abort
  BY <1>0, <1>14 DEF Ts!Abort, Ts!IInv, Ts!TypeOK, Ts!Hops, Ts!Stopping,
     Ts!HeadersInScope, Ts!Fetching, Ts!At, Ts!SessionInScope, Ts!EveryHopApproved,
     Ts!LimitsExact, Ts!FailureNamed
<1>15. CASE Ts!Timer
  BY <1>0, <1>15 DEF Ts!Timer, Ts!IInv, Ts!TypeOK, Ts!Hops, Ts!Stopping,
     Ts!HeadersInScope, Ts!Fetching, Ts!At, Ts!SessionInScope, Ts!EveryHopApproved,
     Ts!LimitsExact, Ts!FailureNamed
<1>16. CASE UNCHANGED Ts!vars
  BY <1>16 DEF Ts!vars, Ts!IInv, Ts!TypeOK, Ts!Hops, Ts!Stopping, Ts!HeadersInScope,
     Ts!Fetching, Ts!At, Ts!SessionInScope, Ts!EveryHopApproved, Ts!LimitsExact,
     Ts!FailureNamed
<1>. QED
  BY <1>1, <1>2, <1>3, <1>4, <1>5, <1>6, <1>7, <1>8, <1>9, <1>10, <1>11, <1>12, <1>13, <1>14,
     <1>15, <1>16 DEF Ts!Next

(* The session's headers stay in scope, the policy sees every hop, the     *)
(* limits bite where they say, and a code says what it says of its cause.  *)
THEOREM TypeScriptAcquisition ==
    ASSUME Ts!Parameters
    PROVE  Ts!Spec =>
             [](Ts!SessionInScope /\ Ts!EveryHopApproved /\ Ts!LimitsExact /\ Ts!FailureNamed)
<1>1. Ts!IInv => Ts!SessionInScope /\ Ts!EveryHopApproved /\ Ts!LimitsExact /\ Ts!FailureNamed
  BY DEF Ts!IInv
<1>. QED  BY <1>1, TsBegins, TsStep, PTL DEF Ts!Spec

-----------------------------------------------------------------------------
(* Both.                                                                   *)

(* A step of the system is a step of the runtime that runs. *)
LEMMA StepOfRuntime ==
    ASSUME [Next]_vars
    PROVE  /\ UNCHANGED runtime
           /\ runtime = "go" => [Go!Next]_Go!vars
           /\ runtime = "ts" => [Ts!Next]_Ts!vars
<1>1. CASE UNCHANGED vars
  BY <1>1 DEF vars, goOnly, tsOnly, Go!vars, Go!setup, Ts!vars
<1>2. ASSUME NEW next \in Sites, InTs(Ts!Turn(next))
      PROVE  UNCHANGED runtime /\ runtime = "ts" /\ Ts!Next
  BY <1>2 DEF InTs, Ts!Next
<1>3. ASSUME NEW n \in 1..MaxBytes, InTs(Ts!Chunk(n))
      PROVE  UNCHANGED runtime /\ runtime = "ts" /\ Ts!Next
  BY <1>3 DEF InTs, Ts!Next
<1>4. CASE \/ TsBegin \/ TsEnterFetch \/ TsFollow \/ TsPolicyRejects \/ TsFetchRejects
           \/ TsRedirected \/ TsNoTarget \/ TsBadAnswer \/ TsRefuse \/ TsPage \/ TsTooLarge
           \/ TsCancelRejects \/ TsReadRejects \/ TsEndBody \/ TsAbort \/ TsTimer
  BY <1>4 DEF TsBegin, TsEnterFetch, TsFollow, TsPolicyRejects, TsFetchRejects, TsRedirected,
     TsNoTarget, TsBadAnswer, TsRefuse, TsPage, TsTooLarge, TsCancelRejects, TsReadRejects,
     TsEndBody, TsAbort, TsTimer, InTs, Ts!Next
<1>5. CASE \/ GoCheckPolicy \/ GoBegin \/ GoSend \/ GoTransportFails \/ GoRedirect
           \/ GoStatus \/ GoReadMore \/ GoReadFails \/ GoEndBody \/ GoDeadline \/ GoCancel
  BY <1>5 DEF GoCheckPolicy, GoBegin, GoSend, GoTransportFails, GoRedirect, GoStatus,
     GoReadMore, GoReadFails, GoEndBody, GoDeadline, GoCancel, InGo, Go!Next
<1>. QED  BY <1>1, <1>2, <1>3, <1>4, <1>5 DEF Next, TsTurn, TsChunk

(* The invariant of the runtime that runs is inductive. *)
LEMMA Inductive == Spec => []IInv
<1>1. Init => IInv
  <2>1. Go!Parameters /\ Ts!Parameters
    BY AcquisitionAssumption
  <2>2. InitGo => runtime = "go" /\ Go!IInv
    BY <2>1, GoBegins DEF InitGo
  <2>3. InitTs => runtime = "ts" /\ Ts!IInv
    BY <2>1, TsBegins DEF InitTs
  <2>. QED  BY <2>2, <2>3 DEF Init, IInv
<1>2. IInv /\ [Next]_vars => IInv'
  <2>. SUFFICES ASSUME IInv, [Next]_vars PROVE IInv'
    OBVIOUS
  <2>1. CASE runtime = "go"
    <3>1. Go!IInv /\ [Go!Next]_Go!vars /\ UNCHANGED runtime
      BY <2>1, StepOfRuntime DEF IInv
    <3>2. Go!IInv'
      BY <3>1, AcquisitionAssumption, GoStep
    <3>. QED  BY <2>1, <3>1, <3>2 DEF IInv
  <2>2. CASE runtime = "ts"
    <3>1. Ts!IInv /\ [Ts!Next]_Ts!vars /\ UNCHANGED runtime
      BY <2>2, StepOfRuntime DEF IInv
    <3>2. Ts!IInv'
      BY <3>1, AcquisitionAssumption, TsStep
    <3>. QED  BY <2>2, <3>1, <3>2 DEF IInv
  <2>. QED  BY <2>1, <2>2 DEF IInv
<1>. QED  BY <1>1, <1>2, PTL DEF Spec

-----------------------------------------------------------------------------
(* No request goes to a URL the policy rejects, on the first hop or on any *)
(* redirect, in either runtime.                                            *)
THEOREM PolicySeesEveryHop == Spec => []EveryHopApproved
<1>1. IInv => EveryHopApproved
  BY DEF IInv, EveryHopApproved, Go!IInv, Ts!IInv
<1>. QED  BY <1>1, Inductive, PTL

(* A document is made of the whole body, of no more than the limit, and    *)
(* exactly MaxRedirects redirects may be followed.                         *)
THEOREM LimitsHold == Spec => []LimitsExact
<1>1. IInv => LimitsExact
  BY DEF IInv, LimitsExact, Go!IInv, Ts!IInv
<1>. QED  BY <1>1, Inductive, PTL

(* What a code says of its cause, as far as the code keeps to it.  Go: a   *)
(* rejection, wrapped or not, is E_URL_POLICY and nothing else is, and a   *)
(* request ended by its context is not E_HTTP_FETCH; nothing is claimed of *)
(* a read that fails, which is E_HTTP_READ whatever ended it (fetch.go:60).*)
(* TypeScript: the timer, the signal and the peer are told apart in the    *)
(* request and in the body; nothing is claimed of a cancel() that rejects. *)
THEOREM FailuresNamed == Spec => []FailureNamed
<1>1. IInv => FailureNamed
  BY DEF IInv, FailureNamed, Go!IInv, Ts!IInv
<1>. QED  BY <1>1, Inductive, PTL

(* Authorization and host cookies are dropped for good when the origin is  *)
(* left, and a domain cookie goes nowhere out of its scope.                *)
THEOREM SessionStaysInScope == Spec => []SessionInScope
<1>1. IInv => SessionInScope
  BY DEF IInv, SessionInScope, Ts!IInv
<1>. QED  BY <1>1, Inductive, PTL

(* A stopped call of the TypeScript runtime sends nothing more: only the   *)
(* head of the loop sends, when the signal is not aborted, and a           *)
(* controller that the timer has aborted sends nothing.                    *)
THEOREM StoppedIsSilent == Spec => NothingSentAfterStop
<1>1. IInv /\ [Next]_vars => [runtime = "ts" /\ sent' # sent => ~aborted /\ ~timedOut]_vars
  <2>. SUFFICES ASSUME IInv, [Next]_vars, runtime = "ts", sent' # sent
                PROVE  ~aborted /\ ~timedOut
    OBVIOUS
  <2>1. Ts!Next /\ Ts!IInv
    BY StepOfRuntime DEF IInv, Ts!vars
  <2>2. Ts!EnterFetch \/ Ts!Follow
    BY <2>1 DEF Ts!Next, Ts!Begin, Ts!PolicyRejects, Ts!FetchRejects, Ts!Redirected, Ts!Turn,
       Ts!NoTarget, Ts!BadAnswer, Ts!Refuse, Ts!Page, Ts!Chunk, Ts!TooLarge, Ts!CancelRejects,
       Ts!ReadRejects, Ts!EndBody, Ts!Abort, Ts!Timer, Ts!Throw
  <2>3. ~aborted /\ controller = "live"
    BY <2>2 DEF Ts!EnterFetch, Ts!Follow, Ts!CallFetch, Ts!Throw
  <2>. QED  BY <2>1, <2>2, <2>3 DEF Ts!EnterFetch, Ts!Follow, Ts!IInv, Ts!Stopping, Ts!Fetching
<1>. QED  BY <1>1, Inductive, PTL DEF Spec, NothingSentAfterStop
=============================================================================
