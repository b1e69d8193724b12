---------------------------- MODULE AccessProofs ----------------------------
(***************************************************************************)
(* Theorems about the doors of the service: the requests it makes (Ssrf)   *)
(* and the requests it accepts (JwtAuth), for any hosts, addresses,        *)
(* redirects, tokens, keys and limits.                                     *)
(***************************************************************************)
EXTENDS Ssrf, JwtAuth, FiniteSetTheorems, TLAPS

-----------------------------------------------------------------------------
(* Outgoing requests. The invariant says what the rounds of the redirect   *)
(* loop have behind them: a download dials once per round, its https       *)
(* rounds forbid a later http one, and only the round that passed the      *)
(* checks waits for an answer.                                             *)

\* Nothing is dialled before the task starts, and a webhook is sent after the
\* download only.
OrderInv ==
    /\ pc \in {"idle", "refused", "queued"} => method = "get" /\ hop = 0 /\ dials = {}
    /\ method = "get" => \A d \in dials : d.method = "get"

\* The hop that waits for an answer is one of the rounds, and passed the checks.
WaitInv == pc = "wait" => hop <= MAX_REDIRECTS /\ url.scheme \in {"http", "https"}

\* The webhook is posted to its own URL.
PostInv == method = "post" => url = job.webhook

\* A download dials once per round, up to the current one.
RoundInv ==
    /\ \A c, d \in dials : c.method = "get" /\ d.method = "get" /\ c.hop = d.hop => c = d
    /\ method = "get" => \A d \in dials : d.hop <= hop /\ (pc = "dial" => d.hop < hop)

\* A download that has gone over https is not at an http hop.
SchemeInv == method = "get" => \A d \in dials : d.url.scheme = "https" => url.scheme # "http"

IInv ==
    /\ TypeOK
    /\ OrderInv
    /\ WaitInv
    /\ PostInv
    /\ RoundInv
    /\ SchemeInv
    /\ NoInternalDial
    /\ NoDowngrade
    /\ WebhookOnlyToItsUrl

-----------------------------------------------------------------------------
(* The checks.                                                             *)

\* The address a validated host is dialled at is public, or the operator trusts
\* that host.
LEMMA ValidatedIsPublic ==
    ASSUME NEW h, NEW dns \in DNSAnswers, validate_hostname(h, dns)
    PROVE  /\ Head(dns) \in Addresses
           /\ Public(Head(dns)) \/ h \in EnvSsrfAllowedHosts
<1>1. dns \in Seq(Addresses) /\ dns # << >>
  BY AnswersAssumption DEF validate_hostname
<1>2. 1 \in DOMAIN dns /\ Head(dns) = dns[1] /\ dns[1] \in Addresses
  BY <1>1
<1>3. CASE is_allowlisted_host(h)
  BY <1>2, <1>3 DEF is_allowlisted_host, FromEnv
<1>4. CASE check_ip(dns[1])
  <2>1. Traits[dns[1]] \subseteq AddressTraits
    BY <1>2, TraitsAssumption
  <2>2. Traits[dns[1]] = {"global"}
    BY <1>4, <2>1 DEF check_ip, AddressTraits
  <2> QED
    BY <1>2, <2>2 DEF Public
<1> QED
  BY <1>2, <1>3, <1>4 DEF validate_hostname

\* urljoin gives a URL.
LEMMA JoinType ==
    ASSUME NEW base \in Urls, NEW location \in Urls
    PROVE  urljoin(base, location) \in Urls
  BY DEF urljoin, Urls

-----------------------------------------------------------------------------
(* One lemma for each thing a step does.                                   *)

\* Init establishes the invariant.
LEMMA InitInv == Init => IInv
  BY RedirectsAssumption
     DEF Init, IInv, TypeOK, OrderInv, WaitInv, PostInv, RoundInv, SchemeInv, NoInternalDial,
         NoDowngrade, WebhookOnlyToItsUrl, Urls, NoUrl

\* The submission.
LEMMA SubmitInv ==
    ASSUME IInv, NEW s \in Submitted, NEW d, NEW e, Submit(s, d, e)
    PROVE  IInv'
<1>1. s \in [url : Urls, webhook : Urls]
  BY UrlsAssumption
<1>2. /\ pc' \in {"queued", "refused"} /\ job' = s /\ pc = "idle"
      /\ UNCHANGED <<profile, url, hop, method, retries, dials>>
  BY DEF Submit
<1> QED
  BY <1>1, <1>2
     DEF IInv, TypeOK, OrderInv, WaitInv, PostInv, RoundInv, SchemeInv, NoInternalDial,
         NoDowngrade, WebhookOnlyToItsUrl

\* The worker's own check passes.
LEMMA StartInv ==
    ASSUME IInv, NEW d, NEW e, StartTask(d, e)
    PROVE  IInv'
<1>1. /\ pc = "queued" /\ pc' = "dial" /\ url' = job.url
      /\ UNCHANGED <<profile, job, hop, method, retries, dials>>
  BY DEF StartTask
<1> QED
  BY <1>1
     DEF IInv, TypeOK, OrderInv, WaitInv, PostInv, RoundInv, SchemeInv, NoInternalDial,
         NoDowngrade, WebhookOnlyToItsUrl

\* The outcome of the download is reported.
LEMMA ReportInv ==
    ASSUME IInv, method = "get", Report
    PROVE  IInv'
<1>1. /\ pc' \in {"done", "dial"} /\ url' = job.webhook /\ hop' = 0 /\ method' = "post"
      /\ UNCHANGED <<profile, job, retries, dials>>
  BY DEF Report
<1> QED
  BY <1>1, RedirectsAssumption
     DEF IInv, TypeOK, OrderInv, WaitInv, PostInv, RoundInv, SchemeInv, NoInternalDial,
         NoDowngrade, WebhookOnlyToItsUrl

\* The delivery ends, or is tried again.
LEMMA DeliveryInv ==
    ASSUME IInv, method = "post", pc' \in {"dial", "done"},
           retries' \in 0..WEBHOOK_MAX_ATTEMPTS,
           UNCHANGED <<profile, job, url, hop, method, dials>>
    PROVE  IInv'
  BY DEF IInv, TypeOK, OrderInv, WaitInv, PostInv, RoundInv, SchemeInv, NoInternalDial,
         NoDowngrade, WebhookOnlyToItsUrl

\* A round of the loop: the connection is the first of its round, to an address
\* that was checked.
LEMMA DialInv ==
    ASSUME IInv, NEW dns \in DNSAnswers, Dial(dns)
    PROVE  IInv'
<1> DEFINE x == [method |-> method, hop |-> hop, retry |-> retries, url |-> url,
                 ip |-> Head(dns)]
<1>1. /\ pc = "dial" /\ hop <= MAX_REDIRECTS /\ url.scheme \in {"http", "https"}
      /\ validate_hostname(url.host, dns)
  BY DEF Dial, InRange, validate_url
<1>2. /\ dials' = dials \cup {x} /\ pc' = "wait"
      /\ UNCHANGED <<profile, job, url, hop, method, retries>>
  BY DEF Dial, Connect
<1>3. /\ Head(dns) \in Addresses
      /\ Public(Head(dns)) \/ url.host \in EnvSsrfAllowedHosts
  BY <1>1, ValidatedIsPublic
<1>4. x.method = method /\ x.hop = hop /\ x.url = url /\ x.ip = Head(dns)
  OBVIOUS
<1>5. x \in [method : {"get", "post"}, hop : 0..MAX_REDIRECTS,
             retry : 0..WEBHOOK_MAX_ATTEMPTS, url : Urls, ip : Addresses]
  BY <1>1, <1>3, RedirectsAssumption DEF IInv, TypeOK
<1> HIDE DEF x
<1>6. \A d \in dials : d.hop \in Nat
  BY DEF IInv, TypeOK
<1>7. TypeOK' /\ OrderInv' /\ WaitInv' /\ PostInv'
  BY <1>1, <1>2, <1>4, <1>5 DEF IInv, TypeOK, OrderInv, WaitInv, PostInv
<1>8. RoundInv'
  BY <1>1, <1>2, <1>4, <1>6 DEF IInv, TypeOK, OrderInv, RoundInv
<1>9. SchemeInv'
  BY <1>1, <1>2, <1>4 DEF IInv, SchemeInv
<1>10. NoInternalDial'
  BY <1>2, <1>3, <1>4 DEF IInv, NoInternalDial
<1>11. NoDowngrade'
  <2> SUFFICES ASSUME NEW c \in dials', NEW d \in dials', c.method = "get", d.method = "get",
                      c.hop < d.hop, c.url.scheme = "https", d.url.scheme = "http"
               PROVE  FALSE
    BY DEF NoDowngrade
  <2>1. CASE c \in dials /\ d \in dials
    BY <2>1 DEF IInv, NoDowngrade
  <2>2. CASE d = x
    BY <1>2, <1>4, <2>2 DEF IInv, SchemeInv, TypeOK
  <2>3. CASE c = x /\ d \in dials
    BY <1>1, <1>4, <1>6, <2>3 DEF IInv, RoundInv, TypeOK
  <2> QED
    BY <1>2, <2>1, <2>2, <2>3
<1>12. WebhookOnlyToItsUrl'
  BY <1>2, <1>4 DEF IInv, PostInv, WebhookOnlyToItsUrl
<1> QED
  BY <1>7, <1>8, <1>9, <1>10, <1>11, <1>12 DEF IInv

\* The loop follows a redirect that is not a downgrade.
LEMMA FollowInv ==
    ASSUME IInv, NEW next \in Urls, pc = "wait", method = "get", ~ Downgrade(next),
           pc' = "dial", url' = next, hop' = hop + 1,
           UNCHANGED <<profile, job, method, retries, dials>>
    PROVE  IInv'
<1>1. hop <= MAX_REDIRECTS /\ url.scheme \in {"http", "https"} /\ hop \in Nat
  BY DEF IInv, WaitInv, TypeOK
<1>2. hop + 1 \in 0..MAX_REDIRECTS + 1
  BY <1>1, RedirectsAssumption
<1>3. \A d \in dials : d.hop \in Nat
  BY DEF IInv, TypeOK
<1>4. TypeOK' /\ OrderInv' /\ WaitInv' /\ PostInv'
  BY <1>2 DEF IInv, TypeOK, OrderInv, WaitInv, PostInv
<1>5. RoundInv'
  BY <1>1, <1>3 DEF IInv, RoundInv
<1>6. SchemeInv'
  BY <1>1 DEF IInv, SchemeInv, Downgrade
<1> QED
  BY <1>4, <1>5, <1>6 DEF IInv, NoInternalDial, NoDowngrade, WebhookOnlyToItsUrl

-----------------------------------------------------------------------------

\* Every step, or none, keeps the invariant.
LEMMA NextInv == IInv /\ [Next]_vars => IInv'
<1> SUFFICES ASSUME IInv, [Next]_vars PROVE IInv'
  OBVIOUS
<1>0. method \in {"get", "post"} /\ retries \in 0..WEBHOOK_MAX_ATTEMPTS
  BY DEF IInv, TypeOK
<1>a. ASSUME Blocked PROVE IInv'
  BY <1>0, <1>a, ReportInv, DeliveryInv DEF Blocked
<1>b. ASSUME RequestFails PROVE IInv'
  <2>1. CASE method = "get"
    BY <1>b, <2>1, ReportInv DEF RequestFails
  <2>2. CASE method = "post"
    <3>1. retries' \in 0..WEBHOOK_MAX_ATTEMPTS /\ pc' \in {"dial", "done"}
      BY <1>0, <1>b, <2>2, RedirectsAssumption DEF RequestFails
    <3> QED
      BY <1>b, <2>2, <3>1, DeliveryInv DEF RequestFails
  <2> QED
    BY <1>0, <2>1, <2>2
<1>1. CASE UNCHANGED vars
  BY <1>1 DEF vars, IInv, TypeOK, OrderInv, WaitInv, PostInv, RoundInv, SchemeInv,
     NoInternalDial, NoDowngrade, WebhookOnlyToItsUrl
<1>2. ASSUME NEW s \in Submitted, NEW d \in DNSAnswers, NEW e \in DNSAnswers, Submit(s, d, e)
      PROVE  IInv'
  BY <1>2, SubmitInv
<1>3. ASSUME NEW d \in DNSAnswers, NEW e \in DNSAnswers, StartTask(d, e) PROVE IInv'
  BY <1>3, StartInv
<1>4. ASSUME NEW d \in DNSAnswers, NEW e \in DNSAnswers, TaskRefused(d, e) PROVE IInv'
  BY <1>4, ReportInv DEF TaskRefused, IInv, OrderInv
<1>5. ASSUME NEW d \in DNSAnswers, Dial(d) PROVE IInv'
  BY <1>5, DialInv
<1>6. ASSUME NEW d \in DNSAnswers, DialRefused(d) PROVE IInv'
  BY <1>a, <1>6 DEF DialRefused
<1>7. CASE AnswerFails
  BY <1>b, <1>7 DEF AnswerFails
<1>8. CASE AnswerOk
  BY <1>0, <1>8, ReportInv, DeliveryInv DEF AnswerOk
<1>9. ASSUME NEW l \in Locations, AnswerRedirects(l) PROVE IInv'
  <2> DEFINE next == urljoin(url, l)
  <2>1. next \in Urls
    BY JoinType, UrlsAssumption DEF IInv, TypeOK
  <2>2. CASE method = "get" /\ ~ Downgrade(next)
    <3> HIDE DEF next
    <3>1. PICK n \in Urls : n = next
      BY <2>1
    <3> USE DEF next
    <3>2. /\ pc = "wait" /\ pc' = "dial" /\ url' = n /\ hop' = hop + 1
          /\ UNCHANGED <<profile, job, method, retries, dials>>
      BY <1>9, <2>2, <3>1 DEF AnswerRedirects, follow_redirects
    <3> QED
      BY <2>2, <3>1, <3>2, FollowInv DEF Downgrade
  <2>3. CASE method = "get" /\ Downgrade(next)
    BY <1>9, <1>a, <2>3 DEF AnswerRedirects, follow_redirects
  <2>4. CASE method # "get"
    BY <1>9, <1>b, <2>4 DEF AnswerRedirects, follow_redirects
  <2> QED
    BY <2>2, <2>3, <2>4
<1> QED
  BY <1>1, <1>2, <1>3, <1>4, <1>5, <1>6, <1>7, <1>8, <1>9 DEF Next, Worker

\* The inductive invariant is an invariant.
LEMMA Invariant == Spec => []IInv
  BY InitInv, NextInv, PTL DEF Spec

\* Type correctness; in particular the loop counter never passes MAX_REDIRECTS + 1.
THEOREM TypeCorrect == Spec => []TypeOK
<1>1. IInv => TypeOK
  BY DEF IInv
<1> QED
  BY <1>1, Invariant, PTL

\* Whatever a resolver answers and when, and wherever servers redirect, no
\* connection goes to an address that is not public, except for a host the
\* operator trusts: the address dialled is the one that was checked.
THEOREM NoInternal == Spec => []NoInternalDial
<1>1. IInv => NoInternalDial
  BY DEF IInv
<1> QED
  BY <1>1, Invariant, PTL

\* However long the chain of redirects, a download that has gone over https does
\* not go on over http.
THEOREM Downgrades == Spec => []NoDowngrade
<1>1. IInv => NoDowngrade
  BY DEF IInv
<1> QED
  BY <1>1, Invariant, PTL

\* The body of a webhook is posted to the submitted URL and to no other, over
\* any redirects and retries.
THEOREM WebhookTarget == Spec => []WebhookOnlyToItsUrl
<1>1. IInv => WebhookOnlyToItsUrl
  BY DEF IInv
<1> QED
  BY <1>1, Invariant, PTL

\* For any MAX_REDIRECTS, a download makes at most MAX_REDIRECTS + 1 connections:
\* their rounds are different numbers from 0 to MAX_REDIRECTS.
THEOREM Redirects == Spec => []RedirectsBounded
<1>1. IInv => RedirectsBounded
  <2> SUFFICES ASSUME IInv PROVE RedirectsBounded
    OBVIOUS
  <2> DEFINE G == {d \in dials : d.method = "get"}
             f == [d \in G |-> d.hop]
  <2>1. f \in Injection(G, 0..MAX_REDIRECTS)
    <3>1. f \in [G -> 0..MAX_REDIRECTS]
      BY DEF IInv, TypeOK
    <3>2. \A c, d \in G : f[c] = f[d] => c = d
      BY DEF IInv, RoundInv
    <3> QED
      BY <3>1, <3>2 DEF Injection, IsInjective
  <2>2. IsFiniteSet(0..MAX_REDIRECTS) /\ Cardinality(0..MAX_REDIRECTS) = MAX_REDIRECTS + 1
    BY RedirectsAssumption, FS_Interval
  <2>3. Cardinality(G) <= Cardinality(0..MAX_REDIRECTS)
    <3> HIDE DEF f, G
    <3> QED
      BY <2>1, <2>2, FS_Injection
  <2> QED
    BY <2>2, <2>3 DEF RedirectsBounded
<1> QED
  BY <1>1, Invariant, PTL

-----------------------------------------------------------------------------
(* Tokens. The invariant says what the status of every answered request    *)
(* means, at the instant it was answered; the theorems compare two such    *)
(* requests, or one with the clock of its caller.                          *)

\* What _authenticate lets through at a given time.
Grants(token, request, at) ==
    /\ token # NoToken /\ decode(token, ISSUER_KEYS, JWT_AUDIENCE, at)
    /\ ~ TooLarge(request)
    /\ check_binding(token, request.method, request_target(request), request.body,
                     bind_body(request))

\* A request was let through exactly when it was granted at its time.
ServedInv ==
    /\ now \in Nat
    /\ \A s \in served :
          /\ s.token \in Tokens \cup {NoToken} /\ s.request \in Requests /\ s.at \in Nat
          /\ s.code = 200 <=> Grants(s.token, s.request, s.at)

-----------------------------------------------------------------------------

\* The order of the checks does not matter to what is let through.
LEMMA AuthenticateGrants ==
    ASSUME NEW token, NEW request
    PROVE  authenticate(token, request) = 200 <=> Grants(token, request, now)
  BY DEF authenticate, Grants, TooLarge

\* The invariant holds initially.
LEMMA ServedInit == AuthInit => ServedInv
  BY DEF AuthInit, ServedInv

\* Every step keeps the invariant.
LEMMA ServedNext == ServedInv /\ [AuthNext]_authVars => ServedInv'
<1> SUFFICES ASSUME ServedInv, [AuthNext]_authVars PROVE ServedInv'
  OBVIOUS
<1>1. CASE UNCHANGED authVars
  BY <1>1 DEF authVars, ServedInv
<1>2. CASE Tick
  BY <1>2 DEF Tick, ServedInv
<1>3. ASSUME NEW t \in Tokens \cup {NoToken}, NEW r \in Requests, Serve(t, r)
      PROVE  ServedInv'
  <2> DEFINE x == [token |-> t, request |-> r, at |-> now, code |-> authenticate(t, r)]
  <2>1. served' = served \cup {x} /\ UNCHANGED now
    BY <1>3 DEF Serve
  <2>2. x.token = t /\ x.request = r /\ x.at = now /\ x.code = authenticate(t, r)
    OBVIOUS
  <2>3. x.code = 200 <=> Grants(t, r, now)
    BY <2>2, AuthenticateGrants
  <2> HIDE DEF x
  <2> QED
    BY <2>1, <2>2, <2>3 DEF ServedInv
<1> QED
  BY <1>1, <1>2, <1>3 DEF AuthNext

\* So it always holds.
LEMMA ServedInvariant == AuthSpec => []ServedInv
  BY ServedInit, ServedNext, PTL DEF AuthSpec

-----------------------------------------------------------------------------

\* The target of a request determines its path and its query.
LEMMA TargetIsInjective ==
    ASSUME NEW q, NEW r, request_target(q) = request_target(r)
    PROVE  q.path = r.path /\ q.query = r.query
<1>1. CASE q.query = "" /\ r.query = ""
  BY <1>1 DEF request_target
<1>2. CASE q.query # "" /\ r.query # ""
  BY <1>2 DEF request_target
<1>3. <<q.path>> # <<r.path, r.query>> /\ <<q.path, q.query>> # <<r.path>>
  OBVIOUS
<1> QED
  BY <1>1, <1>2, <1>3 DEF request_target

\* A token is good for one request only: whatever else is presented with it, the
\* requests it lets through have one method, path and query and, on the
\* asynchronous endpoint, one body.
THEOREM TokenBinding == AuthSpec => []OneTokenOneRequest
<1>1. ServedInv => OneTokenOneRequest
  <2> SUFFICES ASSUME ServedInv, NEW s \in Accepted, NEW t \in Accepted, s.token = t.token
               PROVE  /\ s.request.method = t.request.method
                      /\ s.request.path = t.request.path
                      /\ s.request.query = t.request.query
                      /\ bind_body(s.request) => s.request.body = t.request.body
    BY DEF OneTokenOneRequest
  <2>1. Grants(s.token, s.request, s.at) /\ Grants(t.token, t.request, t.at)
    BY DEF Accepted, ServedInv
  <2>2. /\ s.request.method = t.request.method
        /\ request_target(s.request) = request_target(t.request)
        /\ bind_body(s.request) => s.token.bh = s.request.body
        /\ bind_body(t.request) => t.token.bh = t.request.body
    BY <2>1 DEF Grants, check_binding
  <2>3. s.request.path = t.request.path /\ s.request.query = t.request.query
    BY <2>2, TargetIsInjective
  <2> QED
    BY <2>2, <2>3 DEF bind_body
<1> QED
  BY <1>1, ServedInvariant, PTL

\* Whatever expiry its signer chose, as long as iat and exp are numbers, the uses of a
\* token are less than JWT_MAX_AGE plus twice the leeway apart (jwt_auth.py:185-188).
THEOREM ReplayBound == AuthSpec => []ReplayWindow
<1>1. ServedInv => ReplayWindow
  <2> SUFFICES ASSUME ServedInv, JWT_MAX_AGE > 0, NEW s \in Accepted, NEW t \in Accepted,
                      s.token = t.token, s.token.numeric
               PROVE  t.at - s.at < JWT_MAX_AGE + 2 * JWT_LEEWAY
    BY DEF ReplayWindow
  <2>1. Grants(s.token, s.request, s.at) /\ Grants(t.token, t.request, t.at)
    BY DEF Accepted, ServedInv
  <2>2. s.token \in Tokens /\ s.at \in Nat /\ t.at \in Nat
    BY <2>1 DEF Accepted, ServedInv, Grants
  <2>3. s.token.iat \in Int /\ s.token.exp \in Int
    BY <2>2, TokensAssumption
  <2>4. /\ s.token.iat <= s.at + JWT_LEEWAY
        /\ s.token.exp > t.at - JWT_LEEWAY
        /\ s.token.exp - s.token.iat <= JWT_MAX_AGE
    BY <2>1 DEF Grants, decode, PyJWTAccepts
  <2> QED
    BY <2>2, <2>3, <2>4, AgeAssumption
<1> QED
  BY <1>1, ServedInvariant, PTL

\* No honest caller is locked out by a clock that is off by at most the leeway.
THEOREM HonestAccess == AuthSpec => []HonestIsServed
<1>1. ServedInv => HonestIsServed
  <2> SUFFICES ASSUME ServedInv, NEW s \in served, NEW skew \in -JWT_LEEWAY..JWT_LEEWAY,
                      Honest(s.token), MadeFor(s.token, s.request),
                      s.token.iat <= s.at + skew, s.at + skew < s.token.exp,
                      s.request.length <= JSON_MAX_BODY_SIZE,
                      s.request.declared <= JSON_MAX_BODY_SIZE
               PROVE  s.code = 200
    BY DEF HonestIsServed
  <2>1. s.token # NoToken
    BY DEF Honest, NoToken
  <2>2. s.token \in Tokens /\ s.request \in Requests /\ s.at \in Nat
    BY <2>1 DEF ServedInv
  <2>3. s.token.iat \in Int /\ s.token.exp \in Int
    BY <2>2, TokensAssumption
  <2>4. ~ TooLarge(s.request)
    BY <2>2, SizesAssumption DEF TooLarge
  <2>5. decode(s.token, ISSUER_KEYS, JWT_AUDIENCE, s.at)
    <3>1. s.token.iat <= s.at + JWT_LEEWAY /\ s.token.exp > s.at - JWT_LEEWAY
      BY <2>2, <2>3, AgeAssumption
    <3>2. s.token.exp - s.token.iat <= JWT_MAX_AGE
      BY <2>3, AgeAssumption DEF Honest
    <3> QED
      BY <3>1, <3>2 DEF Honest, decode, PyJWTAccepts
  <2>6. check_binding(s.token, s.request.method, request_target(s.request), s.request.body,
                      bind_body(s.request))
    BY DEF MadeFor, check_binding
  <2> QED
    BY <2>1, <2>2, <2>4, <2>5, <2>6 DEF Grants, ServedInv
<1> QED
  BY <1>1, ServedInvariant, PTL

=============================================================================
