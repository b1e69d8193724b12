-------------------------------- MODULE Ssrf --------------------------------
(***************************************************************************)
(* The outgoing requests of one asynchronous job, under the guard of       *)
(* ssrf.py and validation.py: the check of the submission in the web       *)
(* process, the check of the worker, the GET of the file through its       *)
(* redirects, and the POST of the webhook.  Every resolution of a name is  *)
(* answered anew, with any of DNSAnswers: a name that was safe when it was *)
(* checked need not be when it is dialled.                                 *)
(*                                                                         *)
(* A URL is its scheme and its host; ports, paths and the spelling of host *)
(* names are left out.  A host of Literal is written as an IP address.     *)
(***************************************************************************)
EXTENDS Naturals, Sequences, FiniteSets

CONSTANTS
    Hosts,
    Literal,            \* the hosts written as IP addresses
    Addresses,          \* IP addresses
    Traits,             \* Traits[ip]: what Python's ipaddress says of it
    DNSAnswers,         \* answers of getaddrinfo; << >> is a failure
    Submitted,          \* [url, webhook] of the submissions
    Locations,          \* redirect targets servers send
    EnvAllowedUrlHosts, \* ALLOWED_URL_HOSTS in the environment
    EnvSsrfAllowedHosts,\* SSRF_ALLOWED_HOSTS in the environment
    MAX_REDIRECTS,
    WEBHOOK_MAX_ATTEMPTS

NoHost == "none"
NoUrl == [scheme |-> "none", host |-> NoHost]
Profiles == {"ProductionConfig", "TestConfig", "CiConfig", "LocalConfig"}
AddressTraits == {"metadata", "loopback", "link_local", "multicast", "reserved", "private", "global"}

ASSUME RedirectsAssumption == MAX_REDIRECTS \in Nat /\ WEBHOOK_MAX_ATTEMPTS \in Nat
ASSUME TraitsAssumption == Traits \in [Addresses -> SUBSET AddressTraits]
ASSUME AnswersAssumption == DNSAnswers \subseteq Seq(Addresses)

\* A scheme the checks tell apart: "file" stands for any other one.
Urls == [scheme : {"http", "https", "file", "none"}, host : Hosts \cup {NoHost}]

ASSUME UrlsAssumption == Submitted \subseteq [url : Urls, webhook : Urls] /\ Locations \subseteq Urls

VARIABLES
    profile,    \* APP_CONFIG
    pc,         \* where the job is
    job,        \* [url, webhook] of the submission
    url,        \* current_url of _request_with_redirects
    hop,        \* rounds of its loop so far
    method,     \* "get" or "post"
    retries,    \* retries of the webhook message so far
    dials       \* the connections made: [method, hop, retry, url, ip]

vars == <<profile, pc, job, url, hop, method, retries, dials>>

-----------------------------------------------------------------------------
(* Configuration (config.py).  Only the production profile reads the       *)
(* environment, and never for the flag testing, which a profile owns.      *)

testing == profile # "ProductionConfig"

FromEnv(hosts) == IF profile = "ProductionConfig" THEN hosts ELSE {}

-----------------------------------------------------------------------------
(* Host checks (ssrf.py, validation.py).                                   *)

is_allowlisted_host(h) == h \in FromEnv(EnvSsrfAllowedHosts)

\* _check_ip lets the address through.
check_ip(ip) ==
    /\ Traits[ip] \cap {"metadata", "loopback", "link_local", "multicast", "reserved", "private"} = {}
    /\ "global" \in Traits[ip]

\* validate_hostname passes, when the resolver answers dns: no caller allows IP
\* literals, and every address of the answer must pass unless the host is trusted.
validate_hostname(h, dns) ==
    /\ h # NoHost /\ h \notin Literal /\ dns # << >>
    /\ is_allowlisted_host(h) \/ \A i \in DOMAIN dns : check_ip(dns[i])

host_allowed(h) ==
    FromEnv(EnvAllowedUrlHosts) # {} => h \in FromEnv(EnvAllowedUrlHosts)

\* assert_scannable passes, with one resolution for each of the two hosts.
assert_scannable(u, webhook, dns, dnsWebhook) ==
    /\ u.host # NoHost
    /\ host_allowed(u.host)
    /\ \/ testing
       \/ /\ validate_hostname(u.host, dns)
          /\ webhook = NoUrl \/ validate_hostname(webhook.host, dnsWebhook)

\* _validate_and_unpack passes.
validate_url(u, dns) == u.scheme \in {"http", "https"} /\ validate_hostname(u.host, dns)

\* urljoin: a location without a scheme keeps the current one, a location
\* without a host the current host.
urljoin(base, location) ==
    IF location.host = NoHost THEN base
    ELSE IF location.scheme = "none" THEN [base EXCEPT !.host = location.host]
    ELSE location

-----------------------------------------------------------------------------

Init ==
    /\ profile \in Profiles
    /\ pc = "idle"
    /\ job = [url |-> NoUrl, webhook |-> NoUrl]
    /\ url = NoUrl /\ hop = 0 /\ method = "get" /\ retries = 0
    /\ dials = {}

\* scan_async: a refused submission is a 400 and nothing is queued.
Submit(s, dns, dnsWebhook) ==
    /\ pc = "idle"
    /\ job' = s
    /\ pc' = IF assert_scannable(s.url, s.webhook, dns, dnsWebhook) THEN "queued" ELSE "refused"
    /\ UNCHANGED <<profile, url, hop, method, retries, dials>>

\* deliver_webhook is enqueued when there is one; the job is over otherwise.
Report ==
    /\ pc' = IF job.webhook = NoUrl THEN "done" ELSE "dial"
    /\ url' = job.webhook
    /\ hop' = 0
    /\ method' = "post"
    /\ UNCHANGED <<profile, job, retries, dials>>

\* scan_task: the policy again, then the GET.
StartTask(dns, dnsWebhook) ==
    /\ pc = "queued"
    /\ assert_scannable(job.url, job.webhook, dns, dnsWebhook)
    /\ pc' = "dial" /\ url' = job.url
    /\ UNCHANGED <<profile, job, hop, method, retries, dials>>

\* The worker's check refuses the job, which is reported as a file error.
TaskRefused(dns, dnsWebhook) ==
    /\ pc = "queued"
    /\ ~ assert_scannable(job.url, job.webhook, dns, dnsWebhook)
    /\ Report

\* A plausible slip: one round too many.
MutInRangePlusOne == hop <= MAX_REDIRECTS + 1

\* range(MAX_REDIRECTS + 1) is not used up.
InRange == hop <= MAX_REDIRECTS

\* Connecting the validated hop: the address that was checked is the one dialled.
Connect(ip) ==
    /\ dials' = dials \cup {[method |-> method, hop |-> hop, retry |-> retries,
                              url |-> url, ip |-> ip]}
    /\ pc' = "wait"
    /\ UNCHANGED <<profile, job, url, hop, method, retries>>

\* A plausible slip: the pool resolves the name again when it connects.
MutDialUnpinned(dns) ==
    /\ pc = "dial" /\ InRange
    /\ validate_url(url, dns)
    /\ \E again \in DNSAnswers \ {<< >>} : Connect(Head(again))

\* A round of the loop: _pinned_session, then the request to the pinned address.
Dial(dns) ==
    /\ pc = "dial" /\ InRange
    /\ validate_url(url, dns)
    /\ Connect(Head(dns))

\* SSRFValidationError: a download is reported as blocked, a webhook is dropped.
Blocked ==
    IF method = "get" THEN Report
    ELSE pc' = "done" /\ UNCHANGED <<profile, job, url, hop, method, retries, dials>>

\* The hop is refused, or the loop has used its MAX_REDIRECTS + 1 rounds.
DialRefused(dns) ==
    /\ pc = "dial"
    /\ ~ InRange \/ ~ validate_url(url, dns)
    /\ Blocked

\* RequestException: a failed download is reported, a failed delivery retried by
\* the queue (external) while its budget lasts.
RequestFails ==
    IF method = "get" THEN Report
    ELSE /\ pc' = IF retries < WEBHOOK_MAX_ATTEMPTS THEN "dial" ELSE "done"
         /\ retries' = IF retries < WEBHOOK_MAX_ATTEMPTS THEN retries + 1 ELSE retries
         /\ UNCHANGED <<profile, job, url, hop, method, dials>>

\* No answer in time, or a 4xx or 5xx.
AnswerFails == pc = "wait" /\ RequestFails

\* A final answer, or a redirect without a Location: the GET returns it and the
\* file is scanned and reported; the POST is delivered.
AnswerOk ==
    /\ pc = "wait"
    /\ IF method = "get" THEN Report
       ELSE pc' = "done" /\ UNCHANGED <<profile, job, url, hop, method, retries, dials>>

\* A plausible slip: the webhook POST follows redirects, as requests does by default.
MutFollow == TRUE

follow_redirects == method = "get"

\* A plausible slip: the scheme of the submitted URL is compared, not that of the
\* hop that redirects.
MutDowngradeFromStart(next) == job.url.scheme = "https" /\ next.scheme = "http"

Downgrade(next) == url.scheme = "https" /\ next.scheme = "http"

\* A redirect with a Location: the loop goes on with the next URL, or refuses a
\* downgrade; a request that does not follow redirects fails.
AnswerRedirects(location) ==
    LET next == urljoin(url, location)
    IN  /\ pc = "wait"
        /\ IF ~ follow_redirects THEN RequestFails
           ELSE IF Downgrade(next) THEN Blocked
           ELSE /\ pc' = "dial" /\ url' = next /\ hop' = hop + 1
                /\ UNCHANGED <<profile, job, method, retries, dials>>

Worker ==
    \/ \E d, e \in DNSAnswers : StartTask(d, e) \/ TaskRefused(d, e)
    \/ \E d \in DNSAnswers : Dial(d) \/ DialRefused(d)
    \/ AnswerFails \/ AnswerOk
    \/ \E l \in Locations : AnswerRedirects(l)

Next == (\E s \in Submitted, d, e \in DNSAnswers : Submit(s, d, e)) \/ Worker

Spec == Init /\ [][Next]_vars

-----------------------------------------------------------------------------

\* The type invariant.
TypeOK ==
    /\ profile \in Profiles
    /\ pc \in {"idle", "refused", "queued", "dial", "wait", "done"}
    /\ job \in [url : Urls, webhook : Urls] /\ url \in Urls
    /\ hop \in 0..MAX_REDIRECTS + 1 /\ method \in {"get", "post"}
    /\ retries \in 0..WEBHOOK_MAX_ATTEMPTS
    /\ dials \subseteq [method : {"get", "post"}, hop : 0..MAX_REDIRECTS,
                        retry : 0..WEBHOOK_MAX_ATTEMPTS, url : Urls, ip : Addresses]

Public(ip) == Traits[ip] = {"global"}

\* Whatever the resolver answered at the submission, at the worker's check or at
\* an earlier hop, and whatever servers redirect to, no connection is made to an
\* address that is not public, unless the operator trusts that very host; the test
\* profiles, where the check of the request is inert, are no exception
\* (ssrf.py:229-308, validation.py:29-50).
NoInternalDial ==
    \A d \in dials : Public(d.ip) \/ d.url.host \in EnvSsrfAllowedHosts

\* Once a download has gone over https no later hop of it goes over http, however
\* long the chain and whatever it started with (ssrf.py:296-304).
NoDowngrade ==
    \A c, d \in dials : c.method = "get" /\ d.method = "get" /\ c.hop < d.hop =>
        ~ (c.url.scheme = "https" /\ d.url.scheme = "http")

\* A download makes at most MAX_REDIRECTS + 1 connections (ssrf.py:27, 279).
RedirectsBounded == Cardinality({d \in dials : d.method = "get"}) <= MAX_REDIRECTS + 1

\* A webhook body, and the token bound to its URL, are only sent to that URL: a
\* retry after a redirect goes back to it (tasks.py:88-102, ssrf.py:273-290).
WebhookOnlyToItsUrl == \A d \in dials : d.method = "post" => d.url = job.webhook

=============================================================================
