# A TLA+ model of the file scanner

The file scanner is an HTTP service that answers one question about a file, "may
this be released?", by running several scanning engines on it. A caller uploads
the file (`POST /scan`) or names a URL (`POST /scan-async`); in the second case a
worker downloads it, decrypts it if the caller encrypted it, scans it, and tells
the caller through a webhook, a record to poll, or both.

This directory models the parts in which such a service goes wrong without
anybody noticing: how the results of several engines become one answer, how a
job survives retries, crashes and lost messages, how a download that anybody
may tamper with is bounded and authenticated, where the service connects to on
behalf of a caller, and what a token is good for. Paths below are relative to the
repository; Python code is under `src/`.

## The system

| part | code | state | operations | modelled in |
|---|---|---|---|---|
| report aggregation | `scanner.py:50-348` | a list of results | `detected`, `all_errored`, `verdicts` | `ScanReport`, `Report` |
| registry, selection | `scanner.py:354-604` | settings, cache of backends | `resolve_scanners`, `assert_size_cap_decidable`, `validate_registry`, `run_scanners` | `Registry`, `ScanRequest` |
| wire versions | `wire.py` | none | `to_v1`, `serialize` | `Wire`, `Report` |
| web endpoints | `app.py:301-431` | none of their own | `scan`, `scan_async`, `job_status` | `ScanRequest`, `AsyncScan` |
| scan task | `tasks.py:274-436` | the attempt, a temporary file | download, scan, retry, report, clean up | `AsyncScan` |
| download, decryption | `tasks.py:152-271`, `encryption.py` | buffer, counters, file | `_write_plaintext`, `_write_decrypted` | `Download` |
| webhook task | `tasks.py:48-112` | retry count of its message | one POST per attempt, signed | `AsyncScan`, `Ssrf` |
| result store | `results.py` | one record per job, with a TTL | `record`, `fetch` | `AsyncScan`, `JobPoll` |
| queue | `broker.py`; dramatiq and Redis streams are external | two queues | claim, acknowledge, retry, dead-letter, redeliver | `AsyncScan` |
| clamav, exav | `scanners/clamav.py`, `scanners/exav.py` | a socket | pick a host, stream, read a reply, make a kind of it | `Clamd`, `Backends` |
| jcop | `scanners/jcop.py` | a deadline | look up, submit, poll | `Jcop`, `Backends` |
| SSRF guard, scan policy | `ssrf.py`, `validation.py` | the redirect loop | validate, pin and dial every hop | `Ssrf`; an outcome in `AsyncScan` |
| JWT | `jwt_auth.py`, `app.py:77-129` | keys loaded at start | verify, bind; sign, publish | `Jwt`, `JwtAuth` (the first two) |
| metrics | `metrics.py`, `app.py:267-275` | time of the last refresh, gauges | refresh on a scrape | not modelled |
| health probe, launcher | `health.py`, `worker.py` | a ping queue per container | ping, probe | `Health` |
| configuration | `config.py` | one object per profile | read the environment, or not | profiles and host lists in `Ssrf`; constants elsewhere |
| dashboard, deployment | `dashboard.py`, `deploy/` | none | | not modelled |

How they interact. The web process resolves the selection, checks it, puts a
message in the `scans` queue and then writes a *pending* record. A worker thread
claims the message, runs `scan_task`, writes the terminal record and puts a
message in the `webhooks` queue; a worker thread claims that one and posts it. A
task that raises is queued again by the queue while its retries last and
dead-lettered after; the message of a worker that dies is redelivered. The task
body reads the retry count of its own message to decide whether to raise or to
report. Scanners of one selection run in parallel threads and share nothing.

What is hard to test in it: the order of the seed and of the terminal record; a
crash, an interruption or a broker failure between two lines of `_finalize`; two
retry budgets that must agree; the time limit, whose exception no `except`
catches; late answers of a webhook receiver; deciding and advisory engines that
fail and detect at the same time; two wire versions of one answer; a download
cut, reordered or understated at a boundary; deadlines shared by several
requests; a resolver, a server and a receiver that each change their mind between
two requests; tokens used late, twice or elsewhere; daemons that die in the middle of a
stream; probes of a worker that is only busy. `PROJECT.json` lists each at its line, with the property that watches it.

## The modules

`ScanReport` (operators). A report is a sequence of results, each with its
category, kind, score and flags. Reasons and locations are replaced by the index
of the result a verdict quotes. `deciding`, `all_errored`, `blocker` and
`verdicts` are the methods of the same names.

`Wire` (operators). Payloads in the canonical shape, `to_v1` and `serialize`.
`Caller` is the rule of thumb of `docs/api.md:204-211`, read from either shape; it
is a reference, not code of the service.

`Report` is the state machine that collects results one after the other, so that
TLC visits every small report and an action property can speak about one more
scanner.

`AsyncScan` is the core. For each job: the web request (`web`), the options
(`args`), the scan message (`scans`: state, retries, cause of a dead letter), the
number of attempts, the record in the store, the webhook messages (`hooks`), the
faults injected. For each worker thread: the attempt it is running (`run`), whose
`pc` walks through `scan_task`:

    fetch -> open -> write -> scan -> finally -> decide -> record -> send -> exit

and, once an exception is caught, `record -> send -> finally -> exit`. `Handle` is
the list of `except` clauses, `CanRaise` what each part of the `try` block can
raise, `Decide` the code after the `try` statement, `RecordResult` and
`SendWebhook` the two halves of `_finalize`, `Exit` the end of the task with the
queue's retry rule. Faults are actions of their own, counted in `faults` and
bounded by `MaxFaults`: the broker refuses a message, the web process dies between
send and seed, a worker dies anywhere, the time limit interrupts an attempt
anywhere (in the `finally` clause and after the last enqueue too), a worker dies after a POST.
Of the external queue it is assumed that a message is claimed by one worker at a time,
and that the retry of a message is queued and the message acknowledged in one step. A
storage failure, which `results.record` swallows, and an expiry may happen at any time.

`Download` has the detail of the `fetch`, `open` and `write` steps for one source: the declared
length, the parameter checks, the loop over the stream in reads of any size, the
loop over the buffer, the tail, the part count. A byte is a token, and a blob
decrypts in a position exactly when it is the blob its owner made for it (AES-GCM
with the position in the AAD is taken to be unforgeable). The bound `_write_plain` puts on
the plaintext is a second line: every blob but the last is full, so a file over the cap
has already exceeded `_wire_cap`, and `DiskBounded` rests on `_check_limits`.

`Registry` (operators) is the boot check and the selection; `Backends` (operators)
maps every reply of an engine to a kind; `ScanRequest` composes both with
`ScanReport` and `Wire`: boot, one request on either endpoint, the scanners in any
order with any reply their engine can give, the answer. The engines are external:
one that reads the file finds what is in it, or fails; clamd does not read past
its limit and says OK.

`Jcop` is one scan by the JCOP backend with its clock. JCOP is external: it
analyses at its own pace, may know the file, learn it from another client or
forget it, and may fail any request. What it tells of an analysis under way is
provisional: the outcome is chosen again when the analysis finishes (the history
`published` keeps those). The timeouts of `requests` bound a connection and each wait,
so an upload, or an answer that comes in pieces, takes up to `MaxDrip` more; `started`
is when the last request was sent.

`JobContract` is the abstract specification of an asynchronous job: what a caller
sees of it, without workers, attempts, files or queues. `AsyncContract` maps the
state of `AsyncScan` to it (a job is *open* while its scan message is queued or
running, *closed* once acknowledged, *abandoned* once dead-lettered; a notice is a
message of the webhooks queue) and states that every step of the pipeline is a step
of the contract or invisible to it. The faults of the contract are the injected ones.

`Ssrf` follows the outgoing requests of one job: the check in the web process, the
check in the worker, the rounds of `_request_with_redirects` for the GET, then the
POST of the webhook with its retries. Every resolution is a fresh choice among
`DNSAnswers`; a host may be an IP literal, and what Python's `ipaddress` says of an
address is a set of traits. The profile is part of the state, since it decides which
checks are live: only production reads the environment, and the test profiles switch
the check of the submission off.

`Jwt` (operators) has `decode`, `request_target` and `check_binding`; what PyJWT checks
by itself is an external operator. A token says whether its `iat` and `exp` are JSON
numbers: PyJWT reads strings of digits as well, and the lifetime cap of `decode` looks at
numbers only. `JwtAuth` presents tokens to `_authenticate` over
time.

`JobPoll` looks at one poll-only job through the store, with a clock: the seed, the
terminal record, a redelivery, writes and reads that fail, expiry. `AsyncScan` has
the task in detail and no clock; here the task is three steps.

`Clamd` is the exchange with a pool of daemons that `Backends` starts from: the host
picked for a try, the chunks, the end of the stream, the reply or its absence, the
retry. A daemon may stop at any time and loses its connections, and local buffers may take what it no longer
reads (`SendUnseen`), so that a failure shows late. The clamd library, which frames
`INSTREAM`, is taken to work as `exinstream` does.

`Health` has the containers with their worker processes and the threads of each, the
ping and the prober, and the kubelet's rule, in discrete time. A ping is on the queue of
its container, then in the process that fetched it (`Fetch`; processes prefetch, busy or
not), and only a free thread of that process answers it. The broker or the result backend
may fail the ping at any point (`BrokerFails`), which fails the probe (`health.py:58`).

`AsyncScanProofs`, `DownloadProofs`, `ReportProofs`, `ScanRequestProofs`, `AccessProofs`,
`DeliveryProofs` and `TimingProofs` hold the theorems and their proofs; they extend the
modules they are about, and `Lemmas` has what several of them need. The last three
extend two components each, which share no state: that is why the specifications of
`JwtAuth`, `JobPoll` and `Jcop` have names of their own (`AuthSpec`, `PollSpec`,
`JcopSpec`).

`MCAsyncScan`, `MCDownload`, `MCScanRequest`, `MCSsrf`, `MCJwtAuth` and
`MCHealth` only define values of constants and symmetries.
Operators named `Mut...` are plausible slips in the code, next to the definition
they would replace; nothing uses them except the mutation check, which shows that
every property can fail.

## What TLC checks

| run | instance | what it shows |
|---|---|---|
| `report` | two axes, three scores, three results; 378 505 states | `verdicts` gives each axis its strongest claim and quotes a result that makes it (against a definition by strength, without the code's precedence chain); a failed report has only failed axes; the order of the names does not matter; v1 and v2 callers decide alike; one more advisory scanner that detects nothing changes no kind of verdict, and no verdict at all on an unscored axis |
| `async_scan` | one job with a webhook or to poll only, two workers, one retry of each task, one fault, the store enabled, two reports, fair; 666 568 states | the report is sent when the job is acknowledged; only faults dead-letter; "all scanners failed" only with the budget spent; a detection blocks and is not retried away; poll and webhook agree; the POSTs stay within the budget of the queue; files are removed; the pipeline implements `JobContract` (closed only with the notice handed over, told again or abandoned only after a fault, never reopened); a queued job settles |
| `download` | files of 0 to 7 bytes around a cap of 5, chunks of 2 and 3 (and 0), overhead 2, reads of 1 to 3 bytes; 93 674 states | what is accepted is the file; a fitting file is not refused; disk and memory are bounded; the download ends |
| `scan_request` | the three shipped backends, 1 620 configurations, 252 requests; 222 504 states | no infected file is released; the default selection is served; "unavailable" is true |
| `jcop` | 4 s to connect and to read a result, 7 s budget, 2 s pauses, 3 s to connect a submission, so that the lookup alone can spend the budget, requests up to 2 s longer than their timeouts; 326 892 states | only a finished analysis decides; no request starts later than a pause past the shared budget; the scan ends |
| `ssrf` | four profiles, seven submissions, four hosts, four kinds of addresses, `MAX_REDIRECTS = 2`, one webhook retry; 9 075 states | no connection to an internal address, whatever was resolved before; no downgrade along a chain; redirects bounded; the webhook goes to its URL only |
| `jwt_auth` | eleven tokens and none, nine requests, two requests served, lifetime 2, leeway 1, clock to 6; 817 999 states | a token is good for one request; the replay window of a token with numeric times is bounded whatever its signer chose; an honest caller with a clock off by the leeway is served |
| `job_poll` | TTL 2, clock to 5, one redelivery; 6 533 states | a 404 and a late "pending" have one of the listed reasons; a result once read is not taken back |
| `clamd` | files of 0 to 3 chunks, limit 2, two hosts, two retries, two stops; 13 152 states | a verdict about the file needs the whole stream in the hands of the daemon that gave it |
| `health` | two containers of two processes of one thread, scans of up to 3, a wait of 2, 3 to give up on a hung prober, period 4, threshold 2; 136 577 states up to symmetry | a probe that fails without a fault of the broker found no process to fetch the ping, a dead one behind it, or no free thread in it; a dead container is restarted within the window plus the time of the last probe |
| `find_seed_race`, `find_webhook_attempts` | one job, one worker, one retry, one fault | violations, see below |

Why the bounds are enough. Results meet each other only through their kind, flags
and category, pairwise and against "all of them": three results have every pair
next to a third. Two workers are all that one message can be claimed by at once.
The retry budgets of `async_scan` are
one, since only the comparison with them matters, and its two reports are the ones the
control of the task tells apart: one that is retried, and one that is reported at once.
One fault per job reaches every single failure between any two steps. The theorems hold
for any number of jobs, workers, retries, reports and faults. Files of 0 to 3 chunks, the last one
full or not, at the cap, one below and one above it, are all in the instance of
`download`. `MAX_REDIRECTS = 2` is the shortest chain with a middle, which the
downgrade needs. Two served requests are a use and a reuse of a token; the clock of
`jwt_auth` runs past the end of the longest token and its leeway, and that of `job_poll`
past two lives of a record. A file of three chunks is one past the daemons' limit. The
window of `health` (period times threshold, 8) is longer than the longest scan, as the
deployment wants it; a process with a busy thread next to one with a free thread is what
the ping can fall between, and a scan may outlast the wait or end within it.

Runs switch deadlock checking off because the modelled life ends: a job is
settled, a request answered, a download over.

Fairness. `AsyncScan` assumes weak fairness of the work as a whole: as long as a request
can be answered, a message claimed, a step of a worker made or a webhook delivered, one
of these is done, no matter which. The processes run, sockets have timeouts and the
download a total budget. Faults, expiry and new requests are never forced, and
nothing is assumed of the outcome of a step. `Download` assumes that the stream is
finite and that reads return. `Jcop` assumes nothing of JCOP.

### Disagreements between the code and what is said of it

Two runs show TLC finding what a comment or a document says violated by what the code
does.

- `find_seed_race`: the pending record is written after the task is sent, and can replace
  the terminal record of a fast worker (`app.py:395`), where the comment has "the worker
  overwrites it with the terminal result" (`app.py:393-394`). A poll-only caller then
  reads `pending` until the record expires. `PendingIsExplained` shows that this and a
  swallowed write are the only ways to get there.
- `find_webhook_attempts`: `WEBHOOK_MAX_ATTEMPTS` is given to the queue as a number of
  retries (`tasks.py:55`), so one more POST is made than "attempts before giving up"
  (`config.py:191`, `docs/deployment.md:135`) says. `DeliveryBudget` is what does hold.

Five more claims are stated at the end of their modules, as they are made, and have a
configuration that violates each within seconds, to be run by hand
(`tlc -config FindX.cfg M`). The properties that the runs check do not rest on them; the
one named says what does hold.

| claim | configuration, module | what the code does |
|---|---|---|
| "A 3xx is a failed delivery (the receiver must accept with a 2xx)" (`tasks.py:89-90`): `DoneIsAccepted` | `FindBare3xx.cfg`, `MCAsyncScan` | a 3xx that is not a redirect with a `Location` passes both tests and counts as a delivery (`tasks.py:98-103`) |
| "total wall time stays within submit_timeout" (`jcop.py:123-124`): `WallTimeWithinBudget` | `FindJcopWallTime.cfg`, `Jcop` | the deadline bounds when a request starts (`BudgetShared`); a pause and a poll (`jcop.py:141-143`), or the connection and the upload of a submission (`jcop.py:112`), come on top |
| "a dead one is restarted within" period times threshold (`values.yaml:145-147`): `DeadWithinWindow` | `FindDeadWindow.cfg`, `MCHealth` | a container that dies right after a probe is restarted up to the wait of its last probe later (`DeadIsRestarted`) |
| "a worker busy with long scans is not killed", since the window covers them (`values.yaml:145-147`): `BusyIsNotKilled` | `FindBusyKilled.cfg`, `MCHealth` | a probe waits 5 s (`health.py:57`), and a thread that frees between two probes takes the next scan of the backlog, so every probe of a window can fail although no scan is that long (`FailureMeansBusy`) |
| "a hard cap on `exp - iat`" (`jwt_auth.py:147-149`, `docs/security.md:73`): `LifetimeIsCapped` | `FindLifetimeCap.cfg`, `MCJwtAuth` | the cap is skipped when one of the two is a string of digits (`jwt_auth.py:186`), which PyJWT accepts (`ReplayWindow` is about the other tokens) |

Others met while modelling; the models follow the code, and the property named says
what does hold.

- A failed download is reported as `transient` at the first attempt (`tasks.py:395`),
  although `transient` is documented as "the service has already exhausted its own
  retries" (`docs/api.md:205-206`). For failed scanners it is true:
  `UnavailableOnlyWhenExhausted`.
- A failed read of the store is answered 404 (`results.py:91-93`), which the API documents
  as a job that is unknown, expired or somebody else's (`docs/api.md:233-235`). It is a
  step of its own in `JobPoll`; `NotFoundIsExplained` is about the reads that work.
- The retry of a scan picks a host at random again (`clamav.py:96`, `exav.py:72`), possibly
  the one that failed, where the documentation "fails over to another host"
  (`docs/scanner-backends.md:38-39`).
- One key is published and one signs, each loaded when its process starts
  (`jwt_auth.py:105-108, 253`): between the two restarts of a rotation no receiver can
  match them, although the `kid` is there for that (`config.py:122-123`). Not modelled.
- The rate limit of the signature refresh is tested and set in two steps
  (`metrics.py:63-65`), so two scrapes may both refresh. Not modelled.

## What is proved

Every safety property that a run checks is a theorem. It holds for all values of the
constants that satisfy the named assumptions of the model; the bounds of the runs play no
part. Most properties are not inductive alone, so each component has an inductive
invariant, which TLC checked on the instance of the run before it was proved.

| module | theorems (the property each states) |
|---|---|
| `AsyncScanProofs` | `TypeCorrect` (`TypeOK`), `Reporting` (`AckedIsReported`), `DeadLettering` (`OnlyFaultsDeadLetter`), `Unavailability` (`UnavailableOnlyWhenExhausted`), `FilesRemoved` (`NoFileLeaks`), `Delivery` (`DeliveryBudget`), `Refinement` (`ImplementsContract`), `Detection` (`DetectionIsReported`), `Channels` (`ChannelsAgree`) |
| `DownloadProofs` | `TypeCorrect` (`TypeOK`), `DiskIsBounded` (`DiskBounded`), `MemoryIsBounded` (`MemoryBounded`), `Integrity` (`AcceptedIsTheFile`), `FittingFile` (`FittingFileIsNotRefused`) |
| `ReportProofs` | `Strongest` (`VerdictIsStrongestClaim`), `Unusable` (`UnusableMeansEveryAxisFailed`), `Versioned` (`VersionsAgree`), `Ordering` (`OrderIndependent`), `Advisory` (`AdvisoryOnlyAddsDetections`) |
| `ScanRequestProofs` | `Infected` (`InfectedNeverReleased`), `DefaultServed` (`DefaultSelectionServed`), `Truthful` (`UnavailableIsTruthful`) |
| `AccessProofs` (`Ssrf`) | `TypeCorrect` (`TypeOK`), `NoInternal` (`NoInternalDial`), `Downgrades` (`NoDowngrade`), `WebhookTarget` (`WebhookOnlyToItsUrl`), `Redirects` (`RedirectsBounded`) |
| `AccessProofs` (`JwtAuth`) | `TokenBinding` (`OneTokenOneRequest`), `ReplayBound` (`ReplayWindow`), `HonestAccess` (`HonestIsServed`) |
| `DeliveryProofs` (`Clamd`) | `WholeStream` (`VerdictNeedsWholeStream`) |
| `DeliveryProofs` (`JobPoll`) | `NotFound` (`NotFoundIsExplained`), `Overtaken` (`PendingIsExplained`), `ResultStays` (`ResultStaysResult`) |
| `TimingProofs` (`Health`) | `BusyFailure` (`FailureMeansBusy`), `Restart` (`DeadIsRestarted`) |
| `TimingProofs` (`Jcop`) | `Budget` (`BudgetShared`), `JcopsWord` (`FinishedAnalysisDecides`) |

`Lemmas` has induction over numbers, the elements of a flattened sequence, and what
the operators of `ScanReport` and `Wire` compute for every report.

### The asynchronous scan

For any sets of jobs, workers and reports, any retry budgets and any number of faults.
Assumed: budgets are natural numbers, reports are non-empty sequences of results,
options and owners have their types; and, for `Channels`, that the malware axis is not
scored (`UnscoredAssumption`: no shipped backend sets `scored`, and `to_v1` has no place
for a score).

The inductive invariant `IInv` adds to the properties:

- `WebInv`: nothing is queued for a request that was not handled (else a send could
  hit a running job);
- `ClaimInv`: a worker at work has claimed its message, and no two have claimed the same
  one. Given the exclusive claim of the queue, no step of the task gives that up;
- `AttemptInv`: the running attempt is the last one counted (what ties "the last
  attempt reported" to the worker that did it);
- `RaiseInv`: an exception is carried only in `finally` and `exit`, and a scan failure
  or an unexpected exception means that retries are left. This is the agreement of
  the two budgets: the queue dead-letters at `MAX_RETRIES`, where the body no longer
  raises;
- `ReportInv`: an attempt that passed `_finalize` without an exception has its message
  in the queue;
- `UnavailableInv`: a report of failed scanners on its way out means a spent budget;
- `HookInv`: a queued webhook message has been posted once per retry, plus crashes.

The proof first shows what each kind of step leaves alone (`BodyStepLocal` for the
task body, `LeaveLocal` and `PickLocal` for the queue, `DeliverContent` for
deliveries), then that each conjunct is kept, one step per action.

The refinement needs to count notices, so `CInv` adds that a refused request has no
message (`RefusedInv`), that an attempt has at most one message (`MessageInv`) and none
before `_finalize` (`UnsentInv`), and `ToldInv`: a job has been told at most once per
fault, and once more only if an attempt of it has succeeded. `CauseInv` gives a dead
letter its fault. Each action is then shown to be a step of `JobContract`, or to leave
the mapped state as it is.

What the caller is told is followed by `DInv`, from the scanners to both channels:
`CarryInv` (the payload is that of the attempt's report, and a detection is not raised
as a scan failure), `BlockInv` (a body sent by an attempt with a detection blocks),
`VersionInv` and `StoreInv` (without faults, a terminal record is the payload of the
webhook). Under them are lemmas on the data: `MalwareBlocks`, that a report with a
malware detection makes its reader block, and `CallerIs`, that a decision is a function
of the payload and not of the version it is written in.

### The download

For any limits, sources, chunk sizes and cuts of the reads. The counters have counted
what was read (`CountInv`); a plain file is what is on the disk and what is still to come
(`PlainInv`); the buffer is drained before the next read (`BufferInv`); an encrypted
file on the disk is the plaintexts of its owner's first blobs, in order (`DiskInv`, which
gives `Integrity`). `DiskBounded` then follows for the encrypted case from the count of
the wire: full blobs cannot carry more than the cap past `_check_limits`. `FittingFile`
needs `FitInv`, that a truthful stream is always at a boundary between blobs, and the
arithmetic of `_wire_cap`: rounding the cap up to whole chunks leaves room for every
overhead.

### The report

The properties are about the report as it stands, so the invariant is only that the
results are possible ones. The argument is about the operators: `VerdictOfAxis` says
that the code's chain of early returns computes one of five claims (`VerdictIs`), which
carries `Strongest`, `Unusable`, `Versioned` and `Advisory`. `Ordering` compares two
reports with the same results in any order (`Covers`), the reversed one among them.
Assumed: scores are natural numbers.

### The request

For any configurations, requests, file sizes and caps. Assumed: lists of names are
sequences of strings and sizes are numbers (`RequestAssumption`), and the backends are
among those that ship, unscored engines for malware (`ShippedAssumption`). The second is
what the code relies on: the size check names clamav, and `deciding_scanners` is asked of
the whole selection, which on two axes would not be who decides each; the boot check
refuses a backend of a second axis.

The lemmas first say what the registry computes, for any lists: `dedupe` keeps exactly
the names (`DedupeIs`), a selection names configured backends only (`Selection`), and the
default selection is all the backends of the default categories, at a cap each category
can decide, because the boot check has accepted them one by one (`DefaultSelection`,
which gives `DefaultServed`). The invariant then follows the request: past the boot the
configuration validates (`BootInv`); a scan has a selection, at a cap the file keeps to
and the deciding scanners can decide (`NamesInv`); a result is one that the engine of its
scanner can lead to for this file (`ResultsInv`); and an answer is a refusal, a file too
large, or the report of finished scanners (`AnswerInv`). `Infected` follows from
`KindIs`, that only clamd calls an infected file clean and only past its limit, where
clamav does not decide, and from `VerdictOfAxis`: with a deciding scanner that is not
clean the axis is not clean (`NeverClean`), so that no version of the answer releases the
file.

### The others

- `Ssrf`, for any resolver, hosts, redirects and limits: a download dials once per round
  (`RoundInv`, which bounds the redirects), only the round that passed the checks waits
  for an answer (`WaitInv`), a chain with an https round behind it is not at an
  http one (`SchemeInv`), and a webhook stays at its URL (`PostInv`). Assumed: URLs have a
  scheme and a host, and the resolver answers sequences of addresses.
- `JwtAuth`, for any tokens, keys, ages, leeways and clocks: every answered request was let
  through exactly when the code's checks held at that instant (`ServedInv`), and the
  theorems compare two such requests, or one with the clock of its caller. Assumed:
  times and sizes are numbers.
- `JobPoll`, for any time to live: the record is the last write that worked and outlives
  each of them by the time to live (`LifeInv`, `LastInv`); once its owner has read a
  result, the seed is behind it (`ToldInv`).
- `Clamd`, for any pool, file, limit and number of retries: the daemon has no more than
  was sent (`SendInv`), has seen the end only behind the whole file (`ReplyInv`), and no
  verdict about the file survives into a new try (`FreshInv`).
- `Health`, for any containers, processes, threads, periods, waits and thresholds: a probe
  is over once it has waited (`ProbeInv`); time passes a ping that nobody fetched only
  when the container is dead (`FetchInv`); a thread that was free while the ping waited in
  its process is free still, and no time has passed since (`FreeInv`, which gives
  `BusyFailure`); the failures in a row keep up with the time the container has been dead
  (`DeadInv`, which bounds the time to its restart). Assumed (`ProbeAssumption`): the
  probe waits, is given up by the kubelet before the next one is due, and the threshold
  is not zero.
- `Jcop`, for every setting of the four timeouts and requests of any length: the deadline
  never moves and the lookup starts at time 0, so every later request starts before the
  deadline or a pause after it; what JCOP serves as finished is in `published`, and only
  an answer that says finished becomes a verdict.

Induction over numbers (chunks of a file, positions of a report) is the lemma
`SetInduction`, derived from the well-foundedness of the natural numbers: it takes the
set of the numbers that have the property, where the library's theorems take an operator
that the provers cannot instantiate.

### Only model-checked

- Liveness (`EveryJobSettles`, `DownloadEnds`, `ScanEnds`): fairness and `ENABLED` are out
  of the prover's reach.
- The violations of the `find_...` runs and of the five configurations run by hand, each
  of which a trace shows.

## What is left out

Reasons, messages, metadata and logs; the parsing of settings and requests, and the
decoding of keys; back-off delays, and priorities except that of the ping; the retries
of a broker connection; ports, TLS names and headers of outgoing requests; the cache of
backends, which two threads may fill twice with the same thing; the window of the queue
between queueing a retry and acknowledging the message it replaces, in which two copies
of one job could be at work; a worker process that hangs and yet keeps prefetching pings.

Not modelled: the dashboard, a stateless guard (a password and a list of addresses) in
front of a third-party application; the container images, the Helm chart (except the
probe's settings) and the scripts; the scan counters, which nothing reads; `/check`,
which asks every default backend for a ping and remembers nothing; the removal of a
ping queue at shutdown, which only tidies up after a container that is gone; the
signature refresh, whose gauges nothing in the service reads; the signature of a webhook
and the published key set, which keep no state (one token per POST, one key).

## Plan

Done: the models of the parts that keep state a caller depends on, the refinement of
`JobContract`, and the proof of every safety property that a run checks. What is left
are the four hazards listed without a property: a bare 3xx and a lifetime in strings, which
the code does get wrong (above), a rotation of the signing key, and a read of the store
that fails; the note of each says why none covers it.
