----------------------------- MODULE AsyncScan ------------------------------
(***************************************************************************)
(* The life of an asynchronous scan: the web endpoint that queues it       *)
(* (app.py, scan_async), the worker task that downloads and scans the file *)
(* (tasks.py, scan_task), the optional result store (results.py), and the  *)
(* webhook task that pushes the result (tasks.py, deliver_webhook), over a *)
(* queue that retries a task that raises and redelivers the message of a   *)
(* worker that dies (broker.py; the queue itself is external).             *)
(*                                                                         *)
(* Simplifications.  A job has one scan message.  A download is a fetch,   *)
(* the opening of the temporary file and the streaming into it (the        *)
(* Download module has their detail).  A file is named by its attempt, as  *)
(* its uuid is.  The report of a scan is any of Reports.  The back-off     *)
(* delays are left out: a message to retry is simply queued again.         *)
(***************************************************************************)
EXTENDS Wire

CONSTANTS
    Jobs,
    Workers,                \* worker threads of all the worker processes
    MAX_RETRIES,            \* tasks.py: retry budget of scan_task
    WEBHOOK_MAX_ATTEMPTS,   \* config.py: given to the webhook actor as max_retries
    StoreEnabled,           \* WORKER_RESULT_TTL > 0
    Clients,                \* calling services (JWT iss)
    Owner,                  \* Owner[j]: the client that submits job j
    Reports,                \* the reports a scan may produce
    Submissions,            \* the options callers submit: [webhook, version]
    MaxFaults               \* MaxFaults[j]: bound on the faults injected into job j

ASSUME BudgetAssumption == MAX_RETRIES \in Nat /\ WEBHOOK_MAX_ATTEMPTS \in Nat
ASSUME StoreAssumption == StoreEnabled \in BOOLEAN /\ Owner \in [Jobs -> Clients]
ASSUME ReportsAssumption == Reports \subseteq Seq(ScannerResult) \ {<< >>}
\* The malware axis is discrete: no shipped backend sets scored (scanner.py:108).
ASSUME UnscoredAssumption ==
    \A rs \in Reports : \A i \in DOMAIN rs : rs[i].category = "malware" => ~ rs[i].scored
ASSUME SubmissionsAssumption == Submissions \subseteq [webhook : BOOLEAN, version : Versions]
ASSUME FaultsAssumption == MaxFaults \in [Jobs -> Nat]

VARIABLES
    web,        \* web[j]: where the request that submits job j is
    args,       \* args[j]: the options of the job, fixed in its message
    scans,      \* scans[j]: the job's message in the "scans" queue
    attempts,   \* attempts[j]: times a worker has picked the message up
    run,        \* run[w]: the attempt worker w is running
    files,      \* temporary files on the scan volume, by attempt <<j, n>>
    uncleaned,  \* attempts cut short in or before their finally clause
    store,      \* store[j]: the job's record in the result store
    hooks,      \* the messages of the "webhooks" queue
    faults      \* faults[j]: faults injected so far

vars == <<web, args, scans, attempts, run, files, uncleaned, store, hooks, faults>>

NoReport == << >>
NoPayload == Payload("none", "none", NoVerdicts)
Pending == Payload("pending", "none", NoVerdicts)

\* Exceptions that scan_task can meet, by the handler that catches them.
PermanentErrors == {"FileError", "DecryptionError", "SSRFValidationError"}
Exceptions == PermanentErrors \cup {"RequestException", "Exception"}

NoJob == "none"

Idle == [pc |-> "idle", job |-> NoJob, n |-> 0, report |-> NoReport,
         payload |-> NoPayload, handler |-> FALSE, raised |-> "none"]

Init ==
    /\ web = [j \in Jobs |-> "idle"]
    /\ args = [j \in Jobs |-> [webhook |-> FALSE, version |-> V2]]
    /\ scans = [j \in Jobs |-> [st |-> "none", retries |-> 0, cause |-> "none"]]
    /\ attempts = [j \in Jobs |-> 0]
    /\ run = [w \in Workers |-> Idle]
    /\ files = {}
    /\ uncleaned = {}
    /\ store = [j \in Jobs |-> NoPayload]
    /\ hooks = {}
    /\ faults = [j \in Jobs |-> 0]

\* One more fault hits job j.
Fault(j) ==
    /\ faults[j] < MaxFaults[j]
    /\ faults' = [faults EXCEPT ![j] = @ + 1]

-----------------------------------------------------------------------------
(* The result store (results.py).                                          *)

enabled == StoreEnabled

\* record: no-op when disabled; a storage failure is swallowed.
record(j, payload) ==
    \/ enabled /\ store' = [store EXCEPT ![j] = payload]
    \/ UNCHANGED store

\* fetch: the record of job j, for its owner only.
fetch(j, owner) ==
    IF enabled /\ owner = Owner[j] THEN store[j] ELSE NoPayload

\* The record outlives WORKER_RESULT_TTL.
Expire(j) ==
    /\ store[j] # NoPayload
    /\ store' = [store EXCEPT ![j] = NoPayload]
    /\ UNCHANGED <<web, args, scans, attempts, run, files, uncleaned, hooks, faults>>

-----------------------------------------------------------------------------
(* The web endpoint (app.py).                                              *)

\* 400 or 422: a bad selection, a host refused by the policy, or no channel
\* for the result to come back on.
RefuseJob(j) ==
    /\ web[j] = "idle"
    /\ web' = [web EXCEPT ![j] = "refused"]
    /\ UNCHANGED <<args, scans, attempts, run, files, uncleaned, store, hooks, faults>>

\* scan_task.send: the message is queued ...
SendTask(j, a) ==
    /\ web[j] = "idle"
    /\ a.webhook \/ enabled
    /\ web' = [web EXCEPT ![j] = "sent"]
    /\ args' = [args EXCEPT ![j] = a]
    /\ scans' = [scans EXCEPT ![j] = [@ EXCEPT !.st = "queued"]]
    /\ UNCHANGED <<attempts, run, files, uncleaned, store, hooks, faults>>

\* ... or the broker is down and the request ends in a 500.
SendTaskFails(j) ==
    /\ web[j] = "idle"
    /\ Fault(j)
    /\ web' = [web EXCEPT ![j] = "failed"]
    /\ UNCHANGED <<args, scans, attempts, run, files, uncleaned, store, hooks>>

\* The pending record is seeded after the send, then the 202 is returned.
SeedPending(j) ==
    /\ web[j] = "sent"
    /\ web' = [web EXCEPT ![j] = "accepted"]
    /\ record(j, Pending)
    /\ UNCHANGED <<args, scans, attempts, run, files, uncleaned, hooks, faults>>

\* The web process dies between the send and the seed.
WebCrash(j) ==
    /\ web[j] = "sent"
    /\ Fault(j)
    /\ web' = [web EXCEPT ![j] = "crashed"]
    /\ UNCHANGED <<args, scans, attempts, run, files, uncleaned, store, hooks>>

\* job_status: what a poll of job j answers, NoPayload standing for a 404.
job_status(j, client, version) == serialize(fetch(j, client), version)

-----------------------------------------------------------------------------
(* The worker: scan_task.  run[w].pc is the next thing the attempt does:   *)
(*   fetch -> open -> write -> scan -> finally -> decide -> record -> send *)
(*   -> exit, or, once an exception is caught (handler is TRUE),           *)
(*   record -> send -> finally -> exit.                                    *)

Goto(w, pc) == run' = [run EXCEPT ![w] = [@ EXCEPT !.pc = pc]]

\* A plausible slip: the budget is compared with >, as if retries counted
\* the attempts.
MutRetriesExhaustedLate(j) == scans[j].retries > MAX_RETRIES

\* Another: the task gives up one retry early.
MutRetriesExhaustedEarly(j) == scans[j].retries + 1 >= MAX_RETRIES

\* _retries_exhausted: the running message's own count.
retries_exhausted(j) == scans[j].retries >= MAX_RETRIES

\* The queue hands the message to a free worker thread (external: that one thread at
\* a time holds a message is assumed of the queue, not shown).
Pick(w, j) ==
    /\ run[w].pc = "idle"
    /\ scans[j].st = "queued"
    /\ scans' = [scans EXCEPT ![j] = [@ EXCEPT !.st = "running"]]
    /\ attempts' = [attempts EXCEPT ![j] = @ + 1]
    /\ run' = [run EXCEPT ![w] = [Idle EXCEPT !.pc = "fetch", !.job = j,
                                              !.n = attempts[j] + 1]]
    /\ UNCHANGED <<web, args, files, uncleaned, store, hooks, faults>>

\* _report_error: the terminal payload of an exception, on the way to
\* _finalize inside the handler.
ReportError(w, kind) ==
    run' = [run EXCEPT ![w] = [@ EXCEPT !.pc = "record", !.handler = TRUE,
                       !.payload = Payload("error", kind, NoVerdicts)]]

\* An exception leaves the task: only the finally clause is left to run.
Raise(w, why) ==
    run' = [run EXCEPT ![w] = [@ EXCEPT !.pc = "finally", !.handler = TRUE, !.raised = why]]

\* A plausible slip: an unexpected exception is reported at every attempt and
\* still raised.
MutHandleReportAndRaise(w, exc) ==
    CASE exc \in PermanentErrors -> ReportError(w, "file")
      [] exc = "RequestException" -> ReportError(w, "transient")
      [] exc = "Exception" ->
            run' = [run EXCEPT ![w] = [@ EXCEPT !.pc = "record", !.handler = TRUE,
                               !.payload = Payload("error", "transient", NoVerdicts),
                               !.raised = "exception"]]

\* The except clauses of scan_task: permanent errors and failed downloads are
\* reported at once, anything else is retried while the budget lasts.
Handle(w, exc) ==
    CASE exc \in PermanentErrors -> ReportError(w, "file")
      [] exc = "RequestException" -> ReportError(w, "transient")
      [] exc = "Exception" -> IF retries_exhausted(run[w].job)
                              THEN ReportError(w, "transient")
                              ELSE Raise(w, "exception")

\* What each part of the try block can raise: the policy check, the GET, its
\* status and its declared length; bad encryption parameters and the opening of
\* the file; a limit, a bad chunk or a lost connection while streaming; a
\* backend that cannot be built in run_scanners.
CanRaise(pc) ==
    CASE pc = "fetch" -> {"SSRFValidationError", "FileError", "RequestException", "Exception"}
      [] pc = "open"  -> {"DecryptionError", "Exception"}
      [] pc = "write" -> {"FileError", "DecryptionError", "RequestException", "Exception"}
      [] pc = "scan"  -> {"Exception"}
      [] OTHER -> {}

TryFails(w, exc) ==
    /\ exc \in CanRaise(run[w].pc)
    /\ Handle(w, exc)
    /\ UNCHANGED <<web, args, scans, attempts, files, uncleaned, store, hooks, faults>>

\* The policy check passed and the GET answered.
FetchOk(w) ==
    /\ run[w].pc = "fetch"
    /\ Goto(w, "open")
    /\ UNCHANGED <<web, args, scans, attempts, files, uncleaned, store, hooks, faults>>

\* open(file_path, "wb") creates the temporary file ...
OpenFile(w) ==
    /\ run[w].pc = "open"
    /\ files' = files \cup {<<run[w].job, run[w].n>>}
    /\ Goto(w, "write")
    /\ UNCHANGED <<web, args, scans, attempts, uncleaned, store, hooks, faults>>

\* ... and the body is streamed into it.
WriteOk(w) ==
    /\ run[w].pc = "write"
    /\ Goto(w, "scan")
    /\ UNCHANGED <<web, args, scans, attempts, files, uncleaned, store, hooks, faults>>

\* run_scanners returns a report.
ScanReturns(w, rs) ==
    /\ run[w].pc = "scan"
    /\ run' = [run EXCEPT ![w] = [@ EXCEPT !.pc = "finally", !.report = rs]]
    /\ UNCHANGED <<web, args, scans, attempts, files, uncleaned, store, hooks, faults>>

\* A plausible slip: the file is only removed after a successful scan.
MutFinallyOnSuccessOnly(w) ==
    /\ run[w].pc = "finally"
    /\ files' = IF run[w].handler THEN files ELSE files \ {<<run[w].job, run[w].n>>}
    /\ Goto(w, IF run[w].handler THEN "exit" ELSE "decide")
    /\ UNCHANGED <<web, args, scans, attempts, uncleaned, store, hooks, faults>>

\* The finally clause removes the file.
Finally(w) ==
    /\ run[w].pc = "finally"
    /\ files' = files \ {<<run[w].job, run[w].n>>}
    /\ Goto(w, IF run[w].handler THEN "exit" ELSE "decide")
    /\ UNCHANGED <<web, args, scans, attempts, uncleaned, store, hooks, faults>>

\* After the try statement: retry a report nothing usable came out of, report
\* it once the budget is spent, and deliver any other.
Decide(w) ==
    /\ run[w].pc = "decide"
    /\ IF all_errored(run[w].report) /\ ~ retries_exhausted(run[w].job)
       THEN run' = [run EXCEPT ![w] = [@ EXCEPT !.pc = "exit", !.raised = "scanners"]]
       ELSE run' = [run EXCEPT ![w] = [@ EXCEPT !.pc = "record",
                               !.payload = ReportPayload(run[w].report)]]
    /\ UNCHANGED <<web, args, scans, attempts, files, uncleaned, store, hooks, faults>>

\* _finalize, first half: results.record.
RecordResult(w) ==
    /\ run[w].pc = "record"
    /\ record(run[w].job, run[w].payload)
    /\ Goto(w, "send")
    /\ UNCHANGED <<web, args, scans, attempts, files, uncleaned, hooks, faults>>

AfterFinalize(w) == IF run[w].handler THEN "finally" ELSE "exit"

\* A plausible slip: every body is shaped to the newest version.
MutHookMessageNewest(w) ==
    [job |-> run[w].job, n |-> run[w].n,
     body |-> serialize(run[w].payload, V2),
     retries |-> 0, tries |-> 0, accepted |-> 0, st |-> "queued"]

\* The message _finalize enqueues: the payload, shaped to the version of the job.
HookMessage(w) ==
    [job |-> run[w].job, n |-> run[w].n,
     body |-> serialize(run[w].payload, args[run[w].job].version),
     retries |-> 0, tries |-> 0, accepted |-> 0, st |-> "queued"]

\* A plausible slip: with the store enabled, the webhook is left out.
MutSendWebhookUnlessStored(w) ==
    /\ run[w].pc = "send"
    /\ hooks' = IF args[run[w].job].webhook /\ store[run[w].job] = NoPayload
                THEN hooks \cup {HookMessage(w)} ELSE hooks
    /\ Goto(w, AfterFinalize(w))
    /\ UNCHANGED <<web, args, scans, attempts, files, uncleaned, store, faults>>

\* _finalize, second half: deliver_webhook.send when a webhook was given.
SendWebhook(w) ==
    /\ run[w].pc = "send"
    /\ hooks' = IF args[run[w].job].webhook THEN hooks \cup {HookMessage(w)} ELSE hooks
    /\ Goto(w, AfterFinalize(w))
    /\ UNCHANGED <<web, args, scans, attempts, files, uncleaned, store, faults>>

\* The broker refuses the webhook message: the exception leaves the task.
SendWebhookFails(w) ==
    /\ run[w].pc = "send"
    /\ args[run[w].job].webhook
    /\ Fault(run[w].job)
    /\ run' = [run EXCEPT ![w] = [@ EXCEPT !.pc = AfterFinalize(w), !.raised = "send"]]
    /\ UNCHANGED <<web, args, scans, attempts, files, uncleaned, store, hooks>>

\* A plausible slip: a task that raised is not queued again.
MutAfterTaskForgets(m, raised) ==
    IF raised = "none" THEN [m EXCEPT !.st = "acked"]
    ELSE IF m.retries < MAX_RETRIES THEN m
    ELSE [m EXCEPT !.st = "dead", !.cause = raised]

\* The queue's retry rule (external): a task that returned is acknowledged, one
\* that raised is queued again with one more retry, or dead-lettered when it has
\* none left.
AfterTask(m, raised) ==
    IF raised = "none" THEN [m EXCEPT !.st = "acked"]
    ELSE IF m.retries < MAX_RETRIES THEN [m EXCEPT !.st = "queued", !.retries = @ + 1]
    ELSE [m EXCEPT !.st = "dead", !.cause = raised]

\* The task is over.
Exit(w) ==
    /\ run[w].pc = "exit"
    /\ scans' = [scans EXCEPT ![run[w].job] = AfterTask(@, run[w].raised)]
    /\ run' = [run EXCEPT ![w] = Idle]
    /\ UNCHANGED <<web, args, attempts, files, uncleaned, store, hooks, faults>>

\* The queue's time limit interrupts the task.  The interruption is not an
\* Exception: no except clause catches it, and past the try statement it
\* leaves the task at once, even when everything has been reported.
InTry(w) ==
    \/ run[w].pc \in {"fetch", "open", "write", "scan"}
    \/ run[w].pc \in {"record", "send"} /\ run[w].handler

Interrupt(w) ==
    /\ run[w].pc \in {"fetch", "open", "write", "scan", "decide", "record", "send", "exit"}
    /\ Fault(run[w].job)
    /\ IF InTry(w)
       THEN Raise(w, "interrupt")
       ELSE run' = [run EXCEPT ![w] = [@ EXCEPT !.pc = "exit", !.raised = "interrupt"]]
    /\ UNCHANGED <<web, args, scans, attempts, files, uncleaned, store, hooks>>

\* The same in the finally clause, before or after the file is removed.
InterruptFinally(w) ==
    /\ run[w].pc = "finally"
    /\ Fault(run[w].job)
    /\ files' \in {files, files \ {<<run[w].job, run[w].n>>}}
    /\ uncleaned' = uncleaned \cup {<<run[w].job, run[w].n>>}
    /\ run' = [run EXCEPT ![w] = [@ EXCEPT !.pc = "exit", !.raised = "interrupt"]]
    /\ UNCHANGED <<web, args, scans, attempts, store, hooks>>

\* The worker process dies; the queue redelivers its message (external).
WorkerCrash(w) ==
    /\ run[w].pc # "idle"
    /\ Fault(run[w].job)
    /\ uncleaned' = uncleaned \cup {<<run[w].job, run[w].n>>}
    /\ scans' = [scans EXCEPT ![run[w].job] = [@ EXCEPT !.st = "queued"]]
    /\ run' = [run EXCEPT ![w] = Idle]
    /\ UNCHANGED <<web, args, attempts, files, store, hooks>>

-----------------------------------------------------------------------------
(* The worker: deliver_webhook.  An answer is one of                       *)
(*   2xx       the receiver accepts                                        *)
(*   lost      it accepts, but its answer times out on the way             *)
(*   failed    it cannot be reached, or answers 4xx or 5xx                 *)
(*   redirect  it answers 301, 302, 303, 307 or 308 with a Location        *)
(*   bare3xx   it answers any other 3xx: neither resp.is_redirect nor      *)
(*             raise_for_status objects to it                              *)
(*   blocked   its host is refused by the SSRF guard                       *)

Answers == {"2xx", "lost", "failed", "redirect", "bare3xx", "blocked"}

\* deliver_webhook returns, or raises for the queue to retry the delivery.
Raises(answer) == answer \in {"lost", "failed", "redirect"}

\* The POST is made: the message counts it, and the times the receiver took it.
Posted(m, answer) ==
    [m EXCEPT !.tries = IF answer = "blocked" THEN @ ELSE @ + 1,
              !.accepted = IF answer \in {"2xx", "lost"} THEN @ + 1 ELSE @]

\* A plausible slip: a delivery that failed is not retried.
MutAfterPostNoRetry(m, answer) ==
    [Posted(m, answer) EXCEPT !.st = IF Raises(answer) THEN "dead" ELSE "done"]

\* A plausible slip: the budget is compared with <=, one retry too many.
MutAfterPostOneMore(m, answer) ==
    LET p == Posted(m, answer)
    IN  IF ~ Raises(answer) THEN [p EXCEPT !.st = "done"]
        ELSE IF m.retries <= WEBHOOK_MAX_ATTEMPTS THEN [p EXCEPT !.retries = @ + 1]
        ELSE [p EXCEPT !.st = "dead"]

\* The message after the POST: done, to be retried with one more retry
\* counted, or dead-lettered (the queue's retry rule, external).
AfterPost(m, answer) ==
    LET p == Posted(m, answer)
    IN  IF ~ Raises(answer) THEN [p EXCEPT !.st = "done"]
        ELSE IF m.retries < WEBHOOK_MAX_ATTEMPTS THEN [p EXCEPT !.retries = @ + 1]
        ELSE [p EXCEPT !.st = "dead"]

FreeWorker == \E w \in Workers : run[w].pc = "idle"

Deliver(m, answer) ==
    /\ m.st = "queued"
    /\ FreeWorker
    /\ hooks' = (hooks \ {m}) \cup {AfterPost(m, answer)}
    /\ UNCHANGED <<web, args, scans, attempts, run, files, uncleaned, store, faults>>

\* The worker dies after the POST and the message is redelivered.
DeliverCrash(m, answer) ==
    /\ m.st = "queued"
    /\ FreeWorker
    /\ Fault(m.job)
    /\ hooks' = (hooks \ {m}) \cup {Posted(m, answer)}
    /\ UNCHANGED <<web, args, scans, attempts, run, files, uncleaned, store>>

-----------------------------------------------------------------------------

ScanStep(w) ==
    \/ \E exc \in Exceptions : TryFails(w, exc)
    \/ FetchOk(w)
    \/ OpenFile(w)
    \/ WriteOk(w)
    \/ \E rs \in Reports : ScanReturns(w, rs)
    \/ Finally(w)
    \/ Decide(w)
    \/ RecordResult(w)
    \/ SendWebhook(w)
    \/ Exit(w)

DeliverStep == \E m \in hooks, answer \in Answers : Deliver(m, answer)

PickStep == \E w \in Workers, j \in Jobs : Pick(w, j)

WebStep(j) ==
    \/ RefuseJob(j)
    \/ \E a \in Submissions : SendTask(j, a)
    \/ SeedPending(j)

Faults ==
    \/ \E j \in Jobs : SendTaskFails(j) \/ WebCrash(j)
    \/ \E w \in Workers : SendWebhookFails(w) \/ Interrupt(w) \/ InterruptFinally(w) \/ WorkerCrash(w)
    \/ \E m \in hooks, answer \in Answers : DeliverCrash(m, answer)

Next ==
    \/ \E j \in Jobs : WebStep(j)
    \/ PickStep
    \/ \E w \in Workers : ScanStep(w)
    \/ DeliverStep
    \/ \E j \in Jobs : Expire(j)
    \/ Faults

Spec == Init /\ [][Next]_vars

\* The processes keep running: while a request can be answered, a queued message
\* taken, a step of an attempt made (sockets time out, the download has a total
\* budget) or a delivery attempted, one of these is done sooner or later, no matter
\* which.  Faults, the expiry of records and new submissions are never forced.
Work ==
    \/ \E j \in Jobs : SeedPending(j)
    \/ PickStep
    \/ \E w \in Workers : ScanStep(w)
    \/ DeliverStep

Fairness == WF_vars(Work)

FairSpec == Spec /\ Fairness

-----------------------------------------------------------------------------
(* Types.                                                                  *)

PCs == {"idle", "fetch", "open", "write", "scan", "finally", "decide", "record", "send",
        "exit"}
Raisable == {"none", "exception", "scanners", "send", "interrupt"}

\* The terminal payloads _report_error and _deliver build.
Terminal ==
    {Payload("error", kind, NoVerdicts) : kind \in {"file", "transient"}}
        \cup {ReportPayload(rs) : rs \in Reports}

RunRecord ==
    [pc : PCs, job : Jobs \cup {NoJob}, n : Nat, report : Reports \cup {NoReport},
     payload : Terminal \cup {NoPayload}, handler : BOOLEAN, raised : Raisable]

ScanRecord ==
    [st : {"none", "queued", "running", "acked", "dead"}, retries : 0..MAX_RETRIES,
     cause : Raisable]

Bodies == {serialize(p, v) : p \in Terminal \cup {NoPayload}, v \in Versions}

HookRecord ==
    [job : Jobs, n : Nat, body : Bodies, retries : 0..WEBHOOK_MAX_ATTEMPTS,
     tries : Nat, accepted : Nat, st : {"queued", "done", "dead"}]

JobType ==
    /\ web \in [Jobs -> {"idle", "refused", "failed", "sent", "accepted", "crashed"}]
    /\ args \in [Jobs -> [webhook : BOOLEAN, version : Versions]]
    /\ scans \in [Jobs -> ScanRecord]
    /\ attempts \in [Jobs -> Nat]
    /\ faults \in [Jobs -> Nat]
    /\ store \in [Jobs -> Terminal \cup {Pending, NoPayload}]

\* A busy worker has a job, and an attempt that gets past the try statement a
\* report.
RunConsistent(r) ==
    /\ r.pc # "idle" => r.job \in Jobs
    /\ r.pc = "decide" \/ (r.pc = "finally" /\ ~ r.handler) => r.report \in Reports

RunType ==
    /\ run \in [Workers -> RunRecord]
    /\ \A w \in Workers : RunConsistent(run[w])

FileType == files \subseteq Jobs \X Nat /\ uncleaned \subseteq Jobs \X Nat

HookType == hooks \subseteq HookRecord

\* The type invariant.
TypeOK == JobType /\ RunType /\ FileType /\ HookType

-----------------------------------------------------------------------------
(* Safety.                                                                 *)

Busy(w) == run[w].pc # "idle"

\* A job whose message is acknowledged has been reported: its last attempt
\* enqueued the webhook the caller asked for (_finalize, tasks.py:138-149),
\* whatever was raised, retried or redelivered before.
AckedIsReported ==
    \A j \in Jobs : scans[j].st = "acked" /\ args[j].webhook =>
        \E m \in hooks : m.job = j /\ m.n = attempts[j]

\* The retry budget of the task body and the one of the queue agree
\* (tasks.py:31-45 and 274-280): a scan is dead-lettered without a report only
\* when its last attempt was interrupted or could not enqueue the webhook, never
\* because of a failing backend or an unexpected exception.
OnlyFaultsDeadLetter ==
    \A j \in Jobs : scans[j].st = "dead" => scans[j].cause \in {"send", "interrupt"}

\* "all scanners failed" is told to the caller only once the retry budget is
\* spent (tasks.py:422-433): no body that carries a report and status "error"
\* exists for a job with retries left.
UnavailableOnlyWhenExhausted ==
    \A m \in hooks : m.body.status = "error" /\ DOMAIN m.body.axes # {} =>
        scans[m.job].retries >= MAX_RETRIES

FoundMalware(rs) ==
    \E i \in DOMAIN rs : rs[i].category = "malware" /\ rs[i].kind = "malware" /\ ~ rs[i].scored

\* A detection is never answered with "unavailable", nor retried away
\* (tasks.py:422-426): the attempt that saw one ends without asking for a retry,
\* and the body it sends makes the caller block, even when every deciding scanner
\* failed and only an advisory one detected something.
DetectionIsReported ==
    \A w \in Workers : Busy(w) /\ FoundMalware(run[w].report) =>
        /\ run[w].raised # "scanners"
        /\ \A m \in hooks : m.job = run[w].job /\ m.n = run[w].n => Caller(m.body) = "block"

\* The poll and the webhook tell the same story: without faults, whatever the
\* version a job was submitted under and the version it is polled in, a poll
\* that finds a terminal record leads the caller to the decision of the webhook,
\* and the body is in the version of the submission (tasks.py:138-149).
ChannelsAgree ==
    \A m \in hooks : faults[m.job] = 0 =>
        /\ m.body.api_version = args[m.job].version
        /\ \A v \in Versions :
              LET polled == job_status(m.job, Owner[m.job], v)
              IN  polled.status \in {"done", "error"} => Caller(polled) = Caller(m.body)

\* The attempt of worker w may have its temporary file on the volume.
HoldsFile(w) ==
    \/ run[w].pc \in {"write", "scan", "finally"}
    \/ run[w].pc \in {"record", "send"} /\ run[w].handler

\* The scan volume holds the files of the attempts still working on them, and
\* what workers that died, or were interrupted in the finally clause itself, left
\* behind: no exception, limit, retry or interruption elsewhere leaks a file
\* (tasks.py:418-420), and after a successful scan the file is
\* gone before the result is decided and sent.
NoFileLeaks ==
    files \subseteq uncleaned \cup
        {<<run[w].job, run[w].n>> : w \in {v \in Workers : HoldsFile(v)}}

\* A webhook is posted once per retry it has used and once more, plus the
\* redeliveries after a crash, and it is given up only after more than
\* WEBHOOK_MAX_ATTEMPTS POSTs (tasks.py:55, 107-111).  The setting is handed to the
\* queue as a number of retries, so a delivery has one POST more than its name says:
\* see GivesUpAfterMaxAttempts.
DeliveryBudget ==
    \A m \in hooks :
        /\ m.tries <= m.retries + 1 + faults[m.job]
        /\ m.st = "dead" => m.tries > WEBHOOK_MAX_ATTEMPTS

-----------------------------------------------------------------------------
(* What a comment or a document says and the code does not do.             *)

\* "Seed a pending record ... (the worker overwrites it with the terminal
\* result)" (app.py:393-394): a terminal record is never replaced by the seed.
TerminalRecordStays ==
    [][\A j \in Jobs : store[j].status \in {"done", "error"}
                        => store'[j].status # "pending"]_vars

\* "attempts before giving up" (config.py:191, docs/deployment.md:135): without a
\* fault, a webhook is posted at most WEBHOOK_MAX_ATTEMPTS times.
GivesUpAfterMaxAttempts ==
    \A m \in hooks : faults[m.job] = 0 => m.tries <= WEBHOOK_MAX_ATTEMPTS

\* "A 3xx is a failed delivery (the receiver must accept with a 2xx)" (tasks.py:89-90):
\* without a fault, a delivery ended by the answer to a POST (one more than its
\* retries; a host the SSRF guard refuses gets none) has been accepted.
DoneIsAccepted ==
    \A m \in hooks : m.st = "done" /\ faults[m.job] = 0 /\ m.tries > m.retries
        => m.accepted > 0

-----------------------------------------------------------------------------
(* Liveness.                                                               *)

Settled(j) ==
    /\ scans[j].st \in {"acked", "dead"}
    /\ \A m \in hooks : m.job = j => m.st # "queued"

\* Every queued job comes to an end, the caller that queued it answered or not: through
\* retries, crashes and redeliveries its scan is acknowledged or dead-lettered, and its
\* webhooks are delivered or dead-lettered, for good (tasks.py:48-58, 274-280;
\* app.py:382-404).
EveryJobSettles == <>[](\A j \in Jobs : scans[j].st = "none" \/ Settled(j))
=============================================================================
