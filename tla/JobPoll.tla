------------------------------ MODULE JobPoll -------------------------------
(***************************************************************************)
(* One poll-only job seen through the result store (results.py, and        *)
(* job_status in app.py), with a clock: records expire WORKER_RESULT_TTL   *)
(* after they were written, a write or a read that fails is swallowed, the *)
(* worker races the web process that seeds the pending record, and a       *)
(* redelivered task records its result again.  AsyncScan has the task      *)
(* itself; here it only waits, records and is acknowledged.                *)
(***************************************************************************)
EXTENDS Naturals

CONSTANTS
    WORKER_RESULT_TTL,
    Owner,              \* the caller that submitted the job
    MaxTime,            \* bound on the clock
    MaxRedeliveries     \* bound on the redeliveries of the task

ASSUME TtlAssumption == WORKER_RESULT_TTL \in Nat \ {0}

VARIABLES
    now,
    web,            \* idle, sent, accepted (the 202 is out)
    task,           \* none, queued, recorded, acked
    redelivered,    \* redeliveries so far
    rec,            \* the stored record: [status, owner, expires]
    writes,         \* the writes that worked: [status, at]
    swallowed,      \* statuses of which a write was swallowed
    last,           \* what the owner's last poll answered
    sawResult       \* a poll of the owner has answered "done"

pollVars == <<now, web, task, redelivered, rec, writes, swallowed, last, sawResult>>

PollInit ==
    /\ now = 0 /\ web = "idle" /\ task = "none" /\ redelivered = 0
    /\ rec = [status |-> "none", owner |-> "none", expires |-> 0]
    /\ writes = {} /\ swallowed = {} /\ last = "none" /\ sawResult = FALSE

Tick ==
    /\ now < MaxTime /\ now' = now + 1
    /\ UNCHANGED <<web, task, redelivered, rec, writes, swallowed, last, sawResult>>

\* A plausible slip: the time to live is handed over in the wrong unit.
MutTtlUnit == 0

\* The time to live of a record (milliseconds for the backend).
Ttl == WORKER_RESULT_TTL

\* A plausible slip: an existing record is left alone.
MutStoreOnce(status) ==
    /\ rec' = IF rec.status = "none" THEN [status |-> status, owner |-> Owner, expires |-> now + Ttl]
              ELSE rec
    /\ writes' = writes \cup {[status |-> status, at |-> now]}
    /\ UNCHANGED swallowed

\* store_result overwrites, and starts the time to live anew.
Store(status) ==
    /\ rec' = [status |-> status, owner |-> Owner, expires |-> now + Ttl]
    /\ writes' = writes \cup {[status |-> status, at |-> now]}
    /\ UNCHANGED swallowed

\* record: the write works, or its failure is swallowed.
record(status) ==
    \/ Store(status)
    \/ swallowed' = swallowed \cup {status} /\ UNCHANGED <<rec, writes>>

\* scan_async: the task is sent first ...
SendTask ==
    /\ web = "idle" /\ web' = "sent" /\ task' = "queued"
    /\ UNCHANGED <<now, redelivered, rec, writes, swallowed, last, sawResult>>

\* A plausible slip: the answer goes out before the seed, which still follows.
MutSeedAfterAnswer ==
    \/ /\ web = "sent" /\ web' = "accepted"
       /\ UNCHANGED <<now, task, redelivered, rec, writes, swallowed, last, sawResult>>
    \/ /\ web = "accepted" /\ record("pending")
       /\ UNCHANGED <<now, web, task, redelivered, last, sawResult>>

\* ... then the pending record is seeded, and only then is the job id returned.
Seed ==
    /\ web = "sent" /\ web' = "accepted"
    /\ record("pending")
    /\ UNCHANGED <<now, task, redelivered, last, sawResult>>

\* _finalize: the worker records the result.
Finalize ==
    /\ task = "queued" /\ task' = "recorded"
    /\ record("done")
    /\ UNCHANGED <<now, web, redelivered, last, sawResult>>

Ack ==
    /\ task = "recorded" /\ task' = "acked"
    /\ UNCHANGED <<now, web, redelivered, rec, writes, swallowed, last, sawResult>>

\* The worker dies between the record and the acknowledgement (external).
Redeliver ==
    /\ task = "recorded" /\ redelivered < MaxRedeliveries
    /\ task' = "queued" /\ redelivered' = redelivered + 1
    /\ UNCHANGED <<now, web, rec, writes, swallowed, last, sawResult>>

\* fetch and job_status: the record, while it lives, for its owner only.
job_status(client) ==
    IF now < rec.expires /\ rec.owner = client THEN rec.status ELSE "404"

\* The owner, which has its job id from the 202, polls.
Poll ==
    /\ web = "accepted"
    /\ last' = job_status(Owner)
    /\ sawResult' = (sawResult \/ last' = "done")
    /\ UNCHANGED <<now, web, task, redelivered, rec, writes, swallowed>>

\* The store cannot be read: fetch answers None.
PollFails ==
    /\ web = "accepted" /\ last' = "404"
    /\ UNCHANGED <<now, web, task, redelivered, rec, writes, swallowed, sawResult>>

PollNext == Tick \/ SendTask \/ Seed \/ Finalize \/ Ack \/ Redeliver \/ Poll \/ PollFails

PollSpec == PollInit /\ [][PollNext]_pollVars

-----------------------------------------------------------------------------

\* An accepted job that cannot be found has a reason: no write has worked in the
\* last WORKER_RESULT_TTL seconds.  So the job is found for that long after its
\* acceptance and again after its result, unless a write of it was swallowed, and
\* a job that waits longer than that in the queue is lost from sight
\* (results.py:64-96).
NotFoundIsExplained ==
    web = "accepted" /\ job_status(Owner) = "404" =>
        \A w \in writes : now >= w.at + WORKER_RESULT_TTL

\* "pending" is only answered for a job that has ended when the write of its
\* result was swallowed, or was overtaken by the seed (results.py:72-79,
\* app.py:393-404).
PendingIsExplained ==
    job_status(Owner) = "pending" /\ task = "acked" =>
        \/ "done" \in swallowed
        \/ \A d \in {w \in writes : w.status = "done"} :
              \E p \in writes : p.status = "pending" /\ d.at <= p.at

\* A caller that has once been told its result is never told "pending" again:
\* the seed that may overwrite a result comes before the 202 that carries the job
\* id, and a redelivery records a result, never "pending" (app.py:379-410).
ResultStaysResult == sawResult => job_status(Owner) # "pending"

=============================================================================
