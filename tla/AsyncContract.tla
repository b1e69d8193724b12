---------------------------- MODULE AsyncContract ---------------------------
(***************************************************************************)
(* AsyncScan implements JobContract.                                       *)
(***************************************************************************)
EXTENDS AsyncScan

Phase(j) ==
    CASE web[j] = "idle" -> "none"
      [] web[j] \in {"refused", "failed"} -> "refused"
      [] scans[j].st \in {"queued", "running"} -> "open"
      [] scans[j].st = "acked" -> "closed"
      [] OTHER -> "abandoned"

\* The notices of job j in the webhooks queue, delivered or not ...
Told(j) == Cardinality({m \in hooks : m.job = j})

\* ... and whether the receiver took one of them.
Heard(j) == \E m \in hooks : m.job = j /\ m.accepted > 0

Contract == INSTANCE JobContract WITH
    phase   <- [j \in Jobs |-> Phase(j)],
    webhook <- [j \in Jobs |-> args[j].webhook],
    told    <- [j \in Jobs |-> Told(j)],
    heard   <- [j \in Jobs |-> Heard(j)],
    faults  <- faults

\* The whole pipeline (scan_async, scan_task and deliver_webhook over the retrying
\* queue) is an implementation of the contract with the caller: every step of
\* every process, fault or not, is a step of the contract or invisible to it.  So
\* a job is closed only with its notice handed over, is notified a second time
\* only after a fault, is abandoned only after one, and is never reopened
\* (app.py:361-410, tasks.py:138-149, 274-436).
ImplementsContract == Contract!Spec
=============================================================================
