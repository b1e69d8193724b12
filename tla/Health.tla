------------------------------- MODULE Health -------------------------------
(***************************************************************************)
(* The liveness probe of a worker container (health.py, worker.py): the    *)
(* prober sends a ping on the queue of its own container and waits for the *)
(* answer of a worker thread; the kubelet (external) runs it every PERIOD  *)
(* and restarts the container after THRESHOLD failures in a row.  A        *)
(* container forks several worker processes.  Each of them prefetches, so  *)
(* the ping goes to one of them whether or not its threads are busy, and   *)
(* only a thread of that process can answer it.  Threads also run scans of *)
(* up to MaxScan, and a ping goes ahead of them when a thread of its       *)
(* process frees.  Time is discrete: what can happen at an instant happens *)
(* before the clock moves.                                                 *)
(***************************************************************************)
EXTENDS Naturals

CONSTANTS
    Containers,
    Probed,         \* the container under probe
    Processes,      \* WORKER_PROCESSES, in each container
    Threads,        \* WORKER_THREADS, in each process
    MaxScan,        \* longest time a scan holds a thread
    WAIT,           \* the prober's timeout
    LIMIT,          \* timeoutSeconds: the kubelet gives up on a prober that hangs
    PERIOD,         \* periodSeconds
    THRESHOLD       \* failureThreshold

\* A probe waits, is over before the next one is due, and Kubernetes counts at
\* least one failure.
ASSUME ProbeAssumption ==
    /\ WAIT \in Nat \ {0} /\ LIMIT \in Nat /\ PERIOD \in Nat
    /\ WAIT <= LIMIT /\ LIMIT < PERIOD
    /\ THRESHOLD \in Nat \ {0}
    /\ Probed \in Containers

VARIABLES
    alive,      \* alive[w]: worker process w runs
    busy,       \* busy[w][t]: 0 when the thread is free, else 1 + the time of its scan
    ping,       \* none, queued, held by a process, answered, or lost by the broker
    holder,     \* the process that fetched the last ping
    phase,      \* time since the last probe was sent
    fails,      \* failures in a row
    killed,     \* the kubelet restarts the container
    deadFor,    \* time the probed container has been dead
    free,       \* history: a thread of the holder was free while the ping waited
    missed,     \* history: what had become of the ping when the last probe failed
    strikes     \* history: the same, of all the failures in a row

vars == <<alive, busy, ping, holder, phase, fails, killed, deadFor, free, missed, strikes>>

\* A worker process, by its container.
Forks == Containers \X Processes

Container(w) == w[1]

Init ==
    /\ alive = [w \in Forks |-> TRUE]
    /\ busy = [w \in Forks |-> [t \in Threads |-> 0]]
    /\ ping = "none" /\ holder \in Forks
    /\ phase \in WAIT..PERIOD
    /\ fails = 0 /\ killed = FALSE /\ deadFor = 0
    /\ free = FALSE /\ missed = "none" /\ strikes = {}

\* Some worker process of container c runs.
Live(c) == \E w \in Forks : Container(w) = c /\ alive[w]

FreeThread(w) == alive[w] /\ \E t \in Threads : busy[w][t] = 0

\* A plausible slip: one ping queue for every container.
MutPingQueue(c) == "ping"

\* ping.<hostname>
PingQueue(c) == c

\* Process w can fetch the ping: it consumes the queue the ping is on.
CanFetch(w) == ping = "queued" /\ alive[w] /\ PingQueue(Container(w)) = PingQueue(Probed)

Holds(w) == ping = "held" /\ holder = w

\* A plausible slip: the ping has the priority of a scan.
MutPingFirst(w) == FALSE

\* A thread that frees takes the ping of its process before any scan.
PingFirst(w) == Holds(w)

StartScan(w, t) ==
    /\ ~ killed /\ alive[w] /\ busy[w][t] = 0 /\ ~ PingFirst(w)
    /\ busy' = [busy EXCEPT ![w][t] = 1]
    /\ UNCHANGED <<alive, ping, holder, phase, fails, killed, deadFor, free, missed, strikes>>

FinishScan(w, t) ==
    /\ ~ killed /\ alive[w] /\ busy[w][t] > 1
    /\ busy' = [busy EXCEPT ![w][t] = 0]
    /\ free' = (free \/ (Holds(w) /\ phase < WAIT))
    /\ UNCHANGED <<alive, ping, holder, phase, fails, killed, deadFor, missed, strikes>>

\* A consumer prefetches the ping for the threads of its process.
Fetch(w) ==
    /\ ~ killed /\ CanFetch(w)
    /\ ping' = "held" /\ holder' = w /\ free' = FreeThread(w)
    /\ UNCHANGED <<alive, busy, phase, fails, killed, deadFor, missed, strikes>>

\* A free thread of the process runs the ping actor.
Answer(w) ==
    /\ ~ killed /\ Holds(w) /\ FreeThread(w)
    /\ ping' = "answered"
    /\ UNCHANGED <<alive, busy, holder, phase, fails, killed, deadFor, free, missed, strikes>>

\* The broker or the result backend fails the prober or the worker: the ping cannot be
\* sent, fetched or answered, or its answer cannot be read.
BrokerFails ==
    /\ ~ killed /\ ping \in {"queued", "held", "answered"}
    /\ ping' = "lost"
    /\ UNCHANGED <<alive, busy, holder, phase, fails, killed, deadFor, free, missed, strikes>>

\* ping.send
Probe ==
    /\ ~ killed /\ phase = PERIOD
    /\ ping' = "queued" /\ phase' = 0 /\ free' = FALSE /\ missed' = "none"
    /\ UNCHANGED <<alive, busy, holder, fails, killed, deadFor, strikes>>

\* get_result returns "pong" ...
ProbeOk ==
    /\ ping = "answered"
    /\ ping' = "none" /\ fails' = 0 /\ strikes' = {}
    /\ UNCHANGED <<alive, busy, holder, phase, killed, deadFor, free, missed>>

\* ... or times out (the ping is then skipped for its age, or answered to nobody), or
\* raises, or hangs until the kubelet gives up on it.
ProbeFails ==
    /\ (ping \in {"queued", "held"} /\ phase = WAIT) \/ ping = "lost"
    /\ ping' = "none" /\ missed' = ping /\ strikes' = strikes \cup {ping}
    /\ fails' = fails + 1 /\ killed' = (fails + 1 >= THRESHOLD)
    /\ UNCHANGED <<alive, busy, holder, phase, deadFor, free>>

\* A worker process dies or hangs, with what it holds.
Die(w) ==
    /\ ~ killed /\ alive[w]
    /\ alive' = [alive EXCEPT ![w] = FALSE]
    /\ busy' = [busy EXCEPT ![w] = [t \in Threads |-> 0]]
    /\ UNCHANGED <<ping, holder, phase, fails, killed, deadFor, free, missed, strikes>>

\* Time passes once nothing is left to do at this instant.
Tick ==
    /\ ~ killed /\ phase < PERIOD
    /\ \A w \in Forks : ~ CanFetch(w) /\ ~ (Holds(w) /\ FreeThread(w))
    /\ ping # "answered" /\ ~ (ping \in {"queued", "held"} /\ phase = WAIT)
    /\ ~ (ping = "lost" /\ phase = LIMIT)
    /\ \A w \in Forks, t \in Threads : busy[w][t] <= MaxScan
    /\ phase' = phase + 1
    /\ busy' = [w \in Forks |-> [t \in Threads |->
                  IF busy[w][t] > 0 THEN busy[w][t] + 1 ELSE 0]]
    /\ deadFor' = IF Live(Probed) THEN 0 ELSE deadFor + 1
    /\ UNCHANGED <<alive, ping, holder, fails, killed, free, missed, strikes>>

Next ==
    \/ \E w \in Forks, t \in Threads : StartScan(w, t) \/ FinishScan(w, t)
    \/ \E w \in Forks : Fetch(w) \/ Answer(w) \/ Die(w)
    \/ BrokerFails \/ Probe \/ ProbeOk \/ ProbeFails \/ Tick

Spec == Init /\ [][Next]_vars

-----------------------------------------------------------------------------

\* What a failed probe means, when neither the broker nor the result backend failed
\* (health.py:22-32, 57): no process of the container was left to fetch the ping, or
\* the one that fetched it has died, or had no free thread for the whole of the wait.
\* One that frees meanwhile answers, ahead of the scans that wait for it; a thread
\* that is free in another process of the container is of no help.
FailureMeansBusy ==
    /\ missed = "queued" => ~ Live(Probed)
    /\ missed = "held" /\ alive[holder] => ~ free

\* A container whose worker processes are all dead is restarted, whatever the other
\* containers do: its pings are on a queue nobody else consumes (health.py:19,
\* worker.py:34, 51).  It takes the window and the time of the last probe: see
\* DeadWithinWindow.
DeadIsRestarted == ~ killed => deadFor <= PERIOD * THRESHOLD + LIMIT

-----------------------------------------------------------------------------
(* What a comment says and the code does not do.                           *)

\* "The window (period x threshold) covers that ...; a dead one is restarted within
\* it" (deploy/helm/file-scanner/values.yaml:145-147).
DeadWithinWindow == ~ killed => deadFor <= PERIOD * THRESHOLD

\* "... so a worker busy with long scans is not killed" (the same comment): with scans
\* shorter than the window, no container is killed whose processes all run and whose
\* pings were all fetched.
BusyIsNotKilled ==
    killed /\ MaxScan < PERIOD * THRESHOLD =>
        strikes # {"held"} \/ \E w \in Forks : Container(w) = Probed /\ ~ alive[w]

=============================================================================
