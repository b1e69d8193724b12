---------------------------- MODULE TimingProofs ----------------------------
(***************************************************************************)
(* Theorems about the parts that live by a clock: the health probe of the  *)
(* workers (Health) and the JCOP backend (Jcop), for any periods,          *)
(* thresholds and timeouts.                                                *)
(***************************************************************************)
EXTENDS Health, Jcop, TLAPS

-----------------------------------------------------------------------------
(* The worker health probe. The invariant says what a probe under way has  *)
(* seen: a ping that nobody has fetched waits for a dead container, one    *)
(* that waits in a process has not been passed over by a free thread of    *)
(* it, and the failures in a row and the time the container has been dead  *)
(* keep step.                                                              *)

PingStates == {"none", "queued", "held", "answered", "lost"}

\* The type invariant.
ProberType ==
    /\ alive \in [Forks -> BOOLEAN]
    /\ busy \in [Forks -> [Threads -> Nat]]
    /\ ping \in PingStates /\ missed \in PingStates /\ holder \in Forks
    /\ phase \in 0..PERIOD /\ fails \in Nat /\ deadFor \in Nat
    /\ free \in BOOLEAN /\ killed \in BOOLEAN

\* A probe is over once it has waited, and one that is under way has not failed.
ProbeInv ==
    /\ ping # "none" => phase <= LIMIT /\ missed = "none"
    /\ ping \in {"queued", "held"} => phase <= WAIT
    /\ ~ killed => fails < THRESHOLD

\* Time passes a ping nobody has fetched only when nobody is left to fetch it; one
\* that was fetched is in a process of the container.
FetchInv ==
    /\ ping = "queued" => phase = 0 \/ ~ Live(Probed)
    /\ ping = "held" => Container(holder) = Probed

\* A thread that was free while the ping waited in its process is free still, and
\* the clock has not moved since.
FreeInv == ping = "held" /\ free /\ alive[holder] => FreeThread(holder) /\ phase < WAIT

\* The failures in a row keep up with the time a container has been dead.
DeadInv ==
    IF Live(Probed) THEN deadFor = 0
    ELSE /\ ping = "none" => deadFor <= phase + PERIOD * fails
         /\ ping \in {"queued", "held", "lost"} => deadFor <= phase + PERIOD * (fails + 1)
         /\ ping = "answered" => deadFor <= phase

ProberInv == ProberType /\ ProbeInv /\ FetchInv /\ FreeInv /\ DeadInv /\ FailureMeansBusy

-----------------------------------------------------------------------------

\* Products grow with their factors.
LEMMA Product ==
    ASSUME NEW a \in Nat, NEW b \in Nat, a <= b, NEW p \in Nat
    PROVE  /\ p * a \in Nat /\ p * b \in Nat /\ p * a <= p * b
           /\ p * (a + 1) = p * a + p
<1>1. p * a \in Nat /\ p * b \in Nat
  OBVIOUS
<1>2. p * (b - a) \in Nat /\ p * b = p * a + p * (b - a)
  OBVIOUS
<1>3. p * (a + 1) = p * a + p
  OBVIOUS
<1> QED
  BY <1>1, <1>2, <1>3

\* The products that DeadInv speaks of.
LEMMA Windows ==
    ASSUME ProberType
    PROVE  /\ PERIOD * fails \in Nat /\ PERIOD * (fails + 1) \in Nat
           /\ PERIOD * (fails + 1) = PERIOD * fails + PERIOD
           /\ phase \in Nat /\ deadFor \in Nat /\ PERIOD * 0 = 0
  BY Product, ProbeAssumption DEF ProberType

\* Only the container under probe fetches its ping.
LEMMA OwnPing ==
    ASSUME NEW w \in Forks
    PROVE  CanFetch(w) <=> ping = "queued" /\ alive[w] /\ Container(w) = Probed
  BY DEF CanFetch, PingQueue

\* The invariant holds when the container starts.
LEMMA ProberInit == Init => ProberInv
<1> SUFFICES ASSUME Init PROVE ProberInv
  OBVIOUS
<1>1. ProberType
  <2>1. free \in BOOLEAN /\ killed \in BOOLEAN
    BY DEF Init
  <2>2. [t \in Threads |-> 0] \in [Threads -> Nat]
    OBVIOUS
  <2>3. busy \in [Forks -> [Threads -> Nat]] /\ alive \in [Forks -> BOOLEAN]
    BY <2>2 DEF Init
  <2>4. phase \in 0..PERIOD /\ fails \in Nat /\ deadFor \in Nat
    BY ProbeAssumption DEF Init
  <2> QED
    BY <2>1, <2>3, <2>4 DEF Init, ProberType, PingStates
<1>2. ProbeInv /\ FetchInv /\ FreeInv /\ FailureMeansBusy
  BY ProbeAssumption DEF Init, ProbeInv, FetchInv, FreeInv, FailureMeansBusy
<1>3. DeadInv
  BY <1>1, Windows DEF Init, DeadInv
<1> QED
  BY <1>1, <1>2, <1>3 DEF ProberInv

\* Scans take no thread from a ping that waits.
LEMMA ScansInv ==
    ASSUME ProberInv, NEW w \in Forks, NEW t \in Threads,
           StartScan(w, t) \/ FinishScan(w, t)
    PROVE  ProberInv'
<1> USE DEF ProberInv
<1>1. /\ UNCHANGED <<alive, ping, holder, phase, fails, killed, deadFor, missed>>
      /\ busy' = [busy EXCEPT ![w][t] = 0] \/ busy' = [busy EXCEPT ![w][t] = 1]
      /\ free' \in BOOLEAN
  BY DEF StartScan, FinishScan, ProberType
<1>2. ProberType'
  <2>1. busy[w] \in [Threads -> Nat]
    BY DEF ProberType
  <2>2. \A k \in Nat : [busy[w] EXCEPT ![t] = k] \in [Threads -> Nat]
    BY <2>1
  <2>3. busy' \in [Forks -> [Threads -> Nat]]
    BY <1>1, <2>2 DEF ProberType
  <2> QED
    BY <1>1, <2>3 DEF ProberType
<1>3. ProbeInv' /\ FetchInv' /\ DeadInv'
  BY <1>1 DEF ProbeInv, FetchInv, DeadInv, Live
<1>4. CASE StartScan(w, t)
  <2>1. free' = free /\ ~ Holds(w)
    BY <1>4 DEF StartScan, PingFirst
  <2>2. ping = "held" => busy'[holder] = busy[holder]
    BY <1>1, <2>1 DEF Holds, ProberType
  <2>3. FreeInv'
    BY <1>1, <2>1, <2>2 DEF FreeInv, FreeThread
  <2> QED
    BY <1>1, <1>2, <1>3, <2>1, <2>3 DEF FailureMeansBusy, Live
<1>5. CASE FinishScan(w, t)
  <2>1. /\ \A v \in Forks, u \in Threads : busy[v][u] = 0 => busy'[v][u] = 0
        /\ busy'[w][t] = 0
        /\ free' = (free \/ (Holds(w) /\ phase < WAIT))
    BY <1>5 DEF FinishScan, ProberType
  <2>2. \A v \in Forks : FreeThread(v) => FreeThread(v)'
    BY <1>1, <2>1 DEF FreeThread
  <2>3. FreeInv'
    <3>1. CASE free
      BY <1>1, <2>2, <3>1 DEF FreeInv, ProberType
    <3>2. CASE Holds(w) /\ phase < WAIT
      BY <1>1, <2>1, <3>2 DEF FreeInv, FreeThread, Holds
    <3> QED
      BY <2>1, <3>1, <3>2 DEF FreeInv
  <2>4. FailureMeansBusy'
    BY <1>1, <2>1 DEF FailureMeansBusy, Holds, ProbeInv, Live
  <2> QED
    BY <1>2, <1>3, <2>3, <2>4
<1> QED
  BY <1>4, <1>5

\* A process of the container that fetches its ping runs, and one that answers it too.
LEMMA FetchedInv ==
    ASSUME ProberInv, NEW w \in Forks, Fetch(w) \/ Answer(w)
    PROVE  ProberInv'
<1> USE DEF ProberInv
<1>1. /\ UNCHANGED <<alive, busy, phase, fails, killed, deadFor, missed>>
      /\ alive[w] /\ Container(w) = Probed /\ holder' = w
      /\ ping \in {"queued", "held"} /\ missed = "none"
      /\ ping' \in {"held", "answered"}
  BY OwnPing DEF Fetch, Answer, Holds, FreeThread, FetchInv, ProbeInv
<1>2. Live(Probed) /\ Live(Probed)'
  BY <1>1 DEF Live
<1>3. ProberType'
  <2>1. free' \in BOOLEAN
    BY DEF Fetch, Answer, FreeThread, ProberType
  <2> QED
    BY <1>1, <2>1 DEF ProberType, PingStates
<1>4. ProbeInv' /\ FetchInv' /\ FailureMeansBusy'
  BY <1>1, ProbeAssumption DEF ProbeInv, FetchInv, FailureMeansBusy
<1>5. DeadInv'
  BY <1>1, <1>2 DEF DeadInv
<1>6. FreeInv'
  <2>1. CASE Fetch(w)
    <3>1. phase = 0 /\ free' = FreeThread(w)
      BY <1>2, <2>1 DEF Fetch, CanFetch, FetchInv
    <3>2. FreeThread(w) => FreeThread(w)'
      BY <1>1 DEF FreeThread
    <3> QED
      BY <1>1, <3>1, <3>2, ProbeAssumption DEF FreeInv
  <2>2. CASE Answer(w)
    BY <2>2 DEF Answer, FreeInv
  <2> QED
    BY <2>1, <2>2
<1> QED
  BY <1>3, <1>4, <1>5, <1>6

\* Whatever the broker loses, the prober counts.
LEMMA BrokerInv ==
    ASSUME ProberInv, BrokerFails
    PROVE  ProberInv'
<1> USE DEF ProberInv
<1>1. /\ UNCHANGED <<alive, busy, holder, phase, fails, killed, deadFor, free, missed>>
      /\ ping \in {"queued", "held", "answered"} /\ ping' = "lost"
  BY DEF BrokerFails
<1>2. ProberType' /\ ProbeInv' /\ FetchInv' /\ FreeInv' /\ FailureMeansBusy'
  BY <1>1 DEF ProberType, PingStates, ProbeInv, FetchInv, FreeInv, FailureMeansBusy, Live
<1>3. DeadInv'
  BY <1>1, Windows DEF DeadInv, Live
<1> QED
  BY <1>2, <1>3

\* A container that dies has been dead for no time.
LEMMA DieInv ==
    ASSUME ProberInv, NEW w \in Forks, Die(w)
    PROVE  ProberInv'
<1> USE DEF ProberInv
<1>1. /\ UNCHANGED <<ping, holder, phase, fails, killed, deadFor, free, missed>>
      /\ alive' = [alive EXCEPT ![w] = FALSE]
      /\ busy' = [busy EXCEPT ![w] = [t \in Threads |-> 0]]
  BY DEF Die
<1>2. ProberType'
  <2>1. [t \in Threads |-> 0] \in [Threads -> Nat]
    OBVIOUS
  <2> QED
    BY <1>1, <2>1 DEF ProberType
<1>3. \A v \in Forks : alive'[v] => alive[v] /\ v # w /\ busy'[v] = busy[v]
  BY <1>1 DEF ProberType
<1>4. Live(Probed)' => Live(Probed)
  BY <1>3 DEF Live
<1>5. ProbeInv' /\ FetchInv' /\ FailureMeansBusy'
  BY <1>1, <1>3, <1>4 DEF ProbeInv, FetchInv, FailureMeansBusy, ProberType
<1>6. FreeInv'
  BY <1>1, <1>3 DEF FreeInv, FreeThread, ProberType
<1>7. DeadInv'
  <2>1. CASE Live(Probed) /\ ~ Live(Probed)'
    <3>1. deadFor = 0
      BY <2>1 DEF DeadInv
    <3> QED
      BY <1>1, <2>1, <3>1, Windows DEF DeadInv
  <2>2. CASE Live(Probed)' <=> Live(Probed)
    BY <1>1, <2>2 DEF DeadInv
  <2> QED
    BY <1>4, <2>1, <2>2
<1> QED
  BY <1>2, <1>5, <1>6, <1>7

\* A probe starts a period after the one before it, which is over.
LEMMA ProbeStartInv ==
    ASSUME ProberInv, Probe
    PROVE  ProberInv'
<1> USE DEF ProberInv
<1>1. /\ UNCHANGED <<alive, busy, holder, fails, killed, deadFor>>
      /\ phase = PERIOD /\ ping' = "queued" /\ phase' = 0 /\ free' = FALSE /\ missed' = "none"
  BY DEF Probe
<1>2. ping = "none"
  BY <1>1, ProbeAssumption DEF ProbeInv
<1>3. ProberType'
  <2>1. free' \in BOOLEAN /\ killed' \in BOOLEAN
    BY <1>1 DEF ProberType
  <2>2. phase' \in 0..PERIOD
    BY <1>1, ProbeAssumption
  <2> QED
    BY <1>1, <2>1, <2>2 DEF ProberType, PingStates
<1>4. ProbeInv' /\ FetchInv' /\ FreeInv' /\ FailureMeansBusy'
  BY <1>1, ProbeAssumption DEF ProbeInv, FetchInv, FreeInv, FailureMeansBusy
<1>5. DeadInv'
  BY <1>1, <1>2, Windows, ProbeAssumption DEF DeadInv, Live
<1> QED
  BY <1>3, <1>4, <1>5

\* A probe ends with its answer, or is counted.
LEMMA ProbeEndInv ==
    ASSUME ProberInv, ProbeOk \/ ProbeFails
    PROVE  ProberInv'
<1> USE DEF ProberInv
<1>1. UNCHANGED <<alive, busy, holder, phase, free, deadFor>> /\ ping' = "none"
  BY DEF ProbeOk, ProbeFails
<1>2. Live(Probed)' <=> Live(Probed)
  BY <1>1 DEF Live
<1>3. CASE ProbeOk
  <2>1. ping = "answered" /\ fails' = 0 /\ UNCHANGED <<killed, missed>>
    BY <1>3 DEF ProbeOk
  <2>2. ProberType' /\ ProbeInv' /\ FetchInv' /\ FreeInv'
    BY <1>1, <2>1, ProbeAssumption DEF ProberType, PingStates, ProbeInv, FetchInv, FreeInv
  <2>3. DeadInv'
    BY <1>1, <1>2, <2>1, Windows DEF DeadInv
  <2> QED
    BY <1>1, <1>2, <2>1, <2>2, <2>3 DEF FailureMeansBusy
<1>4. CASE ProbeFails
  <2>1. /\ fails' = fails + 1 /\ missed' = ping /\ ping \in {"queued", "held", "lost"}
        /\ killed' = (fails + 1 >= THRESHOLD)
        /\ ping \in {"queued", "held"} => phase = WAIT
    BY <1>4 DEF ProbeFails
  <2>2. ProberType'
    BY <1>1, <2>1 DEF ProberType, PingStates
  <2>3. ~ killed' => fails' < THRESHOLD
    <3>1. fails \in Nat
      BY DEF ProberType
    <3>2. ~ (fails + 1 >= THRESHOLD) => fails + 1 < THRESHOLD
      BY <3>1, ProbeAssumption
    <3> QED
      BY <2>1, <3>2
  <2>6. ProbeInv' /\ FetchInv' /\ FreeInv'
    BY <1>1, <2>3 DEF ProbeInv, FetchInv, FreeInv
  <2>4. FailureMeansBusy'
    BY <1>1, <1>2, <2>1, ProbeAssumption DEF FetchInv, FreeInv, FailureMeansBusy
  <2>5. DeadInv'
    BY <1>1, <1>2, <2>1, Windows DEF DeadInv
  <2> QED
    BY <2>2, <2>4, <2>5, <2>6
<1> QED
  BY <1>3, <1>4

\* Time does not pass a free thread and a ping that waits for it.
LEMMA TickInv ==
    ASSUME ProberInv, Tick
    PROVE  ProberInv'
<1> USE DEF ProberInv
<1>1. /\ UNCHANGED <<alive, ping, holder, fails, killed, free, missed>>
      /\ phase < PERIOD /\ phase' = phase + 1
      /\ ping # "answered" /\ ~ (ping \in {"queued", "held"} /\ phase = WAIT)
      /\ ~ (ping = "lost" /\ phase = LIMIT)
      /\ deadFor' = IF Live(Probed) THEN 0 ELSE deadFor + 1
  BY DEF Tick
<1>2. \A w \in Forks : ~ CanFetch(w) /\ ~ (Holds(w) /\ FreeThread(w))
  BY DEF Tick
<1>3. busy' \in [Forks -> [Threads -> Nat]]
  BY DEF Tick, ProberType
<1>4. ProberType'
  <2>1. phase' \in 0..PERIOD /\ deadFor' \in Nat
    BY <1>1, ProbeAssumption DEF ProberType
  <2> QED
    BY <1>1, <1>3, <2>1 DEF ProberType
<1>5. ProbeInv'
  BY <1>1, ProbeAssumption DEF ProbeInv, ProberType, PingStates
<1>6. Live(Probed)' <=> Live(Probed)
  BY <1>1 DEF Live
<1>7. FetchInv' /\ FailureMeansBusy'
  <2>1. ping = "queued" => ~ Live(Probed)
    BY <1>2, OwnPing DEF Live
  <2> QED
    BY <1>1, <1>6, <2>1 DEF FetchInv, FailureMeansBusy
<1>8. FreeInv'
  <2>1. ping = "held" => ~ FreeThread(holder)
    BY <1>2 DEF Holds, ProberType
  <2> QED
    BY <1>1, <2>1 DEF FreeInv
<1>9. DeadInv'
  BY <1>1, <1>6, Windows DEF DeadInv
<1> QED
  BY <1>4, <1>5, <1>7, <1>8, <1>9

\* Every step keeps the invariant.
LEMMA ProberNext == ProberInv /\ [Next]_vars => ProberInv'
<1> SUFFICES ASSUME ProberInv, [Next]_vars PROVE ProberInv'
  OBVIOUS
<1>1. CASE UNCHANGED vars
  BY <1>1 DEF vars, ProberInv, ProberType, ProbeInv, FetchInv, FreeInv, DeadInv,
     FailureMeansBusy, FreeThread, Live
<1> QED
  BY <1>1, ScansInv, FetchedInv, BrokerInv, DieInv, ProbeStartInv, ProbeEndInv, TickInv DEF Next

\* The invariant is an invariant.
LEMMA ProberInvariant == Spec => []ProberInv
  BY ProberInit, ProberNext, PTL DEF Spec

\* For any number of containers, processes and threads, any timing of the probes and
\* any scans: unless the broker or the result backend failed, a probe fails only when no
\* process was left to fetch its ping, or the one that fetched it died or had no free
\* thread while the ping waited (health.py:22-32, 57-59, worker.py:41-44).
THEOREM BusyFailure == Spec => []FailureMeansBusy
<1>1. ProberInv => FailureMeansBusy
  BY DEF ProberInv
<1> QED
  BY <1>1, ProberInvariant, PTL

\* A container whose processes are all dead is restarted within the window and the time
\* of the last probe, for every period and threshold and whatever the other containers
\* and the broker do.
THEOREM Restart == Spec => []DeadIsRestarted
<1>1. ProberInv => DeadIsRestarted
  <2> SUFFICES ASSUME ProberInv, ~ killed PROVE deadFor <= PERIOD * THRESHOLD + LIMIT
    BY DEF DeadIsRestarted
  <2> USE DEF ProberInv
  <2>1. /\ fails \in Nat /\ fails + 1 \in Nat /\ fails + 1 <= THRESHOLD /\ THRESHOLD \in Nat
        /\ phase \in Nat /\ phase <= PERIOD /\ PERIOD \in Nat /\ LIMIT \in Nat
    BY ProbeAssumption DEF ProberType, ProbeInv
  <2>2. /\ PERIOD * (fails + 1) <= PERIOD * THRESHOLD /\ PERIOD * THRESHOLD \in Nat
    BY <2>1, Product
  <2>3. CASE Live(Probed)
    BY <2>1, <2>2, <2>3 DEF DeadInv
  <2>4. CASE ~ Live(Probed) /\ ping = "none"
    BY <2>1, <2>2, <2>4, Windows DEF DeadInv
  <2>5. CASE ~ Live(Probed) /\ ping # "none"
    <3>1. phase <= LIMIT
      BY <2>5 DEF ProbeInv
    <3>2. deadFor <= phase + PERIOD * (fails + 1)
      BY <2>5, Windows DEF DeadInv, ProberType, PingStates
    <3> QED
      BY <2>1, <2>2, <3>1, <3>2, Windows
  <2> QED
    BY <2>3, <2>4, <2>5
<1> QED
  BY <1>1, ProberInvariant, PTL

-----------------------------------------------------------------------------
(* JCOP. BudgetShared and FinishedAnalysisDecides are about what a scan    *)
(* did, so the invariant adds what they rest on: the deadline never moves, *)
(* the scan starts with the lookup, and what JCOP serves as finished is    *)
(* the outcome of an analysis that finished.                               *)

BudgetInv ==
    /\ TypeOK
    /\ deadline = SUBMIT_TIMEOUT
    /\ pc = "lookup" => now = 0
    /\ service = "finished" => content \in published
    /\ BudgetShared
    /\ FinishedAnalysisDecides

\* A verdict is one of three kinds, and says what the analysis says.
LEMMA AnalysisKind ==
    ASSUME NEW c \in JcopContents
    PROVE  /\ jcop_verdict(c) \in {"clean", "malware", "partial"}
           /\ jcop_verdict(c) = "clean" => c.is_malware = "false"
           /\ jcop_verdict(c) = "malware" => c.is_malware = "true"
           /\ jcop_verdict(c) = "partial" => c.is_malware = "none"
  BY DEF jcop_verdict, JcopContents

\* The invariant holds when the scan starts.
LEMMA BudgetInit == JcopInit => BudgetInv
  BY JcopAssumption DEF JcopInit, BudgetInv, TypeOK, BudgetShared, FinishedAnalysisDecides

\* What a request may do to the service, and when it may start.
RequestOk ==
    /\ UNCHANGED <<deadline, published>>
    /\ \/ UNCHANGED <<service, content>>
       \/ service' = "analysing" /\ content' \in JcopContents
    /\ now' \in Nat /\ started' \in Nat /\ started' < SUBMIT_TIMEOUT + POLL_INTERVAL

\* A request that ends in a verdict keeps the invariant.
LEMMA VerdictInv ==
    ASSUME BudgetInv, RequestOk, NEW kind, Verdict(kind),
           \/ kind = "error"
           \/ kind = jcop_verdict(content) /\ service = "finished"
    PROVE  BudgetInv'
<1> USE DEF BudgetInv, RequestOk
<1>1. TypeOK' /\ (pc' = "lookup" => now' = 0) /\ BudgetShared'
  <2>1. kind \in {"clean", "malware", "partial", "error"}
    BY AnalysisKind DEF TypeOK
  <2> QED
    BY <2>1 DEF TypeOK, Verdict, BudgetShared
<1>2. service' = "finished" => content' \in published'
  BY DEF TypeOK
<1>3. FinishedAnalysisDecides'
  <2>1. CASE kind = "error"
    BY <2>1 DEF Verdict, FinishedAnalysisDecides
  <2>2. CASE kind = jcop_verdict(content) /\ service = "finished"
    <3>1. outcome' = kind /\ content \in published' /\ content \in JcopContents
      BY <2>2 DEF Verdict, TypeOK
    <3> QED
      BY <2>2, <3>1, AnalysisKind DEF FinishedAnalysisDecides
  <2> QED
    BY <2>1, <2>2
<1> QED
  BY <1>1, <1>2, <1>3

\* A request after which the scan goes on keeps the invariant.
LEMMA GotoInv ==
    ASSUME BudgetInv, RequestOk, pc # "done", NEW p \in {"submit", "poll"}, Goto(p)
    PROVE  BudgetInv'
  BY DEF BudgetInv, RequestOk, TypeOK, Goto, BudgetShared, FinishedAnalysisDecides

\* Every step keeps the invariant.
LEMMA BudgetNext == BudgetInv /\ [JcopNext]_jcopVars => BudgetInv'
<1> SUFFICES ASSUME BudgetInv, [JcopNext]_jcopVars PROVE BudgetInv'
  OBVIOUS
<1>1. ASSUME NEW t \in RequestTime, NEW a \in Answers, Lookup(t, a) PROVE BudgetInv'
  <2>1. RequestOk /\ pc # "done"
    BY <1>1, JcopAssumption DEF BudgetInv, RequestOk, Lookup, RequestTime, TypeOK
  <2>2. a = "finished" => service = "finished"
    BY DEF Answers, BudgetInv, TypeOK
  <2>3. \/ Verdict(jcop_verdict(content)) /\ a = "finished"
        \/ Verdict("error") \/ \E p \in {"submit", "poll"} : Goto(p)
    BY <1>1 DEF Lookup
  <2> QED
    BY <2>1, <2>2, <2>3, VerdictInv, GotoInv
<1>2. ASSUME NEW t \in 0..(CONNECT_TIMEOUT + SUBMIT_TIMEOUT + MaxDrip), NEW a, Submit(t, a)
      PROVE  BudgetInv'
  <2>1. RequestOk /\ pc # "done"
    BY <1>2, JcopAssumption DEF BudgetInv, RequestOk, Submit, Learn, TypeOK
  <2>2. Verdict("error") \/ Goto("poll")
    BY <1>2 DEF Submit
  <2> QED
    BY <2>1, <2>2, VerdictInv, GotoInv
<1>3. ASSUME NEW t \in RequestTime, NEW a \in Answers, Poll(t, a) PROVE BudgetInv'
  <2>1. RequestOk /\ pc # "done"
    BY <1>3, JcopAssumption DEF BudgetInv, RequestOk, Poll, RequestTime, TypeOK
  <2>2. a = "finished" => service = "finished"
    BY DEF Answers, BudgetInv, TypeOK
  <2>3. \/ Verdict(jcop_verdict(content)) /\ a = "finished"
        \/ Verdict("error") \/ Goto("poll")
    BY <1>3 DEF Poll
  <2> QED
    BY <2>1, <2>2, <2>3, VerdictInv, GotoInv
<1>4. CASE SubmitTooLate \/ GiveUp
  <2>1. Verdict("error") /\ RequestOk
    BY <1>4 DEF SubmitTooLate, GiveUp, RequestOk, BudgetInv, BudgetShared, TypeOK
  <2> QED
    BY <2>1, VerdictInv
<1>5. CASE Service
  BY <1>5 DEF Service, Learn, BudgetInv, TypeOK, BudgetShared, FinishedAnalysisDecides
<1>6. CASE UNCHANGED jcopVars
  BY <1>6 DEF jcopVars, BudgetInv, TypeOK, BudgetShared, FinishedAnalysisDecides
<1> QED
  BY <1>1, <1>2, <1>3, <1>4, <1>5, <1>6 DEF JcopNext, Client

\* The invariant is an invariant.
LEMMA BudgetInvariant == JcopSpec => []BudgetInv
  BY BudgetInit, BudgetNext, PTL DEF JcopSpec

\* For any timeouts, uploads of any length and any behaviour of JCOP, no request of a
\* scan starts later than one pause past its budget (jcop.py:123-125, 141-143).
THEOREM Budget == JcopSpec => []BudgetShared
<1>1. BudgetInv => BudgetShared
  BY DEF BudgetInv
<1> QED
  BY <1>1, BudgetInvariant, PTL

\* Through any lookups, submissions, polls and analyses, the file is clean, malware or
\* partial only on the word of an analysis that JCOP has finished (jcop.py:128-131,
\* 144-147, 155-167).
THEOREM JcopsWord == JcopSpec => []FinishedAnalysisDecides
<1>1. BudgetInv => FinishedAnalysisDecides
  BY DEF BudgetInv
<1> QED
  BY <1>1, BudgetInvariant, PTL

=============================================================================
