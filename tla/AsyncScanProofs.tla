-------------------------- MODULE AsyncScanProofs ---------------------------
(***************************************************************************)
(* Theorems about AsyncScan for any jobs, workers, retry budgets, reports  *)
(* and number of faults.  The argument is one inductive invariant, IInv:   *)
(* the type invariant; who holds the message of a job; what each point of  *)
(* scan_task knows about the exception it carries and the report it has    *)
(* enqueued; and the properties themselves.  Then follow the refinement of *)
(* JobContract, with CInv, and what the caller is told, with DInv.         *)
(***************************************************************************)
EXTENDS AsyncContract, Lemmas, FiniteSetTheorems

\* Who holds the message of a job, as the queue hands it out: it is running exactly
\* while one worker is busy with it.
ClaimInv ==
    /\ \A w \in Workers : Busy(w) => scans[run[w].job].st = "running"
    /\ \A j \in Jobs : scans[j].st = "running" =>
           \E w \in Workers : Busy(w) /\ run[w].job = j
    /\ \A v, w \in Workers : Busy(v) /\ Busy(w) /\ run[v].job = run[w].job => v = w

\* A request that has not been handled has put nothing in the queue.
WebInv == \A j \in Jobs : web[j] = "idle" => scans[j].st = "none"

\* The running attempt is the last one that was counted.
AttemptInv == \A w \in Workers : Busy(w) => run[w].n = attempts[run[w].job]

\* scan_task carries an exception only on its way out, and a raised failure of
\* the scan or an unexpected exception means that the message has retries left.
RaiseInv ==
    \A w \in Workers :
        /\ run[w].raised # "none" => run[w].pc \in {"finally", "exit"}
        /\ run[w].pc = "finally" /\ run[w].raised # "none" => run[w].handler
        /\ run[w].pc \in {"fetch", "open", "write", "scan", "decide"} => ~ run[w].handler
        /\ run[w].raised \in {"exception", "scanners"} =>
              scans[run[w].job].retries < MAX_RETRIES

\* An attempt that has been through _finalize without an exception has its
\* webhook message in the queue.
Finalized(w) ==
    /\ run[w].raised = "none"
    /\ run[w].pc = "exit" \/ (run[w].pc = "finally" /\ run[w].handler)

Reported(H, j, n) == \E m \in H : m.job = j /\ m.n = n

ReportInv ==
    \A w \in Workers : Finalized(w) /\ args[run[w].job].webhook =>
        Reported(hooks, run[w].job, run[w].n)

\* A report in which every deciding scanner failed reaches _finalize only when
\* the budget is spent.
Unavailable(p) == p.status = "error" /\ DOMAIN p.verdicts # {}

UnavailableInv ==
    \A w \in Workers : run[w].pc \in {"record", "send"} /\ Unavailable(run[w].payload) =>
        scans[run[w].job].retries >= MAX_RETRIES

\* A webhook message that is still queued has been posted once per retry, plus
\* once per crash of a delivery.
HookInv ==
    \A m \in hooks : m.st = "queued" =>
        m.retries <= m.tries /\ m.tries <= m.retries + faults[m.job]

IInv ==
    /\ TypeOK
    /\ ClaimInv
    /\ WebInv
    /\ AttemptInv
    /\ RaiseInv
    /\ ReportInv
    /\ UnavailableInv
    /\ HookInv
    /\ AckedIsReported
    /\ OnlyFaultsDeadLetter
    /\ UnavailableOnlyWhenExhausted
    /\ NoFileLeaks
    /\ DeliveryBudget

-----------------------------------------------------------------------------
(* Type correctness.                                                       *)

\* Init gives every variable its type.
LEMMA InitType == Init => TypeOK
<1> SUFFICES ASSUME Init PROVE TypeOK
  OBVIOUS
<1>1. RunType
  BY DEF Init, RunType, RunRecord, RunConsistent, Idle, PCs, Raisable
<1>2. JobType
  BY BudgetAssumption DEF Init, JobType, ScanRecord, Versions, Raisable
<1> QED
  BY <1>1, <1>2 DEF Init, TypeOK, FileType, HookType

\* The steps of the web endpoint and the expiry of a record keep the types.
LEMMA WebType ==
    ASSUME TypeOK, NEW j \in Jobs, WebStep(j) \/ SendTaskFails(j) \/ WebCrash(j) \/ Expire(j)
    PROVE  TypeOK'
<1>1. UNCHANGED <<attempts, run, files, uncleaned, hooks>>
  BY DEF WebStep, RefuseJob, SendTask, SeedPending, SendTaskFails, WebCrash, Expire
<1>2. RunType' /\ FileType' /\ HookType'
  BY <1>1 DEF TypeOK, RunType, FileType, HookType
<1>3. JobType'
  <2> USE DEF TypeOK, JobType
  <2>1. CASE RefuseJob(j)
    BY <2>1 DEF RefuseJob
  <2>2. ASSUME NEW a \in Submissions, SendTask(j, a) PROVE JobType'
    <3>1. a \in [webhook : BOOLEAN, version : Versions]
      BY SubmissionsAssumption
    <3>2. [scans[j] EXCEPT !.st = "queued"] \in ScanRecord
      BY DEF ScanRecord
    <3> QED
      BY <2>2, <3>1, <3>2 DEF SendTask
  <2>3. CASE SeedPending(j)
    BY <2>3 DEF SeedPending, record
  <2>4. CASE SendTaskFails(j)
    BY <2>4 DEF SendTaskFails, Fault
  <2>5. CASE WebCrash(j)
    BY <2>5 DEF WebCrash, Fault
  <2>6. CASE Expire(j)
    BY <2>6 DEF Expire
  <2> QED
    BY <2>1, <2>2, <2>3, <2>4, <2>5, <2>6 DEF WebStep
<1> QED
  BY <1>2, <1>3 DEF TypeOK

\* Replacing the attempt of one worker by a well-typed one keeps the types.
LEMMA RunUpdate ==
    ASSUME RunType, NEW w \in Workers, NEW r \in RunRecord, RunConsistent(r),
           run' = [run EXCEPT ![w] = r]
    PROVE  RunType'
  BY DEF RunType, RunConsistent

\* An exception, whichever clause catches it, leaves a well-typed attempt.
LEMMA TryFailsType ==
    ASSUME RunType, NEW w \in Workers, NEW exc \in Exceptions, TryFails(w, exc)
    PROVE  RunType'
<1>1. ASSUME NEW kind \in {"file", "transient"}, ReportError(w, kind), run[w].pc # "idle"
      PROVE  RunType'
  <2> DEFINE p == Payload("error", kind, NoVerdicts)
  <2>1. p \in Terminal
    BY DEF Terminal
  <2> HIDE DEF p
  <2> DEFINE r == [run[w] EXCEPT !.pc = "record", !.handler = TRUE, !.payload = p]
  <2>2. r \in RunRecord /\ RunConsistent(r)
    BY <2>1, <1>1 DEF RunType, RunConsistent, RunRecord, PCs
  <2>3. run' = [run EXCEPT ![w] = r]
    BY <1>1 DEF ReportError, p
  <2> QED
    BY <2>2, <2>3, RunUpdate
<1>2. ASSUME NEW why \in Raisable, Raise(w, why), run[w].pc # "idle" PROVE RunType'
  BY <1>2 DEF RunType, RunConsistent, RunRecord, PCs, Raise
<1>3. run[w].pc # "idle"
  BY DEF TryFails, CanRaise
<1> QED
  BY <1>1, <1>2, <1>3 DEF TryFails, Handle, Raisable, Exceptions, PermanentErrors

\* The decision after the try statement leaves a well-typed attempt.
LEMMA DecideType ==
    ASSUME RunType, NEW w \in Workers, Decide(w)
    PROVE  RunType'
<1>1. ReportPayload(run[w].report) \in Terminal /\ run[w] \in RunRecord /\ run[w].job \in Jobs
  BY DEF RunType, RunConsistent, Terminal, Decide
<1> DEFINE r == [run[w] EXCEPT !.pc = "exit", !.raised = "scanners"]
           q == [run[w] EXCEPT !.pc = "record", !.payload = ReportPayload(run[w].report)]
<1>2. r \in RunRecord /\ RunConsistent(r)
  BY <1>1 DEF RunConsistent, RunRecord, PCs, Raisable
<1>3. q \in RunRecord /\ RunConsistent(q)
  BY <1>1 DEF RunConsistent, RunRecord, PCs
<1>4. run' = [run EXCEPT ![w] = r] \/ run' = [run EXCEPT ![w] = q]
  BY DEF Decide
<1> QED
  BY <1>2, <1>3, <1>4, RunUpdate

\* Every step of a worker leaves well-typed attempts.
LEMMA ScanRunType ==
    ASSUME RunType, attempts \in [Jobs -> Nat], NEW w \in Workers,
           \/ ScanStep(w) \/ \E j \in Jobs : Pick(w, j)
           \/ SendWebhookFails(w) \/ Interrupt(w) \/ InterruptFinally(w) \/ WorkerCrash(w)
    PROVE  RunType'
<1> USE DEF RunType, RunConsistent, RunRecord, PCs, Raisable
<1>1. CASE FetchOk(w)
  BY <1>1 DEF FetchOk, Goto
<1>2. CASE OpenFile(w)
  BY <1>2 DEF OpenFile, Goto
<1>3. CASE WriteOk(w)
  BY <1>3 DEF WriteOk, Goto
<1>4. ASSUME NEW rs \in Reports, ScanReturns(w, rs) PROVE RunType'
  BY <1>4 DEF ScanReturns
<1>5. CASE Finally(w)
  BY <1>5 DEF Finally, Goto
<1>6. CASE RecordResult(w)
  BY <1>6 DEF RecordResult, Goto
<1>7. CASE SendWebhook(w)
  <2>1. AfterFinalize(w) \in {"finally", "exit"} /\ (AfterFinalize(w) = "finally" => run[w].handler)
    BY DEF AfterFinalize
  <2> QED
    BY <1>7, <2>1 DEF SendWebhook, Goto
<1>8. CASE Exit(w) \/ WorkerCrash(w)
  <2>1. Idle \in RunRecord /\ RunConsistent(Idle)
    BY DEF Idle
  <2> QED
    BY <1>8, <2>1, RunUpdate DEF Exit, WorkerCrash
<1>9. ASSUME NEW j \in Jobs, Pick(w, j) PROVE RunType'
  <2> DEFINE r == [Idle EXCEPT !.pc = "fetch", !.job = j, !.n = attempts[j] + 1]
  <2>1. attempts[j] + 1 \in Nat
    OBVIOUS
  <2>2. r \in RunRecord /\ RunConsistent(r)
    BY <2>1 DEF Idle
  <2> QED
    BY <1>9, <2>2, RunUpdate DEF Pick
<1>10. CASE SendWebhookFails(w)
  <2> DEFINE r == [run[w] EXCEPT !.pc = AfterFinalize(w), !.raised = "send"]
  <2>1. AfterFinalize(w) \in {"finally", "exit"} /\ (AfterFinalize(w) = "finally" => run[w].handler)
    BY DEF AfterFinalize
  <2>2. r \in RunRecord /\ RunConsistent(r)
    BY <1>10, <2>1 DEF SendWebhookFails
  <2> QED
    BY <1>10, <2>2, RunUpdate DEF SendWebhookFails
<1>11. CASE Interrupt(w)
  <2> DEFINE r == [run[w] EXCEPT !.pc = "finally", !.handler = TRUE, !.raised = "interrupt"]
             q == [run[w] EXCEPT !.pc = "exit", !.raised = "interrupt"]
  <2>0. run[w] \in RunRecord /\ run[w].job \in Jobs
    BY <1>11 DEF Interrupt
  <2>1. r \in RunRecord /\ RunConsistent(r) /\ q \in RunRecord /\ RunConsistent(q)
    BY <2>0
  <2>2. CASE InTry(w)
    <3>1. run' = [run EXCEPT ![w] = r]
      BY <1>11, <2>2 DEF Interrupt, Raise
    <3> QED
      BY <2>1, <3>1, RunUpdate
  <2>3. CASE ~ InTry(w)
    <3>1. run' = [run EXCEPT ![w] = q]
      BY <1>11, <2>3 DEF Interrupt
    <3> QED
      BY <2>1, <3>1, RunUpdate
  <2> QED
    BY <2>2, <2>3
<1>12. CASE InterruptFinally(w)
  BY <1>12 DEF InterruptFinally
<1> QED
  BY <1>1, <1>2, <1>3, <1>4, <1>5, <1>6, <1>7, <1>8, <1>9, <1>10, <1>11, <1>12, TryFailsType,
     DecideType DEF ScanStep

\* The queue's retry rule keeps the retries of a message within its budget.
LEMMA AfterTaskType ==
    ASSUME NEW m \in ScanRecord, NEW raised \in Raisable
    PROVE  AfterTask(m, raised) \in ScanRecord
<1>1. [m EXCEPT !.st = "acked"] \in ScanRecord
  BY DEF ScanRecord
<1>2. ASSUME m.retries < MAX_RETRIES
      PROVE  [m EXCEPT !.st = "queued", !.retries = @ + 1] \in ScanRecord
  <2>1. m.retries + 1 \in 0..MAX_RETRIES
    BY <1>2, BudgetAssumption DEF ScanRecord
  <2> QED
    BY <2>1 DEF ScanRecord
<1>3. [m EXCEPT !.st = "dead", !.cause = raised] \in ScanRecord
  BY DEF ScanRecord
<1> QED
  BY <1>1, <1>2, <1>3 DEF AfterTask

\* The steps of scan_task and of the queue around it keep the types.
LEMMA ScanType ==
    ASSUME TypeOK, NEW w \in Workers,
           \/ ScanStep(w) \/ \E j \in Jobs : Pick(w, j)
           \/ SendWebhookFails(w) \/ Interrupt(w) \/ InterruptFinally(w) \/ WorkerCrash(w)
    PROVE  TypeOK'
<1>1. RunType'
  BY ScanRunType DEF TypeOK, JobType
<1>2. run[w] \in RunRecord /\ (run[w].pc # "idle" => run[w].job \in Jobs)
  BY DEF TypeOK, RunType, RunConsistent
<1>3. FileType'
  <2>1. CASE OpenFile(w) \/ WorkerCrash(w) \/ InterruptFinally(w)
    <3>1. <<run[w].job, run[w].n>> \in Jobs \X Nat
      BY <2>1, <1>2 DEF OpenFile, WorkerCrash, InterruptFinally, RunRecord
    <3> QED
      BY <2>1, <3>1 DEF OpenFile, WorkerCrash, InterruptFinally, TypeOK, FileType
  <2>2. CASE Finally(w)
    BY <2>2 DEF Finally, TypeOK, FileType
  <2>3. CASE UNCHANGED <<files, uncleaned>>
    BY <2>3 DEF TypeOK, FileType
  <2> QED
    BY <2>1, <2>2, <2>3 DEF ScanStep, Pick, SendWebhookFails, Interrupt, TryFails, FetchOk,
       WriteOk, ScanReturns, Decide, RecordResult, SendWebhook, Exit
<1>4. HookType'
  <2>1. CASE SendWebhook(w)
    <3>1. run[w].job \in Jobs /\ run[w].n \in Nat /\ run[w].payload \in Terminal \cup {NoPayload}
      BY <2>1, <1>2 DEF SendWebhook, RunRecord
    <3>2. args[run[w].job].version \in Versions
      BY <3>1 DEF TypeOK, JobType
    <3>3. HookMessage(w) \in HookRecord
      BY <3>1, <3>2, BudgetAssumption DEF HookMessage, HookRecord, Bodies
    <3> QED
      BY <2>1, <3>3 DEF SendWebhook, TypeOK, HookType
  <2>2. CASE ~ SendWebhook(w)
    BY <2>2 DEF TypeOK, HookType, ScanStep, Pick, SendWebhookFails, Interrupt,
       InterruptFinally, WorkerCrash, TryFails, FetchOk, OpenFile, WriteOk, ScanReturns, Finally, Decide,
       RecordResult, Exit
  <2> QED
    BY <2>1, <2>2
<1>5. JobType'
  <2> USE DEF TypeOK, JobType
  <2>1. CASE Exit(w)
    BY <2>1, <1>2, AfterTaskType DEF Exit, RunRecord
  <2>2. ASSUME NEW j \in Jobs, Pick(w, j) PROVE JobType'
    <3>1. [scans[j] EXCEPT !.st = "running"] \in ScanRecord
      BY DEF ScanRecord
    <3>2. attempts[j] + 1 \in Nat
      OBVIOUS
    <3> QED
      BY <3>1, <3>2, <2>2 DEF Pick
  <2>3. CASE WorkerCrash(w)
    <3>1. [scans[run[w].job] EXCEPT !.st = "queued"] \in ScanRecord
      BY <2>3, <1>2 DEF ScanRecord, WorkerCrash
    <3> QED
      BY <3>1, <2>3, <1>2 DEF WorkerCrash, Fault
  <2>4. CASE RecordResult(w)
    BY <2>4, <1>2 DEF RecordResult, record, RunRecord
  <2>5. CASE SendWebhookFails(w) \/ Interrupt(w) \/ InterruptFinally(w)
    BY <2>5, <1>2 DEF SendWebhookFails, Interrupt, InterruptFinally, Fault
  <2>6. CASE UNCHANGED <<web, args, scans, attempts, store, faults>>
    BY <2>6
  <2> QED
    BY <2>1, <2>2, <2>3, <2>4, <2>5, <2>6 DEF ScanStep, TryFails, FetchOk, OpenFile,
       WriteOk, ScanReturns, Finally, Decide, SendWebhook
<1> QED
  BY <1>1, <1>3, <1>4, <1>5 DEF TypeOK

\* A POST changes the two counters of a message and nothing else.
LEMMA PostedType ==
    ASSUME NEW m \in HookRecord, NEW answer
    PROVE  /\ Posted(m, answer) \in HookRecord
           /\ Posted(m, answer).job = m.job /\ Posted(m, answer).n = m.n
           /\ Posted(m, answer).body = m.body /\ Posted(m, answer).retries = m.retries
           /\ Posted(m, answer).tries \in {m.tries, m.tries + 1}
<1> DEFINE t == IF answer = "blocked" THEN m.tries ELSE m.tries + 1
           a == IF answer \in {"2xx", "lost"} THEN m.accepted + 1 ELSE m.accepted
<1>1. t \in Nat /\ t \in {m.tries, m.tries + 1}
  BY DEF HookRecord
<1>2. a \in Nat
  BY DEF HookRecord
<1>3. Posted(m, answer) = [m EXCEPT !.tries = t, !.accepted = a]
  BY DEF Posted, HookRecord
<1> HIDE DEF t, a
<1>4. /\ Posted(m, answer).tries = t
      /\ Posted(m, answer).job = m.job /\ Posted(m, answer).n = m.n
      /\ Posted(m, answer).body = m.body /\ Posted(m, answer).retries = m.retries
  BY <1>3 DEF HookRecord
<1>5. Posted(m, answer) \in HookRecord
  BY <1>1, <1>2, <1>3 DEF HookRecord
<1> QED
  BY <1>1, <1>4, <1>5

\* The queue's retry rule keeps a webhook message well typed and its content.
LEMMA AfterPostType ==
    ASSUME NEW m \in HookRecord, NEW answer
    PROVE  /\ AfterPost(m, answer) \in HookRecord
           /\ AfterPost(m, answer).job = m.job /\ AfterPost(m, answer).n = m.n
           /\ AfterPost(m, answer).body = m.body
<1> DEFINE p == Posted(m, answer)
<1>1. /\ p \in HookRecord /\ p.retries = m.retries
      /\ p.job = m.job /\ p.n = m.n /\ p.body = m.body
  BY PostedType
<1>2. AfterPost(m, answer) \in {[p EXCEPT !.st = "done"], [p EXCEPT !.st = "dead"]}
        \/ /\ m.retries < WEBHOOK_MAX_ATTEMPTS
           /\ AfterPost(m, answer) = [p EXCEPT !.retries = p.retries + 1]
  BY DEF AfterPost
<1>3. m.retries < WEBHOOK_MAX_ATTEMPTS => p.retries + 1 \in 0..WEBHOOK_MAX_ATTEMPTS
  BY <1>1, BudgetAssumption DEF HookRecord
<1> HIDE DEF p
<1> QED
  BY <1>1, <1>2, <1>3 DEF HookRecord

\* The steps of deliver_webhook keep the types.
LEMMA DeliverType ==
    ASSUME TypeOK, NEW m \in hooks, NEW answer \in Answers,
           Deliver(m, answer) \/ DeliverCrash(m, answer)
    PROVE  TypeOK'
<1>1. UNCHANGED <<web, args, scans, attempts, run, files, uncleaned, store>>
  BY DEF Deliver, DeliverCrash
<1>2. RunType' /\ FileType'
  BY <1>1 DEF TypeOK, RunType, FileType
<1>3. m \in HookRecord
  BY DEF TypeOK, HookType
<1>4. JobType'
  BY <1>1, <1>3 DEF TypeOK, JobType, HookRecord, Deliver, DeliverCrash, Fault
<1>5. Posted(m, answer) \in HookRecord /\ Posted(m, answer).retries = m.retries
  BY <1>3, PostedType
<1>6. AfterPost(m, answer) \in HookRecord
  BY <1>3, AfterPostType
<1>7. HookType'
  BY <1>5, <1>6 DEF TypeOK, HookType, Deliver, DeliverCrash
<1> QED
  BY <1>2, <1>4, <1>7 DEF TypeOK

\* Every step keeps the types.
LEMMA NextType == TypeOK /\ [Next]_vars => TypeOK'
<1> SUFFICES ASSUME TypeOK, [Next]_vars PROVE TypeOK'
  OBVIOUS
<1>1. CASE UNCHANGED vars
  BY <1>1 DEF vars, TypeOK, JobType, RunType, FileType, HookType
<1>2. CASE Next
  BY <1>2, WebType, ScanType, DeliverType DEF Next, Faults, PickStep, DeliverStep
<1> QED
  BY <1>1, <1>2

\* AsyncScan is type correct: in every reachable state the messages, attempts,
\* records and counters of the asynchronous path have their types; in particular
\* the retries of a message stay within MAX_RETRIES and WEBHOOK_MAX_ATTEMPTS.
THEOREM TypeCorrect == Spec => []TypeOK
  BY InitType, NextType, PTL DEF Spec

-----------------------------------------------------------------------------
(* What a step leaves alone.                                               *)

\* A step of the task body concerns one busy worker, which keeps its job and its
\* attempt and stays busy; the messages of the scans queue are untouched.
BodyStep(w) ==
    (ScanStep(w) /\ ~ Exit(w)) \/ SendWebhookFails(w) \/ Interrupt(w) \/ InterruptFinally(w)

\* What every step of the task body leaves alone.
LEMMA BodyStepLocal ==
    ASSUME TypeOK, NEW w \in Workers, BodyStep(w)
    PROVE  /\ UNCHANGED <<web, args, scans, attempts>>
           /\ run[w].pc # "idle" /\ run'[w].pc # "idle"
           /\ run'[w].job = run[w].job /\ run'[w].n = run[w].n
           /\ \A v \in Workers : v # w => run'[v] = run[v]
<1> USE DEF TypeOK, RunType, RunRecord
<1>1. ASSUME NEW exc \in Exceptions, TryFails(w, exc)
      PROVE  /\ UNCHANGED <<web, args, scans, attempts>>
             /\ run[w].pc # "idle" /\ run'[w].pc # "idle"
             /\ run'[w].job = run[w].job /\ run'[w].n = run[w].n
             /\ \A v \in Workers : v # w => run'[v] = run[v]
  <2>1. run[w].pc # "idle"
    BY <1>1 DEF TryFails, CanRaise
  <2>2. (\E kind \in {"file", "transient"} : ReportError(w, kind)) \/ Raise(w, "exception")
    BY <1>1 DEF TryFails, Handle, Exceptions, PermanentErrors
  <2>3. ASSUME NEW kind \in {"file", "transient"}, ReportError(w, kind)
        PROVE  /\ run'[w].pc # "idle" /\ run'[w].job = run[w].job /\ run'[w].n = run[w].n
               /\ \A v \in Workers : v # w => run'[v] = run[v]
    <3> DEFINE q == Payload("error", kind, NoVerdicts)
    <3>1. run' = [run EXCEPT ![w] = [@ EXCEPT !.pc = "record", !.handler = TRUE, !.payload = q]]
      BY <2>3 DEF ReportError
    <3> HIDE DEF q
    <3> QED
      BY <3>1
  <2>4. ASSUME Raise(w, "exception")
        PROVE  /\ run'[w].pc # "idle" /\ run'[w].job = run[w].job /\ run'[w].n = run[w].n
               /\ \A v \in Workers : v # w => run'[v] = run[v]
    BY <2>4 DEF Raise
  <2>5. UNCHANGED <<web, args, scans, attempts>>
    BY <1>1 DEF TryFails
  <2> QED
    BY <2>1, <2>2, <2>3, <2>4, <2>5
<1>2. CASE FetchOk(w) \/ OpenFile(w) \/ WriteOk(w) \/ Finally(w) \/ RecordResult(w)
  BY <1>2 DEF FetchOk, OpenFile, WriteOk, Finally, RecordResult, Goto
<1>3. ASSUME NEW rs \in Reports, ScanReturns(w, rs)
      PROVE  /\ UNCHANGED <<web, args, scans, attempts>>
             /\ run[w].pc # "idle" /\ run'[w].pc # "idle"
             /\ run'[w].job = run[w].job /\ run'[w].n = run[w].n
             /\ \A v \in Workers : v # w => run'[v] = run[v]
  BY <1>3 DEF ScanReturns
<1>4. CASE Decide(w)
  BY <1>4 DEF Decide
<1>5. CASE SendWebhook(w) \/ SendWebhookFails(w)
  <2>1. AfterFinalize(w) \in {"finally", "exit"}
    BY DEF AfterFinalize
  <2>2. CASE SendWebhook(w)
    BY <2>1, <2>2 DEF SendWebhook, Goto
  <2>3. CASE SendWebhookFails(w)
    BY <2>1, <2>3 DEF SendWebhookFails
  <2> QED
    BY <1>5, <2>2, <2>3
<1>6. CASE Interrupt(w)
  BY <1>6 DEF Interrupt, Raise
<1>7. CASE InterruptFinally(w)
  BY <1>7 DEF InterruptFinally
<1> QED
  BY <1>1, <1>2, <1>3, <1>4, <1>5, <1>6, <1>7 DEF BodyStep, ScanStep

\* A message of the webhooks queue keeps its job, attempt and body.
SameContent(m1, m2) == m1.job = m2.job /\ m1.n = m2.n /\ m1.body = m2.body

\* A delivery neither adds, drops nor rewrites a report: it only counts.
LEMMA DeliverContent ==
    ASSUME TypeOK, NEW m \in hooks, NEW answer, Deliver(m, answer) \/ DeliverCrash(m, answer)
    PROVE  /\ \A m1 \in hooks : \E m2 \in hooks' : SameContent(m1, m2)
           /\ \A m2 \in hooks' : \E m1 \in hooks : SameContent(m1, m2)
<1>1. m \in HookRecord
  BY DEF TypeOK, HookType
<1>2. SameContent(m, AfterPost(m, answer)) /\ SameContent(m, Posted(m, answer))
  BY <1>1, PostedType, AfterPostType DEF SameContent
<1>3. PICK x : hooks' = (hooks \ {m}) \cup {x} /\ SameContent(m, x)
  BY <1>2 DEF Deliver, DeliverCrash
<1>4. \A m1 : SameContent(m1, m1)
  BY DEF SameContent
<1> QED
  BY <1>3, <1>4

-----------------------------------------------------------------------------
(* The attempts of a job do not overlap.                                   *)

\* Every step keeps the attempts of a job apart: a message is running exactly
\* while one worker is busy with it.
LEMMA OverlapStep ==
    ASSUME TypeOK, TypeOK', ClaimInv, WebInv, AttemptInv, Next
    PROVE  ClaimInv' /\ WebInv' /\ AttemptInv'
<1> USE DEF TypeOK, ClaimInv, WebInv, AttemptInv, Busy
<1>1. ASSUME NEW w \in Workers, BodyStep(w)
      PROVE  ClaimInv' /\ WebInv' /\ AttemptInv'
  BY <1>1, BodyStepLocal
<1>2. ASSUME NEW w \in Workers, Exit(w)
      PROVE  ClaimInv' /\ WebInv' /\ AttemptInv'
  <2>1. /\ run'[w].pc = "idle" /\ run[w].pc # "idle" /\ run[w].job \in Jobs
        /\ \A v \in Workers : v # w => run'[v] = run[v]
        /\ scans'[run[w].job].st # "running" /\ scans'[run[w].job].st # "none"
        /\ \A j \in Jobs : j # run[w].job => scans'[j] = scans[j]
        /\ UNCHANGED <<web, attempts>>
    BY <1>2 DEF Exit, Idle, RunType, RunConsistent, JobType, ScanRecord, AfterTask
  <2>2. \A v \in Workers : v # w /\ run[v].pc # "idle" =>
           run[v].job # run[w].job /\ run[v].job \in Jobs
    BY <2>1 DEF RunType, RunConsistent
  <2>3. web[run[w].job] # "idle"
    BY <2>1
  <2> QED
    BY <2>1, <2>2, <2>3
<1>3. ASSUME NEW w \in Workers, WorkerCrash(w)
      PROVE  ClaimInv' /\ WebInv' /\ AttemptInv'
  <2>1. /\ run'[w].pc = "idle" /\ run[w].pc # "idle" /\ run[w].job \in Jobs
        /\ \A v \in Workers : v # w => run'[v] = run[v]
        /\ scans'[run[w].job].st = "queued"
        /\ \A j \in Jobs : j # run[w].job => scans'[j] = scans[j]
        /\ UNCHANGED <<web, attempts>>
    BY <1>3 DEF WorkerCrash, Idle, RunType, RunConsistent, JobType, ScanRecord
  <2>2. \A v \in Workers : v # w /\ run[v].pc # "idle" =>
           run[v].job # run[w].job /\ run[v].job \in Jobs
    BY <2>1 DEF RunType, RunConsistent
  <2>3. web[run[w].job] # "idle"
    BY <2>1
  <2> QED
    BY <2>1, <2>2, <2>3
<1>4. ASSUME NEW w \in Workers, NEW j \in Jobs, Pick(w, j)
      PROVE  ClaimInv' /\ WebInv' /\ AttemptInv'
  <2>1. /\ run'[w].pc = "fetch" /\ run[w].pc = "idle" /\ run'[w].job = j
        /\ run'[w].n = attempts'[j]
        /\ \A v \in Workers : v # w => run'[v] = run[v]
        /\ scans[j].st = "queued" /\ scans'[j].st = "running"
        /\ \A k \in Jobs : k # j => scans'[k] = scans[k] /\ attempts'[k] = attempts[k]
        /\ UNCHANGED web
    BY <1>4 DEF Pick, Idle, RunType, RunConsistent, JobType, ScanRecord
  <2>2. \A v \in Workers : run[v].pc # "idle" => run[v].job # j /\ run[v].job \in Jobs
    BY <2>1 DEF RunType, RunConsistent
  <2> QED
    BY <2>1, <2>2
<1>5. ASSUME NEW j \in Jobs, NEW a \in Submissions, SendTask(j, a)
      PROVE  ClaimInv' /\ WebInv' /\ AttemptInv'
  <2>1. /\ scans[j].st = "none" /\ scans'[j].st = "queued" /\ web'[j] = "sent"
        /\ \A k \in Jobs : k # j => scans'[k] = scans[k] /\ web'[k] = web[k]
        /\ UNCHANGED <<run, attempts>>
    BY <1>5 DEF SendTask, JobType, ScanRecord
  <2>2. \A v \in Workers : run[v].pc # "idle" => run[v].job # j /\ run[v].job \in Jobs
    BY <2>1 DEF RunType, RunConsistent
  <2> QED
    BY <2>1, <2>2
<1>6. ASSUME NEW j \in Jobs, RefuseJob(j) \/ SeedPending(j) \/ SendTaskFails(j) \/ WebCrash(j)
      PROVE  ClaimInv' /\ WebInv' /\ AttemptInv'
  <2>1. /\ UNCHANGED <<run, scans, attempts>>
        /\ \A k \in Jobs : web'[k] = "idle" => web[k] = "idle"
    BY <1>6 DEF RefuseJob, SeedPending, SendTaskFails, WebCrash, JobType
  <2> QED
    BY <2>1
<1>7. CASE UNCHANGED <<web, run, scans, attempts>>
  BY <1>7
<1> QED
  BY <1>1, <1>2, <1>3, <1>4, <1>5, <1>6, <1>7
     DEF Next, WebStep, PickStep, DeliverStep, Faults, BodyStep, Deliver, DeliverCrash, Expire

-----------------------------------------------------------------------------
(* What scan_task carries on its way out.                                  *)

\* Every step of the task body keeps RaiseInv for the worker that takes it.
LEMMA RaiseBody ==
    ASSUME TypeOK, RaiseInv, NEW w \in Workers, BodyStep(w)
    PROVE  /\ run'[w].raised # "none" => run'[w].pc \in {"finally", "exit"}
           /\ run'[w].pc = "finally" /\ run'[w].raised # "none" => run'[w].handler
           /\ run'[w].pc \in {"fetch", "open", "write", "scan", "decide"} => ~ run'[w].handler
           /\ run'[w].raised \in {"exception", "scanners"} =>
                 scans[run[w].job].retries < MAX_RETRIES
<1> USE DEF TypeOK, RunType, RunRecord, RunConsistent, RaiseInv
<1> DEFINE Goal == /\ run'[w].raised # "none" => run'[w].pc \in {"finally", "exit"}
                   /\ run'[w].pc = "finally" /\ run'[w].raised # "none" => run'[w].handler
                   /\ run'[w].pc \in {"fetch", "open", "write", "scan", "decide"}
                         => ~ run'[w].handler
                   /\ run'[w].raised \in {"exception", "scanners"} =>
                         scans[run[w].job].retries < MAX_RETRIES
<1>0. ASSUME run[w].pc # "idle", ~ retries_exhausted(run[w].job)
      PROVE  scans[run[w].job].retries < MAX_RETRIES
  BY <1>0, BudgetAssumption DEF retries_exhausted, JobType, ScanRecord
<1>1. ASSUME NEW exc \in Exceptions, TryFails(w, exc) PROVE Goal
  <2>1. run[w].pc \in {"fetch", "open", "write", "scan"}
    BY <1>1 DEF TryFails, CanRaise
  <2>2. \/ \E kind \in {"file", "transient"} : ReportError(w, kind)
        \/ Raise(w, "exception") /\ ~ retries_exhausted(run[w].job)
    BY <1>1 DEF TryFails, Handle, Exceptions, PermanentErrors
  <2>3. ASSUME NEW kind \in {"file", "transient"}, ReportError(w, kind)
        PROVE  run'[w].pc = "record" /\ run'[w].raised = run[w].raised
    <3> DEFINE q == Payload("error", kind, NoVerdicts)
    <3>1. run' = [run EXCEPT ![w] = [@ EXCEPT !.pc = "record", !.handler = TRUE, !.payload = q]]
      BY <2>3 DEF ReportError
    <3> HIDE DEF q
    <3> QED
      BY <3>1
  <2>4. ASSUME NEW kind \in {"file", "transient"}, ReportError(w, kind) PROVE Goal
    BY <2>1, <2>3, <2>4
  <2>5. ASSUME Raise(w, "exception"), ~ retries_exhausted(run[w].job) PROVE Goal
    <3>1. run'[w].pc = "finally" /\ run'[w].handler /\ run'[w].raised = "exception"
      BY <2>5 DEF Raise
    <3> QED
      BY <2>1, <2>5, <3>1, <1>0
  <2> QED
    BY <2>2, <2>4, <2>5
<1>2. CASE FetchOk(w) \/ OpenFile(w) \/ WriteOk(w)
  BY <1>2 DEF FetchOk, OpenFile, WriteOk, Goto
<1>3. ASSUME NEW rs \in Reports, ScanReturns(w, rs) PROVE Goal
  BY <1>3 DEF ScanReturns
<1>4. CASE Finally(w)
  BY <1>4 DEF Finally, Goto
<1>5. CASE Decide(w)
  <2> DEFINE q == ReportPayload(run[w].report)
  <2>1. \/ /\ ~ retries_exhausted(run[w].job)
           /\ run' = [run EXCEPT ![w] = [@ EXCEPT !.pc = "exit", !.raised = "scanners"]]
        \/ run' = [run EXCEPT ![w] = [@ EXCEPT !.pc = "record", !.payload = q]]
    BY <1>5 DEF Decide
  <2> HIDE DEF q
  <2>2. run[w].pc = "decide"
    BY <1>5 DEF Decide
  <2>3. ASSUME run' = [run EXCEPT ![w] = [@ EXCEPT !.pc = "record", !.payload = q]] PROVE Goal
    BY <2>2, <2>3
  <2>4. ASSUME ~ retries_exhausted(run[w].job),
               run' = [run EXCEPT ![w] = [@ EXCEPT !.pc = "exit", !.raised = "scanners"]]
        PROVE  Goal
    <3>1. run'[w].pc = "exit"
      BY <2>4
    <3> QED
      BY <2>2, <2>4, <3>1, <1>0
  <2> QED
    BY <2>1, <2>3, <2>4
<1>6. CASE RecordResult(w)
  BY <1>6 DEF RecordResult, Goto
<1>7. CASE SendWebhook(w) \/ SendWebhookFails(w)
  <2>1. (AfterFinalize(w) = "finally" /\ run[w].handler) \/ AfterFinalize(w) = "exit"
    BY DEF AfterFinalize
  <2>2. CASE SendWebhook(w)
    BY <2>1, <2>2 DEF SendWebhook, Goto
  <2>3. CASE SendWebhookFails(w)
    BY <2>1, <2>3 DEF SendWebhookFails
  <2> QED
    BY <1>7, <2>2, <2>3
<1>8. CASE Interrupt(w)
  <2>1. CASE InTry(w)
    <3>1. Raise(w, "interrupt")
      BY <1>8, <2>1 DEF Interrupt
    <3>2. run'[w].pc = "finally" /\ run'[w].handler /\ run'[w].raised = "interrupt"
      BY <3>1 DEF Raise
    <3> QED
      BY <3>2
  <2>2. CASE ~ InTry(w)
    <3>1. run' = [run EXCEPT ![w] = [@ EXCEPT !.pc = "exit", !.raised = "interrupt"]]
      BY <1>8, <2>2 DEF Interrupt
    <3>2. run'[w].pc = "exit" /\ run'[w].raised = "interrupt"
      BY <3>1
    <3> QED
      BY <3>2
  <2> QED
    BY <2>1, <2>2
<1>9. CASE InterruptFinally(w)
  BY <1>9 DEF InterruptFinally
<1> QED
  BY <1>1, <1>2, <1>3, <1>4, <1>5, <1>6, <1>7, <1>8, <1>9 DEF BodyStep, ScanStep

\* Facts about the queue's steps on the running message: the worker is free
\* again, and no other busy worker has the same job.
LEMMA LeaveLocal ==
    ASSUME TypeOK, ClaimInv, NEW w \in Workers, Exit(w) \/ WorkerCrash(w)
    PROVE  /\ UNCHANGED <<web, args, attempts, store, hooks>>
           /\ run'[w] = Idle /\ run[w].pc # "idle" /\ run[w].job \in Jobs
           /\ \A v \in Workers : v # w => run'[v] = run[v]
           /\ \A j \in Jobs : j # run[w].job => scans'[j] = scans[j]
           /\ \A v \in Workers : v # w /\ Busy(v) => run[v].job \in Jobs \ {run[w].job}
<1> USE DEF TypeOK, RunType, RunConsistent
<1>1. run[w].pc # "idle" /\ run[w].job \in Jobs
  BY DEF Exit, WorkerCrash
<1>2. \A v \in Workers : v # w /\ Busy(v) => run[v].job \in Jobs \ {run[w].job}
  BY <1>1 DEF ClaimInv, Busy
<1>3. /\ UNCHANGED <<web, args, attempts, store, hooks>>
      /\ run'[w] = Idle
      /\ \A v \in Workers : v # w => run'[v] = run[v]
      /\ \A j \in Jobs : j # run[w].job => scans'[j] = scans[j]
  BY DEF Exit, WorkerCrash, JobType
<1> QED
  BY <1>1, <1>2, <1>3

\* A worker that carries an exception is busy.
LEMMA RaisedIsBusy ==
    ASSUME RaiseInv, NEW w \in Workers, run[w].raised # "none"
    PROVE  Busy(w)
  BY DEF RaiseInv, Busy

\* Picking a message leaves the other workers and the retries of all jobs alone.
LEMMA PickLocal ==
    ASSUME TypeOK, NEW w \in Workers, NEW j \in Jobs, Pick(w, j)
    PROVE  /\ UNCHANGED <<web, args, store, hooks, files, uncleaned, faults>>
           /\ run[w].pc = "idle" /\ scans[j].st = "queued" /\ scans'[j].st = "running"
           /\ run'[w].pc = "fetch" /\ run'[w].raised = "none" /\ ~ run'[w].handler
           /\ \A v \in Workers : v # w => run'[v] = run[v]
           /\ \A k \in Jobs : scans'[k].retries = scans[k].retries
           /\ \A k \in Jobs : k # j => scans'[k] = scans[k] /\ attempts'[k] = attempts[k]
<1>1. run' = [run EXCEPT ![w] = [Idle EXCEPT !.pc = "fetch", !.job = j, !.n = attempts[j] + 1]]
  BY DEF Pick
<1>2. /\ run'[w].pc = "fetch" /\ run'[w].raised = "none" /\ ~ run'[w].handler
      /\ \A v \in Workers : v # w => run'[v] = run[v]
  BY <1>1 DEF Idle, TypeOK, RunType
<1> QED
  BY <1>2 DEF Pick, TypeOK, JobType, ScanRecord

\* Every step keeps RaiseInv.
LEMMA RaiseStep ==
    ASSUME TypeOK, ClaimInv, WebInv, RaiseInv, Next
    PROVE  RaiseInv'
<1>1. ASSUME NEW w \in Workers, BodyStep(w) PROVE RaiseInv'
  <2>1. UNCHANGED scans /\ \A v \in Workers : v # w => run'[v] = run[v]
    BY <1>1, BodyStepLocal
  <2>2. run'[w].job = run[w].job
    BY <1>1, BodyStepLocal
  <2> QED
    BY <1>1, <2>1, <2>2, RaiseBody DEF RaiseInv
<1>2. ASSUME NEW w \in Workers, Exit(w) \/ WorkerCrash(w) PROVE RaiseInv'
  <2>1. /\ run'[w].pc = "idle" /\ run'[w].raised = "none"
        /\ \A v \in Workers : v # w => run'[v] = run[v]
        /\ \A v \in Workers : v # w /\ run[v].raised # "none" =>
              scans'[run[v].job] = scans[run[v].job]
    BY <1>2, LeaveLocal, RaisedIsBusy DEF Idle
  <2> QED
    BY <2>1 DEF RaiseInv
<1>3. ASSUME NEW w \in Workers, NEW j \in Jobs, Pick(w, j) PROVE RaiseInv'
  <2>1. \A v \in Workers : run[v].raised # "none" => run[v].job \in Jobs
    BY RaisedIsBusy DEF Busy, TypeOK, RunType, RunConsistent
  <2> QED
    BY <1>3, <2>1, PickLocal DEF RaiseInv
<1>4. ASSUME NEW j \in Jobs, NEW a \in Submissions, SendTask(j, a) PROVE RaiseInv'
  <2>1. /\ UNCHANGED run
        /\ \A k \in Jobs : scans'[k].retries = scans[k].retries
    BY <1>4 DEF SendTask, TypeOK, JobType, ScanRecord
  <2>2. \A v \in Workers : run[v].raised # "none" => run[v].job \in Jobs
    BY RaisedIsBusy DEF Busy, TypeOK, RunType, RunConsistent
  <2> QED
    BY <2>1, <2>2 DEF RaiseInv
<1>5. CASE UNCHANGED <<run, scans>>
  BY <1>5 DEF RaiseInv
<1> QED
  BY <1>1, <1>2, <1>3, <1>4, <1>5
     DEF Next, WebStep, PickStep, DeliverStep, Faults, BodyStep, Deliver, DeliverCrash, Expire,
         RefuseJob, SeedPending, SendTaskFails, WebCrash

-----------------------------------------------------------------------------
(* An acknowledged job has been reported.                                  *)

\* No step withdraws a report.
LEMMA ReportedStays ==
    ASSUME TypeOK, Next, NEW j, NEW n, Reported(hooks, j, n)
    PROVE  Reported(hooks', j, n)
<1>1. ASSUME NEW m \in hooks, NEW answer, Deliver(m, answer) \/ DeliverCrash(m, answer)
      PROVE  Reported(hooks', j, n)
  BY <1>1, DeliverContent DEF Reported, SameContent
<1>2. CASE hooks \subseteq hooks'
  BY <1>2 DEF Reported
<1>3. \/ hooks \subseteq hooks'
      \/ \E m \in hooks, answer \in Answers : Deliver(m, answer) \/ DeliverCrash(m, answer)
  BY DEF Next, WebStep, PickStep, DeliverStep, Faults, ScanStep, Expire, RefuseJob, SendTask,
         SeedPending, SendTaskFails, WebCrash, Pick, TryFails, FetchOk, OpenFile, WriteOk,
         ScanReturns, Finally, Decide, RecordResult, SendWebhook, Exit, SendWebhookFails,
         Interrupt, InterruptFinally, WorkerCrash
<1> QED
  BY <1>1, <1>2, <1>3

\* Only the second half of _finalize makes an attempt a finalized one.
LEMMA FinalizedBody ==
    ASSUME TypeOK, RaiseInv, NEW w \in Workers, BodyStep(w), Finalized(w)'
    PROVE  Finalized(w) \/ SendWebhook(w)
<1> USE DEF TypeOK, RunType, RunRecord, Finalized
<1>1. ASSUME NEW exc \in Exceptions, TryFails(w, exc) PROVE FALSE
  <2>1. \/ \E kind \in {"file", "transient"} : ReportError(w, kind)
        \/ Raise(w, "exception")
    BY <1>1 DEF TryFails, Handle, Exceptions, PermanentErrors
  <2>2. ASSUME NEW kind \in {"file", "transient"}, ReportError(w, kind) PROVE FALSE
    <3> DEFINE q == Payload("error", kind, NoVerdicts)
    <3>1. run' = [run EXCEPT ![w] = [@ EXCEPT !.pc = "record", !.handler = TRUE, !.payload = q]]
      BY <2>2 DEF ReportError
    <3> HIDE DEF q
    <3> QED
      BY <3>1
  <2>3. ASSUME Raise(w, "exception") PROVE FALSE
    BY <2>3 DEF Raise
  <2> QED
    BY <2>1, <2>2, <2>3
<1>2. CASE FetchOk(w) \/ OpenFile(w) \/ WriteOk(w) \/ RecordResult(w)
  BY <1>2 DEF FetchOk, OpenFile, WriteOk, RecordResult, Goto
<1>3. ASSUME NEW rs \in Reports, ScanReturns(w, rs) PROVE FALSE
  BY <1>3 DEF ScanReturns, RaiseInv
<1>4. CASE Finally(w)
  BY <1>4 DEF Finally, Goto
<1>5. CASE Decide(w)
  BY <1>5 DEF Decide
<1>6. CASE SendWebhookFails(w)
  BY <1>6 DEF SendWebhookFails
<1>7. CASE Interrupt(w)
  BY <1>7 DEF Interrupt, Raise
<1>8. CASE InterruptFinally(w)
  BY <1>8 DEF InterruptFinally
<1> QED
  BY <1>1, <1>2, <1>3, <1>4, <1>5, <1>6, <1>7, <1>8 DEF BodyStep, ScanStep

\* SendWebhook enqueues the report of its attempt when a webhook was asked for.
LEMMA SendReports ==
    ASSUME NEW w \in Workers, SendWebhook(w), args[run[w].job].webhook
    PROVE  Reported(hooks', run[w].job, run[w].n)
<1>1. HookMessage(w) \in hooks'
  BY DEF SendWebhook
<1>2. HookMessage(w).job = run[w].job /\ HookMessage(w).n = run[w].n
  BY DEF HookMessage
<1> QED
  BY <1>1, <1>2 DEF Reported

\* Every step keeps ReportInv and AckedIsReported.
LEMMA ReportStep ==
    ASSUME TypeOK, ClaimInv, WebInv, AttemptInv, RaiseInv, ReportInv,
           AckedIsReported, Next
    PROVE  ReportInv' /\ AckedIsReported'
<1>0. \A j, n : Reported(hooks, j, n) => Reported(hooks', j, n)
  BY ReportedStays
<1>a. \A j \in Jobs : scans[j].st = "acked" /\ args[j].webhook => Reported(hooks, j, attempts[j])
  BY DEF AckedIsReported, Reported
<1>b. ASSUME \A j \in Jobs : scans'[j].st = "acked" /\ args'[j].webhook
                              => Reported(hooks', j, attempts'[j])
      PROVE  AckedIsReported'
  BY <1>b DEF AckedIsReported, Reported
<1>1. ASSUME NEW w \in Workers, BodyStep(w) PROVE ReportInv' /\ AckedIsReported'
  <2>1. /\ UNCHANGED <<args, scans, attempts>>
        /\ run'[w].job = run[w].job /\ run'[w].n = run[w].n
        /\ \A v \in Workers : v # w => run'[v] = run[v]
    BY <1>1, BodyStepLocal
  <2>2. AckedIsReported'
    BY <2>1, <1>0, <1>a, <1>b
  <2>3. Finalized(w)' /\ args[run[w].job].webhook => Reported(hooks', run[w].job, run[w].n)
    BY <1>1, <1>0, FinalizedBody, SendReports DEF ReportInv
  <2>4. \A v \in Workers : v # w => (Finalized(v)' <=> Finalized(v))
    BY <2>1 DEF Finalized
  <2>5. ReportInv'
    BY <2>1, <2>3, <2>4, <1>0 DEF ReportInv, Reported
  <2> QED
    BY <2>2, <2>5
<1>2. ASSUME NEW w \in Workers, Exit(w) \/ WorkerCrash(w) PROVE ReportInv' /\ AckedIsReported'
  <2>1. /\ UNCHANGED <<args, attempts, hooks>>
        /\ run'[w] = Idle /\ run[w].pc # "idle" /\ run[w].job \in Jobs
        /\ \A v \in Workers : v # w => run'[v] = run[v]
        /\ \A j \in Jobs : j # run[w].job => scans'[j] = scans[j]
    BY <1>2, LeaveLocal
  <2>2. ~ Finalized(w)' /\ \A v \in Workers : v # w => (Finalized(v)' <=> Finalized(v))
    BY <2>1 DEF Finalized, Idle
  <2>3. ReportInv'
    BY <2>1, <2>2 DEF ReportInv, Reported
  <2>4. scans'[run[w].job].st = "acked" => Finalized(w)
    <3>1. scans[run[w].job] \in ScanRecord
      BY <2>1 DEF TypeOK, JobType
    <3>2. CASE WorkerCrash(w)
      BY <2>1, <3>1, <3>2 DEF WorkerCrash, TypeOK, JobType, ScanRecord
    <3>3. CASE Exit(w)
      BY <2>1, <3>1, <3>3 DEF Exit, AfterTask, TypeOK, JobType, ScanRecord, Finalized
    <3> QED
      BY <1>2, <3>2, <3>3
  <2>5. run[w].n = attempts[run[w].job]
    BY <2>1 DEF AttemptInv, Busy
  <2>6. AckedIsReported'
    BY <2>1, <2>4, <2>5, <1>0, <1>a, <1>b DEF ReportInv
  <2> QED
    BY <2>3, <2>6
<1>3. ASSUME NEW w \in Workers, NEW j \in Jobs, Pick(w, j) PROVE ReportInv' /\ AckedIsReported'
  <2>1. AckedIsReported'
    BY <1>3, <1>0, <1>a, <1>b, PickLocal
  <2>2. ~ Finalized(w)' /\ \A v \in Workers : v # w => (Finalized(v)' <=> Finalized(v))
    BY <1>3, PickLocal DEF Finalized
  <2>3. ReportInv'
    BY <1>3, <2>2, PickLocal DEF ReportInv, Reported
  <2> QED
    BY <2>1, <2>3
<1>4. ASSUME NEW j \in Jobs, NEW a \in Submissions, SendTask(j, a)
      PROVE  ReportInv' /\ AckedIsReported'
  <2>1. /\ scans[j].st = "none" /\ scans'[j].st = "queued"
        /\ \A k \in Jobs : k # j => scans'[k] = scans[k] /\ args'[k] = args[k]
        /\ UNCHANGED <<run, attempts, hooks>>
    BY <1>4 DEF SendTask, WebInv, TypeOK, JobType, ScanRecord
  <2>2. \A v \in Workers : Finalized(v) => run[v].job \in Jobs \ {j}
    BY <2>1 DEF ClaimInv, Busy, Finalized, TypeOK, RunType, RunConsistent
  <2>3. ReportInv'
    BY <2>1, <2>2 DEF ReportInv, Reported, Finalized
  <2>4. AckedIsReported'
    BY <2>1, <1>0, <1>a, <1>b
  <2> QED
    BY <2>3, <2>4
<1>5. CASE UNCHANGED <<args, run, scans, attempts>>
  <2>1. AckedIsReported'
    BY <1>5, <1>0, <1>a, <1>b
  <2>2. ReportInv'
    BY <1>5, <1>0 DEF ReportInv, Finalized, Reported
  <2> QED
    BY <2>1, <2>2
<1> QED
  BY <1>1, <1>2, <1>3, <1>4, <1>5
     DEF Next, WebStep, PickStep, DeliverStep, Faults, BodyStep, Deliver, DeliverCrash, Expire,
         RefuseJob, SeedPending, SendTaskFails, WebCrash

-----------------------------------------------------------------------------
(* Only faults dead-letter a scan.                                         *)

\* Every step keeps OnlyFaultsDeadLetter.
LEMMA DeadLetterStep ==
    ASSUME TypeOK, ClaimInv, RaiseInv, OnlyFaultsDeadLetter, Next
    PROVE  OnlyFaultsDeadLetter'
<1> USE DEF OnlyFaultsDeadLetter
<1>1. ASSUME NEW w \in Workers, Exit(w) PROVE OnlyFaultsDeadLetter'
  <2>1. /\ run[w].job \in Jobs /\ run[w].raised \in Raisable
        /\ \A j \in Jobs : j # run[w].job => scans'[j] = scans[j]
        /\ scans'[run[w].job] = AfterTask(scans[run[w].job], run[w].raised)
        /\ scans[run[w].job] \in ScanRecord
    BY <1>1 DEF Exit, TypeOK, RunType, RunRecord, RunConsistent, JobType
  <2>2. scans[run[w].job].retries >= MAX_RETRIES => run[w].raised \notin {"exception", "scanners"}
    BY <2>1, BudgetAssumption DEF RaiseInv, ScanRecord
  <2>3. scans'[run[w].job].st = "dead" =>
           /\ run[w].raised # "none" /\ scans[run[w].job].retries >= MAX_RETRIES
           /\ scans'[run[w].job].cause = run[w].raised
    BY <2>1, BudgetAssumption DEF AfterTask, ScanRecord
  <2> QED
    BY <2>1, <2>2, <2>3 DEF Raisable
<1>2. ASSUME NEW w \in Workers, WorkerCrash(w) PROVE OnlyFaultsDeadLetter'
  <2>1. run[w].job \in Jobs /\ scans'[run[w].job].st = "queued"
    BY <1>2 DEF WorkerCrash, TypeOK, RunType, RunConsistent, JobType, ScanRecord
  <2> QED
    BY <1>2, <2>1, LeaveLocal
<1>3. ASSUME NEW w \in Workers, NEW j \in Jobs, Pick(w, j) PROVE OnlyFaultsDeadLetter'
  BY <1>3, PickLocal
<1>4. ASSUME NEW j \in Jobs, NEW a \in Submissions, SendTask(j, a) PROVE OnlyFaultsDeadLetter'
  BY <1>4 DEF SendTask, TypeOK, JobType, ScanRecord
<1>5. CASE UNCHANGED scans
  BY <1>5
<1>6. ASSUME NEW w \in Workers, BodyStep(w) PROVE UNCHANGED scans
  BY <1>6, BodyStepLocal
<1> QED
  BY <1>1, <1>2, <1>3, <1>4, <1>5, <1>6
     DEF Next, WebStep, PickStep, DeliverStep, Faults, BodyStep, Deliver, DeliverCrash, Expire,
         RefuseJob, SeedPending, SendTaskFails, WebCrash

-----------------------------------------------------------------------------
(* "Unavailable" is said only once the budget is spent.                    *)

\* A body has the status of its payload, and an axis for each of its verdicts.
LEMMA SerializeShape ==
    ASSUME NEW p, NEW version
    PROVE  /\ serialize(p, version).status = p.status
           /\ DOMAIN serialize(p, version).axes = DOMAIN p.verdicts
  BY DEF serialize, to_v1

\* The queue never gives a message its retries back.
LEMMA RetriesGrow ==
    ASSUME TypeOK, ClaimInv, Next, NEW j \in Jobs
    PROVE  scans'[j].retries >= scans[j].retries
<1>0. scans[j] \in ScanRecord /\ scans[j].retries \in Nat
  BY BudgetAssumption DEF TypeOK, JobType, ScanRecord
<1>1. ASSUME NEW w \in Workers, Exit(w) PROVE scans'[j].retries >= scans[j].retries
  <2>1. CASE j = run[w].job
    <3>1. scans'[j] = AfterTask(scans[j], run[w].raised)
      BY <1>1, <2>1 DEF Exit, TypeOK, JobType
    <3> QED
      BY <3>1, <1>0 DEF AfterTask, ScanRecord
  <2>2. CASE j # run[w].job
    BY <1>0, <1>1, <2>2, LeaveLocal
  <2> QED
    BY <2>1, <2>2
<1>2. ASSUME NEW w \in Workers, WorkerCrash(w) PROVE scans'[j].retries >= scans[j].retries
  BY <1>0, <1>2 DEF WorkerCrash, TypeOK, JobType, ScanRecord
<1>3. ASSUME NEW w \in Workers, NEW k \in Jobs, Pick(w, k)
      PROVE  scans'[j].retries >= scans[j].retries
  BY <1>0, <1>3, PickLocal
<1>4. ASSUME NEW k \in Jobs, NEW a \in Submissions, SendTask(k, a)
      PROVE  scans'[j].retries >= scans[j].retries
  BY <1>0, <1>4 DEF SendTask, TypeOK, JobType, ScanRecord
<1>5. CASE UNCHANGED scans
  BY <1>0, <1>5
<1>6. ASSUME NEW w \in Workers, BodyStep(w) PROVE UNCHANGED scans
  BY <1>6, BodyStepLocal
<1> QED
  BY <1>1, <1>2, <1>3, <1>4, <1>5, <1>6
     DEF Next, WebStep, PickStep, DeliverStep, Faults, BodyStep, Deliver, DeliverCrash, Expire,
         RefuseJob, SeedPending, SendTaskFails, WebCrash

\* A spent budget stays spent.
LEMMA BudgetStaysSpent ==
    ASSUME TypeOK, ClaimInv, Next, NEW j \in Jobs, scans[j].retries >= MAX_RETRIES
    PROVE  scans'[j].retries >= MAX_RETRIES
<1>1. TypeOK' /\ scans'[j].retries >= scans[j].retries
  BY RetriesGrow, NextType
<1>2. scans[j].retries \in Int /\ scans'[j].retries \in Int
  BY <1>1 DEF TypeOK, JobType, ScanRecord
<1> QED
  BY <1>1, <1>2, BudgetAssumption

\* A step of the task body hands _finalize an "unavailable" payload only when
\* the budget is spent.
LEMMA UnavailableBody ==
    ASSUME TypeOK, UnavailableInv, NEW w \in Workers, BodyStep(w),
           run'[w].pc \in {"record", "send"}, Unavailable(run'[w].payload)
    PROVE  scans[run[w].job].retries >= MAX_RETRIES
<1> USE DEF TypeOK, RunType, RunRecord
<1>1. ASSUME NEW exc \in Exceptions, TryFails(w, exc) PROVE FALSE
  <2>1. \/ \E kind \in {"file", "transient"} : ReportError(w, kind)
        \/ Raise(w, "exception")
    BY <1>1 DEF TryFails, Handle, Exceptions, PermanentErrors
  <2>2. ASSUME NEW kind \in {"file", "transient"}, ReportError(w, kind) PROVE FALSE
    <3> DEFINE q == Payload("error", kind, NoVerdicts)
    <3>1. run' = [run EXCEPT ![w] = [@ EXCEPT !.pc = "record", !.handler = TRUE, !.payload = q]]
      BY <2>2 DEF ReportError
    <3>2. DOMAIN q.verdicts = {}
      BY DEF Payload, NoVerdicts
    <3> HIDE DEF q
    <3>3. run'[w].payload = q
      BY <3>1
    <3> QED
      BY <3>2, <3>3 DEF Unavailable
  <2>3. ASSUME Raise(w, "exception") PROVE FALSE
    BY <2>3 DEF Raise
  <2> QED
    BY <2>1, <2>2, <2>3
<1>2. CASE FetchOk(w) \/ OpenFile(w) \/ WriteOk(w) \/ Finally(w)
  BY <1>2 DEF FetchOk, OpenFile, WriteOk, Finally, Goto
<1>3. ASSUME NEW rs \in Reports, ScanReturns(w, rs) PROVE FALSE
  BY <1>3 DEF ScanReturns
<1>4. CASE Decide(w)
  <2> DEFINE q == ReportPayload(run[w].report)
  <2>1. q.status = "error" => all_errored(run[w].report)
    BY DEF ReportPayload, Payload
  <2>2. \/ run' = [run EXCEPT ![w] = [@ EXCEPT !.pc = "exit", !.raised = "scanners"]]
        \/ /\ ~ all_errored(run[w].report) \/ retries_exhausted(run[w].job)
           /\ run' = [run EXCEPT ![w] = [@ EXCEPT !.pc = "record", !.payload = q]]
    BY <1>4 DEF Decide
  <2> HIDE DEF q
  <2>3. run'[w].payload = q /\ (~ all_errored(run[w].report) \/ retries_exhausted(run[w].job))
    BY <2>2
  <2> QED
    BY <2>1, <2>3 DEF Unavailable, retries_exhausted
<1>5. CASE RecordResult(w)
  BY <1>5 DEF RecordResult, Goto, UnavailableInv
<1>6. CASE SendWebhook(w) \/ SendWebhookFails(w)
  <2>1. AfterFinalize(w) \in {"finally", "exit"}
    BY DEF AfterFinalize
  <2>2. CASE SendWebhook(w)
    BY <2>1, <2>2 DEF SendWebhook, Goto
  <2>3. CASE SendWebhookFails(w)
    BY <2>1, <2>3 DEF SendWebhookFails
  <2> QED
    BY <1>6, <2>2, <2>3
<1>7. CASE Interrupt(w)
  BY <1>7 DEF Interrupt, Raise
<1>8. CASE InterruptFinally(w)
  BY <1>8 DEF InterruptFinally
<1> QED
  BY <1>1, <1>2, <1>3, <1>4, <1>5, <1>6, <1>7, <1>8 DEF BodyStep, ScanStep

\* Every step keeps UnavailableInv.
LEMMA UnavailableStep ==
    ASSUME TypeOK, ClaimInv, UnavailableInv, Next
    PROVE  UnavailableInv'
<1>0. \A j \in Jobs : scans[j].retries >= MAX_RETRIES => scans'[j].retries >= MAX_RETRIES
  BY BudgetStaysSpent
<1>1. \A v \in Workers : run[v].pc \in {"record", "send"} => run[v].job \in Jobs
  BY DEF TypeOK, RunType, RunConsistent
<1>2. ASSUME NEW w \in Workers,
             \A v \in Workers : v # w => run'[v] = run[v],
             run'[w].pc \in {"record", "send"} /\ Unavailable(run'[w].payload) =>
                 scans'[run'[w].job].retries >= MAX_RETRIES
      PROVE  UnavailableInv'
  BY <1>0, <1>1, <1>2 DEF UnavailableInv
<1>3. ASSUME NEW w \in Workers, BodyStep(w) PROVE UnavailableInv'
  <2>1. UNCHANGED scans /\ run'[w].job = run[w].job /\ \A v \in Workers : v # w => run'[v] = run[v]
    BY <1>3, BodyStepLocal
  <2> QED
    BY <1>2, <1>3, <2>1, UnavailableBody
<1>4. ASSUME NEW w \in Workers, Exit(w) \/ WorkerCrash(w) PROVE UnavailableInv'
  BY <1>2, <1>4, LeaveLocal DEF Idle
<1>5. ASSUME NEW w \in Workers, NEW j \in Jobs, Pick(w, j) PROVE UnavailableInv'
  BY <1>2, <1>5, PickLocal
<1>6. CASE UNCHANGED run
  BY <1>0, <1>1, <1>6 DEF UnavailableInv
<1> QED
  BY <1>3, <1>4, <1>5, <1>6
     DEF Next, WebStep, PickStep, DeliverStep, Faults, BodyStep, Deliver, DeliverCrash, Expire,
         RefuseJob, SendTask, SeedPending, SendTaskFails, WebCrash

\* Every step keeps UnavailableOnlyWhenExhausted.
LEMMA UnavailableHookStep ==
    ASSUME TypeOK, ClaimInv, UnavailableInv, UnavailableOnlyWhenExhausted, Next
    PROVE  UnavailableOnlyWhenExhausted'
<1>0. \A j \in Jobs : scans[j].retries >= MAX_RETRIES => scans'[j].retries >= MAX_RETRIES
  BY BudgetStaysSpent
<1>1. \A m \in hooks : m.job \in Jobs
  BY DEF TypeOK, HookType, HookRecord
<1>2. ASSUME NEW m \in hooks, NEW answer, Deliver(m, answer) \/ DeliverCrash(m, answer)
      PROVE  UnavailableOnlyWhenExhausted'
  BY <1>0, <1>1, <1>2, DeliverContent DEF UnavailableOnlyWhenExhausted, SameContent
<1>3. ASSUME NEW w \in Workers, SendWebhook(w) PROVE UnavailableOnlyWhenExhausted'
  <2> DEFINE m == HookMessage(w)
  <2>1. m.job = run[w].job /\ m.body.status = run[w].payload.status
        /\ DOMAIN m.body.axes = DOMAIN run[w].payload.verdicts
    BY SerializeShape DEF HookMessage
  <2>2. run[w].pc = "send" /\ hooks' \subseteq hooks \cup {m}
    BY <1>3 DEF SendWebhook
  <2>3. run[w].job \in Jobs
    BY <2>2 DEF TypeOK, RunType, RunConsistent
  <2>4. m.body.status = "error" /\ DOMAIN m.body.axes # {} =>
          scans[m.job].retries >= MAX_RETRIES
    BY <2>1, <2>2 DEF UnavailableInv, Unavailable
  <2> HIDE DEF m
  <2> QED
    BY <1>0, <1>1, <2>1, <2>2, <2>3, <2>4 DEF UnavailableOnlyWhenExhausted
<1>4. CASE UNCHANGED hooks
  BY <1>0, <1>1, <1>4 DEF UnavailableOnlyWhenExhausted
<1> QED
  BY <1>2, <1>3, <1>4
     DEF Next, WebStep, PickStep, DeliverStep, Faults, ScanStep, Expire, RefuseJob, SendTask,
         SeedPending, SendTaskFails, WebCrash, Pick, TryFails, FetchOk, OpenFile, WriteOk,
         ScanReturns, Finally, Decide, RecordResult, Exit, SendWebhookFails, Interrupt,
         InterruptFinally, WorkerCrash

-----------------------------------------------------------------------------
(* No file leaks.                                                          *)

\* An attempt that has its file keeps it until the finally clause.
LEMMA HoldsBody ==
    ASSUME TypeOK, NEW w \in Workers, BodyStep(w), HoldsFile(w)
    PROVE  HoldsFile(w)' \/ Finally(w) \/ InterruptFinally(w)
<1> USE DEF TypeOK, RunType, RunRecord, HoldsFile
<1>1. ASSUME NEW exc \in Exceptions, TryFails(w, exc) PROVE HoldsFile(w)'
  <2>1. \/ \E kind \in {"file", "transient"} : ReportError(w, kind)
        \/ Raise(w, "exception")
    BY <1>1 DEF TryFails, Handle, Exceptions, PermanentErrors
  <2>2. ASSUME NEW kind \in {"file", "transient"}, ReportError(w, kind) PROVE HoldsFile(w)'
    <3> DEFINE q == Payload("error", kind, NoVerdicts)
    <3>1. run' = [run EXCEPT ![w] = [@ EXCEPT !.pc = "record", !.handler = TRUE, !.payload = q]]
      BY <2>2 DEF ReportError
    <3> HIDE DEF q
    <3> QED
      BY <3>1
  <2>3. ASSUME Raise(w, "exception") PROVE HoldsFile(w)'
    BY <2>3 DEF Raise
  <2> QED
    BY <2>1, <2>2, <2>3
<1>2. CASE FetchOk(w) \/ OpenFile(w) \/ WriteOk(w)
  BY <1>2 DEF FetchOk, OpenFile, WriteOk, Goto
<1>3. ASSUME NEW rs \in Reports, ScanReturns(w, rs) PROVE HoldsFile(w)'
  BY <1>3 DEF ScanReturns
<1>4. CASE Decide(w)
  BY <1>4 DEF Decide
<1>5. CASE RecordResult(w)
  BY <1>5 DEF RecordResult, Goto
<1>6. CASE SendWebhook(w) \/ SendWebhookFails(w)
  <2>1. run[w].pc = "send"
    BY <1>6 DEF SendWebhook, SendWebhookFails
  <2>2. AfterFinalize(w) = "finally"
    BY <2>1 DEF AfterFinalize
  <2>3. CASE SendWebhook(w)
    BY <2>2, <2>3 DEF SendWebhook, Goto
  <2>4. CASE SendWebhookFails(w)
    BY <2>2, <2>4 DEF SendWebhookFails
  <2> QED
    BY <1>6, <2>3, <2>4
<1>7. CASE Interrupt(w)
  <2>1. InTry(w)
    BY <1>7 DEF Interrupt, InTry
  <2>2. Raise(w, "interrupt")
    BY <1>7, <2>1 DEF Interrupt
  <2>3. run'[w].pc = "finally"
    BY <2>2 DEF Raise
  <2> QED
    BY <2>3
<1> QED
  BY <1>1, <1>2, <1>3, <1>4, <1>5, <1>6, <1>7 DEF BodyStep, ScanStep

\* Every step keeps NoFileLeaks.
LEMMA FileStep ==
    ASSUME TypeOK, ClaimInv, NoFileLeaks, Next
    PROVE  NoFileLeaks'
<1>0. \A f \in files : f \in uncleaned \/
          \E v \in Workers : HoldsFile(v) /\ f = <<run[v].job, run[v].n>>
  BY DEF NoFileLeaks
<1>a. ASSUME \A f \in files' : f \in uncleaned' \/
                 \E v \in Workers : HoldsFile(v)' /\ f = <<run'[v].job, run'[v].n>>
      PROVE  NoFileLeaks'
  BY <1>a DEF NoFileLeaks
<1>1. ASSUME NEW w \in Workers, BodyStep(w) PROVE NoFileLeaks'
  <2>1. /\ run'[w].job = run[w].job /\ run'[w].n = run[w].n
        /\ \A v \in Workers : v # w => run'[v] = run[v]
    BY <1>1, BodyStepLocal
  <2>2. \A v \in Workers : v # w => (HoldsFile(v)' <=> HoldsFile(v))
    BY <2>1 DEF HoldsFile
  <2>3. CASE Finally(w)
    <3>1. files' = files \ {<<run[w].job, run[w].n>>} /\ UNCHANGED uncleaned
      BY <2>3 DEF Finally
    <3> QED
      BY <1>0, <1>a, <2>1, <2>2, <3>1
  <2>4. CASE OpenFile(w)
    <3>1. files' = files \cup {<<run[w].job, run[w].n>>} /\ HoldsFile(w)' /\ UNCHANGED uncleaned
      BY <2>4 DEF OpenFile, Goto, HoldsFile, TypeOK, RunType, RunRecord
    <3> QED
      BY <1>0, <1>a, <2>1, <2>2, <3>1
  <2>5. CASE InterruptFinally(w)
    <3>1. files' \subseteq files /\ uncleaned' = uncleaned \cup {<<run[w].job, run[w].n>>}
      BY <2>5 DEF InterruptFinally
    <3> QED
      BY <1>0, <1>a, <2>1, <2>2, <3>1
  <2>6. CASE ~ Finally(w) /\ ~ OpenFile(w) /\ ~ InterruptFinally(w)
    <3>1. UNCHANGED <<files, uncleaned>>
      BY <1>1, <2>6 DEF BodyStep, ScanStep, TryFails, FetchOk, WriteOk, ScanReturns, Decide,
         RecordResult, SendWebhook, SendWebhookFails, Interrupt
    <3>2. HoldsFile(w) => HoldsFile(w)'
      BY <1>1, <2>6, HoldsBody
    <3> QED
      BY <1>0, <1>a, <2>1, <2>2, <3>1, <3>2
  <2> QED
    BY <2>3, <2>4, <2>5, <2>6
<1>2. ASSUME NEW w \in Workers, Exit(w) \/ WorkerCrash(w) PROVE NoFileLeaks'
  <2>1. \A v \in Workers : v # w => run'[v] = run[v]
    BY <1>2, LeaveLocal
  <2>2. \A v \in Workers : v # w => (HoldsFile(v)' <=> HoldsFile(v))
    BY <2>1 DEF HoldsFile
  <2>3. UNCHANGED files /\ uncleaned \subseteq uncleaned'
        /\ (HoldsFile(w) => <<run[w].job, run[w].n>> \in uncleaned')
    BY <1>2 DEF Exit, WorkerCrash, HoldsFile
  <2> QED
    BY <1>0, <1>a, <2>1, <2>2, <2>3
<1>3. ASSUME NEW w \in Workers, NEW j \in Jobs, Pick(w, j) PROVE NoFileLeaks'
  <2>1. /\ ~ HoldsFile(w) /\ UNCHANGED <<files, uncleaned>>
        /\ \A v \in Workers : v # w => run'[v] = run[v] /\ (HoldsFile(v)' <=> HoldsFile(v))
    BY <1>3, PickLocal DEF HoldsFile
  <2> QED
    BY <1>0, <1>a, <2>1
<1>4. CASE UNCHANGED <<run, files, uncleaned>>
  BY <1>4 DEF NoFileLeaks, HoldsFile
<1> QED
  BY <1>1, <1>2, <1>3, <1>4
     DEF Next, WebStep, PickStep, DeliverStep, Faults, BodyStep, Deliver, DeliverCrash, Expire,
         RefuseJob, SendTask, SeedPending, SendTaskFails, WebCrash

-----------------------------------------------------------------------------
(* The delivery budget.                                                    *)

\* Faults are only counted up.
LEMMA FaultsGrow ==
    ASSUME TypeOK, Next, NEW j \in Jobs
    PROVE  faults'[j] \in Nat /\ faults[j] \in Nat /\ faults'[j] >= faults[j]
<1>1. faults \in [Jobs -> Nat]
  BY DEF TypeOK, JobType
<1>2. ASSUME NEW k, Fault(k) PROVE faults'[j] \in Nat /\ faults'[j] >= faults[j]
  BY <1>1, <1>2 DEF Fault
<1>3. UNCHANGED faults \/ \E k : Fault(k)
  BY DEF Next, WebStep, PickStep, DeliverStep, Faults, ScanStep, Expire, RefuseJob, SendTask,
         SeedPending, SendTaskFails, WebCrash, Pick, TryFails, FetchOk, OpenFile, WriteOk,
         ScanReturns, Finally, Decide, RecordResult, SendWebhook, Exit, SendWebhookFails,
         Interrupt, InterruptFinally, WorkerCrash, Deliver, DeliverCrash
<1> QED
  BY <1>1, <1>2, <1>3

\* What HookInv and DeliveryBudget say of one message, with f faults.
MessageOK(m, f) ==
    /\ m.st = "queued" => m.retries <= m.tries /\ m.tries <= m.retries + f
    /\ m.tries <= m.retries + 1 + f
    /\ m.st = "dead" => m.tries > WEBHOOK_MAX_ATTEMPTS

\* More faults allow more.
LEMMA MessageMore ==
    ASSUME NEW m \in HookRecord, NEW f \in Nat, NEW g \in Nat, g >= f, MessageOK(m, f)
    PROVE  MessageOK(m, g)
  BY BudgetAssumption DEF MessageOK, HookRecord

\* A delivery keeps the message within its budget.
LEMMA DeliverMessage ==
    ASSUME NEW m \in HookRecord, NEW f \in Nat, NEW answer \in Answers, m.st = "queued",
           MessageOK(m, f)
    PROVE  MessageOK(AfterPost(m, answer), f)
<1> DEFINE p == Posted(m, answer)
<1>1. /\ p \in HookRecord /\ p.retries = m.retries
      /\ p.tries \in {m.tries, m.tries + 1}
  BY PostedType
<1>2. Raises(answer) => p.tries = m.tries + 1
  BY DEF Raises, Posted, HookRecord
<1>3. m.retries <= m.tries /\ m.tries <= m.retries + f
  BY DEF MessageOK
<1>4. CASE ~ Raises(answer)
  <2>1. AfterPost(m, answer) = [p EXCEPT !.st = "done"]
    BY <1>4 DEF AfterPost
  <2> HIDE DEF p
  <2>2. /\ AfterPost(m, answer).st = "done" /\ AfterPost(m, answer).retries = p.retries
        /\ AfterPost(m, answer).tries = p.tries
    BY <1>1, <2>1 DEF HookRecord
  <2> QED
    BY <1>1, <1>3, <2>2, BudgetAssumption DEF MessageOK, HookRecord
<1>5. CASE Raises(answer) /\ m.retries < WEBHOOK_MAX_ATTEMPTS
  <2>1. AfterPost(m, answer) = [p EXCEPT !.retries = p.retries + 1]
    BY <1>5 DEF AfterPost
  <2>2. p.st = m.st
    BY DEF Posted, HookRecord
  <2> HIDE DEF p
  <2>3. /\ AfterPost(m, answer).st = "queued" /\ AfterPost(m, answer).retries = p.retries + 1
        /\ AfterPost(m, answer).tries = p.tries
    BY <1>1, <2>1, <2>2 DEF HookRecord
  <2> QED
    BY <1>1, <1>2, <1>3, <1>5, <2>3, BudgetAssumption DEF MessageOK, HookRecord
<1>6. CASE Raises(answer) /\ ~ (m.retries < WEBHOOK_MAX_ATTEMPTS)
  <2>1. AfterPost(m, answer) = [p EXCEPT !.st = "dead"]
    BY <1>6 DEF AfterPost
  <2> HIDE DEF p
  <2>2. /\ AfterPost(m, answer).st = "dead" /\ AfterPost(m, answer).retries = p.retries
        /\ AfterPost(m, answer).tries = p.tries
    BY <1>1, <2>1 DEF HookRecord
  <2> QED
    BY <1>1, <1>2, <1>3, <1>6, <2>2, BudgetAssumption DEF MessageOK, HookRecord
<1> QED
  BY <1>4, <1>5, <1>6

\* A delivery whose worker dies is paid for by the fault.
LEMMA CrashMessage ==
    ASSUME NEW m \in HookRecord, NEW f \in Nat, NEW answer, m.st = "queued", MessageOK(m, f)
    PROVE  MessageOK(Posted(m, answer), f + 1)
<1> DEFINE p == Posted(m, answer)
<1>1. /\ p \in HookRecord /\ p.retries = m.retries
      /\ p.tries \in {m.tries, m.tries + 1}
  BY PostedType
<1>2. p.st = m.st
  BY DEF Posted, HookRecord
<1> HIDE DEF p
<1>3. MessageOK(p, f + 1)
  BY <1>1, <1>2, BudgetAssumption DEF MessageOK, HookRecord
<1> QED
  BY <1>3 DEF p

\* Every step keeps HookInv and DeliveryBudget.
LEMMA BudgetStep ==
    ASSUME TypeOK, HookInv, DeliveryBudget, Next
    PROVE  HookInv' /\ DeliveryBudget'
<1>1. \A m \in hooks : m \in HookRecord /\ m.job \in Jobs /\ MessageOK(m, faults[m.job])
  BY DEF HookInv, DeliveryBudget, MessageOK, TypeOK, HookType, HookRecord
<1>2. \A m \in hooks : MessageOK(m, faults'[m.job])
  BY <1>1, FaultsGrow, MessageMore
<1>3. ASSUME \A m \in hooks' : MessageOK(m, faults'[m.job]) PROVE HookInv' /\ DeliveryBudget'
  BY <1>3 DEF HookInv, DeliveryBudget, MessageOK
<1>4. ASSUME NEW m \in hooks, NEW answer \in Answers, Deliver(m, answer)
      PROVE  HookInv' /\ DeliveryBudget'
  <2>1. MessageOK(AfterPost(m, answer), faults[m.job]) /\ AfterPost(m, answer).job = m.job
    BY <1>1, <1>4, DeliverMessage, AfterPostType, FaultsGrow DEF Deliver
  <2>2. UNCHANGED faults /\ hooks' = (hooks \ {m}) \cup {AfterPost(m, answer)}
    BY <1>4 DEF Deliver
  <2> QED
    BY <1>2, <1>3, <2>1, <2>2
<1>5. ASSUME NEW m \in hooks, NEW answer \in Answers, DeliverCrash(m, answer)
      PROVE  HookInv' /\ DeliveryBudget'
  <2>1. MessageOK(Posted(m, answer), faults[m.job] + 1) /\ Posted(m, answer).job = m.job
    BY <1>1, <1>5, CrashMessage, PostedType, FaultsGrow DEF DeliverCrash
  <2>2. /\ faults'[m.job] = faults[m.job] + 1
        /\ hooks' = (hooks \ {m}) \cup {Posted(m, answer)}
    BY <1>1, <1>5 DEF DeliverCrash, Fault, TypeOK, JobType
  <2> QED
    BY <1>2, <1>3, <2>1, <2>2
<1>6. ASSUME NEW w \in Workers, SendWebhook(w) PROVE HookInv' /\ DeliveryBudget'
  <2> DEFINE m == HookMessage(w)
  <2>1. m.retries = 0 /\ m.tries = 0 /\ m.st = "queued" /\ m.job = run[w].job
    BY DEF HookMessage
  <2>2. hooks' \subseteq hooks \cup {m} /\ m.job \in Jobs
    BY <1>6, <2>1 DEF SendWebhook, TypeOK, RunType, RunConsistent
  <2>3. faults'[m.job] \in Nat
    BY <2>2, FaultsGrow
  <2> HIDE DEF m
  <2>4. MessageOK(m, faults'[m.job])
    BY <2>1, <2>3 DEF MessageOK
  <2> QED
    BY <1>2, <1>3, <2>2, <2>4
<1>7. CASE UNCHANGED hooks
  BY <1>2, <1>3, <1>7
<1> QED
  BY <1>4, <1>5, <1>6, <1>7
     DEF Next, WebStep, PickStep, DeliverStep, Faults, ScanStep, Expire, RefuseJob, SendTask,
         SeedPending, SendTaskFails, WebCrash, Pick, TryFails, FetchOk, OpenFile, WriteOk,
         ScanReturns, Finally, Decide, RecordResult, Exit, SendWebhookFails, Interrupt,
         InterruptFinally, WorkerCrash

-----------------------------------------------------------------------------
(* The theorems.                                                           *)

\* The inductive invariant holds initially.
LEMMA InitInv == Init => IInv
<1> SUFFICES ASSUME Init PROVE IInv
  OBVIOUS
<1>1. \A w \in Workers : run[w].pc = "idle" /\ run[w].raised = "none"
  BY DEF Init, Idle
<1>2. \A j \in Jobs : scans[j].st = "none"
  BY DEF Init
<1>3. hooks = {} /\ files = {}
  BY DEF Init
<1> QED
  BY <1>1, <1>2, <1>3, InitType DEF IInv, ClaimInv, WebInv, AttemptInv, RaiseInv,
     ReportInv, UnavailableInv, HookInv, AckedIsReported, OnlyFaultsDeadLetter,
     UnavailableOnlyWhenExhausted, NoFileLeaks, DeliveryBudget, Busy, Finalized

\* Every step, or none, keeps the inductive invariant.
LEMMA NextInv == IInv /\ [Next]_vars => IInv'
<1> SUFFICES ASSUME IInv, [Next]_vars PROVE IInv'
  OBVIOUS
<1>0. TypeOK'
  BY NextType DEF IInv
<1>1. CASE Next
  BY <1>0, <1>1, OverlapStep, RaiseStep, ReportStep, DeadLetterStep, UnavailableStep,
     UnavailableHookStep, FileStep, BudgetStep DEF IInv
<1>2. CASE UNCHANGED vars
  BY <1>0, <1>2 DEF IInv, vars, ClaimInv, WebInv, AttemptInv, RaiseInv, ReportInv,
     UnavailableInv, HookInv, AckedIsReported, OnlyFaultsDeadLetter,
     UnavailableOnlyWhenExhausted, NoFileLeaks, DeliveryBudget, Busy, Finalized, HoldsFile
<1> QED
  BY <1>1, <1>2

\* The inductive invariant is an invariant.
LEMMA Invariant == Spec => []IInv
  BY InitInv, NextInv, PTL DEF Spec

\* A job whose scan message is acknowledged has had the webhook of its last
\* attempt enqueued (_finalize), whatever was raised, retried or redelivered.
THEOREM Reporting == Spec => []AckedIsReported
<1>1. IInv => AckedIsReported
  BY DEF IInv
<1> QED
  BY <1>1, Invariant, PTL

\* For any MAX_RETRIES, the retry budget of scan_task and the one of the queue
\* agree: no failing backend or unexpected exception dead-letters a scan.
THEOREM DeadLettering == Spec => []OnlyFaultsDeadLetter
<1>1. IInv => OnlyFaultsDeadLetter
  BY DEF IInv
<1> QED
  BY <1>1, Invariant, PTL

\* For any MAX_RETRIES and any reports, "all scanners failed" is said only once
\* the retries of the job are spent.
THEOREM Unavailability == Spec => []UnavailableOnlyWhenExhausted
<1>1. IInv => UnavailableOnlyWhenExhausted
  BY DEF IInv
<1> QED
  BY <1>1, Invariant, PTL

\* No exception, retry or interruption leaves a temporary file behind.
THEOREM FilesRemoved == Spec => []NoFileLeaks
<1>1. IInv => NoFileLeaks
  BY DEF IInv
<1> QED
  BY <1>1, Invariant, PTL

\* For any WEBHOOK_MAX_ATTEMPTS, a webhook is posted at most once more than it
\* was retried, plus once per crash, and given up only with its budget spent.
THEOREM Delivery == Spec => []DeliveryBudget
<1>1. IInv => DeliveryBudget
  BY DEF IInv
<1> QED
  BY <1>1, Invariant, PTL
-----------------------------------------------------------------------------
(***************************************************************************)
(* AsyncScan implements JobContract.  On top of IInv the mapping needs     *)
(* CInv: each attempt has at most one message in the webhooks queue, and   *)
(* the messages of a job are paid for by its faults, except the one of the *)
(* attempt that succeeds.                                                  *)
(***************************************************************************)


\* A request that was refused or could not be queued has no message.
RefusedInv == \A j \in Jobs : web[j] \in {"refused", "failed"} => scans[j].st = "none"

\* An attempt has one message in the webhooks queue, counted once.
MessageInv ==
    /\ IsFiniteSet(hooks)
    /\ \A m \in hooks : m.n <= attempts[m.job]
    /\ \A m1, m2 \in hooks : m1.job = m2.job /\ m1.n = m2.n => m1 = m2

\* An attempt that is still on its way to _finalize has enqueued nothing.
Unsent(w) == Busy(w) /\ run[w].raised = "none" /\ ~ Finalized(w)

UnsentInv == \A w \in Workers : Unsent(w) => ~ Reported(hooks, run[w].job, run[w].n)

\* Every notice but the one of the attempt that succeeds is paid for by a fault.
Succeeded(j) ==
    \/ scans[j].st = "acked"
    \/ \E w \in Workers : Finalized(w) /\ run[w].job = j

ToldInv ==
    \A j \in Jobs : Told(j) <= faults[j] \/ (Succeeded(j) /\ Told(j) = faults[j] + 1)

\* A task that ends in a refused send or an interruption has met a fault.
CauseInv ==
    \A w \in Workers : run[w].raised \in {"send", "interrupt"} => faults[run[w].job] > 0

CInv == RefusedInv /\ MessageInv /\ UnsentInv /\ ToldInv /\ CauseInv

-----------------------------------------------------------------------------
(* Counting the notices of a job.                                          *)

\* A new message is one more notice for its job, and none for the others.
LEMMA ToldAdd ==
    ASSUME IsFiniteSet(hooks), NEW x, x \notin hooks, hooks' = hooks \cup {x}
    PROVE  /\ IsFiniteSet(hooks)'
           /\ Told(x.job)' = Told(x.job) + 1
           /\ \A j : j # x.job => Told(j)' = Told(j)
<1>1. IsFiniteSet(hooks')
  BY FS_AddElement
<1>2. Told(x.job)' = Told(x.job) + 1
  <2> DEFINE S == {m \in hooks : m.job = x.job}
  <2>1. IsFiniteSet(S) /\ x \notin S
    BY FS_Subset
  <2>2. {m \in hooks' : m.job = x.job} = S \cup {x}
    OBVIOUS
  <2>3. Cardinality(S \cup {x}) = Cardinality(S) + 1
    BY <2>1, FS_AddElement
  <2> QED
    BY <2>2, <2>3 DEF Told
<1>3. ASSUME NEW j, j # x.job PROVE Told(j)' = Told(j)
  <2>1. {m \in hooks' : m.job = j} = {m \in hooks : m.job = j}
    BY <1>3
  <2> QED
    BY <2>1 DEF Told
<1> QED
  BY <1>1, <1>2, <1>3

\* Replacing a message by another one of the same job changes no count.
LEMMA ToldSwap ==
    ASSUME IsFiniteSet(hooks), NEW m \in hooks, NEW x, x.job = m.job, x \notin hooks \ {m},
           hooks' = (hooks \ {m}) \cup {x}
    PROVE  IsFiniteSet(hooks)' /\ \A j : Told(j)' = Told(j)
<1>1. IsFiniteSet(hooks \ {m})
  BY FS_RemoveElement
<1>2. IsFiniteSet(hooks')
  BY <1>1, FS_AddElement
<1>3. ASSUME NEW j, j # m.job PROVE Told(j)' = Told(j)
  <2>1. {h \in hooks' : h.job = j} = {h \in hooks : h.job = j}
    BY <1>3
  <2> QED
    BY <2>1 DEF Told
<1>4. Told(m.job)' = Told(m.job)
  <2> DEFINE S == {h \in hooks : h.job = m.job}
  <2>1. IsFiniteSet(S) /\ m \in S
    BY FS_Subset
  <2>2. /\ IsFiniteSet(S \ {m})
        /\ Cardinality(S \ {m}) = Cardinality(S) - 1
    BY <2>1, FS_RemoveElement
  <2>3. Cardinality((S \ {m}) \cup {x}) = Cardinality(S \ {m}) + 1
    BY <2>2, FS_AddElement
  <2>4. {h \in hooks' : h.job = m.job} = (S \ {m}) \cup {x}
    OBVIOUS
  <2>5. Cardinality(S) \in Nat
    BY <2>1, FS_CardinalityType
  <2> HIDE DEF S
  <2>6. Cardinality((S \ {m}) \cup {x}) = Cardinality(S)
    BY <2>2, <2>3, <2>5
  <2> QED
    BY <2>4, <2>6 DEF Told, S
<1> QED
  BY <1>2, <1>3, <1>4

\* A count is a number, positive when there is a message.
LEMMA ToldType ==
    ASSUME IsFiniteSet(hooks), NEW j
    PROVE  /\ Told(j) \in Nat
           /\ (\E m \in hooks : m.job = j) => Told(j) > 0
<1> DEFINE S == {m \in hooks : m.job = j}
<1>1. IsFiniteSet(S) /\ Cardinality(S) \in Nat
  BY FS_Subset, FS_CardinalityType
<1>2. Cardinality(S) = 0 <=> S = {}
  BY <1>1, FS_EmptySet
<1>3. (\E m \in hooks : m.job = j) => S # {}
  OBVIOUS
<1> HIDE DEF S
<1>4. (\E m \in hooks : m.job = j) => Cardinality(S) > 0
  BY <1>1, <1>2, <1>3
<1> QED
  BY <1>1, <1>4 DEF Told, S

\* A delivery replaces the message by one of the same attempt, which the queue
\* did not hold.
LEMMA DeliverSwap ==
    ASSUME TypeOK, MessageInv, NEW m \in hooks, NEW answer,
           Deliver(m, answer) \/ DeliverCrash(m, answer)
    PROVE  \E x \in HookRecord :
              /\ hooks' = (hooks \ {m}) \cup {x} /\ x \notin hooks \ {m}
              /\ x.job = m.job /\ x.n = m.n
              /\ x.accepted \in {m.accepted, m.accepted + 1}
<1>1. m \in HookRecord
  BY DEF TypeOK, HookType
<1> DEFINE a == IF answer \in {"2xx", "lost"} THEN m.accepted + 1 ELSE m.accepted
           p == Posted(m, answer)
<1>2. p \in HookRecord /\ p.job = m.job /\ p.n = m.n
  BY <1>1, PostedType
<1>3. p.accepted \in {m.accepted, m.accepted + 1}
  BY <1>1 DEF Posted, HookRecord
<1>4. AfterPost(m, answer) \in HookRecord /\ AfterPost(m, answer).job = m.job
      /\ AfterPost(m, answer).n = m.n
  BY <1>1, AfterPostType
<1>5. AfterPost(m, answer).accepted = p.accepted
  <2>1. \/ AfterPost(m, answer) = [p EXCEPT !.st = "done"]
        \/ AfterPost(m, answer) = [p EXCEPT !.retries = p.retries + 1]
        \/ AfterPost(m, answer) = [p EXCEPT !.st = "dead"]
    BY DEF AfterPost
  <2> HIDE DEF p
  <2> QED
    BY <2>1, <1>2 DEF HookRecord
<1> HIDE DEF p
<1>6. PICK x \in {AfterPost(m, answer), p} : hooks' = (hooks \ {m}) \cup {x}
  BY DEF Deliver, DeliverCrash, p
<1>7. x \in HookRecord /\ x.job = m.job /\ x.n = m.n /\ x.accepted \in {m.accepted, m.accepted + 1}
  BY <1>2, <1>3, <1>4, <1>5, <1>6
<1>8. x \notin hooks \ {m}
  BY <1>7 DEF MessageInv
<1> QED
  BY <1>6, <1>7, <1>8

-----------------------------------------------------------------------------
(* The steps of the task body.                                             *)

\* Whatever it does before it hands the notice over, a step of the task body
\* neither sends nor forgets: an attempt that had succeeded stops being a success
\* only by a fault.
LEMMA BodyKinds ==
    ASSUME TypeOK, RaiseInv, NEW w \in Workers, BodyStep(w), ~ SendWebhook(w)
    PROVE  /\ UNCHANGED hooks
           /\ UNCHANGED faults \/ Fault(run[w].job)
           /\ Unsent(w)' => Unsent(w)
           /\ Finalized(w) /\ ~ Finalized(w)' => Fault(run[w].job)
           /\ run'[w].raised \in {"send", "interrupt"} =>
                 run[w].raised = run'[w].raised \/ Fault(run[w].job)
<1> USE DEF TypeOK, RunType, RunRecord
<1> DEFINE Goal == /\ UNCHANGED hooks
                   /\ UNCHANGED faults \/ Fault(run[w].job)
                   /\ Unsent(w)' => Unsent(w)
                   /\ Finalized(w) /\ ~ Finalized(w)' => Fault(run[w].job)
                   /\ run'[w].raised \in {"send", "interrupt"} =>
                         run[w].raised = run'[w].raised \/ Fault(run[w].job)
<1>0. run[w].pc \in {"fetch", "open", "write", "scan", "decide", "record", "send"}
          => Unsent(w) /\ ~ Finalized(w)
  BY DEF RaiseInv, Unsent, Busy, Finalized
<1>1. ASSUME NEW exc \in Exceptions, TryFails(w, exc) PROVE Goal
  <2>1. /\ run[w].pc \in {"fetch", "open", "write", "scan"}
        /\ UNCHANGED <<hooks, faults>>
    BY <1>1 DEF TryFails, CanRaise
  <2>2. (\E kind \in {"file", "transient"} : ReportError(w, kind)) \/ Raise(w, "exception")
    BY <1>1 DEF TryFails, Handle, Exceptions, PermanentErrors
  <2>3. ASSUME NEW kind \in {"file", "transient"}, ReportError(w, kind)
        PROVE  run'[w].raised = run[w].raised
    <3> DEFINE q == Payload("error", kind, NoVerdicts)
    <3>1. run' = [run EXCEPT ![w] = [@ EXCEPT !.pc = "record", !.handler = TRUE, !.payload = q]]
      BY <2>3 DEF ReportError
    <3> HIDE DEF q
    <3> QED
      BY <3>1
  <2>4. ASSUME Raise(w, "exception") PROVE run'[w].raised = "exception"
    BY <2>4 DEF Raise
  <2> QED
    BY <1>0, <2>1, <2>2, <2>3, <2>4
<1>2. CASE FetchOk(w) \/ OpenFile(w) \/ WriteOk(w) \/ RecordResult(w)
  <2>1. /\ run[w].pc \in {"fetch", "open", "write", "record"} /\ UNCHANGED <<hooks, faults>>
        /\ run'[w].raised = run[w].raised
    BY <1>2 DEF FetchOk, OpenFile, WriteOk, RecordResult, Goto
  <2> QED
    BY <1>0, <2>1
<1>3. ASSUME NEW rs \in Reports, ScanReturns(w, rs) PROVE Goal
  <2>1. run[w].pc = "scan" /\ UNCHANGED <<hooks, faults>> /\ run'[w].raised = run[w].raised
    BY <1>3 DEF ScanReturns
  <2> QED
    BY <1>0, <2>1
<1>4. CASE Finally(w)
  <2>1. /\ run[w].pc = "finally" /\ UNCHANGED <<hooks, faults>>
        /\ run'[w].raised = run[w].raised /\ run'[w].handler = run[w].handler
        /\ run'[w].pc = IF run[w].handler THEN "exit" ELSE "decide"
    BY <1>4 DEF Finally, Goto
  <2> QED
    BY <2>1 DEF Unsent, Finalized, Busy
<1>5. CASE Decide(w)
  <2> DEFINE q == ReportPayload(run[w].report)
  <2>1. \/ run' = [run EXCEPT ![w] = [@ EXCEPT !.pc = "exit", !.raised = "scanners"]]
        \/ run' = [run EXCEPT ![w] = [@ EXCEPT !.pc = "record", !.payload = q]]
    BY <1>5 DEF Decide
  <2> HIDE DEF q
  <2>2. run'[w].raised \in {"scanners", run[w].raised}
    BY <2>1
  <2>3. run[w].pc = "decide" /\ UNCHANGED <<hooks, faults>>
    BY <1>5 DEF Decide
  <2> QED
    BY <1>0, <2>2, <2>3
<1>6. CASE SendWebhookFails(w)
  <2>1. run[w].pc = "send" /\ UNCHANGED hooks /\ Fault(run[w].job)
    BY <1>6 DEF SendWebhookFails
  <2> QED
    BY <1>0, <2>1
<1>7. CASE Interrupt(w) \/ InterruptFinally(w)
  <2>1. UNCHANGED hooks /\ Fault(run[w].job) /\ run'[w].raised = "interrupt"
    BY <1>7 DEF Interrupt, InterruptFinally, Raise
  <2> QED
    BY <2>1 DEF Unsent
<1> QED
  BY <1>1, <1>2, <1>3, <1>4, <1>5, <1>6, <1>7 DEF BodyStep, ScanStep

\* SendWebhook ends the way of its attempt to _finalize.
LEMMA SendKinds ==
    ASSUME TypeOK, RaiseInv, NEW w \in Workers, SendWebhook(w)
    PROVE  /\ UNCHANGED faults
           /\ Unsent(w) /\ ~ Finalized(w) /\ ~ Unsent(w)' /\ Finalized(w)'
           /\ run'[w].raised = "none"
           /\ run[w].job \in Jobs
           /\ hooks' = IF args[run[w].job].webhook THEN hooks \cup {HookMessage(w)} ELSE hooks
           /\ HookMessage(w).job = run[w].job /\ HookMessage(w).n = run[w].n
           /\ HookMessage(w).accepted = 0
<1> USE DEF TypeOK, RunType, RunRecord
<1>1. run[w].pc = "send" /\ run[w].raised = "none" /\ run[w].job \in Jobs
  BY DEF SendWebhook, RaiseInv, RunConsistent
<1>2. AfterFinalize(w) = "exit" \/ (AfterFinalize(w) = "finally" /\ run[w].handler)
  BY DEF AfterFinalize
<1>3. /\ run'[w].raised = run[w].raised /\ run'[w].pc = AfterFinalize(w)
      /\ run'[w].handler = run[w].handler
  BY DEF SendWebhook, Goto
<1>4. Unsent(w) /\ ~ Finalized(w) /\ ~ Unsent(w)' /\ Finalized(w)'
  BY <1>1, <1>2, <1>3 DEF Unsent, Finalized, Busy
<1>5. /\ UNCHANGED faults
      /\ hooks' = IF args[run[w].job].webhook THEN hooks \cup {HookMessage(w)} ELSE hooks
  BY DEF SendWebhook
<1>6. /\ HookMessage(w).job = run[w].job /\ HookMessage(w).n = run[w].n
      /\ HookMessage(w).accepted = 0
  BY DEF HookMessage
<1> QED
  BY <1>1, <1>3, <1>4, <1>5, <1>6

-----------------------------------------------------------------------------
(* CInv is inductive, given IInv.                                          *)

\* Only a busy worker has succeeded or carries an exception.
LEMMA BusyFacts ==
    ASSUME IInv, NEW w \in Workers
    PROVE  /\ Finalized(w) => Busy(w)
           /\ run[w].raised # "none" => Busy(w)
           /\ Busy(w) => run[w].job \in Jobs /\ scans[run[w].job].st = "running"
           /\ Busy(w) => run[w].n = attempts[run[w].job]
  BY DEF IInv, Finalized, Busy, RaiseInv, ClaimInv, AttemptInv, TypeOK, RunType,
     RunConsistent

\* The notices stay paid for by a step that adds none and that lets a success be
\* forgotten only for a fault.
LEMMA ToldKept ==
    ASSUME TypeOK, MessageInv, ToldInv, Next,
           \A j \in Jobs : Told(j)' = Told(j),
           \A j \in Jobs : Succeeded(j) => Succeeded(j)' \/ faults'[j] > faults[j]
    PROVE  ToldInv'
<1> SUFFICES ASSUME NEW j \in Jobs
             PROVE  Told(j)' <= faults'[j] \/ (Succeeded(j)' /\ Told(j)' = faults'[j] + 1)
  BY DEF ToldInv
<1>1. faults'[j] \in Nat /\ faults[j] \in Nat /\ faults'[j] >= faults[j]
  BY FaultsGrow
<1>2. Told(j) \in Nat
  BY ToldType DEF MessageInv
<1>3. Told(j) <= faults[j] \/ (Succeeded(j) /\ Told(j) = faults[j] + 1)
  BY DEF ToldInv
<1> HIDE DEF Told
<1> QED
  BY <1>1, <1>2, <1>3

\* The fault of a step is counted for its job.
LEMMA FaultCounts ==
    ASSUME TypeOK, NEW j \in Jobs, Fault(j)
    PROVE  faults'[j] > faults[j] /\ faults'[j] > 0
  BY DEF Fault, TypeOK, JobType

\* With the queue of webhooks unchanged, the counts of notices are unchanged.
LEMMA ToldSame ==
    ASSUME UNCHANGED hooks
    PROVE  \A j : Told(j)' = Told(j) /\ (Heard(j)' <=> Heard(j))
  BY DEF Told, Heard

\* The steps of the task body before and after _finalize.
LEMMA BodyCInv ==
    ASSUME IInv, CInv, Next, NEW w \in Workers, BodyStep(w), ~ SendWebhook(w)
    PROVE  CInv'
<1>1. TypeOK /\ RaiseInv
  BY DEF IInv
<1>2. /\ UNCHANGED <<web, args, scans, attempts, hooks>> /\ run[w].pc # "idle"
      /\ run'[w].job = run[w].job /\ run'[w].n = run[w].n
      /\ \A v \in Workers : v # w => run'[v] = run[v]
  BY <1>1, BodyStepLocal, BodyKinds
<1>3. \A v \in Workers : v # w => (Finalized(v)' <=> Finalized(v)) /\ (Unsent(v)' <=> Unsent(v))
  BY <1>2 DEF Finalized, Unsent, Busy
<1>4. run[w].job \in Jobs
  BY <1>2, BusyFacts DEF Busy
<1>5. RefusedInv' /\ MessageInv'
  BY <1>2 DEF CInv, RefusedInv, MessageInv
<1>6. UnsentInv'
  BY <1>1, <1>2, <1>3, BodyKinds DEF CInv, UnsentInv, Reported
<1>7. ToldInv'
  <2>1. Finalized(w) => Finalized(w)' \/ faults'[run[w].job] > faults[run[w].job]
    BY <1>1, <1>4, BodyKinds, FaultCounts
  <2>2. \A j \in Jobs : Succeeded(j) => Succeeded(j)' \/ faults'[j] > faults[j]
    BY <1>2, <1>3, <2>1 DEF Succeeded
  <2> QED
    BY <1>1, <1>2, <2>2, ToldSame, ToldKept DEF CInv
<1>8. CauseInv'
  <2>1. \A v \in Workers : run[v].raised \in {"send", "interrupt"} => faults'[run[v].job] > 0
    BY <1>1, BusyFacts, FaultsGrow DEF CInv, CauseInv
  <2>2. run'[w].raised \in {"send", "interrupt"} => faults'[run[w].job] > 0
    BY <1>1, <1>4, <2>1, BodyKinds, FaultCounts
  <2> QED
    BY <1>2, <2>1, <2>2 DEF CauseInv
<1> QED
  BY <1>5, <1>6, <1>7, <1>8 DEF CInv

\* When an attempt hands its notice over, no other attempt of the job is at work
\* and none has succeeded: all the earlier notices are paid for.
LEMMA SendPaid ==
    ASSUME IInv, CInv, NEW w \in Workers, SendWebhook(w)
    PROVE  /\ scans[run[w].job].st = "running" /\ run[w].job \in Jobs
           /\ ~ Succeeded(run[w].job) /\ Told(run[w].job) <= faults[run[w].job]
           /\ HookMessage(w) \notin hooks
<1>1. /\ Unsent(w) /\ ~ Finalized(w) /\ run[w].job \in Jobs
      /\ HookMessage(w).job = run[w].job /\ HookMessage(w).n = run[w].n
  BY SendKinds DEF IInv
<1>2. Busy(w) /\ scans[run[w].job].st = "running"
  BY <1>1, BusyFacts DEF Unsent
<1>3. \A v \in Workers : Busy(v) /\ run[v].job = run[w].job => v = w
  BY <1>2 DEF IInv, ClaimInv
<1>4. ~ Succeeded(run[w].job)
  BY <1>1, <1>2, <1>3, BusyFacts DEF Succeeded
<1>5. ~ Reported(hooks, run[w].job, run[w].n)
  BY <1>1 DEF CInv, UnsentInv
<1>6. HookMessage(w) \notin hooks
  BY <1>1, <1>5 DEF Reported
<1> QED
  BY <1>1, <1>2, <1>4, <1>6 DEF CInv, ToldInv

\* The second half of _finalize.
LEMMA SendCInv ==
    ASSUME IInv, CInv, Next, NEW w \in Workers, SendWebhook(w)
    PROVE  CInv'
<1>1. TypeOK /\ RaiseInv
  BY DEF IInv
<1>j. PICK j \in Jobs : j = run[w].job
  BY <1>1, SendKinds
<1>x. PICK x : x = HookMessage(w)
  OBVIOUS
<1>2. /\ UNCHANGED faults /\ run'[w].raised = "none" /\ j \in Jobs
      /\ Unsent(w) /\ ~ Finalized(w) /\ ~ Unsent(w)' /\ Finalized(w)'
      /\ hooks' = IF args[j].webhook THEN hooks \cup {x} ELSE hooks
      /\ x.job = j /\ x.n = run[w].n
  BY <1>j, <1>x, <1>1, SendKinds
<1>3. /\ UNCHANGED <<web, args, scans, attempts>>
      /\ run'[w].job = run[w].job /\ run'[w].n = run[w].n
      /\ \A v \in Workers : v # w => run'[v] = run[v]
  <2>1. BodyStep(w)
    BY DEF BodyStep, ScanStep, SendWebhook, Exit
  <2> QED
    BY <1>1, <2>1, BodyStepLocal
<1>4. \A v \in Workers : v # w => (Finalized(v)' <=> Finalized(v)) /\ (Unsent(v)' <=> Unsent(v))
  BY <1>3 DEF Finalized, Unsent, Busy
<1>5. x \notin hooks /\ Told(j) <= faults[j]
  BY <1>j, <1>x, SendPaid
<1>6. Busy(w) /\ \A v \in Workers : Busy(v) /\ run[v].job = j => v = w
  BY <1>j, <1>2 DEF Unsent, IInv, ClaimInv
<1>7. ~ Reported(hooks, j, run[w].n) /\ run[w].n = attempts[j] /\ attempts[j] \in Nat
  BY <1>j, <1>1, <1>2, <1>6, BusyFacts DEF CInv, UnsentInv, TypeOK, JobType
<1>8. RefusedInv' /\ CauseInv'
  BY <1>2, <1>3 DEF CInv, RefusedInv, CauseInv
<1>9. CASE ~ args[j].webhook
  <2>1. UNCHANGED hooks
    BY <1>2, <1>9
  <2>2. MessageInv' /\ UnsentInv'
    BY <1>2, <1>3, <1>4, <2>1 DEF CInv, MessageInv, UnsentInv, Reported
  <2>3. \A k \in Jobs : Succeeded(k) => Succeeded(k)'
    BY <1>2, <1>3, <1>4 DEF Succeeded
  <2>4. ToldInv'
    BY <1>1, <2>1, <2>3, ToldSame, ToldKept DEF CInv
  <2> QED
    BY <1>8, <2>2, <2>4 DEF CInv
<1>10. CASE args[j].webhook
  <2>1. hooks' = hooks \cup {x}
    BY <1>2, <1>10
  <2>2. /\ IsFiniteSet(hooks)' /\ Told(j)' = Told(j) + 1
        /\ \A k : k # j => Told(k)' = Told(k)
    BY <1>2, <1>5, <2>1, ToldAdd DEF CInv, MessageInv
  <2>3. MessageInv'
    <3>1. \A m \in hooks : ~ (m.job = j /\ m.n = run[w].n)
      BY <1>7 DEF Reported
    <3>2. \A m \in hooks' : m.n <= attempts'[m.job]
      BY <1>2, <1>3, <1>7, <2>1 DEF CInv, MessageInv
    <3>3. \A m1, m2 \in hooks' : m1.job = m2.job /\ m1.n = m2.n => m1 = m2
      BY <1>2, <2>1, <3>1 DEF CInv, MessageInv
    <3> QED
      BY <2>2, <3>2, <3>3 DEF MessageInv
  <2>4. UnsentInv'
    <3>1. \A v \in Workers : v # w /\ Unsent(v) => run[v].job # j
      BY <1>6 DEF Unsent
    <3> QED
      BY <1>2, <1>3, <1>4, <2>1, <3>1 DEF CInv, UnsentInv, Reported
  <2>5. ToldInv'
    <3>1. Succeeded(j)'
      BY <1>j, <1>2, <1>3 DEF Succeeded
    <3>2. \A k \in Jobs : k # j => (Succeeded(k)' <=> Succeeded(k))
      BY <1>j, <1>2, <1>3, <1>4 DEF Succeeded
    <3>3. Told(j) \in Nat /\ faults[j] \in Nat
      BY <1>1, <1>2, ToldType DEF CInv, MessageInv, TypeOK, JobType
    <3>4. Told(j)' <= faults'[j] \/ (Succeeded(j)' /\ Told(j)' = faults'[j] + 1)
      BY <1>2, <1>5, <2>2, <3>1, <3>3
    <3>5. ASSUME NEW k \in Jobs, k # j
          PROVE  Told(k)' <= faults'[k] \/ (Succeeded(k)' /\ Told(k)' = faults'[k] + 1)
      BY <1>2, <2>2, <3>2, <3>5 DEF CInv, ToldInv
    <3> QED
      BY <3>4, <3>5 DEF ToldInv
  <2> QED
    BY <1>8, <2>3, <2>4, <2>5 DEF CInv
<1> QED
  BY <1>9, <1>10

\* The end of a task, and the death of its worker.
LEMMA LeaveCInv ==
    ASSUME IInv, CInv, Next, NEW w \in Workers, Exit(w) \/ WorkerCrash(w)
    PROVE  CInv'
<1>1. TypeOK /\ ClaimInv
  BY DEF IInv
<1>2. /\ UNCHANGED <<web, args, attempts, hooks>>
      /\ run'[w] = Idle /\ Busy(w) /\ run[w].job \in Jobs
      /\ \A v \in Workers : v # w => run'[v] = run[v]
      /\ \A k \in Jobs : k # run[w].job => scans'[k] = scans[k]
  BY <1>1, LeaveLocal DEF Busy
<1>3. /\ ~ Unsent(w)' /\ ~ Finalized(w)' /\ run'[w].raised = "none"
      /\ \A v \in Workers : v # w => (Finalized(v)' <=> Finalized(v)) /\ (Unsent(v)' <=> Unsent(v))
  BY <1>2 DEF Finalized, Unsent, Busy, Idle
<1>4. scans[run[w].job].st = "running"
  BY <1>2, BusyFacts
<1>5. RefusedInv'
  <2>1. web[run[w].job] \notin {"refused", "failed"}
    BY <1>2, <1>4 DEF CInv, RefusedInv
  <2> QED
    BY <1>2, <2>1 DEF CInv, RefusedInv
<1>6. MessageInv' /\ UnsentInv'
  BY <1>2, <1>3 DEF CInv, MessageInv, UnsentInv, Reported
<1>7. ToldInv'
  <2>1. Finalized(w) =>
           scans'[run[w].job].st = "acked" \/ faults'[run[w].job] > faults[run[w].job]
    <3>1. CASE WorkerCrash(w)
      BY <1>1, <1>2, <3>1, FaultCounts DEF WorkerCrash
    <3>2. CASE Exit(w)
      <4>1. scans[run[w].job] \in ScanRecord
        BY <1>1, <1>2 DEF TypeOK, JobType
      <4> QED
        BY <1>1, <1>2, <3>2, <4>1 DEF Exit, AfterTask, Finalized, TypeOK, JobType, ScanRecord
    <3> QED
      BY <3>1, <3>2
  <2>2. ASSUME NEW k \in Jobs, Succeeded(k) PROVE Succeeded(k)' \/ faults'[k] > faults[k]
    <3>1. CASE k = run[w].job
      <4>1. Finalized(w)
        BY <1>1, <1>2, <1>4, <2>2, <3>1, BusyFacts DEF Succeeded, ClaimInv
      <4> QED
        BY <2>1, <3>1, <4>1 DEF Succeeded
    <3>2. CASE k # run[w].job
      BY <1>2, <1>3, <2>2, <3>2 DEF Succeeded
    <3> QED
      BY <3>1, <3>2
  <2> QED
    BY <1>1, <1>2, <2>2, ToldSame, ToldKept DEF CInv
<1>8. CauseInv'
  <2>1. \A v \in Workers : run[v].raised \in {"send", "interrupt"} => faults'[run[v].job] > 0
    BY <1>1, BusyFacts, FaultsGrow DEF CInv, CauseInv
  <2> QED
    BY <1>2, <1>3, <2>1 DEF CauseInv
<1> QED
  BY <1>5, <1>6, <1>7, <1>8 DEF CInv

\* A new attempt has a number no message carries yet.
LEMMA PickCInv ==
    ASSUME IInv, CInv, Next, NEW w \in Workers, NEW j \in Jobs, Pick(w, j)
    PROVE  CInv'
<1>1. TypeOK
  BY DEF IInv
<1>2. /\ UNCHANGED <<web, args, hooks, faults>>
      /\ run[w].pc = "idle" /\ scans[j].st = "queued" /\ scans'[j].st = "running"
      /\ run'[w].raised = "none"
      /\ \A v \in Workers : v # w => run'[v] = run[v]
      /\ \A k \in Jobs : k # j => scans'[k] = scans[k] /\ attempts'[k] = attempts[k]
  BY <1>1, PickLocal
<1>3. /\ attempts[j] \in Nat /\ attempts'[j] = attempts[j] + 1
      /\ run'[w].job = j /\ run'[w].n = attempts[j] + 1
  BY <1>1 DEF Pick, Idle, TypeOK, JobType, RunType
<1>4. \A v \in Workers : v # w => (Finalized(v)' <=> Finalized(v)) /\ (Unsent(v)' <=> Unsent(v))
  BY <1>2 DEF Finalized, Unsent, Busy
<1>5. \A m \in hooks : m.job \in Jobs /\ m.n \in Nat
  BY <1>1 DEF TypeOK, HookType, HookRecord
<1>6. RefusedInv' /\ CauseInv'
  BY <1>2 DEF CInv, RefusedInv, CauseInv
<1>7. MessageInv'
  <2>1. ASSUME NEW m \in hooks PROVE m.n <= attempts'[m.job]
    <3>1. m.n <= attempts[m.job] /\ m.job \in Jobs /\ m.n \in Nat
      BY <1>5 DEF CInv, MessageInv
    <3> QED
      BY <1>2, <1>3, <3>1
  <2> QED
    BY <1>2, <2>1 DEF CInv, MessageInv
<1>8. UnsentInv'
  <2>1. \A m \in hooks : m.job = j => m.n <= attempts[j]
    BY DEF CInv, MessageInv
  <2>2. \A m \in hooks : m.job = j => m.n # attempts[j] + 1
    BY <1>3, <1>5, <2>1
  <2> QED
    BY <1>2, <1>3, <1>4, <2>2 DEF CInv, UnsentInv, Reported
<1>9. ToldInv'
  <2>1. \A v \in Workers : Finalized(v) => v # w /\ run[v].job # j
    BY <1>2, BusyFacts DEF Busy
  <2>2. \A k \in Jobs : Succeeded(k) => Succeeded(k)'
    BY <1>2, <1>4, <2>1 DEF Succeeded
  <2> QED
    BY <1>1, <1>2, <2>2, ToldSame, ToldKept DEF CInv
<1> QED
  BY <1>6, <1>7, <1>8, <1>9 DEF CInv

\* The steps of the web endpoint, and the expiry of a record.
LEMMA WebCInv ==
    ASSUME IInv, CInv, Next, NEW j \in Jobs,
           WebStep(j) \/ SendTaskFails(j) \/ WebCrash(j) \/ Expire(j)
    PROVE  CInv'
<1>1. TypeOK /\ WebInv
  BY DEF IInv
<1>2. UNCHANGED <<attempts, run, hooks>>
  BY DEF WebStep, RefuseJob, SendTask, SeedPending, SendTaskFails, WebCrash, Expire
<1>3. \A v \in Workers : (Finalized(v)' <=> Finalized(v)) /\ (Unsent(v)' <=> Unsent(v))
  BY <1>2 DEF Finalized, Unsent, Busy
<1>4. MessageInv' /\ UnsentInv'
  BY <1>2, <1>3 DEF CInv, MessageInv, UnsentInv, Reported
<1>5. CauseInv'
  BY <1>1, <1>2, BusyFacts, FaultsGrow DEF CInv, CauseInv
<1>6. \/ UNCHANGED scans /\ (web'[j] \in {"refused", "failed"} => scans[j].st = "none")
      \/ /\ scans[j].st = "none" /\ web'[j] = "sent"
         /\ \A k \in Jobs : k # j => scans'[k] = scans[k]
  BY <1>1 DEF WebStep, RefuseJob, SendTask, SeedPending, SendTaskFails, WebCrash, Expire, WebInv,
     TypeOK, JobType, CInv, RefusedInv
<1>7. \A k \in Jobs : k # j => web'[k] = web[k]
  BY <1>1 DEF WebStep, RefuseJob, SendTask, SeedPending, SendTaskFails, WebCrash, Expire,
     TypeOK, JobType
<1>8. RefusedInv'
  BY <1>6, <1>7 DEF CInv, RefusedInv
<1>9. ToldInv'
  <2>1. \A k \in Jobs : Succeeded(k) => Succeeded(k)'
    BY <1>2, <1>3, <1>6 DEF Succeeded
  <2> QED
    BY <1>1, <1>2, <2>1, ToldSame, ToldKept DEF CInv
<1> QED
  BY <1>4, <1>5, <1>8, <1>9 DEF CInv

\* A delivery, and the death of its worker.
LEMMA DeliverCInv ==
    ASSUME IInv, CInv, Next, NEW m \in hooks, NEW answer \in Answers,
           Deliver(m, answer) \/ DeliverCrash(m, answer)
    PROVE  CInv'
<1>1. TypeOK
  BY DEF IInv
<1>2. UNCHANGED <<web, args, scans, attempts, run>>
  BY DEF Deliver, DeliverCrash
<1>3. PICK x \in HookRecord :
          /\ hooks' = (hooks \ {m}) \cup {x} /\ x \notin hooks \ {m}
          /\ x.job = m.job /\ x.n = m.n
  BY <1>1, DeliverSwap DEF CInv
<1>4. IsFiniteSet(hooks)' /\ \A k : Told(k)' = Told(k)
  BY <1>3, ToldSwap DEF CInv, MessageInv
<1>5. \A v \in Workers : (Finalized(v)' <=> Finalized(v)) /\ (Unsent(v)' <=> Unsent(v))
  BY <1>2 DEF Finalized, Unsent, Busy
<1>6. RefusedInv'
  BY <1>2 DEF CInv, RefusedInv
<1>7. MessageInv'
  BY <1>2, <1>3, <1>4 DEF CInv, MessageInv
<1>8. UnsentInv'
  BY <1>2, <1>3, <1>5 DEF CInv, UnsentInv, Reported
<1>9. ToldInv'
  <2>1. \A k \in Jobs : Succeeded(k) => Succeeded(k)'
    BY <1>2, <1>5 DEF Succeeded
  <2> QED
    BY <1>1, <1>4, <2>1, ToldKept DEF CInv
<1>10. CauseInv'
  BY <1>1, <1>2, BusyFacts, FaultsGrow DEF CInv, CauseInv
<1> QED
  BY <1>6, <1>7, <1>8, <1>9, <1>10 DEF CInv

\* No job has been noticed initially.
LEMMA InitCInv == Init => CInv
<1> SUFFICES ASSUME Init PROVE CInv
  OBVIOUS
<1>1. hooks = {} /\ IsFiniteSet(hooks)
  BY FS_EmptySet DEF Init
<1>2. \A w \in Workers : run[w].pc = "idle" /\ run[w].raised = "none"
  BY DEF Init, Idle
<1>3. \A j \in Jobs : Told(j) = 0 /\ faults[j] = 0 /\ scans[j].st = "none"
  <2>1. \A j : {m \in hooks : m.job = j} = {}
    BY <1>1
  <2>2. \A j : Told(j) = 0
    BY <2>1, FS_EmptySet DEF Told
  <2> QED
    BY <2>2 DEF Init
<1> QED
  BY <1>1, <1>2, <1>3 DEF CInv, RefusedInv, MessageInv, UnsentInv, Unsent, Busy, ToldInv,
     CauseInv

\* Every step keeps CInv.
LEMMA NextCInv == IInv /\ CInv /\ [Next]_vars => CInv'
<1> SUFFICES ASSUME IInv, CInv, [Next]_vars PROVE CInv'
  OBVIOUS
<1>1. CASE UNCHANGED vars
  BY <1>1 DEF vars, CInv, RefusedInv, MessageInv, UnsentInv, Unsent, Busy, Finalized, Reported,
     ToldInv, Told, Succeeded, CauseInv
<1>2. ASSUME NEW w \in Workers, Next, BodyStep(w) PROVE CInv'
  BY <1>2, BodyCInv, SendCInv
<1>3. CASE Next
  BY <1>2, <1>3, LeaveCInv, PickCInv, WebCInv, DeliverCInv
     DEF Next, PickStep, DeliverStep, Faults, BodyStep
<1> QED
  BY <1>1, <1>3

\* The two invariants hold together.
LEMMA ContractInvariant == Spec => [](IInv /\ CInv)
  BY InitInv, NextInv, InitCInv, NextCInv, PTL DEF Spec

-----------------------------------------------------------------------------
(* Every step is a step of the contract, or invisible to it.               *)

\* The contract sees a job only through its phase, its option, its notices and
\* its faults.
LEMMA MapStutter ==
    ASSUME \A k \in Jobs : Phase(k)' = Phase(k), UNCHANGED <<args, faults, hooks>>
    PROVE  UNCHANGED Contract!vars
<1>1. \A k \in Jobs : Told(k)' = Told(k)
  BY ToldSame
<1>2. \A k \in Jobs : Heard(k)' = Heard(k)
  BY DEF Heard
<1> QED
  BY <1>1, <1>2 DEF Contract!vars

\* A fault that moves no message is a fault of the contract without any effect.
LEMMA MapFault ==
    ASSUME NEW j \in Jobs, Fault(j), \A k \in Jobs : Phase(k)' = Phase(k), UNCHANGED <<args, hooks>>
    PROVE  Contract!Fault(j)
<1>1. \A k \in Jobs : Told(k)' = Told(k)
  BY ToldSame
<1>2. \A k \in Jobs : Heard(k)' = Heard(k)
  BY DEF Heard
<1> QED
  BY <1>1, <1>2 DEF Contract!Fault, Fault

\* The phase of a job depends on its request and on its message only.
LEMMA PhaseSame ==
    ASSUME NEW k, web'[k] = web[k], scans'[k].st = scans[k].st
    PROVE  Phase(k)' = Phase(k)
  BY DEF Phase

\* A job whose message is queued or running is open.
LEMMA PhaseOpen ==
    ASSUME IInv, CInv, NEW k \in Jobs, scans[k].st \in {"queued", "running"}
    PROVE  Phase(k) = "open"
  BY DEF IInv, CInv, WebInv, RefusedInv, Phase

\* The web endpoint refuses or takes a job, or meets a fault; seeding the pending
\* record and the expiry of a record are invisible.
LEMMA WebRefines ==
    ASSUME IInv, CInv, NEW j \in Jobs, WebStep(j) \/ SendTaskFails(j) \/ WebCrash(j) \/ Expire(j)
    PROVE  [Contract!Next]_(Contract!vars)
<1>1. TypeOK /\ WebInv
  BY DEF IInv
<1>2. UNCHANGED hooks
  BY DEF WebStep, RefuseJob, SendTask, SeedPending, SendTaskFails, WebCrash, Expire
<1>3. \A k \in Jobs : Told(k)' = Told(k) /\ Heard(k)' = Heard(k)
  BY <1>2, ToldSame DEF Heard
<1>0. web[j] = "idle" => scans[j].st = "none"
  BY <1>1 DEF WebInv
<1>4. CASE RefuseJob(j)
  <2>1. Phase(j) = "none" /\ Phase(j)' = "refused" /\ UNCHANGED <<args, faults>>
    BY <1>0, <1>1, <1>4 DEF RefuseJob, Phase, TypeOK, JobType
  <2>2. \A k \in Jobs : k # j => Phase(k)' = Phase(k)
    BY <1>1, <1>4, PhaseSame DEF RefuseJob, TypeOK, JobType
  <2>3. Contract!Refuse(j)
    BY <1>3, <2>1, <2>2 DEF Contract!Refuse
  <2> QED
    BY <2>3 DEF Contract!Next
<1>5. ASSUME NEW a \in Submissions, SendTask(j, a) PROVE Contract!Next
  <2>1. Phase(j) = "none" /\ UNCHANGED faults
    BY <1>0, <1>5 DEF SendTask, Phase
  <2>2. Phase(j)' = "open"
    BY <1>1, <1>5 DEF SendTask, Phase, TypeOK, JobType, ScanRecord
  <2>3. \A k \in Jobs : k # j => Phase(k)' = Phase(k)
    BY <1>1, <1>5, PhaseSame DEF SendTask, TypeOK, JobType
  <2>4. args'[j].webhook \in BOOLEAN /\ \A k \in Jobs : k # j => args'[k] = args[k]
    BY <1>1, <1>5, SubmissionsAssumption DEF SendTask, TypeOK, JobType
  <2>5. Contract!Take(j)
    BY <1>3, <2>1, <2>2, <2>3, <2>4 DEF Contract!Take
  <2> QED
    BY <2>5 DEF Contract!Next
<1>6. CASE SeedPending(j)
  <2>1. \A k \in Jobs : Phase(k)' = Phase(k)
    BY <1>1, <1>6 DEF SeedPending, Phase, TypeOK, JobType
  <2>2. UNCHANGED <<args, faults>>
    BY <1>6 DEF SeedPending
  <2> QED
    BY <1>2, <2>1, <2>2, MapStutter
<1>7. CASE SendTaskFails(j)
  <2>1. Phase(j) = "none" /\ Phase(j)' = "refused" /\ UNCHANGED args
    BY <1>0, <1>1, <1>7 DEF SendTaskFails, Phase, TypeOK, JobType
  <2>2. \A k \in Jobs : k # j => Phase(k)' = Phase(k)
    BY <1>1, <1>7, PhaseSame DEF SendTaskFails, TypeOK, JobType
  <2>3. faults' = [faults EXCEPT ![j] = @ + 1]
    BY <1>7 DEF SendTaskFails, Fault
  <2>4. Contract!Fault(j)
    BY <1>3, <2>1, <2>2, <2>3 DEF Contract!Fault
  <2> QED
    BY <2>4 DEF Contract!Next
<1>8. CASE WebCrash(j)
  <2>1. \A k \in Jobs : Phase(k)' = Phase(k)
    BY <1>1, <1>8 DEF WebCrash, Phase, TypeOK, JobType
  <2>2. Fault(j) /\ UNCHANGED args
    BY <1>8 DEF WebCrash
  <2> QED
    BY <1>2, <2>1, <2>2, MapFault DEF Contract!Next
<1>9. CASE Expire(j)
  <2>1. UNCHANGED <<web, args, scans, faults>>
    BY <1>9 DEF Expire
  <2> QED
    BY <1>2, <2>1, PhaseSame, MapStutter
<1> QED
  BY <1>4, <1>5, <1>6, <1>7, <1>8, <1>9 DEF WebStep

\* In the task body, SendWebhook tells the caller; a refused send and an
\* interruption are faults; the rest is invisible.
LEMMA BodyRefines ==
    ASSUME IInv, CInv, NEW w \in Workers, BodyStep(w)
    PROVE  [Contract!Next]_(Contract!vars)
<1>1. TypeOK /\ RaiseInv
  BY DEF IInv
<1>2. UNCHANGED <<web, args, scans>> /\ run[w].pc # "idle"
  BY <1>1, BodyStepLocal
<1>3. \A k \in Jobs : Phase(k)' = Phase(k)
  BY <1>2, PhaseSame
<1>4. PICK j \in Jobs : j = run[w].job
  BY <1>1, <1>2 DEF TypeOK, RunType, RunConsistent
<1>5. CASE ~ SendWebhook(w)
  <2>1. UNCHANGED hooks /\ (UNCHANGED faults \/ Fault(j))
    BY <1>1, <1>4, <1>5, BodyKinds
  <2> QED
    BY <1>2, <1>3, <2>1, MapStutter, MapFault DEF Contract!Next
<1>6. CASE SendWebhook(w) /\ args[j].webhook
  <2>x. PICK x : x = HookMessage(w)
    OBVIOUS
  <2>1. /\ UNCHANGED faults /\ hooks' = hooks \cup {x} /\ x.job = j /\ x.accepted = 0
    BY <1>1, <1>4, <1>6, <2>x, SendKinds
  <2>2. x \notin hooks /\ Told(j) <= faults[j] /\ Phase(j) = "open"
    BY <1>4, <1>6, <2>x, SendPaid, PhaseOpen
  <2>3. Told(j)' = Told(j) + 1 /\ \A k : k # j => Told(k)' = Told(k)
    BY <2>1, <2>2, ToldAdd DEF CInv, MessageInv
  <2>4. \A k \in Jobs : Heard(k)' = Heard(k)
    BY <2>1 DEF Heard
  <2>5. Contract!Tell(j)
    BY <1>2, <1>3, <1>6, <2>1, <2>2, <2>3, <2>4 DEF Contract!Tell
  <2> QED
    BY <2>5 DEF Contract!Next
<1>7. CASE SendWebhook(w) /\ ~ args[j].webhook
  <2>1. UNCHANGED <<faults, hooks>>
    BY <1>1, <1>4, <1>7, SendKinds
  <2> QED
    BY <1>2, <1>3, <2>1, MapStutter
<1> QED
  BY <1>5, <1>6, <1>7

\* The end of a task leaves the job open for a retry, closes it with its notice
\* handed over, or abandons it after a fault.
LEMMA ExitRefines ==
    ASSUME IInv, CInv, NEW w \in Workers, Exit(w)
    PROVE  [Contract!Next]_(Contract!vars)
<1>1. TypeOK /\ ClaimInv /\ RaiseInv
  BY DEF IInv
<1>2. PICK j \in Jobs : j = run[w].job
  BY <1>1, LeaveLocal
<1>3. /\ UNCHANGED <<web, args, hooks, faults>> /\ Busy(w) /\ run[w].pc = "exit"
      /\ scans'[j] = AfterTask(scans[j], run[w].raised)
      /\ \A k \in Jobs : k # j => scans'[k] = scans[k]
  BY <1>1, <1>2 DEF Exit, Busy, TypeOK, JobType
<1>4. scans[j] \in ScanRecord /\ scans[j].st = "running" /\ run[w].raised \in Raisable
  BY <1>1, <1>2, <1>3, BusyFacts DEF TypeOK, JobType, RunType, RunRecord
<1>5. Phase(j) = "open"
  BY <1>4, PhaseOpen
<1>6. \A k \in Jobs : k # j => Phase(k)' = Phase(k)
  BY <1>3, PhaseSame
<1>7. \A k \in Jobs : Told(k)' = Told(k) /\ Heard(k)' = Heard(k)
  BY <1>3, ToldSame DEF Heard
<1>8. web[j] \notin {"idle", "refused", "failed"}
  BY <1>4 DEF IInv, CInv, WebInv, RefusedInv
<1>9. CASE scans'[j].st = "queued"
  <2>1. Phase(j)' = "open"
    BY <1>3, <1>8, <1>9 DEF Phase
  <2> QED
    BY <1>3, <1>5, <1>6, <2>1, MapStutter
<1>10. CASE scans'[j].st = "acked"
  <2>1. Phase(j)' = "closed"
    BY <1>3, <1>8, <1>10 DEF Phase
  <2>2. run[w].raised = "none"
    BY <1>3, <1>4, <1>10 DEF AfterTask, ScanRecord
  <2>3. args[j].webhook => Reported(hooks, j, run[w].n)
    BY <1>2, <1>3, <2>2 DEF IInv, ReportInv, Finalized
  <2>4. args[j].webhook => Told(j) > 0
    BY <2>3, ToldType DEF Reported, CInv, MessageInv
  <2>5. Contract!Close(j)
    BY <1>3, <1>5, <1>6, <1>7, <2>1, <2>4 DEF Contract!Close
  <2> QED
    BY <2>5 DEF Contract!Next
<1>11. CASE scans'[j].st = "dead"
  <2>1. Phase(j)' = "abandoned"
    BY <1>3, <1>8, <1>11 DEF Phase
  <2>2. run[w].raised # "none" /\ ~ (scans[j].retries < MAX_RETRIES)
    BY <1>3, <1>4, <1>11 DEF AfterTask, ScanRecord
  <2>3. run[w].raised \in {"send", "interrupt"}
    BY <1>1, <1>2, <1>4, <2>2 DEF RaiseInv, Raisable
  <2>4. faults[j] > 0
    BY <1>2, <2>3 DEF CInv, CauseInv
  <2>5. Contract!Abandon(j)
    BY <1>3, <1>5, <1>6, <1>7, <2>1, <2>4 DEF Contract!Abandon
  <2> QED
    BY <2>5 DEF Contract!Next
<1>12. scans'[j].st \in {"queued", "acked", "dead"}
  BY <1>3, <1>4 DEF AfterTask, ScanRecord
<1> QED
  BY <1>9, <1>10, <1>11, <1>12

\* Handing a message to a worker is invisible, and the death of the worker is a
\* fault: the job stays open.
LEMMA QueueRefines ==
    ASSUME IInv, CInv, NEW w \in Workers, WorkerCrash(w) \/ \E j \in Jobs : Pick(w, j)
    PROVE  [Contract!Next]_(Contract!vars)
<1>1. TypeOK /\ ClaimInv
  BY DEF IInv
<1>2. ASSUME NEW j \in Jobs, Pick(w, j) PROVE UNCHANGED Contract!vars
  <2>1. /\ UNCHANGED <<web, args, hooks, faults>> /\ scans[j].st = "queued"
        /\ scans'[j].st = "running" /\ \A k \in Jobs : k # j => scans'[k] = scans[k]
    BY <1>1, <1>2, PickLocal
  <2>2. \A k \in Jobs : Phase(k)' = Phase(k)
    BY <2>1 DEF Phase
  <2> QED
    BY <2>1, <2>2, MapStutter
<1>3. CASE WorkerCrash(w)
  <2>1. PICK j \in Jobs : j = run[w].job
    BY <1>1, <1>3, LeaveLocal
  <2>2. /\ UNCHANGED <<web, args, hooks>> /\ scans[j].st = "running" /\ scans'[j].st = "queued"
        /\ \A k \in Jobs : k # j => scans'[k] = scans[k]
    BY <1>1, <1>3, <2>1, LeaveLocal, BusyFacts
       DEF WorkerCrash, Busy, TypeOK, JobType, ScanRecord
  <2>3. \A k \in Jobs : Phase(k)' = Phase(k)
    BY <2>2 DEF Phase
  <2>4. Fault(j)
    BY <1>3, <2>1 DEF WorkerCrash
  <2>5. Contract!Fault(j)
    BY <2>2, <2>3, <2>4, MapFault
  <2> QED
    BY <2>5 DEF Contract!Next
<1> QED
  BY <1>2, <1>3

\* A delivery is heard or invisible; when its worker dies it is a fault, heard or
\* not.
LEMMA DeliverRefines ==
    ASSUME IInv, CInv, NEW m \in hooks, NEW answer \in Answers,
           Deliver(m, answer) \/ DeliverCrash(m, answer)
    PROVE  [Contract!Next]_(Contract!vars)
<1>1. TypeOK /\ MessageInv
  BY DEF IInv, CInv
<1>2. UNCHANGED <<web, args, scans>>
  BY DEF Deliver, DeliverCrash
<1>3. PICK x \in HookRecord :
          /\ hooks' = (hooks \ {m}) \cup {x} /\ x \notin hooks \ {m}
          /\ x.job = m.job /\ x.accepted \in {m.accepted, m.accepted + 1}
  BY <1>1, DeliverSwap
<1>4. PICK j \in Jobs : j = m.job
  BY <1>1 DEF TypeOK, HookType, HookRecord
<1>5. \A k \in Jobs : Told(k)' = Told(k) /\ Phase(k)' = Phase(k)
  BY <1>1, <1>2, <1>3, ToldSwap, PhaseSame DEF MessageInv
<1>6. Told(j) > 0
  BY <1>1, <1>4, ToldType DEF MessageInv
<1>7. \A k \in Jobs : k # j => Heard(k)' = Heard(k)
  BY <1>3, <1>4 DEF Heard
<1>8. Heard(j)' = Heard(j) \/ Heard(j)' = TRUE
  <2>1. ASSUME NEW h \in hooks, h.job = j, h.accepted > 0
        PROVE  \E g \in hooks' : g.job = j /\ g.accepted > 0
    <3>1. h.accepted \in Nat
      BY <1>1 DEF TypeOK, HookType, HookRecord
    <3>2. CASE h = m
      <4>1. x \in hooks' /\ x.job = j /\ x.accepted > 0
        BY <1>3, <1>4, <2>1, <3>1, <3>2
      <4> QED
        BY <4>1
    <3>3. CASE h # m
      BY <1>3, <2>1, <3>3
    <3> QED
      BY <3>2, <3>3
  <2>2. Heard(j) => Heard(j)'
    BY <2>1 DEF Heard
  <2> QED
    BY <2>2 DEF Heard
<1>9. CASE Deliver(m, answer)
  <2>1. UNCHANGED faults
    BY <1>9 DEF Deliver
  <2>2. CASE Heard(j)' = Heard(j)
    BY <1>2, <1>5, <1>7, <2>1, <2>2 DEF Contract!vars
  <2>3. CASE Heard(j)' = TRUE
    <3>1. Contract!Hear(j)
      BY <1>2, <1>5, <1>6, <1>7, <2>1, <2>3 DEF Contract!Hear
    <3> QED
      BY <3>1 DEF Contract!Next
  <2> QED
    BY <1>8, <2>2, <2>3
<1>10. CASE DeliverCrash(m, answer)
  <2>1. faults' = [faults EXCEPT ![j] = @ + 1]
    BY <1>4, <1>10 DEF DeliverCrash, Fault
  <2>2. Contract!Fault(j)
    BY <1>2, <1>5, <1>6, <1>7, <1>8, <2>1 DEF Contract!Fault
  <2> QED
    BY <2>2 DEF Contract!Next
<1> QED
  BY <1>9, <1>10

\* The initial state of the pipeline is the one of the contract.
LEMMA InitRefines == Init => Contract!Init
<1> SUFFICES ASSUME Init PROVE Contract!Init
  OBVIOUS
<1>1. hooks = {}
  BY DEF Init
<1>2. \A j \in Jobs : Phase(j) = "none" /\ args[j].webhook = FALSE
  BY DEF Init, Phase
<1>3. \A j \in Jobs : Told(j) = 0
  <2>1. \A j : {m \in hooks : m.job = j} = {}
    BY <1>1
  <2> QED
    BY <2>1, FS_EmptySet DEF Told
<1>4. \A j \in Jobs : Heard(j) = FALSE
  BY <1>1 DEF Heard
<1> QED
  BY <1>2, <1>3, <1>4 DEF Init, Contract!Init

\* Every step of the pipeline is a step of the contract or invisible to it.
LEMMA NextRefines == IInv /\ CInv /\ [Next]_vars => [Contract!Next]_(Contract!vars)
<1> SUFFICES ASSUME IInv, CInv, [Next]_vars PROVE [Contract!Next]_(Contract!vars)
  OBVIOUS
<1>1. CASE UNCHANGED vars
  BY <1>1, PhaseSame, MapStutter DEF vars
<1>2. CASE Next
  BY <1>2, WebRefines, BodyRefines, ExitRefines, QueueRefines, DeliverRefines
     DEF Next, PickStep, DeliverStep, Faults, BodyStep
<1> QED
  BY <1>1, <1>2

\* The asynchronous pipeline (scan_async, scan_task and deliver_webhook over the
\* retrying queue) implements the contract with the caller, whatever the number
\* of jobs, workers, retries and faults: a job is closed only with its notice
\* handed over, notified again only after a fault, abandoned only after one, and
\* never reopened.
THEOREM Refinement == Spec => ImplementsContract
<1>1. Init => Contract!Init
  BY InitRefines
<1>2. IInv /\ CInv /\ [Next]_vars => [Contract!Next]_(Contract!vars)
  BY NextRefines
<1> QED
  BY <1>1, <1>2, ContractInvariant, PTL DEF Spec, ImplementsContract, Contract!Spec
-----------------------------------------------------------------------------
(***************************************************************************)
(* What the caller is told.  First what an answer makes its caller do, in  *)
(* both versions; then DInv, which follows a report from the scanners to   *)
(* the store and to the webhook.                                           *)
(***************************************************************************)

\* Every terminal payload is such a payload.
LEMMA TerminalIsPlain ==
    ASSUME NEW p \in Terminal
    PROVE  WellFormed(p)
<1>1. CASE \E kind \in {"file", "transient"} : p = Payload("error", kind, NoVerdicts)
  BY <1>1 DEF WellFormed, Payload, NoVerdicts
<1>2. ASSUME NEW rs \in Reports, p = ReportPayload(rs) PROVE WellFormed(p)
  <2>1. \/ p.status = "done" /\ p.error_kind = "none"
        \/ p.status = "error" /\ p.error_kind = "transient"
    BY <1>2 DEF ReportPayload, Payload
  <2>2. p.verdicts = verdicts(rs)
    BY <1>2 DEF ReportPayload, Payload
  <2>3. ASSUME "malware" \in DOMAIN p.verdicts
        PROVE  p.verdicts["malware"].kind \in Kinds /\ p.verdicts["malware"].score = NoScore
    <3>1. "malware" \in CategoriesOf(rs) /\ p.verdicts["malware"] = verdict(rs, "malware")
      BY <2>2, <2>3 DEF verdicts
    <3>2. \E i \in by_category(rs, "malware") : ~ rs[i].scored
      BY <3>1, UnscoredAssumption DEF CategoriesOf, by_category
    <3>3. rs \in Seq(ScannerResult)
      BY ReportsAssumption
    <3>4. /\ VerdictIs(rs, "malware", verdict(rs, "malware"))
          /\ verdict(rs, "malware").score = NoScore
      BY <3>2, <3>3, DiscreteAxis
    <3> QED
      BY <3>1, <3>4, VerdictKind
  <2> QED
    BY <2>1, <2>3 DEF WellFormed
<1> QED
  BY <1>1, <1>2 DEF Terminal

\* A report with a detection is usable, and makes the caller block.
LEMMA MalwareBlocks ==
    ASSUME NEW rs \in Reports, FoundMalware(rs)
    PROVE  /\ ~ all_errored(rs)
           /\ \A version \in Versions : Caller(serialize(ReportPayload(rs), version)) = "block"
<1>1. ~ all_errored(rs)
  BY DEF FoundMalware, all_errored, detected, isDetection
<1>2. PICK p : p = ReportPayload(rs)
  OBVIOUS
<1>3. p.error_kind = "none" /\ p.verdicts = verdicts(rs)
  BY <1>1, <1>2 DEF ReportPayload, Payload
<1>4. "malware" \in CategoriesOf(rs) /\ verdict(rs, "malware").kind = "malware"
  <2>1. rs \in Seq(ScannerResult)
    BY ReportsAssumption
  <2>2. PICK i \in by_category(rs, "malware") : ~ rs[i].scored /\ rs[i].kind = "malware"
    BY DEF FoundMalware, by_category
  <2>3. "malware" \in CategoriesOf(rs)
    BY DEF FoundMalware, CategoriesOf
  <2>4. VerdictIs(rs, "malware", verdict(rs, "malware"))
    BY <2>1, <2>2, DiscreteAxis
  <2> QED
    BY <2>2, <2>3, <2>4, VerdictKind DEF Has
<1>5. Decision(p) = "block"
  BY <1>3, <1>4 DEF Decision, verdicts
<1>6. WellFormed(p)
  BY <1>2, TerminalIsPlain DEF Terminal
<1> QED
  BY <1>1, <1>2, <1>5, <1>6, CallerIs

-----------------------------------------------------------------------------
(* From the scanners to the webhook.                                       *)

\* An attempt that has a report is past the try statement, hands _finalize the
\* payload of that report, and does not ask for a retry when it holds a detection.
CarryInv ==
    \A w \in Workers : run[w].report # NoReport =>
        /\ run[w].pc \in {"finally", "decide", "record", "send", "exit"}
        /\ ~ run[w].handler
        /\ run[w].pc \in {"record", "send"} => run[w].payload = ReportPayload(run[w].report)
        /\ FoundMalware(run[w].report) => run[w].raised # "scanners"

\* An attempt with a detection has sent only bodies that make the caller block.
BlockInv ==
    \A w \in Workers : Busy(w) /\ FoundMalware(run[w].report) =>
        \A m \in hooks : m.job = run[w].job /\ m.n = run[w].n => Caller(m.body) = "block"

\* An attempt without a report has no detection.
LEMMA NothingFound == ~ FoundMalware(NoReport)
  BY DEF FoundMalware, NoReport

\* A step of the task body takes a report from the scanners or keeps the one it
\* has, and keeps CarryInv.
LEMMA CarryBody ==
    ASSUME TypeOK, RaiseInv, CarryInv, NEW w \in Workers, BodyStep(w)
    PROVE  /\ run'[w].report = run[w].report \/ run[w].pc = "scan"
           /\ run'[w].report # NoReport =>
                 /\ run'[w].pc \in {"finally", "decide", "record", "send", "exit"}
                 /\ ~ run'[w].handler
                 /\ run'[w].pc \in {"record", "send"}
                       => run'[w].payload = ReportPayload(run'[w].report)
                 /\ FoundMalware(run'[w].report) => run'[w].raised # "scanners"
<1> USE DEF TypeOK, RunType, RunRecord
<1>r. PICK r : r = run[w]
  OBVIOUS
<1>s. PICK s : s = run'[w]
  OBVIOUS
<1> DEFINE Goal == /\ s.report = r.report \/ r.pc = "scan"
                   /\ s.report # NoReport =>
                         /\ s.pc \in {"finally", "decide", "record", "send", "exit"}
                         /\ ~ s.handler
                         /\ s.pc \in {"record", "send"} => s.payload = ReportPayload(s.report)
                         /\ FoundMalware(s.report) => s.raised # "scanners"
<1> SUFFICES Goal
  BY <1>r, <1>s
<1>0. r \in RunRecord /\ run \in [Workers -> RunRecord]
  BY <1>r
<1>a. r.report # NoReport =>
         /\ r.pc \in {"finally", "decide", "record", "send", "exit"} /\ ~ r.handler
         /\ r.pc \in {"record", "send"} => r.payload = ReportPayload(r.report)
         /\ FoundMalware(r.report) => r.raised # "scanners"
  BY <1>r DEF CarryInv
<1>b. /\ r.raised # "none" => r.pc \in {"finally", "exit"}
      /\ r.pc = "finally" /\ r.raised # "none" => r.handler
      /\ r.pc \in {"fetch", "open", "write", "scan", "decide"} => ~ r.handler
  BY <1>r DEF RaiseInv
<1>1. ASSUME NEW exc \in Exceptions, TryFails(w, exc) PROVE Goal
  <2>1. r.report = NoReport
    BY <1>1, <1>a, <1>r DEF TryFails, CanRaise
  <2>2. (\E kind \in {"file", "transient"} : ReportError(w, kind)) \/ Raise(w, "exception")
    BY <1>1 DEF TryFails, Handle, Exceptions, PermanentErrors
  <2>3. ASSUME NEW kind \in {"file", "transient"}, ReportError(w, kind)
        PROVE  s.report = r.report
    <3> DEFINE q == Payload("error", kind, NoVerdicts)
    <3>1. run' = [run EXCEPT ![w] = [@ EXCEPT !.pc = "record", !.handler = TRUE, !.payload = q]]
      BY <2>3 DEF ReportError
    <3> HIDE DEF q
    <3> QED
      BY <3>1, <1>r, <1>s
  <2>4. ASSUME Raise(w, "exception") PROVE s.report = r.report
    BY <2>4, <1>r, <1>s DEF Raise
  <2> QED
    BY <2>1, <2>2, <2>3, <2>4
<1>2. CASE FetchOk(w) \/ OpenFile(w) \/ WriteOk(w)
  <2>1. r.pc \in {"fetch", "open", "write"} /\ s.report = r.report
    BY <1>2, <1>r, <1>s DEF FetchOk, OpenFile, WriteOk, Goto
  <2> QED
    BY <1>a, <2>1
<1>3. ASSUME NEW rs \in Reports, ScanReturns(w, rs) PROVE Goal
  <2>1. /\ r.pc = "scan" /\ s.pc = "finally" /\ s.handler = r.handler
        /\ s.raised = r.raised /\ s.report = rs
    BY <1>3, <1>r, <1>s DEF ScanReturns
  <2> QED
    BY <1>b, <2>1
<1>4. CASE Finally(w)
  <2>1. /\ s.pc \in {"exit", "decide"} /\ s.handler = r.handler /\ s.report = r.report
        /\ s.raised = r.raised
    BY <1>4, <1>r, <1>s DEF Finally, Goto
  <2> QED
    BY <1>a, <2>1
<1>5. CASE Decide(w)
  <2>1. PICK q : q = ReportPayload(r.report)
    OBVIOUS
  <2>2. r.pc = "decide" /\ r.report \in Reports
    BY <1>5, <1>r DEF Decide, RunConsistent
  <2>3. \/ all_errored(r.report)
           /\ run' = [run EXCEPT ![w] = [@ EXCEPT !.pc = "exit", !.raised = "scanners"]]
        \/ run' = [run EXCEPT ![w] = [@ EXCEPT !.pc = "record", !.payload = q]]
    BY <1>5, <1>r, <2>1 DEF Decide
  <2>4. CASE run' = [run EXCEPT ![w] = [@ EXCEPT !.pc = "record", !.payload = q]]
    <3>1. /\ s.pc = "record" /\ s.payload = q /\ s.report = r.report
          /\ s.handler = r.handler /\ s.raised = r.raised
      BY <2>4, <1>r, <1>s
    <3> QED
      BY <1>a, <2>1, <3>1
  <2>5. CASE all_errored(r.report)
             /\ run' = [run EXCEPT ![w] = [@ EXCEPT !.pc = "exit", !.raised = "scanners"]]
    <3>1. s.pc = "exit" /\ s.report = r.report /\ s.handler = r.handler
      BY <2>5, <1>r, <1>s
    <3>2. ~ FoundMalware(r.report)
      BY <2>2, <2>5, MalwareBlocks
    <3> QED
      BY <1>a, <3>1, <3>2
  <2> QED
    BY <2>3, <2>4, <2>5
<1>6. CASE RecordResult(w)
  <2>1. /\ r.pc = "record" /\ s.pc = "send" /\ s.handler = r.handler
        /\ s.report = r.report /\ s.raised = r.raised /\ s.payload = r.payload
    BY <1>6, <1>r, <1>s DEF RecordResult, Goto
  <2> QED
    BY <1>a, <2>1
<1>7. CASE SendWebhook(w) \/ SendWebhookFails(w)
  <2>1. AfterFinalize(w) \in {"finally", "exit"}
    BY DEF AfterFinalize
  <2>2. CASE SendWebhook(w)
    <3>1. /\ r.pc = "send" /\ s.pc \in {"finally", "exit"} /\ s.handler = r.handler
          /\ s.report = r.report /\ s.raised = r.raised
      BY <2>1, <2>2, <1>r, <1>s DEF SendWebhook, Goto
    <3> QED
      BY <1>a, <3>1
  <2>3. CASE SendWebhookFails(w)
    <3>1. /\ r.pc = "send" /\ s.pc \in {"finally", "exit"} /\ s.handler = r.handler
          /\ s.report = r.report /\ s.raised = "send"
      BY <2>1, <2>3, <1>r, <1>s DEF SendWebhookFails
    <3> QED
      BY <1>a, <3>1
  <2> QED
    BY <1>7, <2>2, <2>3
<1>8. CASE Interrupt(w)
  <2>1. CASE InTry(w)
    <3>1. s.report = r.report
      BY <1>8, <2>1, <1>r, <1>s DEF Interrupt, Raise
    <3>2. r.pc \in {"fetch", "open", "write", "scan"} \/ r.handler
      BY <2>1, <1>r DEF InTry
    <3>3. r.report = NoReport
      BY <1>a, <3>2
    <3> QED
      BY <3>1, <3>3
  <2>2. CASE ~ InTry(w)
    <3>0. run' = [run EXCEPT ![w] = [@ EXCEPT !.pc = "exit", !.raised = "interrupt"]]
      BY <1>8, <2>2 DEF Interrupt
    <3>1. s.report = r.report /\ s.pc = "exit" /\ s.raised = "interrupt" /\ s.handler = r.handler
      BY <1>0, <3>0, <1>r, <1>s
    <3> QED
      BY <1>a, <3>1
  <2> QED
    BY <2>1, <2>2
<1>9. CASE InterruptFinally(w)
  <2>1. s.report = r.report /\ s.pc = "exit" /\ s.raised = "interrupt" /\ s.handler = r.handler
    BY <1>9, <1>r, <1>s DEF InterruptFinally
  <2> QED
    BY <1>a, <2>1
<1> QED
  BY <1>1, <1>2, <1>3, <1>4, <1>5, <1>6, <1>7, <1>8, <1>9 DEF BodyStep, ScanStep

\* Every step keeps CarryInv.
LEMMA CarryStep ==
    ASSUME IInv, CarryInv, Next
    PROVE  CarryInv'
<1>1. TypeOK /\ RaiseInv /\ ClaimInv
  BY DEF IInv
<1>2. ASSUME NEW w \in Workers, BodyStep(w) PROVE CarryInv'
  <2>1. \A v \in Workers : v # w => run'[v] = run[v]
    BY <1>1, <1>2, BodyStepLocal
  <2> QED
    BY <1>1, <1>2, <2>1, CarryBody DEF CarryInv
<1>3. ASSUME NEW w \in Workers, Exit(w) \/ WorkerCrash(w) PROVE CarryInv'
  <2>1. run'[w] = Idle /\ \A v \in Workers : v # w => run'[v] = run[v]
    BY <1>1, <1>3, LeaveLocal
  <2>2. run'[w].report = NoReport
    BY <2>1 DEF Idle
  <2> QED
    BY <2>1, <2>2 DEF CarryInv
<1>4. ASSUME NEW w \in Workers, NEW j \in Jobs, Pick(w, j) PROVE CarryInv'
  <2>1. \A v \in Workers : v # w => run'[v] = run[v]
    BY <1>1, <1>4, PickLocal
  <2>2. run'[w].report = NoReport
    BY <1>1, <1>4 DEF Pick, Idle, TypeOK, RunType
  <2> QED
    BY <2>1, <2>2 DEF CarryInv
<1>5. CASE UNCHANGED run
  BY <1>5 DEF CarryInv
<1> QED
  BY <1>2, <1>3, <1>4, <1>5
     DEF Next, WebStep, PickStep, DeliverStep, Faults, BodyStep, Deliver, DeliverCrash, Expire,
         RefuseJob, SendTask, SeedPending, SendTaskFails, WebCrash

\* Every step keeps BlockInv: an attempt has sent nothing when its scan returns, and
\* what it then sends is the payload of its report.
LEMMA BlockStep ==
    ASSUME IInv, CInv, CarryInv, BlockInv, Next
    PROVE  BlockInv'
<1>1. TypeOK /\ RaiseInv /\ ClaimInv
  BY DEF IInv
<1>2. ASSUME NEW w \in Workers, BodyStep(w), ~ SendWebhook(w) PROVE BlockInv'
  <2>1. /\ UNCHANGED hooks /\ run[w].pc # "idle"
        /\ run'[w].job = run[w].job /\ run'[w].n = run[w].n
        /\ \A v \in Workers : v # w => run'[v] = run[v]
    BY <1>1, <1>2, BodyStepLocal, BodyKinds
  <2>2. CASE run'[w].report = run[w].report
    BY <2>1, <2>2 DEF BlockInv, Busy
  <2>3. CASE run[w].pc = "scan"
    <3>1. Unsent(w)
      BY <1>1, <2>3 DEF Unsent, Busy, Finalized, RaiseInv
    <3>2. \A m \in hooks : ~ (m.job = run[w].job /\ m.n = run[w].n)
      BY <3>1 DEF CInv, UnsentInv, Reported
    <3> QED
      BY <2>1, <3>2 DEF BlockInv, Busy
  <2> QED
    BY <1>1, <1>2, <2>2, <2>3, CarryBody
<1>3. ASSUME NEW w \in Workers, SendWebhook(w) PROVE BlockInv'
  <2>1. PICK x : x = HookMessage(w)
    OBVIOUS
  <2>2. BodyStep(w)
    BY <1>3 DEF BodyStep, ScanStep, SendWebhook, Exit
  <2>3. /\ hooks' \subseteq hooks \cup {x} /\ x.job = run[w].job /\ x.n = run[w].n
        /\ run[w].job \in Jobs /\ Busy(w)
    BY <1>1, <1>3, <2>1, SendKinds DEF Unsent
  <2>4. /\ run'[w].job = run[w].job /\ run'[w].n = run[w].n
        /\ \A v \in Workers : v # w => run'[v] = run[v]
    BY <1>1, <2>2, BodyStepLocal
  <2>5. run[w].pc = "send" /\ run'[w].report = run[w].report
    BY <1>1, <1>3, <2>2, CarryBody DEF SendWebhook
  <2>6. ASSUME FoundMalware(run[w].report) PROVE Caller(x.body) = "block"
    <3>1. run[w].report # NoReport /\ run[w].report \in Reports
      BY <1>1, <2>6, NothingFound DEF TypeOK, RunType, RunRecord
    <3>2. run[w].payload = ReportPayload(run[w].report)
      BY <2>5, <3>1 DEF CarryInv
    <3>3. x.body = serialize(run[w].payload, args[run[w].job].version)
      BY <2>1 DEF HookMessage
    <3>4. args[run[w].job].version \in Versions
      BY <1>1, <2>3 DEF TypeOK, JobType
    <3> QED
      BY <2>6, <3>1, <3>2, <3>3, <3>4, MalwareBlocks
  <2>7. ASSUME NEW v \in Workers, v # w, Busy(v), FoundMalware(run[v].report), NEW m \in hooks',
               m.job = run[v].job, m.n = run[v].n
        PROVE  Caller(m.body) = "block"
    <3>1. run[v].job # run[w].job
      BY <1>1, <2>3, <2>7 DEF ClaimInv
    <3>2. m \in hooks
      BY <2>3, <2>7, <3>1
    <3> QED
      BY <2>7, <3>2 DEF BlockInv
  <2>8. ASSUME FoundMalware(run[w].report), NEW m \in hooks',
               m.job = run[w].job, m.n = run[w].n
        PROVE  Caller(m.body) = "block"
    BY <2>3, <2>6, <2>8 DEF BlockInv
  <2> QED
    BY <2>4, <2>5, <2>7, <2>8 DEF BlockInv, Busy
<1>4. ASSUME NEW w \in Workers, Exit(w) \/ WorkerCrash(w) PROVE BlockInv'
  <2>1. UNCHANGED hooks /\ run'[w] = Idle /\ \A v \in Workers : v # w => run'[v] = run[v]
    BY <1>1, <1>4, LeaveLocal
  <2>2. run'[w].pc = "idle"
    BY <2>1 DEF Idle
  <2> QED
    BY <2>1, <2>2 DEF BlockInv, Busy
<1>5. ASSUME NEW w \in Workers, NEW j \in Jobs, Pick(w, j) PROVE BlockInv'
  <2>1. UNCHANGED hooks /\ \A v \in Workers : v # w => run'[v] = run[v]
    BY <1>1, <1>5, PickLocal
  <2>2. run'[w].report = NoReport
    BY <1>1, <1>5 DEF Pick, Idle, TypeOK, RunType
  <2> QED
    BY <2>1, <2>2, NothingFound DEF BlockInv, Busy
<1>6. ASSUME NEW m \in hooks, NEW answer \in Answers,
             Deliver(m, answer) \/ DeliverCrash(m, answer)
      PROVE  BlockInv'
  <2>1. UNCHANGED run
    BY <1>6 DEF Deliver, DeliverCrash
  <2>2. \A m2 \in hooks' : \E m1 \in hooks : SameContent(m1, m2)
    BY <1>1, <1>6, DeliverContent
  <2> QED
    BY <2>1, <2>2 DEF BlockInv, Busy, SameContent
<1>7. CASE UNCHANGED <<run, hooks>>
  BY <1>7 DEF BlockInv, Busy
<1> QED
  BY <1>2, <1>3, <1>4, <1>5, <1>6, <1>7
     DEF Next, WebStep, PickStep, DeliverStep, Faults, BodyStep, Expire,
         RefuseJob, SendTask, SeedPending, SendTaskFails, WebCrash

-----------------------------------------------------------------------------
(* The store and the webhook.                                              *)

Ended(p) == p.status \in {"done", "error"}

\* The result of the job has been recorded by an attempt that will not run again,
\* short of a fault.
Recorded(j) ==
    \/ scans[j].st = "acked"
    \/ \E w \in Workers : run[w].job = j /\ (run[w].pc = "send" \/ Finalized(w))

\* Without faults, a terminal record is the payload of the attempt that sends the
\* webhook, and of the webhook it has sent.
StoreInv ==
    \A j \in Jobs : faults[j] = 0 /\ Ended(store[j]) =>
        /\ Recorded(j)
        /\ \A w \in Workers : run[w].job = j /\ run[w].pc = "send" => store[j] = run[w].payload
        /\ \A m \in hooks : m.job = j => m.body = serialize(store[j], args[j].version)

\* A body is in the version of its job, which was submitted before.
VersionInv ==
    \A m \in hooks : web[m.job] # "idle" /\ m.body.api_version = args[m.job].version

\* Before an attempt is on its way out of _finalize, a job without faults has sent
\* no message.
LEMMA NoMessageYet ==
    ASSUME IInv, CInv, NEW j \in Jobs, faults[j] = 0, ~ Succeeded(j)
    PROVE  \A m \in hooks : m.job # j
<1> SUFFICES ASSUME NEW m \in hooks, m.job = j PROVE FALSE
  OBVIOUS
<1>1. PICK S : S = {x \in hooks : x.job = j}
  OBVIOUS
<1>2. Told(j) <= faults[j] /\ Told(j) = Cardinality(S)
  BY <1>1 DEF CInv, ToldInv, Told
<1>3. IsFiniteSet(S)
  BY <1>1, FS_Subset DEF CInv, MessageInv
<1>4. Cardinality(S) \in Nat /\ (Cardinality(S) = 0 <=> S = {})
  BY <1>3, FS_CardinalityType, FS_EmptySet
<1>5. m \in S
  BY <1>1
<1> QED
  BY <1>2, <1>4, <1>5

\* A job whose worker is on its way to _finalize has not been recorded, and has not
\* succeeded.
LEMMA NotRecordedYet ==
    ASSUME IInv, NEW w \in Workers, Busy(w), run[w].pc # "send", ~ Finalized(w)
    PROVE  ~ Recorded(run[w].job) /\ ~ Succeeded(run[w].job)
<1>1. run[w].job \in Jobs /\ scans[run[w].job].st = "running"
  BY BusyFacts
<1>2. \A v \in Workers : Busy(v) /\ run[v].job = run[w].job => v = w
  BY DEF IInv, ClaimInv
<1>3. \A v \in Workers : run[v].pc = "send" \/ Finalized(v) => Busy(v)
  BY BusyFacts DEF Busy
<1> QED
  BY <1>1, <1>2, <1>3 DEF Recorded, Succeeded

\* Every step keeps VersionInv.
LEMMA VersionStep ==
    ASSUME IInv, VersionInv, Next
    PROVE  VersionInv'
<1>1. TypeOK /\ RaiseInv /\ WebInv
  BY DEF IInv
<1>0. \A m \in hooks : m.job \in Jobs
  BY <1>1 DEF TypeOK, HookType, HookRecord
<1>2. ASSUME NEW w \in Workers, SendWebhook(w) PROVE VersionInv'
  <2>1. PICK x, j : x = HookMessage(w) /\ j = run[w].job
    OBVIOUS
  <2>2. hooks' \subseteq hooks \cup {x} /\ x.job = j /\ j \in Jobs /\ Busy(w)
    BY <1>1, <1>2, <2>1, SendKinds DEF Unsent
  <2>3. web[j] # "idle"
    BY <1>1, <2>1, <2>2, BusyFacts DEF WebInv
  <2>4. x.body = serialize(run[w].payload, args[j].version) /\ args[j].version \in Versions
    BY <1>1, <2>1, <2>2 DEF HookMessage, TypeOK, JobType
  <2>5. x.body.api_version = args[j].version
    BY <2>4 DEF serialize, to_v1, Versions
  <2>6. UNCHANGED <<web, args>>
    BY <1>2 DEF SendWebhook
  <2> QED
    BY <2>2, <2>3, <2>5, <2>6 DEF VersionInv
<1>3. ASSUME NEW m \in hooks, NEW answer \in Answers,
             Deliver(m, answer) \/ DeliverCrash(m, answer)
      PROVE  VersionInv'
  <2>1. UNCHANGED <<web, args>>
    BY <1>3 DEF Deliver, DeliverCrash
  <2>2. \A m2 \in hooks' : \E m1 \in hooks : SameContent(m1, m2)
    BY <1>1, <1>3, DeliverContent
  <2> QED
    BY <2>1, <2>2 DEF VersionInv, SameContent
<1>4. ASSUME NEW j \in Jobs, WebStep(j) \/ SendTaskFails(j) \/ WebCrash(j) PROVE VersionInv'
  <2>1. UNCHANGED hooks /\ web'[j] # "idle"
    BY <1>1, <1>4 DEF WebStep, RefuseJob, SendTask, SeedPending, SendTaskFails, WebCrash,
       TypeOK, JobType
  <2>2. \A k \in Jobs : k # j => web'[k] = web[k] /\ args'[k] = args[k]
    BY <1>1, <1>4 DEF WebStep, RefuseJob, SendTask, SeedPending, SendTaskFails, WebCrash,
       TypeOK, JobType
  <2>3. web[j] # "idle" => args'[j] = args[j]
    BY <1>4 DEF WebStep, RefuseJob, SendTask, SeedPending, SendTaskFails, WebCrash
  <2> QED
    BY <1>0, <2>1, <2>2, <2>3 DEF VersionInv
<1>5. CASE UNCHANGED <<web, args, hooks>>
  BY <1>5 DEF VersionInv
<1> QED
  BY <1>2, <1>3, <1>4, <1>5
     DEF Next, PickStep, DeliverStep, Faults, ScanStep, Expire, Pick, TryFails, FetchOk, OpenFile,
         WriteOk, ScanReturns, Finally, Decide, RecordResult, Exit, SendWebhookFails,
         Interrupt, InterruptFinally, WorkerCrash

\* Only RecordResult writes to the store and leads to the sending of the webhook,
\* and only SendWebhook leads on from there without a fault.
LEMMA SendSteps ==
    ASSUME TypeOK, NEW w \in Workers, BodyStep(w)
    PROVE  /\ run'[w].pc = "send" => RecordResult(w)
           /\ run[w].pc = "send" => SendWebhook(w) \/ Fault(run[w].job)
           /\ ~ RecordResult(w) => UNCHANGED store
<1> USE DEF TypeOK, RunType, RunRecord
<1>1. ASSUME NEW exc \in Exceptions, TryFails(w, exc)
      PROVE  run'[w].pc # "send" /\ run[w].pc # "send" /\ UNCHANGED store
  <2>1. run[w].pc # "send" /\ UNCHANGED store
    BY <1>1 DEF TryFails, CanRaise
  <2>2. (\E kind \in {"file", "transient"} : ReportError(w, kind)) \/ Raise(w, "exception")
    BY <1>1 DEF TryFails, Handle, Exceptions, PermanentErrors
  <2>3. ASSUME NEW kind \in {"file", "transient"}, ReportError(w, kind) PROVE run'[w].pc # "send"
    <3> DEFINE q == Payload("error", kind, NoVerdicts)
    <3>1. run' = [run EXCEPT ![w] = [@ EXCEPT !.pc = "record", !.handler = TRUE, !.payload = q]]
      BY <2>3 DEF ReportError
    <3> HIDE DEF q
    <3> QED
      BY <3>1
  <2>4. ASSUME Raise(w, "exception") PROVE run'[w].pc # "send"
    BY <2>4 DEF Raise
  <2> QED
    BY <2>1, <2>2, <2>3, <2>4
<1>2. CASE FetchOk(w) \/ OpenFile(w) \/ WriteOk(w) \/ Finally(w)
  BY <1>2 DEF FetchOk, OpenFile, WriteOk, Finally, Goto
<1>3. ASSUME NEW rs \in Reports, ScanReturns(w, rs)
      PROVE  run'[w].pc # "send" /\ run[w].pc # "send" /\ UNCHANGED store
  BY <1>3 DEF ScanReturns
<1>4. CASE Decide(w)
  <2> DEFINE q == ReportPayload(run[w].report)
  <2>1. \/ run' = [run EXCEPT ![w] = [@ EXCEPT !.pc = "exit", !.raised = "scanners"]]
        \/ run' = [run EXCEPT ![w] = [@ EXCEPT !.pc = "record", !.payload = q]]
    BY <1>4 DEF Decide
  <2> HIDE DEF q
  <2>2. run'[w].pc # "send"
    BY <2>1
  <2>3. run[w].pc = "decide" /\ UNCHANGED store
    BY <1>4 DEF Decide
  <2> QED
    BY <2>2, <2>3
<1>5. CASE RecordResult(w)
  BY <1>5 DEF RecordResult
<1>6. CASE SendWebhook(w) \/ SendWebhookFails(w)
  <2>1. AfterFinalize(w) \in {"finally", "exit"}
    BY DEF AfterFinalize
  <2>2. CASE SendWebhook(w)
    BY <2>1, <2>2 DEF SendWebhook, Goto
  <2>3. CASE SendWebhookFails(w)
    BY <2>1, <2>3 DEF SendWebhookFails
  <2> QED
    BY <1>6, <2>2, <2>3
<1>7. CASE Interrupt(w)
  BY <1>7 DEF Interrupt, Raise
<1>8. CASE InterruptFinally(w)
  BY <1>8 DEF InterruptFinally
<1> QED
  BY <1>1, <1>2, <1>3, <1>4, <1>5, <1>6, <1>7, <1>8 DEF BodyStep, ScanStep

\* A recorded job stays recorded, short of a fault.
LEMMA RecordedKept ==
    ASSUME IInv, CInv, Next, NEW j \in Jobs, Recorded(j), faults'[j] = 0
    PROVE  Recorded(j)'
<1>1. TypeOK /\ RaiseInv /\ ClaimInv /\ WebInv
  BY DEF IInv
<1>f. ~ Fault(j)
  BY <1>1, FaultCounts
<1>b. \A v \in Workers : run[v].pc = "send" \/ Finalized(v) => Busy(v)
  BY BusyFacts DEF Busy
<1>2. ASSUME NEW w \in Workers, BodyStep(w) PROVE Recorded(j)'
  <2>1. /\ UNCHANGED scans /\ run'[w].job = run[w].job
        /\ \A v \in Workers : v # w => run'[v] = run[v]
    BY <1>1, <1>2, BodyStepLocal
  <2>2. \A v \in Workers : v # w => (Finalized(v)' <=> Finalized(v))
    BY <2>1 DEF Finalized
  <2>3. run[w].job = j /\ (run[w].pc = "send" \/ Finalized(w)) => Finalized(w)'
    <3>1. CASE SendWebhook(w)
      BY <1>1, <3>1, SendKinds
    <3>2. CASE ~ SendWebhook(w)
      BY <1>1, <1>2, <1>f, <3>2, SendSteps, BodyKinds
    <3> QED
      BY <3>1, <3>2
  <2> QED
    BY <2>1, <2>2, <2>3 DEF Recorded
<1>3. ASSUME NEW w \in Workers, Exit(w) \/ WorkerCrash(w) PROVE Recorded(j)'
  <2>1. /\ run[w].pc # "idle" /\ run[w].job \in Jobs
        /\ \A v \in Workers : v # w => run'[v] = run[v]
        /\ \A k \in Jobs : k # run[w].job => scans'[k] = scans[k]
    BY <1>1, <1>3, LeaveLocal
  <2>2. \A v \in Workers : v # w => (Finalized(v)' <=> Finalized(v))
    BY <2>1 DEF Finalized
  <2>3. scans[run[w].job].st = "running"
    BY <2>1, BusyFacts DEF Busy
  <2>4. CASE j # run[w].job
    BY <2>1, <2>2, <2>4 DEF Recorded
  <2>5. CASE j = run[w].job
    <3>1. run[w].pc = "send" \/ Finalized(w)
      BY <1>1, <1>b, <2>1, <2>3, <2>5 DEF Recorded, ClaimInv, Busy
    <3>2. Exit(w)
      BY <1>3, <1>f, <2>5 DEF WorkerCrash
    <3>3. run[w].raised = "none"
      BY <3>1, <3>2 DEF Exit, Finalized
    <3>4. scans[j] \in ScanRecord
      BY <1>1 DEF TypeOK, JobType
    <3>5. scans'[j].st = "acked"
      BY <1>1, <2>5, <3>2, <3>3, <3>4 DEF Exit, AfterTask, TypeOK, JobType, ScanRecord
    <3> QED
      BY <3>5 DEF Recorded
  <2> QED
    BY <2>4, <2>5
<1>4. ASSUME NEW w \in Workers, NEW k \in Jobs, Pick(w, k) PROVE Recorded(j)'
  <2>1. /\ run[w].pc = "idle" /\ scans[k].st = "queued"
        /\ \A v \in Workers : v # w => run'[v] = run[v]
        /\ \A i \in Jobs : i # k => scans'[i] = scans[i]
    BY <1>1, <1>4, PickLocal
  <2>2. \A v \in Workers : v # w => (Finalized(v)' <=> Finalized(v))
    BY <2>1 DEF Finalized
  <2>3. \A v \in Workers : run[v].pc = "send" \/ Finalized(v) => v # w
    BY <1>b, <2>1 DEF Busy
  <2> QED
    BY <2>1, <2>2, <2>3 DEF Recorded
<1>5. ASSUME NEW k \in Jobs, NEW a \in Submissions, SendTask(k, a) PROVE Recorded(j)'
  <2>1. UNCHANGED run /\ scans[k].st = "none" /\ \A i \in Jobs : i # k => scans'[i] = scans[i]
    BY <1>1, <1>5 DEF SendTask, WebInv, TypeOK, JobType
  <2> QED
    BY <2>1 DEF Recorded, Finalized
<1>6. CASE UNCHANGED <<run, scans>>
  BY <1>6 DEF Recorded, Finalized
<1> QED
  BY <1>2, <1>3, <1>4, <1>5, <1>6
     DEF Next, WebStep, PickStep, DeliverStep, Faults, BodyStep, Deliver, DeliverCrash, Expire,
         RefuseJob, SeedPending, SendTaskFails, WebCrash

\* Every step keeps StoreInv.
LEMMA StoreStep ==
    ASSUME IInv, CInv, StoreInv, Next
    PROVE  StoreInv'
<1>1. TypeOK /\ RaiseInv /\ ClaimInv /\ WebInv
  BY DEF IInv
<1> SUFFICES ASSUME NEW j \in Jobs, faults'[j] = 0, Ended(store'[j])
             PROVE  /\ Recorded(j)'
                    /\ \A w \in Workers : run'[w].job = j /\ run'[w].pc = "send" =>
                           store'[j] = run'[w].payload
                    /\ \A m \in hooks' : m.job = j =>
                           m.body = serialize(store'[j], args'[j].version)
  BY DEF StoreInv, Ended
<1> DEFINE Goal == /\ Recorded(j)'
                   /\ \A w \in Workers : run'[w].job = j /\ run'[w].pc = "send" =>
                          store'[j] = run'[w].payload
                   /\ \A m \in hooks' : m.job = j =>
                          m.body = serialize(store'[j], args'[j].version)
<1> SUFFICES Goal
  OBVIOUS
<1>f. faults[j] = 0 /\ ~ Fault(j)
  <2>1. faults'[j] >= faults[j] /\ faults[j] \in Nat
    BY <1>1, FaultsGrow
  <2> QED
    BY <1>1, <2>1, FaultCounts
<1>0. ASSUME store'[j] = store[j]
      PROVE  /\ Recorded(j) /\ Recorded(j)' /\ Ended(store[j])
             /\ \A w \in Workers : run[w].job = j /\ run[w].pc = "send" =>
                    store[j] = run[w].payload
             /\ \A m \in hooks : m.job = j => m.body = serialize(store[j], args[j].version)
  <2>1. /\ Recorded(j)
        /\ \A w \in Workers : run[w].job = j /\ run[w].pc = "send" => store[j] = run[w].payload
        /\ \A m \in hooks : m.job = j => m.body = serialize(store[j], args[j].version)
    BY <1>f, <1>0 DEF StoreInv
  <2> QED
    BY <1>0, <2>1, RecordedKept
<1>b. \A v \in Workers : run[v].pc = "send" \/ Finalized(v) => Busy(v)
  BY BusyFacts DEF Busy
<1>2. ASSUME NEW w \in Workers, RecordResult(w) PROVE Goal
  <2>1. BodyStep(w)
    BY <1>2 DEF BodyStep, ScanStep, RecordResult, Exit
  <2>2. /\ UNCHANGED <<args, hooks>> /\ run[w].pc = "record"
        /\ run'[w].job = run[w].job /\ run'[w].pc = "send" /\ run'[w].payload = run[w].payload
        /\ \A v \in Workers : v # w => run'[v] = run[v]
    BY <1>1, <1>2 DEF RecordResult, Goto, TypeOK, RunType, RunRecord
  <2>3. Busy(w) /\ ~ Finalized(w)
    BY <2>2 DEF Busy, Finalized
  <2>4. \A v \in Workers : v # w /\ Busy(v) => run[v].job # run[w].job
    BY <1>1, <2>3 DEF ClaimInv
  <2>5. ~ Recorded(run[w].job) /\ ~ Succeeded(run[w].job) /\ run[w].job \in Jobs
    BY <2>2, <2>3, NotRecordedYet, BusyFacts
  <2>6. store' = store \/ store' = [store EXCEPT ![run[w].job] = run[w].payload]
    BY <1>2 DEF RecordResult, record
  <2>7. CASE run[w].job # j
    <3>1. store'[j] = store[j]
      BY <1>1, <2>5, <2>6, <2>7 DEF TypeOK, JobType
    <3> QED
      BY <1>0, <2>2, <2>7, <3>1
  <2>8. CASE run[w].job = j
    <3>1. store'[j] = run[w].payload
      <4>1. store'[j] # store[j]
        BY <1>0, <2>5, <2>8
      <4> QED
        BY <1>1, <2>5, <2>6, <2>8, <4>1 DEF TypeOK, JobType
    <3>2. \A m \in hooks : m.job # j
      BY <1>f, <2>5, <2>8, NoMessageYet
    <3>3. Recorded(j)'
      BY <2>2, <2>8 DEF Recorded
    <3>4. \A v \in Workers : run'[v].job = j /\ run'[v].pc = "send" => v = w
      BY <2>2, <2>4, <2>8 DEF Busy
    <3> QED
      BY <2>2, <3>1, <3>2, <3>3, <3>4
  <2> QED
    BY <2>7, <2>8
<1>3. ASSUME NEW w \in Workers, SendWebhook(w) PROVE Goal
  <2>1. BodyStep(w)
    BY <1>3 DEF BodyStep, ScanStep, SendWebhook, Exit
  <2>2. PICK x : x = HookMessage(w)
    OBVIOUS
  <2>3. /\ hooks' \subseteq hooks \cup {x} /\ x.job = run[w].job
        /\ x.body = serialize(run[w].payload, args[run[w].job].version)
    BY <1>1, <1>3, <2>2, SendKinds DEF HookMessage
  <2>4. run[w].pc = "send" /\ UNCHANGED <<store, args>>
    BY <1>3 DEF SendWebhook
  <2>5. run'[w].pc # "send"
    BY <1>1, <2>1, <2>4, SendSteps DEF RecordResult
  <2>6. \A v \in Workers : v # w => run'[v] = run[v]
    BY <1>1, <2>1, BodyStepLocal
  <2>7. store'[j] = store[j]
    BY <2>4
  <2>8. ASSUME NEW m \in hooks', m.job = j
        PROVE  m.body = serialize(store[j], args[j].version)
    <3>1. CASE m \in hooks
      BY <1>0, <2>7, <2>8, <3>1
    <3>2. CASE m = x
      BY <1>0, <2>3, <2>4, <2>7, <2>8, <3>2
    <3> QED
      BY <2>3, <3>1, <3>2
  <2> QED
    BY <1>0, <2>4, <2>5, <2>6, <2>7, <2>8
<1>4. ASSUME NEW w \in Workers, BodyStep(w), ~ RecordResult(w), ~ SendWebhook(w) PROVE Goal
  <2>1. UNCHANGED <<args, hooks, store>> /\ \A v \in Workers : v # w => run'[v] = run[v]
    BY <1>1, <1>4, BodyStepLocal, BodyKinds, SendSteps
  <2>2. run'[w].pc # "send"
    BY <1>1, <1>4, SendSteps
  <2>3. store'[j] = store[j]
    BY <2>1
  <2> QED
    BY <1>0, <2>1, <2>2, <2>3
<1>5. ASSUME NEW w \in Workers, Exit(w) \/ WorkerCrash(w) PROVE Goal
  <2>1. /\ UNCHANGED <<args, hooks, store>> /\ run'[w] = Idle
        /\ \A v \in Workers : v # w => run'[v] = run[v]
    BY <1>1, <1>5, LeaveLocal
  <2>2. run'[w].pc # "send"
    BY <2>1 DEF Idle
  <2>3. store'[j] = store[j]
    BY <2>1
  <2> QED
    BY <1>0, <2>1, <2>2, <2>3
<1>6. ASSUME NEW w \in Workers, NEW k \in Jobs, Pick(w, k) PROVE Goal
  <2>1. /\ UNCHANGED <<args, hooks, store>> /\ run'[w].pc = "fetch"
        /\ \A v \in Workers : v # w => run'[v] = run[v]
    BY <1>1, <1>6, PickLocal
  <2>2. store'[j] = store[j]
    BY <2>1
  <2> QED
    BY <1>0, <2>1, <2>2
<1>7. ASSUME NEW k \in Jobs, WebStep(k) \/ SendTaskFails(k) \/ WebCrash(k) \/ Expire(k)
      PROVE  Goal
  <2>1. UNCHANGED <<run, hooks>>
    BY <1>7 DEF WebStep, RefuseJob, SendTask, SeedPending, SendTaskFails, WebCrash, Expire
  <2>2. store'[j] = store[j]
    <3>1. store'[j] \in {store[j], Pending, NoPayload}
      BY <1>1, <1>7 DEF WebStep, RefuseJob, SendTask, SeedPending, SendTaskFails, WebCrash, Expire,
         record, TypeOK, JobType
    <3>2. ~ Ended(Pending) /\ ~ Ended(NoPayload)
      BY DEF Ended, Pending, NoPayload, Payload
    <3> QED
      BY <3>1, <3>2
  <2>3. web[j] # "idle"
    <3>1. Recorded(j)
      BY <1>0, <2>2
    <3>2. scans[j].st # "none"
      BY <1>b, <3>1, BusyFacts DEF Recorded
    <3> QED
      BY <1>1, <3>2 DEF WebInv
  <2>4. args'[j] = args[j]
    BY <1>1, <1>7, <2>3 DEF WebStep, RefuseJob, SendTask, SeedPending, SendTaskFails, WebCrash,
       Expire, TypeOK, JobType
  <2> QED
    BY <1>0, <2>1, <2>2, <2>4
<1>8. ASSUME NEW m \in hooks, NEW answer \in Answers,
             Deliver(m, answer) \/ DeliverCrash(m, answer)
      PROVE  Goal
  <2>1. UNCHANGED <<run, args, store>>
    BY <1>8 DEF Deliver, DeliverCrash
  <2>2. \A m2 \in hooks' : \E m1 \in hooks : SameContent(m1, m2)
    BY <1>1, <1>8, DeliverContent
  <2>3. store'[j] = store[j]
    BY <2>1
  <2> QED
    BY <1>0, <2>1, <2>2, <2>3 DEF SameContent
<1> QED
  BY <1>2, <1>3, <1>4, <1>5, <1>6, <1>7, <1>8 DEF Next, PickStep, DeliverStep, Faults, BodyStep

-----------------------------------------------------------------------------

DInv == CarryInv /\ BlockInv /\ VersionInv /\ StoreInv

\* Nothing has been scanned, sent or recorded initially.
LEMMA InitDInv == Init => DInv
<1> SUFFICES ASSUME Init PROVE DInv
  OBVIOUS
<1>1. hooks = {} /\ \A w \in Workers : run[w].pc = "idle" /\ run[w].report = NoReport
  BY DEF Init, Idle
<1>2. \A j \in Jobs : ~ Ended(store[j])
  BY DEF Init, Ended, NoPayload, Payload
<1> QED
  BY <1>1, <1>2 DEF DInv, CarryInv, BlockInv, Busy, VersionInv, StoreInv

\* Every step keeps DInv, given the other two invariants.
LEMMA NextDInv == IInv /\ CInv /\ DInv /\ [Next]_vars => DInv'
<1> SUFFICES ASSUME IInv, CInv, DInv, [Next]_vars PROVE DInv'
  OBVIOUS
<1>1. CASE UNCHANGED vars
  BY <1>1 DEF vars, DInv, CarryInv, BlockInv, Busy, VersionInv, StoreInv, Recorded, Finalized
<1>2. CASE Next
  BY <1>2, CarryStep, BlockStep, VersionStep, StoreStep DEF DInv
<1> QED
  BY <1>1, <1>2

\* The three invariants hold together.
LEMMA ToldInvariant == Spec => [](IInv /\ CInv /\ DInv)
  BY InitDInv, NextDInv, ContractInvariant, PTL DEF Spec

\* A detection is neither answered with "unavailable" nor retried away: the attempt
\* that saw one sends a body that makes the caller block, whatever the other scanners
\* did (tasks.py:422-426).
THEOREM Detection == Spec => []DetectionIsReported
<1>1. IInv /\ CInv /\ DInv => DetectionIsReported
  BY NothingFound DEF DInv, CarryInv, BlockInv, DetectionIsReported
<1> QED
  BY <1>1, ToldInvariant, PTL

\* The poll and the webhook of a job without faults lead the caller to the same
\* decision, whatever the versions (tasks.py:138-149).
THEOREM Channels == Spec => []ChannelsAgree
<1>1. IInv /\ CInv /\ DInv => ChannelsAgree
  <2> SUFFICES ASSUME IInv, CInv, DInv, NEW m \in hooks, faults[m.job] = 0
               PROVE  /\ m.body.api_version = args[m.job].version
                      /\ \A v \in Versions :
                            LET polled == job_status(m.job, Owner[m.job], v)
                            IN  polled.status \in {"done", "error"}
                                  => Caller(polled) = Caller(m.body)
    BY DEF ChannelsAgree
  <2>1. m.body.api_version = args[m.job].version
    BY DEF DInv, VersionInv
  <2>2. PICK j \in Jobs : j = m.job
    BY DEF IInv, TypeOK, HookType, HookRecord
  <2>3. store[j] \in Terminal \cup {Pending, NoPayload} /\ args[j].version \in Versions
    BY DEF IInv, TypeOK, JobType
  <2>4. ASSUME NEW v \in Versions, NEW polled, polled = job_status(j, Owner[j], v),
               polled.status \in {"done", "error"}
        PROVE  Caller(polled) = Caller(m.body)
    <3>1. PICK p \in {store[j], NoPayload} : polled = serialize(p, v)
      BY <2>4 DEF job_status, fetch
    <3>2. Ended(p)
      BY <2>4, <3>1, SerializeShape DEF Ended
    <3>3. p = store[j] /\ p \in Terminal
      BY <2>3, <3>1, <3>2 DEF Ended, Pending, NoPayload, Payload
    <3>4. m.body = serialize(p, args[j].version)
      BY <2>2, <3>2, <3>3 DEF DInv, StoreInv
    <3>5. Caller(polled) = Decision(p) /\ Caller(m.body) = Decision(p)
      BY <2>3, <3>1, <3>3, <3>4, CallerIs, TerminalIsPlain
    <3> QED
      BY <3>5
  <2> QED
    BY <2>1, <2>2, <2>4, Zenon
<1> QED
  BY <1>1, ToldInvariant, PTL

=============================================================================
