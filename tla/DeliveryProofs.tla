--------------------------- MODULE DeliveryProofs ---------------------------
(***************************************************************************)
(* Theorems about what arrives whole or not at all: the stream of a file   *)
(* to its daemon (Clamd) and the record of a job to its owner (JobPoll),   *)
(* for any pool, file, retry budget and time to live.                      *)
(***************************************************************************)
EXTENDS Clamd, JobPoll, TLAPS

-----------------------------------------------------------------------------
(* clamd and exav. What a verdict says of a file it says of all of it. The *)
(* invariant follows the stream of a try: the daemon never has more than   *)
(* was sent, the end it has seen came after the last chunk, and a try      *)
(* starts with no verdict standing but an error.                           *)

\* The kinds of a verdict that say something of the file.
AboutTheFile == {"clean", "malware", "partial"}

\* The type invariant.
StreamType ==
    /\ size \in Nat /\ read \in Nat
    /\ stream \in [chunks : Nat, ended : BOOLEAN, open : BOOLEAN]
    /\ pc \in {"pick", "send", "reply", "verdict", "done"}
    /\ kind \in {"none", "error"} \cup AboutTheFile

\* A try begins with no verdict, or with the error it retries.
FreshInv == pc \in {"pick", "send", "reply"} => kind \in {"none", "error"}

\* While the file is sent the daemon has at most what was read of it.
SendInv == pc = "send" => stream.chunks <= read /\ read <= size

\* The end of the stream arrives only behind the whole file.
ReplyInv == pc = "reply" /\ stream.ended => stream.chunks = size

StreamInv == StreamType /\ FreshInv /\ SendInv /\ ReplyInv /\ VerdictNeedsWholeStream

-----------------------------------------------------------------------------

\* What a backend makes of any reply is a kind of verdict.
LEMMA VerdictKind ==
    ASSUME NEW r \in ClamdReplies \cup ExavReplies,
           engine = "exav" => r \in ExavReplies, engine # "exav" => r \in ClamdReplies
    PROVE  Verdict(r) \in {"error"} \cup AboutTheFile
<1>1. CASE engine = "exav"
  BY <1>1 DEF Verdict, exav_scan, AboutTheFile
<1>2. CASE engine # "exav"
  <2>1. r \in ClamdFailures \cup {"ERROR_transient"} \/ r = "OK"
        \/ r \in {"ERROR_other", "FOUND_limit"} \/ r = "FOUND"
    BY <1>2 DEF ClamdReplies
  <2> QED
    BY <1>2, <2>1 DEF Verdict, clamav_scan, ClamdFailures, AboutTheFile
<1> QED
  BY <1>1, <1>2

\* A failure of the exchange is an error for either backend.
LEMMA FailureIsError ==
    ASSUME NEW r, IF engine = "exav" THEN r \in {"connection_error", "not_json"}
                                     ELSE r \in ClamdFailures
    PROVE  Verdict(r) = "error"
<1>1. CASE engine = "exav"
  BY <1>1 DEF Verdict, exav_scan
<1>2. CASE engine # "exav"
  BY <1>2 DEF Verdict, clamav_scan, ClamdFailures
<1> QED
  BY <1>1, <1>2

\* The invariant holds initially.
LEMMA StreamInit == Init => StreamInv
  BY MaxChunksAssumption
  DEF Init, StreamInv, StreamType, FreshInv, SendInv, ReplyInv, VerdictNeedsWholeStream, NoStream,
      AboutTheFile

\* A try that ends in an error disturbs nothing.
LEMMA ErrorInv ==
    ASSUME StreamInv, NEW r, Verdict(r) = "error", Conclude(r)
    PROVE  StreamInv'
  BY DEF Conclude, StreamInv, StreamType, FreshInv, SendInv, ReplyInv, VerdictNeedsWholeStream,
         AboutTheFile

\* Every step of the task keeps the invariant.
LEMMA TaskInv == StreamInv /\ Task => StreamInv'
<1> SUFFICES ASSUME StreamInv, Task PROVE StreamInv'
  OBVIOUS
<1> USE DEF StreamInv, StreamType, FreshInv, SendInv, ReplyInv, VerdictNeedsWholeStream,
            AboutTheFile
<1>1. ASSUME NEW h \in Hosts, Connect(h) PROVE StreamInv'
  <2>1. stream'.chunks = 0 /\ stream' \in [chunks : Nat, ended : BOOLEAN, open : BOOLEAN]
    BY <1>1, ZenonT(20) DEF Connect, NoStream
  <2> QED
    BY <1>1, <2>1 DEF Connect
<1>2. ASSUME NEW h \in Hosts, ConnectRefused(h) PROVE StreamInv'
  <2>1. Verdict("connection_error") = "error"
    BY FailureIsError DEF ClamdFailures
  <2> QED
    BY <1>2, <2>1 DEF ConnectRefused, NoStream
<1>3. CASE SendChunk
  BY <1>3 DEF SendChunk, MoreToSend
<1>4. CASE SendFails
  <2>1. Verdict(IF engine = "exav" THEN "connection_error" ELSE "closed_mid_stream") = "error"
    BY FailureIsError DEF ClamdFailures
  <2> QED
    BY <1>4, <2>1, ErrorInv DEF SendFails
<1>5. CASE SendUnseen
  BY <1>5 DEF SendUnseen, MoreToSend
<1>6. CASE SendEnd
  <2>1. /\ stream' \in [chunks : Nat, ended : BOOLEAN, open : BOOLEAN]
        /\ stream'.chunks = stream.chunks
        /\ stream'.ended <=> (stream.open /\ stream.chunks = read)
    <3>1. (stream.open /\ stream.chunks = read) \in BOOLEAN
      OBVIOUS
    <3> QED
      BY <1>6, <3>1, Zenon DEF SendEnd
  <2>2. read = size
    BY <1>6 DEF SendEnd, MoreToSend
  <2>3. StreamType'
    BY <1>6, <2>1 DEF SendEnd
  <2> QED
    BY <1>6, <2>1, <2>2, <2>3 DEF SendEnd
<1>7. ASSUME NEW r \in ClamdReplies \cup ExavReplies, r \in Replies, Reply(r) PROVE StreamInv'
  <2>1. Verdict(r) \in {"error"} \cup AboutTheFile
    BY <1>7, VerdictKind DEF Replies
  <2> QED
    BY <1>7, <2>1 DEF Reply, Conclude
<1>8. CASE NoReply
  <2>1. PICK r \in IF engine = "exav" THEN {"connection_error", "not_json"} ELSE ClamdFailures :
            Conclude(r)
    BY <1>8 DEF NoReply
  <2>2. Verdict(r) = "error"
    BY FailureIsError
  <2> QED
    BY <2>1, <2>2, ErrorInv
<1>9. CASE Settle
  BY <1>9 DEF Settle
<1> QED
  BY <1>1, <1>2, <1>3, <1>4, <1>5, <1>6, <1>7, <1>8, <1>9 DEF Task

\* So does a daemon that stops or comes back, at any moment.
LEMMA DaemonInv ==
    ASSUME StreamInv, NEW h \in Hosts, Stop(h) \/ Start(h)
    PROVE  StreamInv'
<1> USE DEF StreamInv, StreamType, FreshInv, SendInv, ReplyInv, VerdictNeedsWholeStream,
            AboutTheFile
<1>1. CASE Stop(h)
  BY <1>1 DEF Stop
<1>2. CASE Start(h)
  BY <1>2 DEF Start
<1> QED
  BY <1>1, <1>2

\* The invariant holds in every reachable state.
LEMMA StreamInvariance == Spec => []StreamInv
<1>1. StreamInv /\ [Next]_vars => StreamInv'
  <2>1. StreamInv /\ UNCHANGED vars => StreamInv'
    BY DEF vars, StreamInv, StreamType, FreshInv, SendInv, ReplyInv, VerdictNeedsWholeStream,
           AboutTheFile
  <2> QED
    BY <2>1, TaskInv, DaemonInv DEF Next
<1> QED
  BY <1>1, StreamInit, PTL DEF Spec

\* A verdict about the file, clean, malware or partial, was given by a daemon that
\* had every chunk and the end of the stream on that very try, whatever daemons
\* stopped and however often the task was retried (clamav.py:113-147,
\* exav.py:45-91).
THEOREM WholeStream == Spec => []VerdictNeedsWholeStream
  BY StreamInvariance, PTL DEF StreamInv

-----------------------------------------------------------------------------
(* Records. The invariant ties the record a poll reads to the writes that  *)
(* worked: it is the last of them and outlives each by the time to live,   *)
(* and once its owner has been told the result no pending record can come  *)
(* any more.                                                               *)

\* The type invariant.
RecordType ==
    /\ now \in Nat /\ redelivered \in Nat
    /\ web \in {"idle", "sent", "accepted"}
    /\ task \in {"none", "queued", "recorded", "acked"}
    /\ rec.status \in {"none", "pending", "done"} /\ rec.expires \in Nat
    /\ writes \subseteq [status : {"pending", "done"}, at : Nat]
    /\ swallowed \subseteq {"pending", "done"}
    /\ sawResult \in BOOLEAN

\* The record is the caller's, and outlives every write by the time to live.
LifeInv ==
    /\ rec.expires > 0 => rec.owner = Owner
    /\ \A w \in writes : w.at <= now /\ w.at + WORKER_RESULT_TTL <= rec.expires

\* A pending record was written last.
LastInv ==
    rec.status = "pending" =>
        \E p \in writes : p.status = "pending" /\ \A w \in writes : w.at <= p.at

\* A result that was told is the record still, and the seed is behind it.
ToldInv == sawResult => web = "accepted" /\ rec.status = "done"

RecordsInv == RecordType /\ LifeInv /\ LastInv /\ ToldInv

-----------------------------------------------------------------------------

\* The invariant holds initially.
LEMMA RecordsInit == PollInit => RecordsInv
<1> SUFFICES ASSUME PollInit PROVE RecordsInv
  OBVIOUS
<1>1. rec.status = "none" /\ rec.expires = 0 /\ writes = {} /\ swallowed = {}
  BY DEF PollInit
<1>2. sawResult = FALSE /\ now = 0 /\ redelivered = 0 /\ web = "idle" /\ task = "none"
  BY DEF PollInit
<1>3. now \in Nat /\ redelivered \in Nat /\ rec.expires \in Nat
  BY <1>1, <1>2
<1>4. RecordType
  BY <1>1, <1>2, <1>3, Zenon DEF RecordType
<1> QED
  BY <1>1, <1>2, <1>4 DEF RecordsInv, LifeInv, LastInv, ToldInv

\* A write that works is the newest one, and its record outlives all the others.
LEMMA StoreInv ==
    ASSUME RecordType, LifeInv, NEW status \in {"pending", "done"}, Store(status), UNCHANGED now
    PROVE  /\ rec'.status = status /\ rec'.expires \in Nat /\ rec'.owner = Owner
           /\ writes' \subseteq [status : {"pending", "done"}, at : Nat]
           /\ UNCHANGED swallowed
           /\ LifeInv' /\ LastInv'
<1> DEFINE x == [status |-> status, at |-> now]
<1>1. /\ rec' = [status |-> status, owner |-> Owner, expires |-> now + WORKER_RESULT_TTL]
      /\ writes' = writes \cup {x} /\ UNCHANGED swallowed
  BY DEF Store, Ttl
<1>2. /\ rec'.status = status /\ rec'.owner = Owner /\ rec'.expires = now + WORKER_RESULT_TTL
      /\ rec'.expires \in Nat
  BY <1>1, TtlAssumption DEF RecordType
<1>3. x.status = status /\ x.at = now /\ x \in [status : {"pending", "done"}, at : Nat]
  BY DEF RecordType
<1> HIDE DEF x
<1>4. \A w \in writes' : w.at \in Nat /\ w.at <= now
  BY <1>1, <1>3 DEF RecordType, LifeInv
<1>5. LifeInv'
  BY <1>2, <1>4, TtlAssumption DEF LifeInv, RecordType
<1>6. LastInv'
  BY <1>1, <1>2, <1>3, <1>4 DEF LastInv
<1> QED
  BY <1>1, <1>2, <1>3, <1>5, <1>6 DEF RecordType

\* A write, swallowed or not, keeps the invariants of the record.
LEMMA RecordInv ==
    ASSUME RecordType, LifeInv, LastInv, NEW status \in {"pending", "done"}, record(status),
           UNCHANGED now
    PROVE  /\ rec'.status \in {status, rec.status} /\ rec'.expires \in Nat
           /\ writes' \subseteq [status : {"pending", "done"}, at : Nat]
           /\ swallowed' \subseteq {"pending", "done"}
           /\ LifeInv' /\ LastInv'
<1>1. CASE Store(status)
  BY <1>1, StoreInv DEF RecordType
<1>2. CASE swallowed' = swallowed \cup {status} /\ UNCHANGED <<rec, writes>>
  BY <1>2 DEF RecordType, LifeInv, LastInv
<1> QED
  BY <1>1, <1>2 DEF record

\* Every step, or none, keeps the invariant.
LEMMA RecordsNext == RecordsInv /\ [PollNext]_pollVars => RecordsInv'
<1> SUFFICES ASSUME RecordsInv, [PollNext]_pollVars PROVE RecordsInv'
  OBVIOUS
<1> USE DEF RecordsInv
<1>1. CASE UNCHANGED pollVars
  BY <1>1 DEF pollVars, RecordType, LifeInv, LastInv, ToldInv
<1>2. CASE Tick
  BY <1>2 DEF Tick, RecordType, LifeInv, LastInv, ToldInv
<1>3. CASE SendTask
  BY <1>3 DEF SendTask, RecordType, LifeInv, LastInv, ToldInv
<1>4. CASE Seed
  <2>1. /\ record("pending") /\ web = "sent" /\ web' = "accepted"
        /\ UNCHANGED <<now, task, redelivered, sawResult>>
    BY <1>4 DEF Seed
  <2>2. /\ rec'.status \in {"pending", rec.status} /\ rec'.expires \in Nat
        /\ writes' \subseteq [status : {"pending", "done"}, at : Nat]
        /\ swallowed' \subseteq {"pending", "done"} /\ LifeInv' /\ LastInv'
    BY <2>1, RecordInv
  <2> QED
    BY <2>1, <2>2 DEF RecordType, ToldInv
<1>5. CASE Finalize
  <2>1. /\ record("done") /\ task' = "recorded"
        /\ UNCHANGED <<now, web, redelivered, sawResult>>
    BY <1>5 DEF Finalize
  <2>2. /\ rec'.status \in {"done", rec.status} /\ rec'.expires \in Nat
        /\ writes' \subseteq [status : {"pending", "done"}, at : Nat]
        /\ swallowed' \subseteq {"pending", "done"} /\ LifeInv' /\ LastInv'
    BY <2>1, RecordInv
  <2> QED
    BY <2>1, <2>2 DEF RecordType, ToldInv
<1>6. CASE Ack
  BY <1>6 DEF Ack, RecordType, LifeInv, LastInv, ToldInv
<1>7. CASE Redeliver
  BY <1>7 DEF Redeliver, RecordType, LifeInv, LastInv, ToldInv
<1>8. CASE Poll
  <2>1. /\ web = "accepted" /\ sawResult' \in BOOLEAN
        /\ sawResult' => sawResult \/ job_status(Owner) = "done"
        /\ UNCHANGED <<now, web, task, redelivered, rec, writes, swallowed>>
    BY <1>8 DEF Poll
  <2>2. job_status(Owner) = "done" => rec.status = "done"
    BY DEF job_status
  <2> QED
    BY <2>1, <2>2 DEF RecordType, LifeInv, LastInv, ToldInv
<1>9. CASE PollFails
  BY <1>9 DEF PollFails, RecordType, LifeInv, LastInv, ToldInv
<1> QED
  BY <1>1, <1>2, <1>3, <1>4, <1>5, <1>6, <1>7, <1>8, <1>9 DEF PollNext

\* The inductive invariant is an invariant.
LEMMA RecordsInvariant == PollSpec => []RecordsInv
  BY RecordsInit, RecordsNext, PTL DEF PollSpec

\* For any time to live, an accepted job that is not found has had no successful
\* write for that long.
THEOREM NotFound == PollSpec => []NotFoundIsExplained
<1>1. RecordsInv => NotFoundIsExplained
  <2> SUFFICES ASSUME RecordsInv, job_status(Owner) = "404", NEW w \in writes
               PROVE  now >= w.at + WORKER_RESULT_TTL
    BY DEF NotFoundIsExplained
  <2>1. /\ w.at \in Nat /\ w.at + WORKER_RESULT_TTL <= rec.expires
        /\ rec.expires \in Nat /\ now \in Nat
    BY DEF RecordsInv, RecordType, LifeInv
  <2>2. rec.expires > 0 /\ rec.owner = Owner
    BY <2>1, TtlAssumption DEF RecordsInv, LifeInv
  <2>3. ~ (now < rec.expires)
    BY <2>2 DEF job_status, RecordsInv, RecordType
  <2> QED
    BY <2>1, <2>3, TtlAssumption
<1> QED
  BY <1>1, RecordsInvariant, PTL

\* A job that has ended is answered with "pending" only when its result was not
\* written, or was written before the seed.
THEOREM Overtaken == PollSpec => []PendingIsExplained
<1>1. RecordsInv => PendingIsExplained
  <2> SUFFICES ASSUME RecordsInv, job_status(Owner) = "pending",
                      NEW d \in {w \in writes : w.status = "done"}
               PROVE  \E p \in writes : p.status = "pending" /\ d.at <= p.at
    BY DEF PendingIsExplained
  <2>1. rec.status = "pending"
    BY DEF job_status
  <2> QED
    BY <2>1 DEF RecordsInv, LastInv
<1> QED
  BY <1>1, RecordsInvariant, PTL

\* Through redeliveries, expiries and failed writes, a caller that has been told
\* its result is never told "pending" again.
THEOREM ResultStays == PollSpec => []ResultStaysResult
<1>1. RecordsInv => ResultStaysResult
  BY DEF RecordsInv, ToldInv, ResultStaysResult, job_status
<1> QED
  BY <1>1, RecordsInvariant, PTL

=============================================================================
