-------------------------------- MODULE Clamd -------------------------------
(***************************************************************************)
(* The exchange of a scan with a pool of daemons: the host picked for each *)
(* try, the stream cut in chunks and ended by an empty one, the reply or   *)
(* the lack of one, and the retry of the task (scanners/clamav.py,         *)
(* scanners/exav.py).  The clamd library frames INSTREAM as exinstream     *)
(* frames EXINSTREAM; the daemons are external, and may stop at any time.  *)
(***************************************************************************)
EXTENDS Naturals, Backends

CONSTANTS
    Hosts,          \* CLAMAV_HOSTS, or EXAV_HOSTS
    MaxChunks,      \* bound on the length of a file, in chunks
    StreamMax,      \* the daemons' StreamMaxLength, in chunks
    MAX_RETRIES,    \* of the task
    MaxStops        \* bound on the times a daemon goes down

ASSUME MaxChunksAssumption == MaxChunks \in Nat

NoHost == "none"

VARIABLES
    engine,     \* "clamav" or "exav"
    size,       \* chunks in the file
    up,         \* the daemons that run
    stops,      \* times a daemon went down
    pc,         \* pick, send, reply, verdict, done
    host,       \* the daemon of this try
    read,       \* chunks read from the file and sent
    stream,     \* what the daemon has of the stream: [chunks, ended, open]
    retries,
    kind        \* the kind of the last verdict, "none" before it

vars == <<engine, size, up, stops, pc, host, read, stream, retries, kind>>

NoStream == [chunks |-> 0, ended |-> FALSE, open |-> FALSE]

Init ==
    /\ engine \in {"clamav", "exav"} /\ size \in 0..MaxChunks
    /\ up \in SUBSET Hosts /\ stops = 0
    /\ pc = "pick" /\ host = NoHost /\ read = 0 /\ stream = NoStream
    /\ retries = 0 /\ kind = "none"

\* A daemon stops, and its connections with it.
Stop(h) ==
    /\ h \in up /\ stops < MaxStops /\ pc # "done"
    /\ up' = up \ {h} /\ stops' = stops + 1
    /\ stream' = [stream EXCEPT !.open = @ /\ h # host]
    /\ UNCHANGED <<engine, size, pc, host, read, retries, kind>>

Start(h) ==
    /\ h \notin up /\ pc # "done"
    /\ up' = up \cup {h}
    /\ UNCHANGED <<engine, size, stops, pc, host, read, stream, retries, kind>>

\* What the backend makes of the reply.
Verdict(reply) == IF engine = "exav" THEN exav_scan(reply) ELSE clamav_scan(reply)

\* The scan is over with a reply, or with a failure the code tells apart.
Conclude(reply) ==
    /\ kind' = Verdict(reply)
    /\ pc' = "verdict"
    /\ UNCHANGED <<engine, size, up, stops, host, read, stream, retries>>

\* _client: a host at random; the socket is opened, a host that is down refuses.
Connect(h) ==
    /\ pc = "pick" /\ h \in up
    /\ host' = h /\ read' = 0 /\ stream' = [NoStream EXCEPT !.open = TRUE]
    /\ pc' = "send"
    /\ UNCHANGED <<engine, size, up, stops, retries, kind>>

ConnectRefused(h) ==
    /\ pc = "pick" /\ h \notin up
    /\ host' = h /\ read' = 0 /\ stream' = NoStream
    /\ kind' = Verdict("connection_error") /\ pc' = "verdict"
    /\ UNCHANGED <<engine, size, up, stops, retries>>

\* A plausible slip: the loop ends with the first chunk that is not full, before
\* it is sent.
MutMoreToSend == read + 1 < size

\* while chunk: ...
MoreToSend == read < size

\* The daemon takes what it is sent while the connection and its limit last.
SendChunk ==
    /\ pc = "send" /\ MoreToSend
    /\ stream.open /\ read < StreamMax
    /\ read' = read + 1
    /\ stream' = [stream EXCEPT !.chunks = @ + 1]
    /\ UNCHANGED <<engine, size, up, stops, pc, host, retries, kind>>

\* The daemon is gone, has closed the stream at its limit, or has stopped
\* reading: the send fails or times out.  A chunk may still be taken by the local
\* buffers after the daemon has gone, and the failure show at the reply only.
SendFails ==
    /\ pc = "send" /\ MoreToSend
    /\ Conclude(IF engine = "exav" THEN "connection_error" ELSE "closed_mid_stream")

SendUnseen ==
    /\ pc = "send" /\ MoreToSend
    /\ ~ stream.open \/ read >= StreamMax
    /\ read' = read + 1
    /\ UNCHANGED <<engine, size, up, stops, pc, host, stream, retries, kind>>

\* The empty chunk that ends the stream.
SendEnd ==
    /\ pc = "send" /\ ~ MoreToSend
    /\ stream' = [stream EXCEPT !.ended = (stream.open /\ stream.chunks = read)]
    /\ pc' = "reply"
    /\ UNCHANGED <<engine, size, up, stops, host, read, retries, kind>>

\* What a daemon that has the whole stream may answer (external).
Replies ==
    IF engine = "exav" THEN ExavReplies \ {"connection_error"} ELSE ClamdReplies \ ClamdFailures

Reply(r) ==
    /\ pc = "reply" /\ stream.open /\ stream.ended
    /\ Conclude(r)

\* No reply: the connection is closed without one, reset, or times out.  The
\* reader of exav gets an empty line, which is not JSON; that of clamd nothing.
NoReply ==
    /\ pc = "reply"
    /\ \E r \in IF engine = "exav" THEN {"connection_error", "not_json"} ELSE ClamdFailures :
          Conclude(r)

\* The task: an error is retried while the budget lasts, on a fresh client.
Settle ==
    /\ pc = "verdict"
    /\ IF kind = "error" /\ retries < MAX_RETRIES
       THEN pc' = "pick" /\ retries' = retries + 1
       ELSE pc' = "done" /\ UNCHANGED retries
    /\ UNCHANGED <<engine, size, up, stops, host, read, stream, kind>>

Task ==
    \/ \E h \in Hosts : Connect(h) \/ ConnectRefused(h)
    \/ SendChunk \/ SendFails \/ SendUnseen \/ SendEnd
    \/ \E r \in ClamdReplies \cup ExavReplies : r \in Replies /\ Reply(r)
    \/ NoReply \/ Settle

Next == Task \/ \E h \in Hosts : Stop(h) \/ Start(h)

Spec == Init /\ [][Next]_vars

-----------------------------------------------------------------------------

\* A verdict about the file (clean, malware or partial) needs the whole file in
\* the hands of the daemon that gave it: every chunk and the end of the stream
\* arrived on this very try, however often daemons stopped before or during it and
\* whatever limit they have.  A daemon that went away, hit its limit or kept silent
\* is never taken for a property of the file: that is an error, which is retried
\* (clamav.py:113-147, exav.py:45-91).
VerdictNeedsWholeStream ==
    kind \in {"clean", "malware", "partial"} => stream.ended /\ stream.chunks = size
=============================================================================
