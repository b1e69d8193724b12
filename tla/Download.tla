------------------------------ MODULE Download ------------------------------
(***************************************************************************)
(* The download of one source by a worker (tasks.py, scan_task from the    *)
(* response on, _wire_cap, _check_limits, _write_plaintext and             *)
(* _write_decrypted; encryption.py, decrypt_chunk).                        *)
(*                                                                         *)
(* A source is what the request declares (whether the file is encrypted,   *)
(* in how many parts and with which chunk size), the encrypted blobs its   *)
(* owner really produced, and the bytes the server sends, which can be     *)
(* anything.  A byte is a token <<part, offset>>, so that authentication   *)
(* is equality: a blob decrypts in a position exactly when it is the blob  *)
(* its owner made for this position.  The sizes are small: the properties  *)
(* depend on their order, not on their values.                             *)
(***************************************************************************)
EXTENDS Integers, Sequences, SequencesExt

CONSTANTS
    Bytes,
    MAX_URL_SIZE,       \* largest file that is scanned
    OVERHEAD,           \* encryption.OVERHEAD_PER_CHUNK: IV and tag of a blob
    READ,               \* most bytes one read of the stream returns
    MIN_CHUNK,          \* ENCRYPTION_MIN_CHUNK_SIZE
    MAX_CHUNK,          \* ENCRYPTION_MAX_CHUNK_SIZE
    NoLength,           \* no Content-Length header, or a malformed one
    Sources             \* the sources that may be met

SourceType ==
    [encrypted : BOOLEAN, known_scheme : BOOLEAN, chunk_size : Int, parts : Int,
     blobs : Seq(Seq(Bytes)), wire : Seq(Bytes), declared : Nat \cup {NoLength}]

ASSUME DownloadAssumption ==
    /\ MAX_URL_SIZE \in Nat
    /\ OVERHEAD \in Nat
    /\ READ \in Nat \ {0}
    /\ MIN_CHUNK \in Nat \ {0}
    /\ MAX_CHUNK \in Nat
    /\ NoLength \notin Nat
    /\ Sources \subseteq SourceType

VARIABLES
    src,          \* the source
    pc,           \* "head", "open", "read", "blobs", "done"
    wire,         \* the bytes still to come
    read,         \* bytes read off the wire
    buffer,       \* bytes not decrypted yet
    part_number,  \* blobs decrypted so far
    disk,         \* the temporary file
    outcome       \* "none", "accepted", or why the source was refused

vars == <<src, pc, wire, read, buffer, part_number, disk, outcome>>

Init ==
    /\ src \in Sources
    /\ pc = "head"
    /\ wire = src.wire
    /\ read = 0
    /\ buffer = << >>
    /\ part_number = 0
    /\ disk = << >>
    /\ outcome = "none"

Finish(why) == pc' = "done" /\ outcome' = why

\* A plausible slip in _wire_cap: the last, shorter chunk gets no room.
MutWireCapFloor(s) ==
    IF ~ s.encrypted \/ s.chunk_size <= 0 THEN MAX_URL_SIZE
    ELSE MAX_URL_SIZE + (MAX_URL_SIZE \div s.chunk_size) * OVERHEAD

\* _wire_cap: MAX_URL_SIZE counts the plaintext; an encrypted source gets the
\* room its chunking adds, one overhead per chunk, rounded up.
wire_cap(s) ==
    LET ceil == (MAX_URL_SIZE + s.chunk_size - 1) \div s.chunk_size
    IN  IF ~ s.encrypted \/ s.chunk_size <= 0 THEN MAX_URL_SIZE
        ELSE MAX_URL_SIZE + (IF ceil > 1 THEN ceil ELSE 1) * OVERHEAD

\* The Content-Length check of scan_task: a cheap refusal up front.
DeclaredTooLarge == src.declared # NoLength /\ src.declared > wire_cap(src)

CheckHead ==
    /\ pc = "head"
    /\ IF DeclaredTooLarge THEN Finish("too_large") ELSE pc' = "open" /\ UNCHANGED outcome
    /\ UNCHANGED <<src, wire, read, buffer, part_number, disk>>

BadParams ==
    /\ src.encrypted
    /\ \/ ~ src.known_scheme
       \/ src.chunk_size \notin MIN_CHUNK..MAX_CHUNK
       \/ src.parts < 0

\* The parameter checks at the top of _write_decrypted, then open().
Open ==
    /\ pc = "open"
    /\ IF BadParams THEN Finish("undecryptable") ELSE pc' = "read" /\ UNCHANGED outcome
    /\ UNCHANGED <<src, wire, read, buffer, part_number, disk>>

First(s, k) == SubSeq(s, 1, k)
Rest(s, k) == SubSeq(s, k + 1, Len(s))

\* A plausible slip: the limit is checked before the new bytes are counted.
MutOverLimitStale(n) == read > wire_cap(src)

\* _check_limits, the size budget.
OverLimit(n) == n > wire_cap(src)

\* One turn of the loop on iter_content: k bytes arrive, the limits are
\* checked, and the bytes are written out or buffered.
ReadChunk(k) ==
    /\ pc = "read"
    /\ wire # << >>
    /\ read' = read + k
    /\ wire' = Rest(wire, k)
    /\ IF OverLimit(read + k)
       THEN Finish("too_large") /\ UNCHANGED <<buffer, disk>>
       ELSE /\ UNCHANGED outcome
            /\ IF src.encrypted
               THEN pc' = "blobs" /\ buffer' = buffer \o First(wire, k) /\ UNCHANGED disk
               ELSE pc' = "read" /\ disk' = disk \o First(wire, k) /\ UNCHANGED buffer
    /\ UNCHANGED <<src, part_number>>

\* The time budget is exceeded when the next bytes arrive, or the connection
\* is lost or stalls.
ReadFails(why) ==
    /\ pc = "read"
    /\ why = "timeout" => wire # << >>
    /\ Finish(why)
    /\ UNCHANGED <<src, wire, read, buffer, part_number, disk>>

\* decrypt_chunk: the blob is long enough and authentic in this position of
\* this file (the AAD is file_id:part:parts).
Authentic(blob, part) ==
    /\ Len(blob) > OVERHEAD
    /\ src.parts = Len(src.blobs)
    /\ part \in DOMAIN src.blobs
    /\ blob = src.blobs[part]

Plain(blob) == First(blob, Len(blob) - OVERHEAD)

\* Decrypt one blob and _write_plain it; "ok" is what follows.
WriteBlob(blob, ok) ==
    IF ~ Authentic(blob, part_number + 1)
    THEN Finish("undecryptable") /\ UNCHANGED <<disk, part_number>>
    ELSE /\ part_number' = part_number + 1
         /\ IF Len(disk) + Len(Plain(blob)) > MAX_URL_SIZE
            THEN Finish("too_large") /\ UNCHANGED disk
            ELSE disk' = disk \o Plain(blob) /\ ok

BlobSize == src.chunk_size + OVERHEAD

\* The inner loop: a whole blob is decrypted and dropped from the buffer ...
DecryptBlob ==
    /\ pc = "blobs"
    /\ Len(buffer) >= BlobSize
    /\ WriteBlob(First(buffer, BlobSize), UNCHANGED <<pc, outcome>>)
    /\ buffer' = Rest(buffer, BlobSize)
    /\ UNCHANGED <<src, wire, read>>

\* A plausible slip: "if" for "while", one blob is decrypted per read.
MutNextChunkUndrained ==
    /\ pc = "blobs"
    /\ pc' = "read"
    /\ UNCHANGED <<src, wire, read, buffer, part_number, disk, outcome>>

\* ... until the buffer holds less than one.
NextChunk ==
    /\ pc = "blobs"
    /\ Len(buffer) < BlobSize
    /\ pc' = "read"
    /\ UNCHANGED <<src, wire, read, buffer, part_number, disk, outcome>>

\* A plausible slip: the number of parts is not compared at the end.
MutCheckPartsSkipped(n) == Finish("accepted")

\* The trailing-truncation guard.
CheckParts(n) == Finish(IF n = src.parts THEN "accepted" ELSE "undecryptable")

\* A plausible slip: the end of the stream inside a blob is not seen as one.
MutEndOfStreamWaits ==
    /\ pc = "read"
    /\ wire = << >> /\ buffer = << >>
    /\ IF src.encrypted THEN CheckParts(part_number) ELSE Finish("accepted")
    /\ UNCHANGED <<src, wire, read, buffer, part_number, disk>>

\* The stream ends: an encrypted tail is decrypted, and the parts counted.
EndOfStream ==
    /\ pc = "read"
    /\ wire = << >>
    /\ IF src.encrypted /\ buffer # << >>
       THEN WriteBlob(buffer, CheckParts(part_number + 1))
       ELSE /\ UNCHANGED <<part_number, disk>>
            /\ IF src.encrypted THEN CheckParts(part_number) ELSE Finish("accepted")
    /\ UNCHANGED <<src, wire, read, buffer>>

Step ==
    \/ CheckHead
    \/ Open
    \/ \E k \in 1..READ : k <= Len(wire) /\ ReadChunk(k)
    \/ DecryptBlob
    \/ NextChunk
    \/ EndOfStream

Next ==
    \/ Step
    \/ \E why \in {"timeout", "lost"} : ReadFails(why)

Spec == Init /\ [][Next]_vars

\* The stream of a source is finite and every read returns: each read has a
\* socket timeout and the whole transfer a budget.
FairSpec == Spec /\ WF_vars(Step)

-----------------------------------------------------------------------------

\* The file the owner of an encrypted source started from.
Original == FlattenSeq([p \in DOMAIN src.blobs |-> Plain(src.blobs[p])])

\* The type invariant: among others, a download is over exactly when it has an
\* outcome.
TypeOK ==
    /\ src \in SourceType
    /\ pc \in {"head", "open", "read", "blobs", "done"}
    /\ wire \in Seq(Bytes) /\ buffer \in Seq(Bytes) /\ disk \in Seq(Bytes)
    /\ read \in Nat /\ part_number \in Nat
    /\ outcome \in {"none", "accepted", "too_large", "undecryptable", "timeout", "lost"}
    /\ pc = "done" <=> outcome # "none"

\* What is scanned is the file: a plain download is accepted only as the server
\* sent it, in full; and when the request describes an encrypted source as its
\* owner made it, an accepted download is the whole original in order, whatever
\* the server truncated, dropped, repeated, swapped, altered or appended
\* (tasks.py:187-271).
AcceptedIsTheFile ==
    outcome = "accepted" =>
        /\ ~ src.encrypted => disk = src.wire
        /\ src.encrypted /\ src.parts = Len(src.blobs) => disk = Original

\* The wire a truthful server sends for a source.
Truthful ==
    /\ src.encrypted =>
          /\ ~ BadParams
          /\ src.parts = Len(src.blobs)
          /\ src.wire = FlattenSeq(src.blobs)
          /\ \A p \in DOMAIN src.blobs :
                /\ Len(src.blobs[p]) \in (OVERHEAD + 1)..BlobSize
                /\ p < Len(src.blobs) => Len(src.blobs[p]) = BlobSize
    /\ src.declared \in {NoLength, Len(src.wire)}

\* MAX_URL_SIZE bounds the file, not its transport: a truthful source whose file
\* fits is never refused for its size or its encryption, at any size up to the
\* cap (tasks.py:152-167: "an encrypted source gets the room its chunking adds").
FittingFileIsNotRefused ==
    LET size == IF src.encrypted THEN Len(Original) ELSE Len(src.wire)
    IN  Truthful /\ size <= MAX_URL_SIZE => outcome \notin {"too_large", "undecryptable"}

\* The scan volume is bounded: no source, however it understates its length,
\* puts more than MAX_URL_SIZE bytes on disk (tasks.py:170-184, 231-238).
DiskBounded == Len(disk) <= MAX_URL_SIZE

\* Worker memory is bounded: the buffer never holds more than one blob and one
\* read, and at most one read beyond the cap is taken off the wire.
MemoryBounded ==
    /\ src.encrypted /\ pc \in {"read", "blobs"} => Len(buffer) < BlobSize + READ
    /\ read <= wire_cap(src) + READ

\* Every download ends.
DownloadEnds == <>(pc = "done")
=============================================================================
