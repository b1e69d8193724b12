---------------------------- MODULE DownloadProofs --------------------------
(***************************************************************************)
(* Theorems about Download, for any limits, chunk sizes and bodies.  The   *)
(* inductive invariant IInv says what the counters have counted, what the  *)
(* buffers hold and what is on the disk: the plain file is a prefix of the *)
(* body, an encrypted one the chunks decrypted so far.  FitInv adds that a *)
(* file within the limits keeps within them at each step.  The lemmas on   *)
(* joined chunks and rounding go by induction on the number of chunks,     *)
(* with SetInduction.                                                      *)
(***************************************************************************)
EXTENDS Download, Lemmas

\* Concatenation of bytes gives bytes ...
LEMMA Closed ==
    \A s \in Seq(Bytes), t \in Seq(Bytes) : s \o t \in Seq(Bytes)
  BY ConcatProperties

\* ... and is associative.
LEMMA Associates ==
    \A s \in Seq(Bytes), t \in Seq(Bytes), u \in Seq(Bytes) : (s \o t) \o u = s \o (t \o u)
<1> TAKE s \in Seq(Bytes), t \in Seq(Bytes), u \in Seq(Bytes)
<1> QED
  BY ConcatAssociative

-----------------------------------------------------------------------------

\* The plaintexts of the blobs the owner made.
Parts == [p \in DOMAIN src.blobs |-> Plain(src.blobs[p])]

\* The bytes off the wire are counted, and within the cap while reading goes on.
CountInv ==
    /\ read + Len(wire) = Len(src.wire)
    /\ read <= wire_cap(src) + READ
    /\ pc # "done" => read <= wire_cap(src)

\* A plain file: what is on disk and what is still to come are what was sent.
PlainInv ==
    ~ src.encrypted =>
        /\ pc # "blobs"
        /\ pc # "done" => disk \o wire = src.wire /\ Len(disk) = read
        /\ outcome = "accepted" => disk = src.wire

\* An encrypted one is read with parameters that were checked, and its buffer is
\* drained before the next read.
BufferInv ==
    src.encrypted =>
        /\ pc \in {"head", "open"} => buffer = << >>
        /\ pc \in {"read", "blobs"} => ~ BadParams
        /\ pc = "read" => Len(buffer) < BlobSize
        /\ pc = "blobs" => Len(buffer) < BlobSize + READ

\* The disk has the plaintexts of the first blobs of the owner, in their order.
DiskInv ==
    src.encrypted /\ outcome \in {"none", "accepted"} =>
        /\ part_number <= Len(src.blobs)
        /\ disk = Joined(Parts, part_number)
        /\ outcome = "accepted" => part_number = src.parts

IInv == TypeOK /\ CountInv /\ PlainInv /\ BufferInv /\ DiskInv /\ DiskBounded

-----------------------------------------------------------------------------

\* A source, field by field.
LEMMA SourceFields ==
    ASSUME NEW s \in SourceType
    PROVE  /\ s.encrypted \in BOOLEAN /\ s.chunk_size \in Int /\ s.parts \in Int
           /\ s.blobs \in Seq(Seq(Bytes)) /\ s.wire \in Seq(Bytes)
           /\ s.declared \in Nat \cup {NoLength}
  BY DEF SourceType

\* The product of two naturals is one.
LEMMA MulNat ==
    ASSUME NEW a \in Nat, NEW b \in Nat
    PROVE  a * b \in Nat
  OBVIOUS

\* The cap is a number; for a plain source it is MAX_URL_SIZE.
LEMMA CapIsNat ==
    ASSUME NEW s \in SourceType
    PROVE  wire_cap(s) \in Nat /\ (~ s.encrypted => wire_cap(s) = MAX_URL_SIZE)
<1> DEFINE ceil == (MAX_URL_SIZE + s.chunk_size - 1) \div s.chunk_size
           room == IF ceil > 1 THEN ceil ELSE 1
<1>1. MAX_URL_SIZE \in Nat /\ OVERHEAD \in Nat /\ s.chunk_size \in Int
  BY DownloadAssumption, SourceFields
<1>2. CASE ~ s.encrypted \/ s.chunk_size <= 0
  BY <1>1, <1>2 DEF wire_cap
<1>3. CASE s.encrypted /\ ~ (s.chunk_size <= 0)
  <2>1. ceil \in Int
    BY <1>1, <1>3
  <2>2. wire_cap(s) = MAX_URL_SIZE + room * OVERHEAD
    BY <1>3, Zenon DEF wire_cap
  <2> HIDE DEF ceil
  <2>3. room \in Nat
    BY <2>1
  <2> HIDE DEF room
  <2>4. room * OVERHEAD \in Nat
    BY <1>1, <2>3, MulNat
  <2> QED
    BY <1>1, <1>3, <2>2, <2>4
<1> QED
  BY <1>2, <1>3

\* A sequence is cut in two that join to it.
LEMMA Cut ==
    ASSUME NEW S, NEW s \in Seq(S), NEW k \in 0..Len(s)
    PROVE  /\ First(s, k) \in Seq(S) /\ Len(First(s, k)) = k
           /\ Rest(s, k) \in Seq(S) /\ Len(Rest(s, k)) = Len(s) - k
           /\ \A i \in 1..k : First(s, k)[i] = s[i]
           /\ First(s, k) \o Rest(s, k) = s
<1>1. \A i \in 1..k : s[i] \in S
  OBVIOUS
<1>2. \A i \in (k + 1)..Len(s) : s[i] \in S
  OBVIOUS
<1>3. /\ First(s, k) \in Seq(S) /\ Len(First(s, k)) = k
      /\ \A i \in 1..k : First(s, k)[i] = s[i]
  BY <1>1, SubSeqProperties DEF First
<1>4. Rest(s, k) \in Seq(S) /\ Len(Rest(s, k)) = Len(s) - k
  BY <1>2, SubSeqProperties DEF Rest
<1>5. First(s, k) \o Rest(s, k) = s
  <2>1. 1 \in 1..(Len(s) + 1) /\ k \in (1 - 1)..Len(s) /\ Len(s) \in k..Len(s)
    OBVIOUS
  <2>2. SubSeq(s, 1, k) \o SubSeq(s, k + 1, Len(s)) = SubSeq(s, 1, Len(s))
    BY <2>1, ConcatAdjacentSubSeq
  <2> QED
    BY <2>2, SubSeqFull DEF First, Rest
<1> QED
  BY <1>3, <1>4, <1>5

\* The plaintext of a blob.
LEMMA PlainType ==
    ASSUME NEW b \in Seq(Bytes)
    PROVE  /\ Plain(b) \in Seq(Bytes)
           /\ Len(b) > OVERHEAD => Len(Plain(b)) = Len(b) - OVERHEAD
<1>1. OVERHEAD \in Nat /\ Len(b) \in Nat /\ 1 \in Int /\ Len(b) - OVERHEAD \in Int
  BY DownloadAssumption, LenProperties
<1>2. \A i \in 1..(Len(b) - OVERHEAD) : b[i] \in Bytes
  BY <1>1
<1>3. /\ SubSeq(b, 1, Len(b) - OVERHEAD) \in Seq(Bytes)
      /\ Len(SubSeq(b, 1, Len(b) - OVERHEAD))
         = IF 1 <= Len(b) - OVERHEAD THEN (Len(b) - OVERHEAD) - 1 + 1 ELSE 0
  BY <1>1, <1>2, SubSeqProperties
<1> QED
  BY <1>1, <1>3 DEF Plain, First

\* The plaintexts are sequences of bytes, one per blob.
LEMMA PartsType ==
    ASSUME src \in SourceType
    PROVE  /\ Parts \in Seq(Seq(Bytes)) /\ Len(Parts) = Len(src.blobs)
           /\ \A p \in 1..Len(src.blobs) : Parts[p] = Plain(src.blobs[p])
<1>1. src.blobs \in Seq(Seq(Bytes))
  BY SourceFields
<1>2. DOMAIN src.blobs = 1..Len(src.blobs) /\ Len(src.blobs) \in Nat
  BY <1>1, LenProperties
<1>3. \A p \in 1..Len(src.blobs) : Plain(src.blobs[p]) \in Seq(Bytes)
  BY <1>1, PlainType
<1>4. Parts = [p \in 1..Len(src.blobs) |-> Plain(src.blobs[p])]
  BY <1>2, Zenon DEF Parts
<1>5. Parts \in [1..Len(src.blobs) -> Seq(Bytes)]
  BY <1>3, <1>4
<1> QED
  BY <1>2, <1>4, <1>5

-----------------------------------------------------------------------------

\* The invariant holds initially.
LEMMA InitInv == Init => IInv
<1> SUFFICES ASSUME Init PROVE IInv
  OBVIOUS
<1>1. src \in SourceType
  BY DownloadAssumption DEF Init
<1>2. src.wire \in Seq(Bytes) /\ src.blobs \in Seq(Seq(Bytes)) /\ src.encrypted \in BOOLEAN
  BY <1>1, SourceFields
<1>3. /\ pc = "head" /\ wire = src.wire /\ read = 0 /\ buffer = << >> /\ part_number = 0
      /\ disk = << >> /\ outcome = "none"
  BY DEF Init
<1>4. Len(disk) = 0 /\ Len(wire) \in Nat /\ Len(src.blobs) \in Nat /\ disk \in Seq(Bytes)
  BY <1>2, <1>3
<1>5. wire_cap(src) \in Nat /\ READ \in Nat /\ MAX_URL_SIZE \in Nat
  BY <1>1, CapIsNat, DownloadAssumption
<1>6. TypeOK
  BY <1>1, <1>2, <1>3, <1>4 DEF TypeOK
<1>7. CountInv
  BY <1>3, <1>4, <1>5 DEF CountInv
<1>8. PlainInv
  BY <1>2, <1>3, <1>4, ConcatEmptySeq DEF PlainInv
<1>9. BufferInv
  BY <1>3 DEF BufferInv
<1>10. DiskInv
  BY <1>3, <1>4 DEF DiskInv, Joined
<1>11. DiskBounded
  BY <1>4, <1>5 DEF DiskBounded
<1> QED
  BY <1>6, <1>7, <1>8, <1>9, <1>10, <1>11 DEF IInv

\* What the types of the constants, the source and the variables come to.
Typed ==
    /\ src \in SourceType /\ src.encrypted \in BOOLEAN
    /\ src.wire \in Seq(Bytes) /\ src.blobs \in Seq(Seq(Bytes))
    /\ src.chunk_size \in Int /\ src.parts \in Int
    /\ wire_cap(src) \in Nat /\ READ \in Nat \ {0} /\ MAX_URL_SIZE \in Nat
    /\ OVERHEAD \in Nat /\ MIN_CHUNK \in Nat \ {0}
    /\ wire \in Seq(Bytes) /\ buffer \in Seq(Bytes) /\ disk \in Seq(Bytes)
    /\ Len(wire) \in Nat /\ Len(buffer) \in Nat /\ Len(disk) \in Nat
    /\ Len(src.blobs) \in Nat /\ read \in Nat /\ part_number \in Nat
    /\ ~ src.encrypted => wire_cap(src) = MAX_URL_SIZE

\* They follow from the type invariant and the assumptions on the constants.
LEMMA Facts == IInv => Typed
<1> SUFFICES ASSUME IInv PROVE Typed
  OBVIOUS
<1>1. TypeOK
  BY DEF IInv
<1>2. src \in SourceType
  BY <1>1 DEF TypeOK
<1> QED
  BY <1>1, <1>2, SourceFields, CapIsNat, DownloadAssumption, LenProperties DEF TypeOK, Typed

\* A step that only changes pc and the outcome disturbs nothing when the download
\* ends refused.
LEMMA RefusedInv ==
    ASSUME IInv, NEW why \in {"too_large", "undecryptable", "timeout", "lost"}, Finish(why),
           UNCHANGED <<src, disk>>, CountInv', wire' \in Seq(Bytes), buffer' \in Seq(Bytes),
           read' \in Nat, part_number' \in Nat
    PROVE  IInv'
<1>1. pc' = "done" /\ outcome' = why /\ src' = src /\ disk' = disk
  BY DEF Finish
<1>2. TypeOK'
  BY <1>1 DEF IInv, TypeOK
<1>3. PlainInv' /\ BufferInv' /\ DiskInv' /\ DiskBounded'
  BY <1>1 DEF IInv, PlainInv, BufferInv, DiskInv, DiskBounded
<1> QED
  BY <1>2, <1>3 DEF IInv

\* The checks before the first read.
LEMMA HeadInv ==
    ASSUME IInv, CheckHead \/ Open
    PROVE  IInv'
<1>0. Typed
  BY Facts
<1> USE <1>0 DEF Typed
<1>1. UNCHANGED <<src, wire, read, buffer, part_number, disk>>
  BY DEF CheckHead, Open
<1>2. pc # "done"
  BY DEF CheckHead, Open
<1>3. CountInv'
  BY <1>1, <1>2 DEF IInv, CountInv
<1>4. CASE CheckHead /\ pc' = "open" /\ UNCHANGED outcome
  BY <1>1, <1>3, <1>4
  DEF CheckHead, IInv, TypeOK, PlainInv, BufferInv, DiskInv, DiskBounded, Parts, Plain, Joined
<1>5. CASE Open /\ ~ BadParams /\ pc' = "read" /\ UNCHANGED outcome
  <2>1. src.encrypted => buffer = << >> /\ BlobSize > 0
    BY <1>5 DEF Open, IInv, BufferInv, BadParams, BlobSize
  <2>2. src.encrypted => BlobSize' > 0 /\ ~ BadParams' /\ Len(buffer') = 0
    BY <1>1, <1>5, <2>1 DEF BlobSize, BadParams
  <2>3. BufferInv'
    BY <1>1, <1>5, <2>2 DEF BufferInv
  <2> QED
    BY <1>1, <1>2, <1>3, <1>5, <2>3
    DEF IInv, TypeOK, PlainInv, DiskInv, DiskBounded, Parts, Plain, Joined
<1>6. CASE Finish("too_large") \/ Finish("undecryptable")
  BY <1>1, <1>3, <1>6, RefusedInv DEF IInv, TypeOK
<1> QED
  BY <1>4, <1>5, <1>6 DEF CheckHead, Open

\* The plaintexts stay what they are while the source does.
LEMMA SameParts ==
    ASSUME src' = src
    PROVE  Parts' = Parts /\ BlobSize' = BlobSize /\ (BadParams' <=> BadParams)
  BY DEF Parts, Plain, BlobSize, BadParams

\* One turn of the read loop.
LEMMA ReadInv ==
    ASSUME IInv, NEW k \in 1..READ, k <= Len(wire), ReadChunk(k)
    PROVE  IInv'
<1>0. Typed
  BY Facts
<1> USE <1>0 DEF Typed
<1>1. k \in Nat /\ k \in 0..Len(wire) /\ k <= READ
  OBVIOUS
<1>2. /\ pc = "read" /\ read' = read + k /\ wire' = Rest(wire, k) /\ src' = src
      /\ part_number' = part_number
  BY DEF ReadChunk
<1>3. PICK piece \in Seq(Bytes), rest \in Seq(Bytes) :
         /\ piece = First(wire, k) /\ rest = Rest(wire, k) /\ piece \o rest = wire
         /\ Len(piece) = k /\ Len(rest) = Len(wire) - k
  <2>1. wire \in Seq(Bytes)
    OBVIOUS
  <2>2. /\ First(wire, k) \in Seq(Bytes) /\ Len(First(wire, k)) = k
        /\ Rest(wire, k) \in Seq(Bytes) /\ Len(Rest(wire, k)) = Len(wire) - k
        /\ First(wire, k) \o Rest(wire, k) = wire
    BY <1>1, <2>1, Cut
  <2> QED
    BY <2>2, Zenon
<1>4. outcome = "none"
  BY <1>2 DEF IInv, TypeOK
<1>5. /\ wire' = rest /\ wire' \in Seq(Bytes) /\ read' \in Nat
      /\ read' + Len(wire') = Len(src'.wire)
  <2>1. read + Len(wire) = Len(src.wire)
    BY DEF IInv, CountInv
  <2>2. wire' = rest /\ Len(wire') = Len(wire) - k
    BY <1>2, <1>3, Zenon
  <2>3. (read + k) + (Len(wire) - k) = read + Len(wire)
    BY <1>1
  <2>4. read + k \in Nat
    BY <1>1
  <2> QED
    BY <1>2, <2>1, <2>2, <2>3, <2>4, Zenon
<1>6. wire_cap(src') = wire_cap(src) /\ read' <= wire_cap(src) + READ
  BY <1>1, <1>2 DEF IInv, CountInv
<1>7. CASE OverLimit(read + k)
  <2>1. Finish("too_large") /\ buffer' = buffer /\ disk' = disk
    BY <1>7 DEF ReadChunk
  <2>2. CountInv'
    BY <1>5, <1>6, <2>1, Zenon DEF CountInv, Finish
  <2> QED
    BY <1>2, <1>5, <2>1, <2>2, RefusedInv
<1>8. CASE ~ OverLimit(read + k)
  <2>1. read' <= wire_cap(src)
    BY <1>1, <1>2, <1>8 DEF OverLimit
  <2>2. CountInv'
    BY <1>5, <1>6, <2>1, Zenon DEF CountInv
  <2>3. CASE src.encrypted
    <3>1. pc' = "blobs" /\ buffer' = buffer \o piece /\ disk' = disk /\ outcome' = outcome
      BY <1>3, <1>8, <2>3 DEF ReadChunk
    <3>2. buffer' \in Seq(Bytes) /\ Len(buffer') = Len(buffer) + k
      BY <1>3, <3>1, ConcatProperties
    <3>3. TypeOK'
      BY <1>2, <1>4, <1>5, <3>1, <3>2 DEF IInv, TypeOK
    <3>4. BufferInv'
      <4>1. BlobSize \in Int
        BY DEF BlobSize
      <4>2. Len(buffer) < BlobSize /\ ~ BadParams
        BY <1>2, <2>3 DEF IInv, BufferInv
      <4>3. Len(buffer') < BlobSize + READ
        BY <1>1, <3>2, <4>1, <4>2
      <4> QED
        BY <1>2, <3>1, <4>2, <4>3, SameParts DEF BufferInv
    <3>5. PlainInv' /\ DiskInv' /\ DiskBounded'
      BY <1>2, <1>4, <2>3, <3>1, SameParts DEF IInv, PlainInv, DiskInv, DiskBounded
    <3> QED
      BY <2>2, <3>3, <3>4, <3>5 DEF IInv
  <2>4. CASE ~ src.encrypted
    <3>1. pc' = "read" /\ disk' = disk \o piece /\ buffer' = buffer /\ outcome' = outcome
      BY <1>3, <1>8, <2>4 DEF ReadChunk
    <3>2. disk' \in Seq(Bytes) /\ Len(disk') = Len(disk) + k
      BY <1>3, <3>1, ConcatProperties
    <3>3. TypeOK'
      BY <1>2, <1>4, <1>5, <3>1, <3>2 DEF IInv, TypeOK
    <3>4. disk \o wire = src.wire /\ Len(disk) = read
      BY <1>2, <2>4 DEF IInv, PlainInv
    <3>5. disk' \o wire' = src'.wire
      <4>1. (disk \o piece) \o rest = disk \o (piece \o rest)
        <5>1. PICK d \in Seq(Bytes) : d = disk
          OBVIOUS
        <5>2. (d \o piece) \o rest = d \o (piece \o rest)
          BY Associates, Zenon
        <5> QED
          BY <5>1, <5>2, Zenon
      <4> QED
        BY <1>2, <1>3, <1>5, <3>1, <3>4, <4>1
    <3>6. PlainInv'
      BY <1>2, <1>4, <3>1, <3>2, <3>4, <3>5 DEF PlainInv
    <3>7. DiskBounded'
      BY <1>2, <2>1, <2>4, <3>2, <3>4 DEF DiskBounded
    <3>8. BufferInv' /\ DiskInv'
      BY <1>2, <2>4 DEF BufferInv, DiskInv
    <3> QED
      BY <2>2, <3>3, <3>6, <3>7, <3>8 DEF IInv
  <2> QED
    BY <2>3, <2>4
<1> QED
  BY <1>7, <1>8

\* A read that fails ends the download.
LEMMA FailInv ==
    ASSUME IInv, NEW why \in {"timeout", "lost"}, ReadFails(why)
    PROVE  IInv'
<1>1. Finish(why) /\ UNCHANGED <<src, wire, read, buffer, part_number, disk>> /\ pc = "read"
  BY DEF ReadFails
<1>2. CountInv'
  BY <1>1 DEF IInv, CountInv, Finish
<1> QED
  BY <1>1, <1>2, RefusedInv DEF IInv, TypeOK

\* A blob that is authentic in its position adds its plaintext, in that position.
LEMMA AuthenticAppends ==
    ASSUME IInv, src.encrypted, outcome = "none", NEW blob \in Seq(Bytes),
           Authentic(blob, part_number + 1)
    PROVE  /\ part_number + 1 <= Len(src.blobs)
           /\ disk \o Plain(blob) = Joined(Parts, part_number + 1)
           /\ Plain(blob) \in Seq(Bytes)
<1>0. Typed
  BY Facts
<1> USE <1>0 DEF Typed
<1>1. /\ part_number + 1 \in 1..Len(src.blobs) /\ blob = src.blobs[part_number + 1]
  BY LenProperties DEF Authentic
<1>2. /\ Parts \in Seq(Seq(Bytes)) /\ Len(Parts) = Len(src.blobs)
      /\ Parts[part_number + 1] = Plain(blob)
  BY <1>1, PartsType
<1>3. part_number \in 0..(Len(Parts) - 1)
  BY <1>1, <1>2
<1>4. disk = Joined(Parts, part_number)
  BY DEF IInv, DiskInv
<1>5. Joined(Parts, part_number + 1) = Joined(Parts, part_number) \o Parts[part_number + 1]
  BY <1>2, <1>3, JoinedStep
<1>6. disk \o Plain(blob) = Joined(Parts, part_number + 1)
  BY <1>2, <1>4, <1>5, Zenon
<1>7. part_number + 1 <= Len(src.blobs)
  BY <1>1
<1> QED
  BY <1>6, <1>7, PlainType

\* One blob is decrypted, or refused; the conjuncts of the invariant that are
\* about the buffer are the caller's.
LEMMA BlobInv ==
    ASSUME IInv, src.encrypted, outcome = "none", NEW blob \in Seq(Bytes), src' = src,
           wire' = wire, read' = read, buffer' \in Seq(Bytes),
           \/ WriteBlob(blob, UNCHANGED <<pc, outcome>>) /\ BufferInv'
           \/ WriteBlob(blob, CheckParts(part_number + 1))
    PROVE  IInv'
<1>0. Typed
  BY Facts
<1>1. pc # "done"
  BY DEF IInv, TypeOK
<1>2. CountInv'
  BY <1>1 DEF IInv, CountInv
<1>3. CASE ~ Authentic(blob, part_number + 1)
  <2>1. Finish("undecryptable") /\ UNCHANGED <<disk, part_number>>
    BY <1>3 DEF WriteBlob
  <2> QED
    BY <1>0, <1>2, <2>1, RefusedInv DEF Typed
<1>4. CASE /\ Authentic(blob, part_number + 1)
           /\ Len(disk) + Len(Plain(blob)) > MAX_URL_SIZE
  <2>1. Finish("too_large") /\ disk' = disk /\ part_number' = part_number + 1
    BY <1>4 DEF WriteBlob
  <2>2. part_number' \in Nat
    BY <1>0, <2>1 DEF Typed
  <2> QED
    BY <1>0, <1>2, <2>1, <2>2, RefusedInv DEF Typed
<1>5. CASE /\ Authentic(blob, part_number + 1)
           /\ ~ (Len(disk) + Len(Plain(blob)) > MAX_URL_SIZE)
  <2>1. /\ disk' = disk \o Plain(blob) /\ part_number' = part_number + 1
        /\ (UNCHANGED <<pc, outcome>> /\ BufferInv') \/ CheckParts(part_number + 1)
    BY <1>5 DEF WriteBlob
  <2>2. /\ part_number + 1 <= Len(src.blobs)
        /\ disk \o Plain(blob) = Joined(Parts, part_number + 1)
        /\ Plain(blob) \in Seq(Bytes)
    BY <1>5, AuthenticAppends
  <2>3. PICK plain \in Seq(Bytes) : plain = Plain(blob)
    BY <2>2
  <2>4. disk' \in Seq(Bytes) /\ Len(disk') = Len(disk) + Len(plain)
    BY <1>0, <2>1, <2>3, ConcatProperties DEF Typed
  <2>5. DiskBounded'
    BY <1>0, <1>5, <2>3, <2>4 DEF DiskBounded, Typed
  <2>6. part_number' \in Nat /\ part_number' <= Len(src.blobs) /\ disk' = Joined(Parts', part_number')
    BY <1>0, <2>1, <2>2, SameParts DEF Typed
  <2>7. PlainInv'
    BY DEF PlainInv
  <2>8. CASE UNCHANGED <<pc, outcome>> /\ BufferInv'
    <3>1. TypeOK'
      BY <1>0, <2>4, <2>6, <2>8 DEF IInv, TypeOK, Typed
    <3>2. DiskInv'
      BY <2>6, <2>8 DEF DiskInv
    <3> QED
      BY <1>2, <2>5, <2>7, <2>8, <3>1, <3>2 DEF IInv
  <2>9. CASE CheckParts(part_number + 1)
    <3>1. /\ pc' = "done"
          /\ outcome' = IF part_number + 1 = src.parts THEN "accepted" ELSE "undecryptable"
      BY <2>9 DEF CheckParts, Finish
    <3>2. TypeOK'
      BY <1>0, <2>4, <2>6, <3>1 DEF IInv, TypeOK, Typed
    <3>3. DiskInv'
      BY <2>1, <2>6, <3>1 DEF DiskInv
    <3>4. BufferInv'
      BY <3>1 DEF BufferInv
    <3> QED
      BY <1>2, <2>5, <2>7, <3>2, <3>3, <3>4 DEF IInv
  <2> QED
    BY <2>1, <2>8, <2>9
<1> QED
  BY <1>3, <1>4, <1>5

\* The inner loop, and the way out of it.
LEMMA LoopInv ==
    ASSUME IInv, DecryptBlob \/ NextChunk
    PROVE  IInv'
<1>0. Typed
  BY Facts
<1>1. pc = "blobs" /\ src.encrypted /\ outcome = "none"
  BY DEF DecryptBlob, NextChunk, IInv, TypeOK, PlainInv
<1>2. ~ BadParams /\ Len(buffer) < BlobSize + READ
  BY <1>1 DEF IInv, BufferInv
<1>3. BlobSize \in Nat \ {0}
  BY <1>0, <1>1, <1>2 DEF BadParams, BlobSize, Typed
<1>4. CASE DecryptBlob
  <2>1. /\ Len(buffer) >= BlobSize /\ buffer' = Rest(buffer, BlobSize) /\ src' = src
        /\ wire' = wire /\ read' = read
        /\ WriteBlob(First(buffer, BlobSize), UNCHANGED <<pc, outcome>>)
    BY <1>4 DEF DecryptBlob
  <2>2. BlobSize \in 0..Len(buffer) /\ buffer \in Seq(Bytes)
    BY <1>0, <1>3, <2>1 DEF Typed
  <2>3. /\ First(buffer, BlobSize) \in Seq(Bytes)
        /\ buffer' \in Seq(Bytes) /\ Len(buffer') = Len(buffer) - BlobSize
    BY <2>1, <2>2, Cut
  <2>4. Len(buffer') < BlobSize' + READ
    BY <1>0, <1>2, <1>3, <2>1, <2>3, SameParts DEF Typed
  <2>5. CASE UNCHANGED <<pc, outcome>>
    <3>1. BufferInv'
      BY <1>1, <1>2, <2>1, <2>4, <2>5, SameParts DEF BufferInv
    <3> QED
      BY <1>1, <2>1, <2>3, <3>1, BlobInv
  <2>6. CASE ~ UNCHANGED <<pc, outcome>>
    <3>1. WriteBlob(First(buffer, BlobSize), CheckParts(part_number + 1))
      BY <2>1, <2>6 DEF WriteBlob
    <3> QED
      BY <1>1, <2>1, <2>3, <3>1, BlobInv
  <2> QED
    BY <2>5, <2>6
<1>5. CASE NextChunk
  BY <1>0, <1>1, <1>2, <1>5, SameParts
  DEF NextChunk, IInv, TypeOK, CountInv, PlainInv, BufferInv, DiskInv, DiskBounded, BlobSize,
      BadParams
<1> QED
  BY <1>4, <1>5

\* The end of the stream.
LEMMA EndInv ==
    ASSUME IInv, EndOfStream
    PROVE  IInv'
<1>0. Typed
  BY Facts
<1>1. /\ pc = "read" /\ wire = << >> /\ src' = src /\ wire' = wire /\ read' = read
      /\ buffer' = buffer /\ buffer \in Seq(Bytes)
  BY <1>0 DEF EndOfStream, Typed
<1>2. outcome = "none"
  BY <1>1 DEF IInv, TypeOK
<1>3. CountInv'
  BY <1>1 DEF IInv, CountInv
<1>4. CASE src.encrypted /\ buffer # << >>
  <2>1. WriteBlob(buffer, CheckParts(part_number + 1))
    BY <1>4 DEF EndOfStream
  <2> QED
    BY <1>1, <1>2, <1>4, <2>1, BlobInv
<1>5. CASE src.encrypted /\ buffer = << >>
  <2>1. /\ UNCHANGED <<part_number, disk>> /\ pc' = "done"
        /\ outcome' = IF part_number = src.parts THEN "accepted" ELSE "undecryptable"
    BY <1>5 DEF EndOfStream, CheckParts, Finish
  <2>2. TypeOK'
    BY <1>1, <2>1 DEF IInv, TypeOK
  <2>3. DiskInv'
    BY <1>1, <1>2, <1>5, <2>1, SameParts DEF IInv, DiskInv
  <2>4. PlainInv' /\ BufferInv' /\ DiskBounded'
    BY <1>1, <1>5, <2>1 DEF IInv, PlainInv, BufferInv, DiskBounded
  <2> QED
    BY <1>3, <2>2, <2>3, <2>4 DEF IInv
<1>6. CASE ~ src.encrypted
  <2>1. UNCHANGED <<part_number, disk>> /\ pc' = "done" /\ outcome' = "accepted"
    BY <1>6 DEF EndOfStream, Finish
  <2>2. disk = src.wire
    <3>1. disk \o wire = src.wire
      BY <1>1, <1>6 DEF IInv, PlainInv
    <3> QED
      BY <1>0, <1>1, <3>1, ConcatEmptySeq DEF Typed
  <2>3. TypeOK'
    BY <1>1, <2>1 DEF IInv, TypeOK
  <2>4. PlainInv' /\ BufferInv' /\ DiskInv' /\ DiskBounded'
    BY <1>1, <1>6, <2>1, <2>2 DEF IInv, PlainInv, BufferInv, DiskInv, DiskBounded
  <2> QED
    BY <1>3, <2>3, <2>4 DEF IInv
<1> QED
  BY <1>4, <1>5, <1>6

\* The invariant holds in every reachable state.
LEMMA Invariance == Spec => []IInv
<1>1. IInv /\ [Next]_vars => IInv'
  <2> SUFFICES ASSUME IInv, [Next]_vars PROVE IInv'
    OBVIOUS
  <2>1. CASE Next
    <3>1. CASE Step
      BY <3>1, HeadInv, ReadInv, LoopInv, EndInv DEF Step
    <3>2. CASE \E why \in {"timeout", "lost"} : ReadFails(why)
      BY <3>2, FailInv
    <3> QED
      BY <2>1, <3>1, <3>2 DEF Next
  <2>2. CASE UNCHANGED vars
    BY <2>2, SameParts
    DEF vars, IInv, TypeOK, CountInv, PlainInv, BufferInv, DiskInv, DiskBounded
  <2> QED
    BY <2>1, <2>2
<1> QED
  BY <1>1, InitInv, PTL DEF Spec

-----------------------------------------------------------------------------

\* The variables have their types, and a download is over exactly when it has an
\* outcome.
THEOREM TypeCorrect == Spec => []TypeOK
  BY Invariance, PTL DEF IInv

\* No source puts more than MAX_URL_SIZE bytes on the scan volume, whatever length
\* it declares, however it is chunked and in whatever pieces it arrives
\* (tasks.py:170-184, 231-238).
THEOREM DiskIsBounded == Spec => []DiskBounded
  BY Invariance, PTL DEF IInv

\* The worker never buffers more than one blob and one read, nor reads more than
\* one read beyond the cap (tasks.py:170-184, 241-262).
THEOREM MemoryIsBounded == Spec => []MemoryBounded
<1>1. IInv => MemoryBounded
  <2> SUFFICES ASSUME IInv PROVE MemoryBounded
    OBVIOUS
  <2>1. Typed
    BY Facts
  <2>2. BlobSize \in Int
    BY <2>1 DEF BlobSize, Typed
  <2> QED
    BY <2>1, <2>2 DEF IInv, CountInv, BufferInv, MemoryBounded, Typed
<1> QED
  BY <1>1, Invariance, PTL

\* An accepted download is the file: what the server sent of a plain one, and of
\* an encrypted one the whole original its owner started from, in order, for every
\* file and every byte stream a server can send (tasks.py:187-271).
THEOREM Integrity == Spec => []AcceptedIsTheFile
<1>1. IInv => AcceptedIsTheFile
  <2> SUFFICES ASSUME IInv, outcome = "accepted" PROVE AcceptedIsTheFile
    BY DEF AcceptedIsTheFile
  <2>1. ~ src.encrypted => disk = src.wire
    BY DEF IInv, PlainInv
  <2>2. ASSUME src.encrypted, src.parts = Len(src.blobs) PROVE disk = Original
    <3>1. disk = Joined(Parts, Len(src.blobs))
      BY <2>2 DEF IInv, DiskInv
    <3>2. Parts \in Seq(Seq(Bytes)) /\ Len(Parts) = Len(src.blobs)
      BY PartsType DEF IInv, TypeOK
    <3>3. Original = FlattenSeq(Parts)
      BY Zenon DEF Original, Parts
    <3> QED
      BY <3>1, <3>2, <3>3, FlattenSeqJoins
  <2> QED
    BY <2>1, <2>2 DEF AcceptedIsTheFile
<1> QED
  BY <1>1, Invariance, PTL

-----------------------------------------------------------------------------
(***************************************************************************)
(* A truthful source whose file fits is not refused.  Two facts carry it:  *)
(* the overheads of such a source fit in the room that wire_cap leaves,    *)
(* and the buffer always starts at a boundary between two blobs.           *)
(***************************************************************************)

\* Multiplication is monotonic.
LEMMA MulMonotonic ==
    ASSUME NEW a \in Nat, NEW b \in Nat, NEW c \in Nat, a <= b
    PROVE  a * c <= b * c /\ a * c \in Nat /\ b * c \in Nat
<1>1. PICK d \in Nat : b = a + d
  <2>1. b - a \in Nat /\ b = a + (b - a)
    OBVIOUS
  <2> QED
    BY <2>1
<1>2. b * c = a * c + d * c
  BY <1>1
<1>3. a * c \in Nat /\ d * c \in Nat
  BY MulNat
<1> QED
  BY <1>2, <1>3

\* One factor more.
LEMMA MulStep ==
    ASSUME NEW k \in Nat, NEW c \in Nat
    PROVE  (k + 1) * c = k * c + c /\ k * c \in Nat
  BY MulNat

\* A file of more than m full chunks has room for m + 1 overheads.
LEMMA CeilBound ==
    ASSUME NEW c \in Nat \ {0}, NEW a \in Nat, NEW m \in Nat, m * c < a
    PROVE  (a + c - 1) \div c \in Int /\ m + 1 <= (a + c - 1) \div c
<1> DEFINE q == (a + c - 1) \div c
<1>1. q \in Int /\ q * c <= a + c - 1 /\ a + c - 1 < (q + 1) * c
  OBVIOUS
<1> HIDE DEF q
<1>2. (m + 1) * c = m * c + c /\ m * c \in Nat
  BY MulNat
<1>3. (m + 1) * c <= a + c - 1
  BY <1>2
<1>4. SUFFICES ASSUME ~ (m + 1 <= q) PROVE FALSE
  BY <1>1 DEF q
<1>5. CASE q >= 0
  <2>1. q + 1 \in Nat /\ q + 1 <= m + 1 /\ m + 1 \in Nat
    BY <1>1, <1>4, <1>5
  <2>2. (q + 1) * c <= (m + 1) * c
    BY <2>1, MulMonotonic
  <2> QED
    BY <1>1, <1>2, <1>3, <2>1, <2>2
<1>6. CASE q < 0
  <2>1. PICK r \in Nat : q + 1 = - r
    <3>1. - (q + 1) \in Nat /\ q + 1 = - (- (q + 1))
      BY <1>1, <1>6
    <3> QED
      BY <3>1
  <2>2. (- r) * c = - (r * c) /\ r * c \in Nat
    BY MulNat
  <2> QED
    BY <1>1, <2>1, <2>2
<1> QED
  BY <1>1, <1>5, <1>6

\* The source is truthful, its file is encrypted and fits.
Fits == src.encrypted /\ Truthful /\ Len(Original) <= MAX_URL_SIZE

\* The lengths of the blobs of a truthful source and of their plaintexts.
LEMMA BlobLens ==
    ASSUME Typed, Fits, NEW p \in 1..Len(src.blobs)
    PROVE  /\ src.blobs[p] \in Seq(Bytes) /\ Parts[p] \in Seq(Bytes)
           /\ Len(src.blobs[p]) \in Nat /\ Len(src.blobs[p]) > OVERHEAD
           /\ Len(src.blobs[p]) <= BlobSize
           /\ p < Len(src.blobs) => Len(src.blobs[p]) = BlobSize
           /\ Len(Parts[p]) = Len(src.blobs[p]) - OVERHEAD
           /\ BlobSize = src.chunk_size + OVERHEAD /\ src.chunk_size \in Nat \ {0}
<1>1. src.blobs[p] \in Seq(Bytes) /\ Parts[p] = Plain(src.blobs[p])
  BY PartsType DEF Typed
<1>2. p \in DOMAIN src.blobs
  BY LenProperties DEF Typed
<1>3. ~ BadParams
  BY DEF Fits, Truthful
<1>4. src.chunk_size \in Nat \ {0}
  BY <1>3 DEF BadParams, Fits, Typed
<1>5. /\ Len(src.blobs[p]) \in (OVERHEAD + 1)..BlobSize
      /\ p < Len(src.blobs) => Len(src.blobs[p]) = BlobSize
  BY <1>2 DEF Fits, Truthful
<1>6. BlobSize = src.chunk_size + OVERHEAD /\ OVERHEAD \in Nat
  BY DEF BlobSize, Typed
<1>7. Len(src.blobs[p]) \in Nat /\ Len(src.blobs[p]) > OVERHEAD /\ Len(src.blobs[p]) <= BlobSize
  BY <1>4, <1>5, <1>6
<1>8. Parts[p] \in Seq(Bytes) /\ Len(Parts[p]) = Len(src.blobs[p]) - OVERHEAD
  BY <1>1, <1>7, PlainType
<1> QED
  BY <1>1, <1>4, <1>5, <1>6, <1>7, <1>8, Zenon

\* Every blob but the last is full, and each costs one overhead.
LEMMA JoinedLens ==
    ASSUME Typed, Fits, NEW m \in 0..Len(src.blobs)
    PROVE  /\ Len(Joined(src.blobs, m)) = Len(Joined(Parts, m)) + m * OVERHEAD
           /\ m < Len(src.blobs) => Len(Joined(Parts, m)) = m * src.chunk_size
<1> DEFINE P(k) == /\ Len(Joined(src.blobs, k)) = Len(Joined(Parts, k)) + k * OVERHEAD
                   /\ k < Len(src.blobs) => Len(Joined(Parts, k)) = k * src.chunk_size
           S == {k \in Nat : k <= Len(src.blobs) => P(k)}
<1>0. Len(src.blobs) \in Nat /\ OVERHEAD \in Nat /\ src.chunk_size \in Int
      /\ src.blobs \in Seq(Seq(Bytes))
  BY DEF Typed
<1>1. 0 \in S
  <2>1. Joined(src.blobs, 0) = << >> /\ Joined(Parts, 0) = << >>
    BY DEF Joined
  <2> QED
    BY <1>0, <2>1
<1>2. ASSUME NEW k \in Nat, k \in S PROVE k + 1 \in S
  <2> SUFFICES ASSUME k + 1 <= Len(src.blobs) PROVE P(k + 1)
    OBVIOUS
  <2>1. k \in 0..(Len(src.blobs) - 1) /\ k + 1 \in 1..Len(src.blobs) /\ k < Len(src.blobs)
    BY <1>0
  <2>2. Parts \in Seq(Seq(Bytes)) /\ Len(Parts) = Len(src.blobs)
    BY PartsType DEF Typed
  <2>3. /\ Len(Joined(src.blobs, k)) \in Nat /\ Len(src.blobs[k + 1]) \in Nat
        /\ Len(Joined(src.blobs, k + 1)) = Len(Joined(src.blobs, k)) + Len(src.blobs[k + 1])
    BY <1>0, <2>1, JoinedLen
  <2>4. /\ Len(Joined(Parts, k)) \in Nat /\ Len(Parts[k + 1]) \in Nat
        /\ Len(Joined(Parts, k + 1)) = Len(Joined(Parts, k)) + Len(Parts[k + 1])
    BY <2>1, <2>2, JoinedLen
  <2>5. PICK b \in Nat, d \in Nat, e \in Nat, f \in Nat :
           /\ b = Len(Joined(src.blobs, k)) /\ d = Len(src.blobs[k + 1])
           /\ e = Len(Joined(Parts, k)) /\ f = Len(Parts[k + 1])
    BY <2>3, <2>4, Zenon
  <2>6. b = e + k * OVERHEAD /\ e = k * src.chunk_size
    BY <1>2, <2>1, <2>5
  <2>7. /\ d > OVERHEAD /\ f = d - OVERHEAD /\ src.chunk_size \in Nat
        /\ k + 1 < Len(src.blobs) => d = src.chunk_size + OVERHEAD
    BY <2>1, <2>5, BlobLens
  <2>8. PICK c \in Nat : c = src.chunk_size
    BY <2>7
  <2>9. (k + 1) * OVERHEAD = k * OVERHEAD + OVERHEAD /\ k * OVERHEAD \in Nat
    BY <1>0, MulStep
  <2>10. (k + 1) * c = k * c + c /\ k * c \in Nat
    BY MulStep
  <2>11. b + d = (e + f) + (k + 1) * OVERHEAD
    <3>1. PICK x \in Nat : x = k * OVERHEAD
      BY <2>9
    <3>2. b = e + x /\ (k + 1) * OVERHEAD = x + OVERHEAD
      BY <2>6, <2>9, <3>1, Zenon
    <3>3. b + d = (e + f) + (x + OVERHEAD)
      BY <1>0, <2>7, <3>2
    <3> QED
      BY <3>2, <3>3, Zenon
  <2>12. ASSUME k + 1 < Len(src.blobs) PROVE e + f = (k + 1) * c
    <3>1. e = k * c /\ d = c + OVERHEAD
      BY <2>6, <2>7, <2>8, <2>12
    <3>2. f = c
      BY <1>0, <2>7, <3>1
    <3> QED
      BY <2>10, <3>1, <3>2
  <2>13. Len(Joined(src.blobs, k + 1)) = Len(Joined(Parts, k + 1)) + (k + 1) * OVERHEAD
    BY <2>3, <2>4, <2>5, <2>11, Zenon
  <2>14. k + 1 < Len(src.blobs) => Len(Joined(Parts, k + 1)) = (k + 1) * src.chunk_size
    BY <2>4, <2>5, <2>8, <2>12, Zenon
  <2> QED
    BY <2>13, <2>14
<1> HIDE DEF S, P
<1>3. Nat \subseteq S
  BY <1>1, <1>2, SetInduction
<1>4. m \in Nat /\ m <= Len(src.blobs)
  BY <1>0
<1> QED
  BY <1>3, <1>4 DEF S, P

\* So the wire of such a source is within the cap.
LEMMA FitsTheCap ==
    ASSUME Typed, Fits
    PROVE  Len(src.wire) <= wire_cap(src)
<1> DEFINE n == Len(src.blobs)
           c == src.chunk_size
           ceil == (MAX_URL_SIZE + c - 1) \div c
           room == IF ceil > 1 THEN ceil ELSE 1
<1>0. /\ n \in Nat /\ OVERHEAD \in Nat /\ MAX_URL_SIZE \in Nat /\ wire_cap(src) \in Nat
      /\ src.blobs \in Seq(Seq(Bytes)) /\ src.encrypted
  BY DEF Typed, Fits
<1>1. Parts \in Seq(Seq(Bytes)) /\ Len(Parts) = n
  BY PartsType DEF Typed
<1>2. Len(Joined(Parts, n)) <= MAX_URL_SIZE
  <2>1. Original = FlattenSeq(Parts)
    BY Zenon DEF Original, Parts
  <2>2. Original = Joined(Parts, n)
    BY <1>1, <2>1, FlattenSeqJoins
  <2> QED
    BY <2>2 DEF Fits
<1>3. src.wire = Joined(src.blobs, n)
  BY <1>0, FlattenSeqJoins DEF Fits, Truthful
<1>4. Len(src.wire) = Len(Joined(Parts, n)) + n * OVERHEAD
  <2>1. n \in 0..n
    BY <1>0
  <2>2. Len(Joined(src.blobs, n)) = Len(Joined(Parts, n)) + n * OVERHEAD
    BY <2>1, JoinedLens
  <2> QED
    BY <1>3, <2>2, Zenon
<1>5. Len(Joined(Parts, n)) \in Nat
  <2>1. n \in 0..Len(Parts)
    BY <1>0, <1>1
  <2> QED
    BY <1>1, <2>1, JoinedType, LenProperties
<1>6. CASE n = 0
  <2>1. Len(Joined(Parts, n)) = 0 /\ n * OVERHEAD = 0
    BY <1>0, <1>6 DEF Joined
  <2> QED
    BY <1>0, <1>4, <2>1
<1>7. CASE n # 0
  <2>1. PICK m \in Nat : n = m + 1
    <3>1. n - 1 \in Nat /\ n = (n - 1) + 1
      BY <1>0, <1>7
    <3> QED
      BY <3>1
  <2>2. m \in 0..n /\ m < n /\ m \in 0..(n - 1) /\ m + 1 \in 1..n /\ m \in 0..(Len(Parts) - 1)
    BY <1>0, <1>1, <2>1
  <2>3. c \in Nat \ {0} /\ Len(Parts[m + 1]) = Len(src.blobs[m + 1]) - OVERHEAD
        /\ Len(src.blobs[m + 1]) \in Nat /\ Len(src.blobs[m + 1]) > OVERHEAD
    BY <2>2, BlobLens
  <2>4. Len(Joined(Parts, m)) = m * c
    BY <2>2, JoinedLens
  <2>5. Len(Joined(Parts, m + 1)) = Len(Joined(Parts, m)) + Len(Parts[m + 1])
    BY <1>1, <2>2, JoinedLen
  <2>6. m * c < MAX_URL_SIZE
    <3>1. m * c \in Nat
      BY <2>3, MulNat
    <3>2. Len(Parts[m + 1]) >= 1 /\ Len(Parts[m + 1]) \in Nat
      BY <1>0, <2>3
    <3>3. Len(Joined(Parts, n)) = m * c + Len(Parts[m + 1])
      BY <2>1, <2>4, <2>5, Zenon
    <3> QED
      BY <1>0, <1>2, <3>1, <3>2, <3>3
  <2>7. ceil \in Int /\ m + 1 <= ceil
    BY <1>0, <2>3, <2>6, CeilBound
  <2>8. wire_cap(src) = MAX_URL_SIZE + room * OVERHEAD
    <3>1. ~ (c <= 0)
      BY <2>3
    <3> QED
      BY <1>0, <3>1, Zenon DEF wire_cap
  <2> HIDE DEF ceil
  <2>9. room \in Nat /\ n <= room
    BY <1>0, <2>1, <2>7
  <2> HIDE DEF room, n
  <2>10. n * OVERHEAD <= room * OVERHEAD /\ n * OVERHEAD \in Nat /\ room * OVERHEAD \in Nat
    BY <1>0, <2>9, MulMonotonic
  <2> QED
    BY <1>0, <1>2, <1>4, <1>5, <2>8, <2>10
<1> QED
  BY <1>6, <1>7

\* What is joined first comes first.
LEMMA JoinedPrefix ==
    ASSUME NEW s \in Seq(Seq(Bytes)), NEW m \in 0..Len(s)
    PROVE  \E t \in Seq(Bytes) : Joined(s, Len(s)) = Joined(s, m) \o t
<1> DEFINE S == {k \in Nat : m + k <= Len(s) =>
                               \E t \in Seq(Bytes) : Joined(s, m + k) = Joined(s, m) \o t}
<1>0. Joined(s, m) \in Seq(Bytes)
  BY JoinedType
<1>1. 0 \in S
  <2>1. m + 0 = m
    OBVIOUS
  <2>2. Joined(s, m) = Joined(s, m) \o << >> /\ << >> \in Seq(Bytes)
    BY <1>0, ConcatEmptySeq, EmptySeq
  <2>3. \E t \in Seq(Bytes) : Joined(s, m + 0) = Joined(s, m) \o t
    BY <2>1, <2>2, Zenon
  <2> QED
    BY <2>3, Zenon
<1>2. ASSUME NEW k \in Nat, k \in S PROVE k + 1 \in S
  <2>0. k + 1 \in Nat
    OBVIOUS
  <2> SUFFICES ASSUME m + (k + 1) <= Len(s)
               PROVE  \E t \in Seq(Bytes) : Joined(s, m + (k + 1)) = Joined(s, m) \o t
    BY <2>0, Zenon
  <2>1. PICK j \in 0..(Len(s) - 1) : j = m + k /\ j + 1 = m + (k + 1) /\ m + k <= Len(s)
    <3>1. m + k \in 0..(Len(s) - 1) /\ (m + k) + 1 = m + (k + 1) /\ m + k <= Len(s)
      OBVIOUS
    <3> QED
      BY <3>1
  <2>2. PICK t \in Seq(Bytes) : Joined(s, j) = Joined(s, m) \o t
    BY <1>2, <2>1, Zenon
  <2>3. PICK x \in Seq(Bytes) : x = s[j + 1]
    OBVIOUS
  <2>4. Joined(s, j + 1) = Joined(s, j) \o x
    BY <2>3, JoinedStep
  <2>5. PICK y \in Seq(Bytes) : y = Joined(s, m)
    BY <1>0
  <2>6. (y \o t) \o x = y \o (t \o x) /\ t \o x \in Seq(Bytes)
    BY Associates, Closed, Zenon
  <2>7. Joined(s, j + 1) = Joined(s, m) \o (t \o x)
    BY <2>2, <2>4, <2>5, <2>6, Zenon
  <2> QED
    BY <2>1, <2>6, <2>7, Zenon
<1> HIDE DEF S
<1>3. Nat \subseteq S
  BY <1>1, <1>2, SetInduction
<1>4. Len(s) - m \in Nat /\ m + (Len(s) - m) = Len(s) /\ Len(s) <= Len(s)
  OBVIOUS
<1>5. Len(s) - m \in S
  BY <1>3, <1>4
<1>6. m + (Len(s) - m) <= Len(s)
  OBVIOUS
<1>7. \E t \in Seq(Bytes) : Joined(s, m + (Len(s) - m)) = Joined(s, m) \o t
  BY <1>5, <1>6, Zenon DEF S
<1> QED
  BY <1>4, <1>7, Zenon

\* Equal sequences with equal beginnings have equal ends.
LEMMA Cancel ==
    ASSUME NEW B, NEW s \in Seq(B), NEW t \in Seq(B), NEW u \in Seq(B), s \o t = s \o u
    PROVE  t = u
  BY ConcatSimplifications

\* What is still to be decrypted of a truthful source starts with its next blob;
\* nothing follows the last one.
LEMMA NextBlob ==
    ASSUME Typed, Fits, part_number <= Len(src.blobs),
           Joined(src.blobs, part_number) \o (buffer \o wire) = src.wire
    PROVE  /\ part_number = Len(src.blobs) => buffer \o wire = << >>
           /\ part_number < Len(src.blobs) =>
                 \E t \in Seq(Bytes) :
                    /\ buffer \o wire = src.blobs[part_number + 1] \o t
                    /\ Joined(src.blobs, part_number + 1) \o t = src.wire
                    /\ part_number + 1 = Len(src.blobs) => t = << >>
<1> DEFINE n == Len(src.blobs)
<1>0. /\ n \in Nat /\ part_number \in Nat /\ src.blobs \in Seq(Seq(Bytes))
      /\ buffer \in Seq(Bytes) /\ wire \in Seq(Bytes)
  BY DEF Typed
<1>1. src.wire = Joined(src.blobs, n)
  BY <1>0, FlattenSeqJoins DEF Fits, Truthful
<1>2. PICK left \in Seq(Bytes) : left = buffer \o wire
  BY <1>0, ConcatProperties
<1>3. PICK head \in Seq(Bytes) : head = Joined(src.blobs, part_number)
  <2>1. part_number \in 0..n
    BY <1>0
  <2> QED
    BY <1>0, <2>1, JoinedType
<1>4. head \o left = src.wire
  BY <1>2, <1>3, Zenon
<1>5. ASSUME part_number = n PROVE left = << >>
  <2>1. head = head \o left
    BY <1>1, <1>3, <1>4, <1>5, Zenon
  <2> QED
    BY <2>1, ConcatEqualIffEmpty
<1>6. ASSUME part_number < n
      PROVE  \E t \in Seq(Bytes) :
                /\ left = src.blobs[part_number + 1] \o t
                /\ Joined(src.blobs, part_number + 1) \o t = src.wire
                /\ part_number + 1 = n => t = << >>
  <2>1. /\ part_number + 1 \in 0..n /\ part_number \in 0..(n - 1) /\ part_number + 1 \in 1..n
    BY <1>0, <1>6
  <2>2. PICK b \in Seq(Bytes) : b = src.blobs[part_number + 1]
    BY <1>0, <2>1
  <2>3. Joined(src.blobs, part_number + 1) = head \o b
    BY <1>0, <1>3, <2>1, <2>2, JoinedStep
  <2>4. PICK t \in Seq(Bytes) : src.wire = Joined(src.blobs, part_number + 1) \o t
    <3>1. PICK bs \in Seq(Seq(Bytes)) : bs = src.blobs
      BY <1>0
    <3>2. part_number + 1 \in 0..Len(bs)
      BY <2>1, <3>1
    <3>3. \E t \in Seq(Bytes) : Joined(bs, Len(bs)) = Joined(bs, part_number + 1) \o t
      BY <3>2, JoinedPrefix, Zenon
    <3> QED
      BY <1>1, <3>1, <3>3, Zenon
  <2>5. (head \o b) \o t = head \o (b \o t) /\ b \o t \in Seq(Bytes) /\ head \o b \in Seq(Bytes)
    <3>1. (head \o b) \o t = head \o (b \o t)
      BY Associates, Zenon
    <3> QED
      BY <3>1, Closed, Zenon
  <2>6. head \o left = head \o (b \o t)
    BY <1>4, <2>3, <2>4, <2>5, Zenon
  <2>7. left = b \o t
    BY <2>5, <2>6, Cancel
  <2>8. ASSUME part_number + 1 = n PROVE t = << >>
    <3>1. head \o b = (head \o b) \o t
      BY <1>1, <2>3, <2>4, <2>8, Zenon
    <3> QED
      BY <2>5, <3>1, ConcatEqualIffEmpty
  <2> QED
    BY <2>2, <2>4, <2>7, <2>8, Zenon
<1> QED
  BY <1>2, <1>5, <1>6, Zenon

\* The next blob of a truthful source is authentic, and its plaintext fits.
LEMMA NextBlobFits ==
    ASSUME IInv, Fits, outcome = "none", part_number < Len(src.blobs)
    PROVE  /\ Authentic(src.blobs[part_number + 1], part_number + 1)
           /\ Len(disk) + Len(Plain(src.blobs[part_number + 1])) <= MAX_URL_SIZE
<1> DEFINE n == Len(src.blobs)
<1>0. Typed
  BY Facts
<1>1. /\ n \in Nat /\ part_number \in Nat /\ MAX_URL_SIZE \in Nat /\ src.encrypted
      /\ src.blobs \in Seq(Seq(Bytes)) /\ DOMAIN src.blobs = 1..n
  BY <1>0, LenProperties DEF Typed, Fits
<1>2. part_number + 1 \in 1..n
  BY <1>1
<1>3. Parts \in Seq(Seq(Bytes)) /\ Len(Parts) = n
      /\ Parts[part_number + 1] = Plain(src.blobs[part_number + 1])
  BY <1>0, <1>2, PartsType DEF Typed
<1>4. Len(src.blobs[part_number + 1]) > OVERHEAD
  BY <1>0, <1>2, BlobLens
<1>5. Authentic(src.blobs[part_number + 1], part_number + 1)
  BY <1>1, <1>2, <1>4 DEF Authentic, Fits, Truthful
<1>6. disk = Joined(Parts, part_number)
  BY <1>1 DEF IInv, DiskInv
<1>7. part_number \in 0..(Len(Parts) - 1) /\ part_number + 1 \in 0..n /\ n \in 0..Len(Parts)
  BY <1>1, <1>2, <1>3
<1>8. /\ Len(Joined(Parts, part_number + 1))
         = Len(Joined(Parts, part_number)) + Len(Parts[part_number + 1])
      /\ Len(Joined(Parts, part_number)) \in Nat /\ Len(Parts[part_number + 1]) \in Nat
  BY <1>3, <1>7, JoinedLen
<1>9. Len(Joined(Parts, part_number + 1)) <= Len(Joined(Parts, n))
  BY <1>3, <1>7, JoinedGrows
<1>10. Len(Joined(Parts, n)) <= MAX_URL_SIZE /\ Len(Joined(Parts, n)) \in Nat
  <2>1. Original = FlattenSeq(Parts)
    BY Zenon DEF Original, Parts
  <2>2. Original = Joined(Parts, n)
    BY <1>3, <2>1, FlattenSeqJoins
  <2>3. Joined(Parts, n) \in Seq(Bytes)
    BY <1>3, <1>7, JoinedType
  <2> QED
    BY <2>2, <2>3, LenProperties DEF Fits
<1>11. Len(disk) + Len(Plain(src.blobs[part_number + 1])) = Len(Joined(Parts, part_number + 1))
  BY <1>3, <1>6, <1>8, Zenon
<1>12. Len(Joined(Parts, part_number + 1)) <= MAX_URL_SIZE
  BY <1>1, <1>8, <1>9, <1>10
<1> QED
  BY <1>5, <1>11, <1>12, Zenon

\* A truthful source, plain or encrypted, whose file fits.
Small ==
    /\ Truthful
    /\ (IF src.encrypted THEN Len(Original) ELSE Len(src.wire)) <= MAX_URL_SIZE

\* It is not refused, and what is left of it starts at a boundary between blobs.
FitInv ==
    Small =>
        /\ outcome \notin {"too_large", "undecryptable"}
        /\ src.encrypted /\ outcome = "none" =>
              Joined(src.blobs, part_number) \o (buffer \o wire) = src.wire

\* The wire of such a source is within the cap.
LEMMA SmallWire ==
    ASSUME Typed, Small
    PROVE  Len(src.wire) <= wire_cap(src) /\ (src.encrypted => Fits)
<1>1. CASE src.encrypted
  <2>1. Fits
    BY <1>1 DEF Small, Fits
  <2> QED
    BY <1>1, <2>1, FitsTheCap
<1>2. CASE ~ src.encrypted
  BY <1>2 DEF Small, Typed
<1> QED
  BY <1>1, <1>2 DEF Typed

\* Whether a source is truthful and small does not change.
LEMMA SameSmall ==
    ASSUME src' = src
    PROVE  Small' <=> Small
  BY DEF Small, Truthful, Original, Plain, BadParams, BlobSize

\* Initially nothing is decrypted.
LEMMA InitFit == Init => FitInv
<1> SUFFICES ASSUME Init PROVE FitInv
  OBVIOUS
<1>1. part_number = 0 /\ buffer = << >> /\ wire = src.wire /\ outcome = "none"
  BY DEF Init
<1>2. src.wire \in Seq(Bytes)
  BY DownloadAssumption, SourceFields DEF Init
<1>3. PICK w \in Seq(Bytes) : w = src.wire
  BY <1>2
<1>4. << >> \o (<< >> \o w) = w
  BY ConcatEmptySeq
<1> QED
  BY <1>1, <1>3, <1>4 DEF FitInv, Joined

\* A truthful source passes the checks before the first read.
LEMMA HeadFit ==
    ASSUME IInv, FitInv, CheckHead \/ Open
    PROVE  FitInv'
<1> SUFFICES ASSUME Small' PROVE FitInv'
  BY DEF FitInv
<1>0. Typed
  BY Facts
<1>1. UNCHANGED <<src, wire, read, buffer, part_number, disk>>
  BY DEF CheckHead, Open
<1>2. Small
  BY <1>1, SameSmall
<1>3. Len(src.wire) <= wire_cap(src)
  BY <1>0, <1>2, SmallWire
<1>4. ~ DeclaredTooLarge
  <2>1. src.declared \in {NoLength, Len(src.wire)}
    BY <1>2 DEF Small, Truthful
  <2>2. Len(src.wire) \in Nat /\ wire_cap(src) \in Nat
    BY <1>0, LenProperties DEF Typed
  <2> QED
    BY <1>3, <2>1, <2>2 DEF DeclaredTooLarge
<1>5. ~ BadParams
  BY <1>2 DEF Small, Truthful, BadParams
<1>6. outcome' = outcome
  BY <1>4, <1>5 DEF CheckHead, Open
<1> QED
  BY <1>1, <1>2, <1>6 DEF FitInv

\* Reading it stays within the cap and keeps the boundary.
LEMMA ReadFit ==
    ASSUME IInv, FitInv, NEW k \in 1..READ, k <= Len(wire), ReadChunk(k)
    PROVE  FitInv'
<1> SUFFICES ASSUME Small' PROVE FitInv'
  BY DEF FitInv
<1>0. Typed
  BY Facts
<1>1. /\ pc = "read" /\ src' = src /\ part_number' = part_number /\ wire' = Rest(wire, k)
  BY DEF ReadChunk
<1>2. Small
  BY <1>1, SameSmall
<1>3. Len(src.wire) <= wire_cap(src)
  BY <1>0, <1>2, SmallWire
<1>4. ~ OverLimit(read + k)
  <2>1. read + Len(wire) = Len(src.wire)
    BY DEF IInv, CountInv
  <2>2. k \in Nat /\ Len(wire) \in Nat /\ read \in Nat /\ wire_cap(src) \in Nat
    BY <1>0 DEF Typed
  <2> QED
    BY <1>3, <2>1, <2>2 DEF OverLimit
<1>5. outcome' = outcome /\ outcome = "none"
  BY <1>1, <1>4 DEF ReadChunk, IInv, TypeOK
<1>6. ASSUME src.encrypted
      PROVE  Joined(src.blobs, part_number) \o (buffer' \o wire') = src.wire
  <2>1. buffer' = buffer \o First(wire, k)
    BY <1>4, <1>6 DEF ReadChunk
  <2>2. PICK b \in Seq(Bytes), w \in Seq(Bytes) : b = buffer /\ w = wire
    BY <1>0 DEF Typed
  <2>3. k \in 0..Len(w)
    BY <1>0, <2>2 DEF Typed
  <2>4. PICK x \in Seq(Bytes), y \in Seq(Bytes) :
           x = First(w, k) /\ y = Rest(w, k) /\ x \o y = w
    <3>1. /\ First(w, k) \in Seq(Bytes) /\ Rest(w, k) \in Seq(Bytes)
          /\ First(w, k) \o Rest(w, k) = w
      BY <2>3, Cut
    <3> QED
      BY <3>1, Zenon
  <2>5. (b \o x) \o y = b \o (x \o y)
    BY Associates, Zenon
  <2>6. buffer' \o wire' = buffer \o wire
    BY <1>1, <2>1, <2>2, <2>4, <2>5, Zenon
  <2>7. Joined(src.blobs, part_number) \o (buffer \o wire) = src.wire
    BY <1>2, <1>5, <1>6 DEF FitInv
  <2> QED
    BY <2>6, <2>7, Zenon
<1>7. Joined(src'.blobs, part_number') = Joined(src.blobs, part_number)
  BY <1>1
<1> QED
  BY <1>1, <1>5, <1>6, <1>7, Zenon DEF FitInv

\* The blob cut off the buffer is the next one, and the boundary moves behind it.
LEMMA DecryptFit ==
    ASSUME IInv, FitInv, DecryptBlob
    PROVE  FitInv'
<1> SUFFICES ASSUME Small' PROVE FitInv'
  BY DEF FitInv
<1>0. Typed
  BY Facts
<1>1. /\ pc = "blobs" /\ src' = src /\ wire' = wire /\ Len(buffer) >= BlobSize
      /\ buffer' = Rest(buffer, BlobSize)
      /\ WriteBlob(First(buffer, BlobSize), UNCHANGED <<pc, outcome>>)
  BY DEF DecryptBlob
<1>2. Small /\ src.encrypted /\ outcome = "none"
  BY <1>1, SameSmall DEF IInv, TypeOK, PlainInv
<1>3. Fits
  BY <1>0, <1>2, SmallWire
<1>4. /\ part_number <= Len(src.blobs)
      /\ Joined(src.blobs, part_number) \o (buffer \o wire) = src.wire
  BY <1>2 DEF IInv, DiskInv, FitInv
<1>5. PICK u \in Seq(Bytes), w \in Seq(Bytes) : u = buffer /\ w = wire
  BY <1>0 DEF Typed
<1>6. Len(u) \in Nat /\ Len(w) \in Nat /\ Len(u) >= BlobSize
      /\ part_number \in Nat /\ Len(src.blobs) \in Nat
  BY <1>0, <1>1, <1>5 DEF Typed
<1>7. BlobSize \in Nat \ {0}
  <2>1. ~ BadParams
    BY <1>3 DEF Fits, Truthful
  <2> QED
    BY <1>0, <1>2, <2>1 DEF BadParams, BlobSize, Typed
<1>8. Len(u \o w) = Len(u) + Len(w) /\ u \o w \in Seq(Bytes)
  BY ConcatProperties
<1>9. part_number < Len(src.blobs)
  <2>1. u \o w # << >>
    BY <1>6, <1>7, <1>8
  <2>2. part_number # Len(src.blobs)
    BY <1>0, <1>3, <1>4, <1>5, <2>1, NextBlob
  <2> QED
    BY <1>4, <1>6, <2>2
<1>10. PICK t \in Seq(Bytes) :
          /\ buffer \o wire = src.blobs[part_number + 1] \o t
          /\ Joined(src.blobs, part_number + 1) \o t = src.wire
          /\ part_number + 1 = Len(src.blobs) => t = << >>
  BY <1>0, <1>3, <1>4, <1>9, NextBlob
<1>11. part_number + 1 \in 1..Len(src.blobs)
  BY <1>6, <1>9
<1>12. PICK b \in Seq(Bytes) : b = src.blobs[part_number + 1]
  BY <1>0, <1>3, <1>11, BlobLens
<1>13. u \o w = b \o t /\ Len(b \o t) = Len(b) + Len(t) /\ Len(b) \in Nat /\ Len(t) \in Nat
  BY <1>5, <1>10, <1>12, ConcatProperties
<1>14. Len(b) = BlobSize
  <2>1. Len(b) <= BlobSize /\ (part_number + 1 < Len(src.blobs) => Len(b) = BlobSize)
    BY <1>0, <1>3, <1>11, <1>12, BlobLens
  <2>2. ASSUME part_number + 1 = Len(src.blobs) PROVE Len(b) >= BlobSize
    <3>1. Len(t) = 0
      BY <1>10, <2>2
    <3> QED
      BY <1>6, <1>7, <1>8, <1>13, <3>1
  <2> QED
    BY <1>6, <1>7, <1>9, <1>13, <2>1, <2>2
<1>15. PICK x \in Seq(Bytes), y \in Seq(Bytes) :
          /\ x = First(u, BlobSize) /\ y = Rest(u, BlobSize) /\ x \o y = u
          /\ Len(x) = BlobSize /\ \A i \in 1..BlobSize : x[i] = u[i]
  <2>1. BlobSize \in 0..Len(u)
    BY <1>6, <1>7
  <2>2. /\ First(u, BlobSize) \in Seq(Bytes) /\ Rest(u, BlobSize) \in Seq(Bytes)
        /\ First(u, BlobSize) \o Rest(u, BlobSize) = u /\ Len(First(u, BlobSize)) = BlobSize
        /\ \A i \in 1..BlobSize : First(u, BlobSize)[i] = u[i]
    BY <2>1, Cut
  <2> QED
    BY <2>2, Zenon
<1>16. x = b
  <2>1. ASSUME NEW i \in 1..Len(x) PROVE x[i] = b[i]
    <3>1. i \in 1..BlobSize /\ i \in 1..(Len(u) + Len(w)) /\ i <= Len(u)
          /\ i \in 1..(Len(b) + Len(t)) /\ i <= Len(b)
      BY <1>6, <1>7, <1>13, <1>14, <1>15
    <3>2. (u \o w)[i] = u[i]
      BY <3>1, ConcatProperties
    <3>3. (b \o t)[i] = b[i]
      BY <3>1, ConcatProperties
    <3> QED
      BY <1>13, <1>15, <3>1, <3>2, <3>3, Zenon
  <2> QED
    BY <1>14, <1>15, <2>1, SeqEqual
<1>17. t = y \o w
  <2>1. (x \o y) \o w = x \o (y \o w)
    BY Associates, Zenon
  <2>2. b \o t = b \o (y \o w)
    BY <1>13, <1>15, <1>16, <2>1, Zenon
  <2>3. y \o w \in Seq(Bytes)
    BY Closed, Zenon
  <2> QED
    BY <2>2, <2>3, Cancel
<1>18. /\ Authentic(b, part_number + 1)
       /\ Len(disk) + Len(Plain(b)) <= MAX_URL_SIZE
  BY <1>2, <1>3, <1>9, <1>12, NextBlobFits, Zenon
<1>19. Len(disk) \in Nat /\ Len(Plain(b)) \in Nat /\ MAX_URL_SIZE \in Nat
  BY <1>0, PlainType, LenProperties DEF Typed
<1>20. ~ (Len(disk) + Len(Plain(b)) > MAX_URL_SIZE)
  BY <1>18, <1>19
<1>21. WriteBlob(b, UNCHANGED <<pc, outcome>>)
  BY <1>1, <1>5, <1>15, <1>16, Zenon
<1>22. part_number' = part_number + 1 /\ outcome' = outcome
  BY <1>18, <1>20, <1>21 DEF WriteBlob
<1>23. Joined(src'.blobs, part_number') \o (buffer' \o wire') = src'.wire
  BY <1>1, <1>5, <1>10, <1>15, <1>17, <1>22, Zenon
<1> QED
  BY <1>2, <1>22, <1>23, Zenon DEF FitInv

\* At the end of the stream what is left is the last blob, or nothing.
LEMMA EndFit ==
    ASSUME IInv, FitInv, EndOfStream
    PROVE  FitInv'
<1> SUFFICES ASSUME Small' PROVE FitInv'
  BY DEF FitInv
<1>0. Typed
  BY Facts
<1>1. pc = "read" /\ wire = << >> /\ src' = src /\ wire' = wire /\ buffer' = buffer
  BY DEF EndOfStream
<1>2. Small /\ outcome = "none"
  BY <1>1, SameSmall DEF IInv, TypeOK
<1>3. SUFFICES pc' = "done" /\ outcome' = "accepted"
  BY DEF FitInv
<1>4. CASE ~ src.encrypted
  BY <1>4 DEF EndOfStream, Finish
<1>5. CASE src.encrypted
  <2>1. Fits
    BY <1>0, <1>2, <1>5, SmallWire
  <2>2. /\ part_number <= Len(src.blobs)
        /\ Joined(src.blobs, part_number) \o (buffer \o wire) = src.wire
    BY <1>2, <1>5 DEF IInv, DiskInv, FitInv
  <2>3. buffer \o wire = buffer
    BY <1>0, <1>1, ConcatEmptySeq DEF Typed
  <2>4. part_number \in Nat /\ Len(src.blobs) \in Nat /\ src.parts = Len(src.blobs)
    BY <1>0, <2>1 DEF Typed, Fits, Truthful
  <2>5. PICK u \in Seq(Bytes) : u = buffer
    BY <1>0 DEF Typed
  <2>6. ASSUME part_number < Len(src.blobs)
        PROVE  u = src.blobs[part_number + 1] /\ part_number + 1 = Len(src.blobs) /\ u # << >>
    <3>1. PICK t \in Seq(Bytes) :
             /\ buffer \o wire = src.blobs[part_number + 1] \o t
             /\ part_number + 1 = Len(src.blobs) => t = << >>
      BY <1>0, <2>1, <2>2, <2>6, NextBlob
    <3>2. part_number + 1 \in 1..Len(src.blobs)
      BY <2>4, <2>6
    <3>3. PICK b \in Seq(Bytes) : b = src.blobs[part_number + 1]
      BY <1>0, <2>1, <3>2, BlobLens
    <3>4. /\ Len(b) \in Nat /\ Len(b) > OVERHEAD /\ OVERHEAD \in Nat
          /\ part_number + 1 < Len(src.blobs) => Len(b) = BlobSize
      BY <1>0, <2>1, <3>2, <3>3, BlobLens DEF Typed
    <3>5. u = b \o t
      BY <2>3, <2>5, <3>1, <3>3, Zenon
    <3>6. Len(u) = Len(b) + Len(t) /\ Len(t) \in Nat /\ Len(u) \in Nat
      BY <3>5, ConcatProperties, LenProperties
    <3>7. Len(u) < BlobSize /\ BlobSize \in Int
      BY <1>0, <1>1, <1>5, <2>5 DEF IInv, BufferInv, BlobSize, Typed
    <3>8. part_number + 1 = Len(src.blobs)
      BY <2>4, <2>6, <3>4, <3>6, <3>7
    <3>9. u = b
      BY <3>1, <3>5, <3>8, ConcatEmptySeq
    <3>10. u # << >>
      BY <3>4, <3>6
    <3> QED
      BY <3>3, <3>8, <3>9, <3>10
  <2>7. CASE part_number = Len(src.blobs)
    <3>1. buffer = << >>
      BY <1>0, <2>1, <2>2, <2>3, <2>7, NextBlob
    <3>2. CheckParts(part_number)
      BY <1>5, <3>1 DEF EndOfStream
    <3> QED
      BY <2>4, <2>7, <3>2 DEF CheckParts, Finish
  <2>8. CASE part_number < Len(src.blobs)
    <3>1. WriteBlob(u, CheckParts(part_number + 1))
      BY <1>5, <2>5, <2>6, <2>8 DEF EndOfStream
    <3>2. /\ Authentic(u, part_number + 1)
          /\ Len(disk) + Len(Plain(u)) <= MAX_URL_SIZE
      BY <1>2, <2>1, <2>6, <2>8, NextBlobFits, Zenon
    <3>3. Len(disk) \in Nat /\ Len(Plain(u)) \in Nat /\ MAX_URL_SIZE \in Nat
      BY <1>0, PlainType, LenProperties DEF Typed
    <3>4. ~ (Len(disk) + Len(Plain(u)) > MAX_URL_SIZE)
      BY <3>2, <3>3
    <3>5. CheckParts(part_number + 1)
      BY <3>1, <3>2, <3>4 DEF WriteBlob
    <3> QED
      BY <2>4, <2>6, <2>8, <3>5 DEF CheckParts, Finish
  <2> QED
    BY <2>2, <2>4, <2>7, <2>8
<1> QED
  BY <1>4, <1>5

\* FitInv holds in every reachable state.
LEMMA FitInvariance == Spec => []FitInv
<1>1. IInv /\ FitInv /\ [Next]_vars => FitInv'
  <2> SUFFICES ASSUME IInv, FitInv, [Next]_vars PROVE FitInv'
    OBVIOUS
  <2>1. CASE NextChunk
    BY <2>1, SameSmall DEF NextChunk, FitInv
  <2>2. ASSUME NEW why \in {"timeout", "lost"}, ReadFails(why) PROVE FitInv'
    BY <2>2, SameSmall DEF ReadFails, Finish, FitInv
  <2>3. CASE UNCHANGED vars
    BY <2>3, SameSmall DEF vars, FitInv
  <2>4. CASE Step
    BY <2>1, <2>4, HeadFit, ReadFit, DecryptFit, EndFit DEF Step
  <2> QED
    BY <2>2, <2>3, <2>4 DEF Next
<1> QED
  BY <1>1, InitFit, Invariance, PTL DEF Spec

\* MAX_URL_SIZE bounds the file and not its transport: for every size, chunk size
\* and overhead, a truthful source whose file fits is never refused for its size or
\* its encryption (tasks.py:152-167).
THEOREM FittingFile == Spec => []FittingFileIsNotRefused
<1>1. FitInv => FittingFileIsNotRefused
  BY DEF FitInv, Small, FittingFileIsNotRefused
<1> QED
  BY <1>1, FitInvariance, PTL

=============================================================================
