----------------------------- MODULE MCDownload -----------------------------
(***************************************************************************)
(* Small instances of Download: files of 0 to MaxFile bytes, plain or      *)
(* encrypted, sent truthfully, truncated, extended, with a blob dropped or *)
(* repeated, two blobs swapped or a byte altered, with the declared length *)
(* absent, true, understated or overstated, and with a request that        *)
(* declares too few, too many or no parts, or another chunk size.          *)
(***************************************************************************)
EXTENDS Download

CONSTANTS
    MaxFile,        \* largest file in the instance
    ChunkSizes      \* chunk sizes requests declare

MCBytes == (0..MaxFile) \X (0..(MAX_CHUNK + OVERHEAD))

Junk == <<0, 0>>

MinOf(a, b) == IF a < b THEN a ELSE b

\* The blobs of a file of size n cut in chunks of c bytes.
BlobsOf(n, c) ==
    [p \in 1..((n + c - 1) \div c) |->
        [o \in 1..(MinOf(c, n - (p - 1) * c) + OVERHEAD) |-> <<p, o>>]]

\* What a server can make of the blobs.
Deliveries(blobs) ==
    LET whole == FlattenSeq(blobs)
    IN  {whole}
        \cup {SubSeq(whole, 1, k) : k \in 0..Len(whole)}
        \cup {whole \o [i \in 1..k |-> Junk] : k \in {1, OVERHEAD + 1}}
        \cup {FlattenSeq(RemoveAt(blobs, p)) : p \in DOMAIN blobs}
        \cup {FlattenSeq(blobs \o <<blobs[p]>>) : p \in DOMAIN blobs}
        \cup {FlattenSeq(<<blobs[p]>> \o RemoveAt(blobs, p)) : p \in DOMAIN blobs}
        \cup {[whole EXCEPT ![i] = Junk] : i \in DOMAIN whole}

Encrypted(n, c, chunk, parts, w, d) ==
    [encrypted |-> TRUE, known_scheme |-> TRUE, chunk_size |-> chunk, parts |-> parts,
     blobs |-> BlobsOf(n, c), wire |-> w, declared |-> d]

EncryptedSources ==
    UNION {
      UNION {{Encrypted(n, c, chunk, Len(BlobsOf(n, c)) + dp, w, d) :
                 w \in Deliveries(BlobsOf(n, c)), dp \in {-1, 0, 1},
                 d \in {NoLength, 1}} : chunk \in ChunkSizes}
      : n \in 0..MaxFile, c \in ChunkSizes \cap MIN_CHUNK..MAX_CHUNK}

\* Sources sent truthfully with their true length, at and around the cap.
HonestSources ==
    UNION {{[Encrypted(n, c, c, Len(BlobsOf(n, c)), w, Len(w)) EXCEPT !.known_scheme = k] :
              w \in {FlattenSeq(BlobsOf(n, c))},
              k \in BOOLEAN}
           : n \in 0..MaxFile, c \in ChunkSizes \cap MIN_CHUNK..MAX_CHUNK}

PlainSources ==
    {[encrypted |-> FALSE, known_scheme |-> TRUE, chunk_size |-> 0, parts |-> 0,
      blobs |-> << >>, wire |-> [i \in 1..n |-> <<i, 1>>], declared |-> d] :
        n \in 0..MaxFile, d \in {NoLength} \cup 0..(MaxFile + 1)}

MCSources == EncryptedSources \cup HonestSources \cup PlainSources
=============================================================================
