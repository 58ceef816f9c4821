------------------------------- MODULE Gather -------------------------------
(***************************************************************************)
(* How the payloads a certificate names reach a node: the leader's mirror  *)
(* object (AggregatorObject of subnet/core/exchange.py), the fetches from  *)
(* the peers' buckets and from the mirror, and their checks.  Buckets are  *)
(* storage nobody vouches for: an object may be absent, out of reach in    *)
(* time, or other than the one that was certified.  A hash is the bytes.   *)
(***************************************************************************)
EXTENDS Payload, SequencesExt

CONSTANT MaxBytes   \* cfg.storage.max_payload_bytes; a blob is one byte a value

ASSUME GatherAssumption == MaxBytes \in Nat \ {0}

\* A frame as an object: its head, then its body.
Bytes(f)   == <<[version |-> f.version, header |-> f.header]>> \o f.body
FrameOf(b) == [version |-> b[1].version, header |-> b[1].header, body |-> Tail(b)]

\* What a bucket without the object answers, and one that does not answer.
Missing == <<>>

\* The same object with other content.
Rewritten(b) == IF b = Missing THEN Missing ELSE [b EXCEPT ![Len(b)] = @ + 1]

(* Faulty variant: the hash of what arrived is not compared.               *)
VerifiedUnhashed(stored, hash) == stored # Missing /\ Len(stored) <= MaxBytes

\* The object is there, within the bound, and has the certified hash: get_bytes
\* for a peer's object, and the same three checks for a blob of the mirror.
Verified(stored, hash) ==
    stored # Missing /\ Len(stored) <= MaxBytes /\ stored = hash

-----------------------------------------------------------------------------
(* The mirror.                                                             *)

MirrorEntry(uid, blob) == [uid |-> uid, nbytes |-> Len(blob), hash |-> blob]

\* AggregatorObject.serialize: the blobs in ascending order of uid.
Mirror(window, blobs) ==
    LET uids == SetToSortSeq(DOMAIN blobs, <)
    IN  [window  |-> window,
         entries |-> [i \in 1 .. Len(uids) |-> MirrorEntry(uids[i], blobs[uids[i]])],
         body    |-> Concat([i \in 1 .. Len(uids) |-> blobs[uids[i]]])]

NoMirror == [window |-> -1, entries |-> <<>>, body |-> Missing]

BlobAt(m, i) ==
    LET from == Total([j \in 1 .. i - 1 |-> m.entries[j].nbytes])
    IN  SubSeq(m.body, from + 1, from + m.entries[i].nbytes)

\* AggregatorObject.deserialize: entries in strict order, no blob empty, the
\* blobs the whole body, and each of them what its entry says.
MirrorReads(m) ==
    /\ \A i \in 1 .. Len(m.entries) - 1 : m.entries[i].uid < m.entries[i + 1].uid
    /\ \A i \in 1 .. Len(m.entries) : m.entries[i].nbytes >= 1
    /\ Len(m.body) = Total([i \in 1 .. Len(m.entries) |-> m.entries[i].nbytes])
    /\ \A i \in 1 .. Len(m.entries) : BlobAt(m, i) = m.entries[i].hash

\* get_aggregator_object, and the blob of one uid: Missing when the object does
\* not read, is another window's, or leaves the uid out.
MirrorUsable(m, window, peers) ==
    /\ m # NoMirror /\ Len(m.body) <= MaxBytes * peers
    /\ MirrorReads(m) /\ m.window = window

MirrorBlob(m, uid) ==
    IF \E i \in 1 .. Len(m.entries) : m.entries[i].uid = uid
    THEN BlobAt(m, CHOOSE i \in 1 .. Len(m.entries) : m.entries[i].uid = uid)
    ELSE Missing

-----------------------------------------------------------------------------
(* The gathers.  A certificate is [window, root, hashes], hashes from the  *)
(* included uids; a gather is [payloads, missing].                         *)

Peers(cert) == DOMAIN cert.hashes

\* The certified blobs a mirror object yields: those of every uid it has the
\* certified bytes of, and none when it is not usable.
FetchMirrored(cert, m) ==
    IF MirrorUsable(m, cert.window, Cardinality(Peers(cert)))
    THEN LET blobs == Evaluated([u \in Peers(cert) |-> MirrorBlob(m, u)])
         IN  [u \in {v \in Peers(cert) : Verified(blobs[v], cert.hashes[v])} |-> blobs[u]]
    ELSE <<>>

\* gather_certified up to its decoding: every peer's bucket, then one pass over
\* what the mirror yields for those that failed.
FetchCertified(cert, read, mirrored) ==
    LET direct == {u \in Peers(cert) : Verified(read[u], cert.hashes[u])}
    IN  [u \in direct \cup DOMAIN mirrored |-> IF u \in direct THEN read[u] ELSE mirrored[u]]

Decodes(cert, uid, f, payload, compShapes, denseShapes) ==
    /\ f.header.uid = uid /\ f.header.window = cert.window
    /\ ValidateStructure(payload, compShapes, denseShapes)

\* _decode_certified, of one uid: its payload, or nothing.
DecodedOne(cert, uid, f, compShapes, denseShapes) ==
    IF ~Readable(f) THEN {}
    ELSE {p \in {Deserialize(f)} : Decodes(cert, uid, f, p, compShapes, denseShapes)}

GatherOf(cert, found) ==
    LET good == {u \in DOMAIN found : found[u] # {}}
    IN  [payloads |-> [u \in good |-> CHOOSE p \in found[u] : TRUE],
         missing  |-> Peers(cert) \ good]

\* _decode_certified.
Decoded(cert, raw, compShapes, denseShapes) ==
    GatherOf(cert, Evaluated([u \in DOMAIN raw |->
                        DecodedOne(cert, u, FrameOf(raw[u]), compShapes, denseShapes)]))
=============================================================================
