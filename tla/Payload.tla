------------------------------ MODULE Payload ------------------------------
(***************************************************************************)
(* A miner's upload, from the ranks' compressed tensors to the inputs of   *)
(* the outer step (subnet/core/payload.py, the conversion of checkpoint.py *)
(* and subnet/core/outer_opt.py).  The frame is a record: a header and the *)
(* concatenated blobs, where a dense fp32 value is one entry of the body.  *)
(* Its hash is the frame itself; zstd and JSON are left out.  Norms are    *)
(* sums of magnitudes.                                                     *)
(***************************************************************************)
EXTENDS Compression, FiniteSetsExt

CONSTANTS
    NameOrder,      \* every parameter name, in sorted order
    ScaleCeil,      \* SCALE_CEIL
    MomentumOf(_),  \* x |-> outer.momentum * x, rounded
    WireVersion

ASSUME PayloadAssumption ==
    /\ Len(NameOrder) \in Nat
    /\ \A i, j \in 1 .. Len(NameOrder) : NameOrder[i] = NameOrder[j] => i = j
    /\ ScaleCeil \in Nat /\ ScaleFloor <= ScaleCeil

\* The names of a set in sorted order.
Sorted(S) ==
    LET c[i \in 0 .. Len(NameOrder)] ==
            IF i = 0 THEN <<>>
            ELSE IF NameOrder[i] \in S THEN Append(c[i - 1], NameOrder[i]) ELSE c[i - 1]
    IN  c[Len(NameOrder)]
Listed(s)  == {s[i] : i \in 1 .. Len(s)}
Values(t)  == [i \in 1 .. Cardinality(DOMAIN t) |-> t[i - 1]]
Concat(ss) == LET c[i \in 0 .. Len(ss)] == IF i = 0 THEN <<>> ELSE c[i - 1] \o ss[i] IN c[Len(ss)]

\* assign_owned_params: a rank's own experts, and its stripe of the shared names.
AssignOwned(names, experts, rank, world) ==
    LET shared == Sorted(names \ experts)
    IN  (names \cap experts) \cup {shared[i] : i \in {j \in 1 .. Len(shared) : (j - 1) % world = rank}}

-----------------------------------------------------------------------------
(* The frame.  A payload is [uid, window, meta, compressed, dense], where  *)
(* dense maps a name to [shape, value].                                    *)

Entry(name, ct) ==
    [name |-> name, chunks |-> ct.chunks, elems |-> ct.elems, topk |-> ct.topk,
     shape |-> ct.shape, qparams |-> ct.qparams,
     idxsBytes |-> Len(ct.idxs), codesBytes |-> Len(ct.codes)]

Serialize(p) ==
    LET comp == Sorted(DOMAIN p.compressed)  dense == Sorted(DOMAIN p.dense)
    IN  [version |-> WireVersion,
         header |-> [uid |-> p.uid, window |-> p.window, meta |-> p.meta,
                     compressed |-> [i \in 1 .. Len(comp) |-> Entry(comp[i], p.compressed[comp[i]])],
                     dense |-> [i \in 1 .. Len(dense) |->
                                  [name |-> dense[i], shape |-> p.dense[dense[i]].shape]]],
         body |-> Concat([i \in 1 .. Len(comp) |->
                            p.compressed[comp[i]].idxs \o p.compressed[comp[i]].codes])
                  \o Concat([i \in 1 .. Len(dense) |-> Values(p.dense[dense[i]].value)])]

CanonicalHash(p) == Serialize(p)

EntryBounded(e) ==
    /\ e.chunks >= 1 /\ e.topk \in 1 .. e.elems
    /\ Product(e.shape) <= e.chunks * e.elems
    /\ e.idxsBytes = PackedBytes12(e.chunks * e.topk)
    /\ e.codesBytes = PackedBytes2(e.chunks * e.topk)

EntrySize(e) == e.idxsBytes + e.codesBytes

StrictlySorted(entries) ==
    [i \in 1 .. Len(entries) |-> entries[i].name] = Sorted({e.name : e \in Listed(entries)})

\* What deserialize checks before it builds a tensor.
Readable(f) ==
    LET comp == f.header.compressed  dense == f.header.dense
    IN  /\ f.version = WireVersion
        /\ StrictlySorted(comp) /\ StrictlySorted(dense)
        /\ \A i \in 1 .. Len(comp) : EntryBounded(comp[i])
        /\ {e.name : e \in Listed(comp)} \cap {e.name : e \in Listed(dense)} = {}
        /\ Len(f.body) = Total([i \in 1 .. Len(comp) |-> EntrySize(comp[i])])
                         + Total([i \in 1 .. Len(dense) |-> Product(dense[i].shape)])

\* deserialize, of a frame it reads: every blob at the offset the entries
\* before it add up to.
Deserialize(f) ==
    LET comp == f.header.compressed  dense == f.header.dense
        compAt(i)  == Total([j \in 1 .. i - 1 |-> EntrySize(comp[j])])
        denseAt(i) == compAt(Len(comp) + 1) + Total([j \in 1 .. i - 1 |-> Product(dense[j].shape)])
        index(entries, n) == CHOOSE i \in 1 .. Len(entries) : entries[i].name = n
    IN  [uid |-> f.header.uid, window |-> f.header.window, meta |-> f.header.meta,
         compressed |-> [n \in {e.name : e \in Listed(comp)} |->
            LET i == index(comp, n)  e == comp[i]  from == compAt(i)
            IN  [idxs  |-> SubSeq(f.body, from + 1, from + e.idxsBytes),
                 codes |-> SubSeq(f.body, from + e.idxsBytes + 1, from + EntrySize(e)),
                 qparams |-> e.qparams, chunks |-> e.chunks, elems |-> e.elems,
                 shape |-> e.shape, topk |-> e.topk]],
         dense |-> [n \in {e.name : e \in Listed(dense)} |->
            LET i == index(dense, n)
            IN  [shape |-> dense[i].shape,
                 value |-> [k \in 0 .. Product(dense[i].shape) - 1 |-> f.body[denseAt(i) + k + 1]]]]]

-----------------------------------------------------------------------------
(* validate_structure.                                                     *)

ValidTensor(ct, shape) ==
    LET g == Geometry(shape)  n == ct.chunks * ct.topk
        idx == Evaluated(Indices(ct))
    IN  /\ ct.shape = shape
        /\ ct.chunks = g.chunks /\ ct.elems = g.elems /\ ct.topk = EffectiveTopK(g)
        /\ Len(ct.idxs) = PackedBytes12(n) /\ Len(ct.codes) = PackedBytes2(n)
        /\ n % 2 = 1 => ct.idxs[Len(ct.idxs)] < 16
        /\ n % 4 # 0 => ct.codes[Len(ct.codes)] < 4 ^ (n % 4)
        /\ \A i \in 1 .. n : idx[i] < ct.elems
        /\ \A i \in 1 .. n - 1 : i % ct.topk # 0 => idx[i] < idx[i + 1]
        /\ ScaleFloor <= ct.qparams.scale /\ ct.qparams.scale <= ScaleCeil
        /\ Cardinality(DOMAIN ct.qparams.lookup) <= 4
        /\ \A i \in 1 .. n : Unpack2(ct.codes, n)[i] \in DOMAIN ct.qparams.lookup

ValidateStructure(p, compShapes, denseShapes) ==
    /\ DOMAIN p.compressed = DOMAIN compShapes
    /\ DOMAIN p.dense = DOMAIN denseShapes
    /\ \A n \in DOMAIN compShapes : ValidTensor(p.compressed[n], compShapes[n])
    /\ \A n \in DOMAIN denseShapes : p.dense[n].shape = denseShapes[n]

-----------------------------------------------------------------------------
(* The inputs of the outer step.                                           *)

(* Faulty variant: only what lies beyond the tensor is dropped.            *)
InsideNumel(g, row, col, flat) == flat < g.numel

\* Is this position of a chunk an entry of the tensor, or padding?
Inside(g, row, col, flat) == IF g.grid THEN row < g.rows /\ col < g.cols ELSE flat < g.numel

\* sparse_pairs_from_compressed: chunk positions back to flat ones, those in
\* the padding dropped.  A separate inverse of encode from Decompress.
PairsAt(g, ct, idx, vals) ==
    LET chunk(i) == (i - 1) \div ct.topk
        row(i)   == (chunk(i) \div g.across) * TargetChunk + (idx[i] \div TargetChunk)
        col(i)   == (chunk(i) % g.across) * TargetChunk + (idx[i] % TargetChunk)
        flat(i)  == chunk(i) * g.elems + idx[i]
    IN  {[slot |-> i, val |-> vals[i],
          at |-> IF g.grid THEN row(i) * g.cols + col(i) ELSE flat(i)] :
            i \in {j \in DOMAIN idx : Inside(g, row(j), col(j), flat(j))}}

SparsePairs(ct) ==
    PairsAt(Geometry(ct.shape), ct, Evaluated(Indices(ct)), Evaluated(KeptValues(ct)))

DensePairs(t) == {[slot |-> i + 1, at |-> i, val |-> t[i]] : i \in DOMAIN t}

\* build_outer_inputs, for one parameter: every certified peer's pairs.
PeerPairs(n, p) ==
    IF n \in DOMAIN p.compressed THEN SparsePairs(p.compressed[n]) ELSE DensePairs(p.dense[n].value)

Contributions(n, payloads) ==
    UNION {{[peer |-> u, slot |-> c.slot, at |-> c.at, val |-> c.val] :
              c \in PeerPairs(n, payloads[u])} : u \in DOMAIN payloads}

\* The norm of what each peer brings into the merge.
Norms(contribs, peers) ==
    [u \in peers |-> SumOf([c \in {d \in contribs : d.peer = u} |-> Magnitude(c.val)])]

\* median_norm_clip_factors: at most the lower middle of the norms.
MedianNorm(norms) ==
    Min({norms[u] : u \in {v \in DOMAIN norms :
            2 * Cardinality({x \in DOMAIN norms : norms[x] <= norms[v]})
                >= Cardinality(DOMAIN norms)}})

Clipped(val, norm, median) == IF norm <= median THEN val ELSE (val * median) \div norm

\* deterministic_segment_mean at one index: zero where nobody contributed.
\* A dense tensor is the case where everybody did.
SegmentMean(here, norms, median) ==
    IF here = {} THEN 0
    ELSE SumOf([c \in here |-> Clipped(c.val, norms[c.peer], median)]) \div Cardinality(here)

MergedBy(contribs, norms, median, indices) ==
    [i \in indices |-> SegmentMean({c \in contribs : c.at = i}, norms, median)]

MergedUnder(contribs, norms, indices) == MergedBy(contribs, norms, MedianNorm(norms), indices)

Merged(contribs, peers, indices) ==
    MergedUnder(contribs, Evaluated(Norms(contribs, peers)), indices)

\* The Nesterov step at learning rate one, on [params, momentum].
Nesterov(state, grad) ==
    LET m == Evaluated([n \in DOMAIN grad |-> [i \in DOMAIN grad[n] |->
                            MomentumOf(state.momentum[n][i]) + grad[n][i]]])
    IN  [momentum |-> m,
         params   |-> [n \in DOMAIN grad |-> [i \in DOMAIN grad[n] |->
                            state.params[n][i] - grad[n][i] - MomentumOf(m[n][i])]]]

\* ReplicatedOuterStep.apply.  No certified payload leaves both alone.
OuterApply(state, payloads) ==
    IF DOMAIN payloads = {} THEN state
    ELSE Nesterov(state, Evaluated([n \in DOMAIN state.params |->
            Evaluated(Merged(Contributions(n, payloads), DOMAIN payloads, DOMAIN state.params[n]))]))
=============================================================================
