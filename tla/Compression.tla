---------------------------- MODULE Compression ----------------------------
(***************************************************************************)
(* The wire form of one tensor (subnet/core/compress.py): a tensor is cut  *)
(* into chunks, the largest entries of every chunk are kept, and their     *)
(* positions travel in 12 bits and their values in 2.  A tensor is a       *)
(* function from 0 .. numel - 1 (row major) to integers, which stand for   *)
(* fp32: means and square roots round down, and positions and codes are    *)
(* exact.                                                                  *)
(***************************************************************************)
EXTENDS Integers, Sequences, FiniteSets, Functions

CONSTANTS
    TargetChunk,    \* compression.target_chunk
    TopK,           \* compression.topk
    Bins,           \* compression.quant_bins, at most 4
    RangeSigmas,    \* compression.quant_range_sigmas
    ScaleFloor      \* SCALE_FLOOR, in the model's unit

ASSUME CompressionAssumption ==
    /\ TargetChunk \in 1 .. 64 /\ TopK \in Nat \ {0}
    /\ Bins \in 2 .. 4 /\ RangeSigmas \in Nat \ {0} /\ ScaleFloor \in Nat \ {0}

-----------------------------------------------------------------------------
(* Arithmetic.                                                             *)

\* The value itself, computed once: TLC would evaluate a function anew at each
\* application.
Evaluated(f) == CHOOSE g \in {f} : g = f

Blocks(n, size) == (n + size - 1) \div size

Product(s) == LET p[i \in 0 .. Len(s)] == IF i = 0 THEN 1 ELSE p[i - 1] * s[i] IN p[Len(s)]
Total(s)   == LET t[i \in 0 .. Len(s)] == IF i = 0 THEN 0 ELSE t[i - 1] + s[i] IN t[Len(s)]

SumOf(f) == FoldFunction(+, 0, f)

Magnitude(x) == IF x < 0 THEN -x ELSE x

Root(x) == CHOOSE r \in 0 .. x : r * r <= x /\ x < (r + 1) * (r + 1)

\* a / b to the nearest integer, halves to the even one.
Rounded(a, b) ==
    LET q == (2 * a + b) \div (2 * b)
    IN  IF (2 * a + b) % (2 * b) = 0 /\ q % 2 = 1 THEN q - 1 ELSE q

Ascending(S) ==
    [i \in 1 .. Cardinality(S) |-> CHOOSE x \in S : Cardinality({y \in S : y < x}) = i - 1]

-----------------------------------------------------------------------------
(* Packing, byte by byte: two indices in three bytes, four codes in one.   *)

PackedBytes12(n) == (3 * n + 1) \div 2
PackedBytes2(n)  == (n + 3) \div 4

Pack12(idx) ==
    [b \in 1 .. PackedBytes12(Len(idx)) |->
        LET i == 2 * ((b - 1) \div 3) + 1
            j == IF i < Len(idx) THEN idx[i + 1] ELSE 0
        IN  CASE (b - 1) % 3 = 0 -> idx[i] % 256
              [] (b - 1) % 3 = 1 -> (idx[i] \div 256) + 16 * (j % 16)
              [] (b - 1) % 3 = 2 -> j \div 16]

Unpack12(bytes, n) ==
    [i \in 1 .. n |->
        LET b == 3 * ((i - 1) \div 2)
        IN  IF i % 2 = 1 THEN bytes[b + 1] + 256 * (bytes[b + 2] % 16)
                         ELSE (bytes[b + 2] \div 16) + 16 * bytes[b + 3]]

Pack2(codes) ==
    LET code(i) == IF i <= Len(codes) THEN codes[i] ELSE 0
    IN  [b \in 1 .. PackedBytes2(Len(codes)) |->
            code(4 * b - 3) + 4 * code(4 * b - 2) + 16 * code(4 * b - 1) + 64 * code(4 * b)]

Unpack2(bytes, n) ==
    [i \in 1 .. n |->
        LET byte == bytes[((i - 1) \div 4) + 1]
        IN  CASE (i - 1) % 4 = 0 -> byte % 4
              [] (i - 1) % 4 = 1 -> (byte \div 4) % 4
              [] (i - 1) % 4 = 2 -> (byte \div 16) % 4
              [] (i - 1) % 4 = 3 -> byte \div 64]

-----------------------------------------------------------------------------
(* Chunks.  A tensor of two dimensions or more is tiled as (rows, last     *)
(* dimension) into squares, a vector is cut into runs of the same size;    *)
(* the last ones are padded with zeros.                                    *)

Geometry(shape) ==
    LET numel == Product(shape)  elems == TargetChunk * TargetChunk
        cols  == shape[Len(shape)]  across == Blocks(cols, TargetChunk)
    IN  IF Len(shape) >= 2
        THEN [grid |-> TRUE, rows |-> numel \div cols, cols |-> cols, across |-> across,
              chunks |-> Blocks(numel \div cols, TargetChunk) * across,
              elems |-> elems, numel |-> numel]
        ELSE [grid |-> FALSE, rows |-> numel, cols |-> 1, across |-> 1,
              chunks |-> Blocks(numel, elems), elems |-> elems, numel |-> numel]

\* Where entry i of the tensor lands: its chunk and its position there.
Place(g, i) ==
    IF g.grid
    THEN LET row == i \div g.cols  col == i % g.cols
         IN  <<(row \div TargetChunk) * g.across + (col \div TargetChunk),
               (row % TargetChunk) * TargetChunk + (col % TargetChunk)>>
    ELSE <<i \div g.elems, i % g.elems>>

Encode(g, tensor) ==
    [c \in 0 .. g.chunks - 1 |-> [p \in 0 .. g.elems - 1 |->
        LET here == {i \in 0 .. g.numel - 1 : Place(g, i) = <<c, p>>}
        IN  IF here = {} THEN 0 ELSE tensor[CHOOSE i \in here : TRUE]]]

Decode(g, chunked) == [i \in 0 .. g.numel - 1 |-> chunked[Place(g, i)[1]][Place(g, i)[2]]]

-----------------------------------------------------------------------------
(* Quantization: the mean is the shift, bins of equal width around it, and *)
(* the mean offset of what fell into each bin as the value it decodes to.  *)

Scale(centered) ==
    LET n       == Len(centered)
        squares == Total([i \in 1 .. n |-> centered[i] * centered[i]])
        spread  == IF n = 1 THEN 0
                   ELSE Root((squares * RangeSigmas * RangeSigmas) \div ((n - 1) * Bins * Bins))
    IN  IF spread < ScaleFloor THEN ScaleFloor ELSE spread

CodeOf(x, scale) ==
    LET b == Rounded(x + scale * (Bins \div 2), scale)
    IN  IF b < 0 THEN 0 ELSE IF b >= Bins THEN Bins - 1 ELSE b

Codes(centered, scale) == [i \in DOMAIN centered |-> CodeOf(centered[i], scale)]

BinMean(centered, codes, b) ==
    LET inBin == {i \in DOMAIN codes : codes[i] = b}
    IN  IF inBin = {} THEN 0
        ELSE SumOf([i \in inBin |-> centered[i]]) \div Cardinality(inBin)

Quantized(shift, scale, centered, codes) ==
    [codes   |-> codes,
     qparams |-> [shift |-> shift, scale |-> scale,
                  lookup |-> [b \in 0 .. Bins - 1 |-> BinMean(centered, codes, b)]]]

QuantizeAround(shift, centered) ==
    Quantized(shift, Scale(centered), centered, Evaluated(Codes(centered, Scale(centered))))

Quantize(vals) ==
    LET shift == Total(vals) \div Len(vals)
    IN  QuantizeAround(shift, Evaluated([i \in DOMAIN vals |-> vals[i] - shift]))

Dequantize(codes, q) == [i \in 1 .. Len(codes) |-> q.lookup[codes[i]] + q.shift]

-----------------------------------------------------------------------------
(* Top-k.  torch.topk leaves the order of equal magnitudes open: tie says  *)
(* which end of the chunk wins.                                            *)

Ties == {"first", "last"}

TopPositions(chunk, k, tie) ==
    LET beats(q, p) ==
          \/ Magnitude(chunk[q]) > Magnitude(chunk[p])
          \/ /\ Magnitude(chunk[q]) = Magnitude(chunk[p])
             /\ IF tie = "first" THEN q < p ELSE q > p
    IN  {p \in DOMAIN chunk : Cardinality({q \in DOMAIN chunk : beats(q, p)}) < k}

EffectiveTopK(g) == IF TopK < g.elems THEN TopK ELSE g.elems

\* The kept positions of all chunks, chunk by chunk and ascending within each.
Kept(chunked, k, tie) ==
    [j \in 1 .. Cardinality(DOMAIN chunked) * k |->
        Ascending(TopPositions(chunked[(j - 1) \div k], k, tie))[((j - 1) % k) + 1]]

Wire(shape, g, idx, quantized) ==
    [idxs |-> Pack12(idx), codes |-> Pack2(quantized.codes), qparams |-> quantized.qparams,
     chunks |-> g.chunks, elems |-> g.elems, shape |-> shape, topk |-> EffectiveTopK(g)]

CompressKept(shape, g, chunked, idx) ==
    Wire(shape, g, idx,
         Quantize(Evaluated([j \in DOMAIN idx |-> chunked[(j - 1) \div EffectiveTopK(g)][idx[j]]])))

CompressChunks(shape, g, chunked, tie) ==
    CompressKept(shape, g, chunked, Evaluated(Kept(chunked, EffectiveTopK(g), tie)))

Compress(shape, tensor, tie) ==
    LET g == Geometry(shape)
    IN  CompressChunks(shape, g, Evaluated(Encode(g, tensor)), tie)

\* The kept values back at their positions, zeros elsewhere.
Scattered(ct, idx, vals) ==
    [c \in 0 .. ct.chunks - 1 |-> [p \in 0 .. ct.elems - 1 |->
        LET at == {j \in DOMAIN idx : (j - 1) \div ct.topk = c /\ idx[j] = p}
        IN  IF at = {} THEN 0 ELSE vals[CHOOSE j \in at : TRUE]]]

Indices(ct) == Unpack12(ct.idxs, ct.chunks * ct.topk)
KeptValues(ct) == Dequantize(Unpack2(ct.codes, ct.chunks * ct.topk), ct.qparams)

Decompress(ct) ==
    Decode(Geometry(ct.shape), Evaluated(Scattered(ct, Evaluated(Indices(ct)), Evaluated(KeptValues(ct)))))
=============================================================================
