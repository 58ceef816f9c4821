---------------------------- MODULE MCTraining ----------------------------
(***************************************************************************)
(* A model of four tensors: a 3 x 1 matrix, which fills two chunks of      *)
(* 2 x 2 in part, a router row, two experts and their balance bias; two    *)
(* inner steps of at most two microbatches; a dataset of four shards.      *)
(***************************************************************************)
EXTENDS Training

MCNameOrder == <<"attn", "balance_bias", "routed", "router">>
MCShapes ==
    [n \in {"attn", "balance_bias", "routed", "router"} |->
        CASE n = "attn" -> <<3, 1>> [] n = "router" -> <<1>> [] OTHER -> <<2>>]
MCWhole0 ==
    [n \in DOMAIN MCShapes |->
        CASE n = "attn" -> [i \in 0 .. 2 |-> i + 1]
          [] n = "router" -> [i \in 0 .. 0 |-> 1]
          [] n = "routed" -> [i \in 0 .. 1 |-> 2 - 3 * i]
          [] n = "balance_bias" -> [i \in 0 .. 1 |-> 0]]

Bound == 6
MCWrap(x) == ((x + Bound) % (2 * Bound + 1)) - Bound
MCHalf(x) == x \div 2

Token(p) == 2 * p[1] + p[2] + 1

MCDispatch(m, p) ==
    LET first == ((m["router"][0] + Token(p)) % 2) + m["balance_bias"][0] >= 1 + m["balance_bias"][1]
    IN  [e \in 0 .. 1 |-> IF first = (e = 0) THEN 1 ELSE 0]

MCBackward(n, m, p) ==
    LET to == MCDispatch(m, p)  t == Token(p)
    IN  CASE n = "attn"   -> [i \in 0 .. 2 |-> ((m["attn"][i] * t + i) % 7) - 2]
          [] n = "router" -> [i \in 0 .. 0 |-> m["attn"][t % 3] - to[0] * m["routed"][0]]
          [] n = "routed" -> [i \in 0 .. 1 |-> to[i] * (m["routed"][i] - m["router"][0] * t)]

\* A rotation of 0 .. n-1 that depends on the seed.
MCPermute(seed, n) ==
    LET shift == seed[2] + seed[3] + seed[4] + (IF seed[1] = "order" THEN 1 ELSE 0)
    IN  [i \in 1 .. n |-> (i + shift) % n]

MCLr == [kind |-> "wsd_decay", constLr |-> 1, warmup |-> 2, peak |-> 2, decay |-> 8]
MCDefaults ==
    [data |-> "web", lr |-> MCLr, seqLen |-> 1, microbatch |-> 1, accum |-> 2, steps |-> 2]
MCDatasets ==
    [d \in {"web", "long", "attest"} |->
        CASE d = "web"    -> [shards |-> 4, perShard |-> 2, seqLen |-> 1]
          [] d = "long"   -> [shards |-> 4, perShard |-> 1, seqLen |-> 2]
          [] d = "attest" -> [shards |-> 2, perShard |-> 4, seqLen |-> 1]]

Entry_(at, over, restart) == [start |-> at, over |-> over, restart |-> restart]
MCManifest0 ==
    [phases |-> <<Entry_(0, [k \in {} |-> 0], FALSE)>>, voids |-> {}, salt |-> 0, amendments |-> <<>>]

MCAmendments ==
    {[kind |-> "phase", effective |-> 2,
      entry |-> Entry_(2, [data |-> "long", seqLen |-> 2, microbatch |-> 2], TRUE)],
     [kind |-> "void", effective |-> 2, range |-> [first |-> 2, last |-> 2]],
     [kind |-> "prf_salt", effective |-> 2, salt |-> 1]}

\* The challenges of two blocks.
MCDigest(block)  == [id |-> block, seed |-> 3 - block]
MCSeed(id, seed) == id
MCInit(seed)     == [MCWhole0 EXCEPT !["attn"][0] = seed]

Miner1  == {[role |-> "miner", world |-> 1, protocol |-> 1]}
Node2   == {[role |-> "attest", world |-> 2, protocol |-> 2]}
MCLayouts == Miner1 \cup Node2 \cup {[role |-> "miner", world |-> 2, protocol |-> 2]}
OneRankOfTwo == {[role |-> "miner", world |-> 1, protocol |-> 2]}
=============================================================================
