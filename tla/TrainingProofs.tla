--------------------------- MODULE TrainingProofs ---------------------------
(***************************************************************************)
(* Theorems of Training, for every model, schedule, gather and mirror, any *)
(* number of ranks and any bounds: its types, the lockstep of a miner's    *)
(* replica with the lineage, its counters, and the frames it sends.        *)
(*                                                                         *)
(* The invariant comes in layers, each inductive given those before it.    *)
(* TypeInv is the shape of the state: every rank holds every tensor over   *)
(* all of its indices, the shared ones alike between two steps.            *)
(* LineageInv says that each window of the lineage follows from the one    *)
(* before by the outer step over its certificate as its bytes are read     *)
(* back.  ReplicaInv says that a miner stands at the lineage's state for   *)
(* its window, and Counting that its counters are those the manifest       *)
(* determines.  NumbersInv says that every tensor is one of integers and   *)
(* that a certificate reads back what compression made of such tensors.    *)
(*                                                                         *)
(* The frames rest on lemmas about the operators of Compression and        *)
(* Payload: packed indices and codes unpack to themselves (Packed12,       *)
(* Packed2), every entry has one place among the chunks (PlacesAre),       *)
(* top-k keeps distinct positions of a chunk, a payload is read back as    *)
(* it was written (WrittenReadsBack).                                      *)
(*                                                                         *)
(* What a recursive function of the model computes is got from its least   *)
(* counterexample, by LeastNatural: first that the function exists         *)
(* (RecursionExists), then that its equation determines it.                *)
(***************************************************************************)
EXTENDS Training, FiniteSetTheorems, SequenceTheorems, TLAPS

\* s is a list of its elements.
IsList(s) == Len(s) \in Nat /\ s = [i \in 1 .. Len(s) |-> s[i]]

\* The counters of a run.
Runs == [step : Nat, inner : Nat, tokens : Nat]
-----------------------------------------------------------------------------
(***************************************************************************)
(* The inductive invariant.                                                *)
(***************************************************************************)

\* Owners void windows ahead of the head only.
AmendsForward == \A a \in Amendments : a.kind = "void" => a.effective <= a.range.first

\* The run counts the tokens of one rank when its miner has one rank.
CountsItsRanks == \A l \in Layouts : (l.role = "miner" /\ l.world = 1) => l.protocol = 1

\* A window is being trained, or its payload is on its way.
InWindow == role = "miner" /\ pc \in {"training", "built", "awaiting"}

\* Where the process can be.
Places ==
    /\ \E l \in Layouts : role = l.role /\ world = l.world /\ protocol = l.protocol
    /\ pc \in {"stopped", "idle", "training", "built", "awaiting", "desync"}
    /\ pc \notin {"stopped", "training"} => role = "miner"
    /\ (InWindow \/ pc = "desync") => world = 1
    /\ IsList(lineage) /\ Len(lineage) \in 1 .. LastWindow + 2
    /\ window \in 0 .. HeadWindow /\ warmup \in 0 .. Warmup
    /\ run \in Runs /\ run.step <= window

SoundManifest(m) ==
    /\ m = [phases |-> m.phases, voids |-> m.voids, salt |-> m.salt, amendments |-> m.amendments]
    /\ IsList(m.phases)
    /\ \A i \in 1 .. Len(m.phases) : SoundEntry(m.phases[i])

Manifests == SoundManifest(posted) /\ SoundManifest(mine) /\ mine.voids \subseteq posted.voids

Tasks ==
    /\ progress = [stage |-> progress.stage, step |-> progress.step, micro |-> progress.micro,
                   tokens |-> progress.tokens]
    /\ progress.stage \in {"rest", "micro", "reduce", "bucket", "done"}
    /\ InWindow => task.manifest = mine /\ task.window = window /\ progress.tokens \in Nat

Exam ==
    /\ exam = [clock |-> exam.clock, asked |-> exam.asked, held |-> exam.held,
               answer |-> exam.answer, verdict |-> exam.verdict]
    /\ exam.clock \in 0 .. LastTick /\ exam.verdict \in {"none", "ok", "rejected"}
    /\ exam.asked.block \in Nat /\ exam.held.block \in Nat
    /\ exam.held.block <= exam.asked.block

\* The tensors of a rank, over all of their indices.
IsLocal(t) == t = [n \in Names |-> [i \in 0 .. LocalSize(n) - 1 |-> t[n][i]]]

OnRanks(m) == m = [r \in Ranks |-> m[r]] /\ \A r \in Ranks : IsLocal(m[r])

SameOnRanks(m, names) == \A q, r \in Ranks : \A n \in names : m[q][n] = m[r][n]

Tensors ==
    /\ OnRanks(model) /\ SameOnRanks(model, BiasNames)
    /\ progress.stage # "bucket" => SameOnRanks(model, Shared)
    /\ InWindow => OnRanks(start)
    /\ stepped \subseteq Ranks
    /\ pc = "training" =>
         /\ DOMAIN adam = Ranks /\ DOMAIN grads = Ranks
         /\ \A r \in Ranks : \A n \in ParamNames : DOMAIN grads[r][n] = 0 .. LocalSize(n) - 1

TypeInv == Places /\ Manifests /\ Tasks /\ Exam /\ Tensors

\* What the payloads of a certificate are to whoever has its bytes.
PayloadsOf(cert) == [u \in Peers(cert) |-> Deserialize(FrameOf(cert.hashes[u]))]

Outer(at) == [params |-> at.params, momentum |-> at.momentum]

\* Every window follows from the one before it by the outer step over its
\* certificate, or is the same when it has none.
Follows(w) ==
    Outer(lineage[w + 2]) = IF Certified(w)
                            THEN OuterApply(Outer(lineage[w + 1]), PayloadsOf(Certificate(w)))
                            ELSE Outer(lineage[w + 1])

IsFrame(f) == f = FrameOf(Bytes(f))

IsEntry(e) ==
    /\ e = [params |-> e.params, momentum |-> e.momentum, cert |-> e.cert, mirror |-> e.mirror]
    /\ IsWhole(e.params)

LineageInv ==
    /\ \A i \in 1 .. Len(lineage) : IsEntry(lineage[i])
    /\ \A w \in 0 .. HeadWindow - 1 : Follows(w)
    /\ bucket # NoFrame => IsFrame(bucket)
    /\ pc = "built" => IsFrame(frame)

\* The agreed parameters of a window, on the ranks.
Agreed(w) == [r \in Ranks |-> LocalOf(lineage[w + 1].params, r)]

\* A void window has no certificate.
VoidsUncertified == \A w \in 0 .. HeadWindow - 1 : IsVoid(posted, w) => ~Certified(w)

\* A miner stands where the lineage is for its window, unless it is training,
\* and then it can go back there.
Stands ==
    (role = "miner" /\ pc # "stopped") =>
        /\ momentum = lineage[window + 1].momentum
        /\ pc # "training" => model = Agreed(window)
        /\ InWindow => start = Agreed(window)

SlicesAreTrue ==
    slices # NoSlices => /\ slices.window \in 0 .. HeadWindow - 1
                         /\ slices.heads = Heads(lineage[slices.window + 2].params)

ReplicaInv == VoidsUncertified /\ Stands /\ SlicesAreTrue

\* What the inner steps of a window have counted so far.
TokenCount(phase, tokens, w) ==
    LET t[s \in 0 .. phase.steps] ==
          IF s = 0 THEN tokens ELSE t[s - 1] + StepTokens(phase, t[s - 1], w)
    IN  t

\* The counters of a window are the consensus' at its start, and while it is
\* trained, what the steps taken have added to them.
Carried == (role = "miner" /\ pc # "stopped") => run = RunStateAt(mine, window, protocol)

CountedSoFar ==
    InWindow =>
        LET phase == ResolvePhase(mine, window)
        IN  /\ progress.step \in 0 .. phase.steps
            /\ progress.stage \in {"micro", "reduce", "bucket"} => progress.step < phase.steps
            /\ (progress.stage = "done" \/ pc # "training") => progress.step = phase.steps
            /\ progress.stage # "rest"
            /\ progress.tokens = TokenCount(phase, run.tokens, protocol)[progress.step]

Counting == Carried /\ CountedSoFar
(* Of the numbers that break a rule, one is the least.                       *)
LEMMA LeastNatural ==
  ASSUME NEW S, S \subseteq Nat, S # {}
  PROVE  \E m \in S : \A x \in S : m <= x
  <1> DEFINE Less == {p \in Nat \X Nat : p[1] < p[2]}
  <1>1. IsWellFoundedOn(Less, Nat)
    BY NatLessThanWellFounded DEF OpToRel
  <1> HIDE DEF Less
  <1>2. PICK m \in S : \A y \in S : <<y, m>> \notin Less
    BY <1>1, WFMin
  <1>3. \A x \in S : m \in Nat /\ x \in Nat /\ ~(x < m)
    BY <1>2 DEF Less
  <1> QED
    BY <1>3

LEMMA EvaluatedIs == ASSUME NEW x PROVE Evaluated(x) = x
  BY DEF Evaluated

-----------------------------------------------------------------------------
(***************************************************************************)
(* Recursion over a range of integers.  Every recursive function of the    *)
(* model takes its value at i from the one at i - 1, by a step within a    *)
(* set: such a function exists, and there is only one.                     *)
(***************************************************************************)
Steps(step, lo, hi, X) == \A i \in lo + 1 .. hi : \A x \in X : step[<<i, x>>] \in X

\* f takes these steps; and g does, as long as it stays in X.
Computes(f, lo, hi, base, step) ==
    f[lo] = base /\ \A i \in lo + 1 .. hi : f[i] = step[<<i, f[i - 1]>>]

ComputesIn(g, lo, hi, X, base, step) ==
    g[lo] = base /\ \A i \in lo + 1 .. hi : g[i - 1] \in X => g[i] = step[<<i, g[i - 1]>>]

LEMMA RecursionUnique ==
  ASSUME NEW lo \in Int, NEW hi \in Int, NEW X, NEW base \in X,
         NEW step, NEW f \in [lo .. hi -> X], NEW g, lo <= hi,
         Computes(f, lo, hi, base, step), ComputesIn(g, lo, hi, X, base, step)
  PROVE  \A i \in lo .. hi : g[i] = f[i]
  <1> USE DEF Computes, ComputesIn
  <1> DEFINE Off == {k \in Nat : lo + k <= hi /\ g[lo + k] # f[lo + k]}
  <1> SUFFICES ASSUME Off # {} PROVE FALSE
    <2>1. ASSUME Off = {}, NEW i \in lo .. hi PROVE g[i] = f[i]
      <3>1. i - lo \in Nat /\ lo + (i - lo) = i /\ i <= hi
        OBVIOUS
      <3> QED
        BY <2>1, <3>1
    <2> QED
      BY <2>1
  <1>1. PICK k \in Off : \A x \in Off : k <= x
    <2>1. Off \subseteq Nat
      OBVIOUS
    <2> HIDE DEF Off
    <2> QED
      BY <2>1, LeastNatural
  <1>2. k \in Nat /\ lo + k <= hi /\ g[lo + k] # f[lo + k]
    OBVIOUS
  <1>3. k # 0
    BY <1>2
  <1>4. k - 1 \in Nat /\ k - 1 \notin Off
    <2>1. k - 1 \in Nat /\ ~(k <= k - 1)
      BY <1>2, <1>3
    <2> HIDE DEF Off
    <2> QED
      BY <1>1, <2>1
  <1>5. lo + k \in lo + 1 .. hi /\ (lo + k) - 1 = lo + (k - 1) /\ lo + (k - 1) \in lo .. hi
    BY <1>2, <1>3
  <1>6. g[lo + (k - 1)] = f[lo + (k - 1)]
    BY <1>4, <1>5
  <1> QED
    BY <1>2, <1>5, <1>6

LEMMA RecursionExists ==
  ASSUME NEW lo \in Int, NEW hi \in Int, NEW X, NEW base \in X,
         NEW step, lo <= hi, Steps(step, lo, hi, X)
  PROVE  \E f \in [lo .. hi -> X] : Computes(f, lo, hi, base, step)
  <1> USE DEF Steps, Computes
  <1> DEFINE Upto(n) == \E f \in [lo .. n -> X] :
                           f[lo] = base /\ \A i \in lo + 1 .. n : f[i] = step[<<i, f[i - 1]>>]
             Off == {k \in Nat : lo + k <= hi /\ ~Upto(lo + k)}
  <1>1. Upto(lo)
    <2>1. [x \in lo .. lo |-> base] \in [lo .. lo -> X]
      OBVIOUS
    <2>2. [x \in lo .. lo |-> base][lo] = base /\ lo + 1 .. lo = {}
      OBVIOUS
    <2> QED
      BY <2>1, <2>2
  <1>2. ASSUME NEW n \in Int, lo <= n, n + 1 <= hi, Upto(n) PROVE Upto(n + 1)
    <2>1. PICK f \in [lo .. n -> X] :
             f[lo] = base /\ \A i \in lo + 1 .. n : f[i] = step[<<i, f[i - 1]>>]
      BY <1>2
    <2> DEFINE h == [i \in lo .. n + 1 |-> IF i = n + 1 THEN step[<<n + 1, f[n]>>] ELSE f[i]]
    <2>2. n + 1 \in lo + 1 .. hi /\ n \in lo .. n /\ f[n] \in X
      BY <1>2, <2>1
    <2>3. step[<<n + 1, f[n]>>] \in X
      BY <2>2
    <2>4. h \in [lo .. n + 1 -> X]
      <3>1. \A i \in lo .. n + 1 : i = n + 1 \/ i \in lo .. n
        BY <1>2
      <3> QED
        BY <2>3, <3>1
    <2>5. h[lo] = base
      BY <1>2, <2>1
    <2>6. ASSUME NEW i \in lo + 1 .. n + 1 PROVE h[i] = step[<<i, h[i - 1]>>]
      <3>1. i - 1 \in lo .. n /\ i \in lo .. n + 1 /\ i - 1 # n + 1
        BY <1>2
      <3>2. h[i - 1] = f[i - 1]
        BY <3>1
      <3>3. CASE i = n + 1
        <4>1. h[i] = step[<<n + 1, f[n]>>] /\ i - 1 = n
          BY <3>1, <3>3
        <4> HIDE DEF h
        <4> QED
          BY <3>2, <3>3, <4>1
      <3>4. CASE i # n + 1
        <4>1. i \in lo + 1 .. n /\ h[i] = f[i]
          BY <3>1, <3>4, <1>2
        <4> QED
          BY <3>2, <4>1, <2>1
      <3> QED
        BY <3>3, <3>4
    <2> HIDE DEF h
    <2> QED
      BY <2>4, <2>5, <2>6
  <1> SUFFICES ASSUME Off # {} PROVE FALSE
    <2>1. hi - lo \in Nat /\ lo + (hi - lo) = hi
      OBVIOUS
    <2> HIDE DEF Upto
    <2>2. ASSUME Off = {} PROVE Upto(hi)
      <3>1. hi - lo \notin Off
        BY <2>2
      <3> QED
        BY <2>1, <3>1
    <2> QED
      BY <2>2 DEF Upto
  <1> HIDE DEF Upto
  <1>3. PICK k \in Off : \A x \in Off : k <= x
    <2>1. Off \subseteq Nat
      OBVIOUS
    <2> HIDE DEF Off
    <2> QED
      BY <2>1, LeastNatural
  <1>4. k \in Nat /\ lo + k <= hi /\ ~Upto(lo + k)
    OBVIOUS
  <1>5. k # 0
    BY <1>1, <1>4
  <1>6. k - 1 \in Nat /\ k - 1 \notin Off
    <2>1. k - 1 \in Nat /\ ~(k <= k - 1)
      BY <1>4, <1>5
    <2> HIDE DEF Off
    <2> QED
      BY <1>3, <2>1
  <1>7. /\ lo + (k - 1) \in Int /\ lo <= lo + (k - 1) /\ (lo + (k - 1)) + 1 = lo + k
        /\ lo + (k - 1) <= hi
    BY <1>4, <1>5
  <1>8. Upto(lo + (k - 1))
    BY <1>6, <1>7
  <1> QED
    BY <1>2, <1>4, <1>7, <1>8
-----------------------------------------------------------------------------
(***************************************************************************)
(* Sequences and numbers.                                                  *)
(***************************************************************************)
LEMMA SeqIs ==
  ASSUME NEW S, NEW s, NEW n \in Nat, s = [i \in 1 .. n |-> s[i]], \A i \in 1 .. n : s[i] \in S
  PROVE  s \in Seq(S) /\ Len(s) = n
  <1>1. s \in [1 .. n -> S]
    OBVIOUS
  <1> QED
    BY <1>1, SeqDef, LenProperties

LEMMA CountUpTo == ASSUME NEW n \in Int PROVE Cardinality(0 .. n - 1) \in Nat
  BY FS_Interval

LEMMA MaxIsIn ==
  ASSUME NEW n \in Nat, NEW S, S \subseteq 1 .. n, S # {}
  PROVE  Max(S) \in S
  <1> DEFINE Under == {k \in Nat : n - k \in S}
  <1>1. Under # {}
    <2>1. PICK x \in S : TRUE
      OBVIOUS
    <2>2. n - x \in Nat /\ n - (n - x) = x
      BY <2>1
    <2> QED
      BY <2>1, <2>2
  <1>2. PICK k \in Under : \A x \in Under : k <= x
    <2>1. Under \subseteq Nat
      OBVIOUS
    <2> HIDE DEF Under
    <2> QED
      BY <1>1, <2>1, LeastNatural
  <1>3. n - k \in S /\ k \in Nat
    OBVIOUS
  <1>4. ASSUME NEW y \in S PROVE n - k >= y
    <2>1. n - y \in Nat /\ n - (n - y) = y
      BY <1>4
    <2>2. n - y \in Under
      BY <1>4, <2>1
    <2>3. k <= n - y
      BY <1>2, <2>2
    <2> QED
      BY <1>3, <1>4, <2>1, <2>3
  <1>5. \E x \in S : \A y \in S : x >= y
    BY <1>3, <1>4
  <1> QED
    BY <1>5 DEF Max

LEMMA MaxOfTwo == ASSUME NEW a \in Int, NEW b \in Int PROVE Max({a, b}) \in {a, b} /\ Max({a, b}) >= a
  <1>1. \E x \in {a, b} : \A y \in {a, b} : x >= y
    <2>1. CASE a >= b
      BY <2>1
    <2>2. CASE b >= a
      BY <2>2
    <2> QED
      BY <2>1, <2>2
  <1>2. Max({a, b}) \in {a, b} /\ \A y \in {a, b} : Max({a, b}) >= y
    BY <1>1 DEF Max
  <1> QED
    BY <1>2

LEMMA MinOfTwo == ASSUME NEW a \in Int, NEW b \in Int PROVE Min({a, b}) \in {a, b}
  <1>1. \E x \in {a, b} : \A y \in {a, b} : x <= y
    <2>1. CASE a <= b
      BY <2>1
    <2>2. CASE b <= a
      BY <2>2
    <2> QED
      BY <2>1, <2>2
  <1> QED
    BY <1>1 DEF Min

LEMMA ProductIsNatural ==
  ASSUME NEW s \in Seq(Nat)
  PROVE  Product(s) \in Nat
  <1> DEFINE N == Len(s)
             Body(g) == [i \in 0 .. N |-> IF i = 0 THEN 1 ELSE g[i - 1] * s[i]]
             p == CHOOSE g : g = Body(g)
             step == [a \in (1 .. N) \X Nat |-> a[2] * s[a[1]]]
  <1>1. Product(s) = p[N]
    BY DEF Product
  <1>2. N \in Nat /\ N \in Int /\ 0 \in Int /\ 0 <= N /\ 0 + 1 = 1 /\ 1 \in Nat /\ \A i \in 1 .. N : s[i] \in Nat
    OBVIOUS
  <1>3. \A i \in 1 .. N : \A x \in Nat : step[<<i, x>>] = x * s[i]
    OBVIOUS
  <1> HIDE DEF step, N
  <1>4. Steps(step, 0, N, Nat)
    <2>1. \A x, y \in Nat : x * y \in Nat
      OBVIOUS
    <2>2. \A i \in 1 .. N : \A x \in Nat : step[<<i, x>>] \in Nat
      BY <1>2, <1>3, <2>1
    <2> QED
      BY <1>2, <2>2 DEF Steps
  <1>5. PICK f \in [0 .. N -> Nat] : Computes(f, 0, N, 1, step)
    BY <1>2, <1>4, RecursionExists
  <1>6. f[0] = 1 /\ \A i \in 1 .. N : f[i - 1] \in Nat /\ f[i] = f[i - 1] * s[i]
    <2>1. \A i \in 1 .. N : i - 1 \in 0 .. N
      BY <1>2
    <2> QED
      BY <1>2, <1>3, <1>5, <2>1 DEF Computes
  <1>7. f = Body(f)
    <2>1. \A i \in 0 .. N : i # 0 => i \in 1 .. N
      BY <1>2
    <2> QED
      BY <1>6, <2>1
  <1>8. p = Body(p)
    BY <1>7
  <1> HIDE DEF p
  <1>9. p[0] = 1 /\ \A i \in 1 .. N : p[i] = p[i - 1] * s[i]
    <2>1. 0 \in 0 .. N /\ \A i \in 1 .. N : i \in 0 .. N /\ i # 0
      BY <1>2
    <2> QED
      BY <1>8, <2>1
  <1>10. ComputesIn(p, 0, N, Nat, 1, step)
    BY <1>2, <1>3, <1>9 DEF ComputesIn
  <1>11. \A i \in 0 .. N : p[i] = f[i]
    BY ONLY <1>2, <1>5, <1>10, RecursionUnique, f \in [0 .. N -> Nat]
  <1> QED
    BY <1>1, <1>2, <1>11

LEMMA ChunksAreCounted ==
  ASSUME NEW n \in Names
  PROVE  Product(Shapes[n]) \in Nat /\ Geometry(Shapes[n]).chunks \in Int
  <1> DEFINE s == Shapes[n]  cols == s[Len(s)]  p == Product(s)
  <1>1. s \in Seq(Nat \ {0}) /\ s # <<>>
    BY InnerLoopAssumption
  <1>2. p \in Nat
    <2>1. s \in Seq(Nat)
      BY <1>1
    <2> QED
      BY <2>1, ProductIsNatural
  <1>3. cols \in Nat \ {0}
    BY <1>1
  <1>4. TargetChunk \in Nat \ {0}
    BY CompressionAssumption
  <1> HIDE DEF s, cols, p
  <1>5. ASSUME NEW a \in Int, NEW b \in Nat \ {0} PROVE Blocks(a, b) \in Int
    BY DEF Blocks
  <1>6. p \div cols \in Int /\ TargetChunk * TargetChunk \in Nat
    BY <1>2, <1>3, <1>4
  <1>7. TargetChunk * TargetChunk # 0
    BY <1>4, SMTT(30)
  <1>8. Blocks(p \div cols, TargetChunk) \in Int /\ Blocks(cols, TargetChunk) \in Int
    BY <1>3, <1>4, <1>5, <1>6
  <1>9. Blocks(p, TargetChunk * TargetChunk) \in Int
    BY <1>2, <1>5, <1>6, <1>7
  <1>10. Blocks(p \div cols, TargetChunk) * Blocks(cols, TargetChunk) \in Int
    BY <1>8
  <1>11. Geometry(s).chunks \in {Blocks(p \div cols, TargetChunk) * Blocks(cols, TargetChunk),
                                 Blocks(p, TargetChunk * TargetChunk)}
    BY DEF Geometry, p, cols
  <1> QED
    BY <1>2, <1>9, <1>10, <1>11 DEF s, p
\* Concat of sequences is a sequence.
LEMMA ConcatIsSeq ==
  ASSUME NEW V, NEW ss \in Seq(Seq(V))
  PROVE  Concat(ss) \in Seq(V)
  <1> DEFINE N == Len(ss)
             Q == Seq(V)
             Body(g) == [i \in 0 .. N |-> IF i = 0 THEN <<>> ELSE g[i - 1] \o ss[i]]
             c == CHOOSE g : g = Body(g)
             step == [a \in (1 .. N) \X Q |-> a[2] \o ss[a[1]]]
  <1>1. Concat(ss) = c[N]
    BY DEF Concat
  <1>2. N \in Nat /\ N \in Int /\ 0 \in Int /\ 0 <= N /\ 0 + 1 = 1 /\ <<>> \in Q
    OBVIOUS
  <1>3. \A i \in 1 .. N : \A x \in Q : step[<<i, x>>] = x \o ss[i]
    OBVIOUS
  <1>4. \A i \in 1 .. N : ss[i] \in Q
    OBVIOUS
  <1>5. \A x, y \in Q : x \o y \in Q
    OBVIOUS
  <1> HIDE DEF step, N, Q
  <1>6. Steps(step, 0, N, Q)
    <2>1. \A i \in 1 .. N : \A x \in Q : step[<<i, x>>] \in Q
      BY <1>3, <1>4, <1>5
    <2> QED
      BY <1>2, <2>1 DEF Steps
  <1>7. PICK f \in [0 .. N -> Q] : Computes(f, 0, N, <<>>, step)
    BY <1>2, <1>6, RecursionExists
  <1>8. f[0] = <<>> /\ \A i \in 1 .. N : f[i - 1] \in Q /\ f[i] = f[i - 1] \o ss[i]
    <2>1. \A i \in 1 .. N : i - 1 \in 0 .. N
      BY <1>2
    <2> QED
      BY <1>2, <1>3, <1>7, <2>1 DEF Computes
  <1>9. f = Body(f)
    <2>1. \A i \in 0 .. N : i # 0 => i \in 1 .. N
      BY <1>2
    <2> QED
      BY <1>8, <2>1, Zenon
  <1>10. c = Body(c)
    BY <1>9, Zenon
  <1> HIDE DEF c
  <1>11. c[0] = <<>> /\ \A i \in 1 .. N : c[i] = c[i - 1] \o ss[i]
    <2>1. 0 \in 0 .. N /\ \A i \in 1 .. N : i \in 0 .. N /\ i # 0
      BY <1>2
    <2> QED
      BY <1>10, <2>1
  <1>12. ComputesIn(c, 0, N, Q, <<>>, step)
    BY <1>2, <1>3, <1>11 DEF ComputesIn
  <1>13. \A i \in 0 .. N : c[i] = f[i]
    BY ONLY <1>2, <1>7, <1>12, RecursionUnique, f \in [0 .. N -> Q]
  <1>14. c[N] \in Q
    BY <1>2, <1>7, <1>13
  <1> QED
    BY <1>1, <1>14 DEF Q

\* Sorted(S) lists the names of S, every one of them.
LEMMA SortedLists ==
  ASSUME NEW S
  PROVE  /\ Sorted(S) \in Seq(S)
         /\ \A n \in S \cap Listed(NameOrder) : \E i \in 1 .. Len(Sorted(S)) : Sorted(S)[i] = n
  <1> DEFINE N == Len(NameOrder)
             Q == Seq(S)
             Next1(i, x) == IF NameOrder[i] \in S THEN Append(x, NameOrder[i]) ELSE x
             Body(g) == [i \in 0 .. N |->
                IF i = 0 THEN <<>>
                ELSE IF NameOrder[i] \in S THEN Append(g[i - 1], NameOrder[i]) ELSE g[i - 1]]
             c == CHOOSE g : g = Body(g)
             step == [a \in (1 .. N) \X Q |-> Next1(a[1], a[2])]
  <1>1. Sorted(S) = c[N]
    BY DEF Sorted
  <1>2. N \in Nat /\ N \in Int /\ 0 \in Int /\ 0 <= N /\ 0 + 1 = 1 /\ <<>> \in Q
    BY PayloadAssumption
  <1>3. \A i \in 1 .. N : \A x \in Q : step[<<i, x>>] = Next1(i, x)
    OBVIOUS
  <1>4. \A i : \A x \in Q : Next1(i, x) \in Q
    OBVIOUS
  <1> HIDE DEF step, N, Q, Next1
  <1>5. Steps(step, 0, N, Q)
    BY <1>2, <1>3, <1>4 DEF Steps
  <1>6. PICK f \in [0 .. N -> Q] : Computes(f, 0, N, <<>>, step)
    BY <1>2, <1>5, RecursionExists
  <1>7. f[0] = <<>> /\ \A i \in 1 .. N : f[i - 1] \in Q /\ f[i] = Next1(i, f[i - 1])
    <2>1. \A i \in 1 .. N : i - 1 \in 0 .. N
      BY <1>2
    <2> QED
      BY <1>2, <1>3, <1>6, <2>1 DEF Computes
  <1>8. f = Body(f)
    <2>1. \A i \in 0 .. N : i # 0 => i \in 1 .. N
      BY <1>2
    <2> QED
      BY <1>7, <2>1, Zenon DEF Next1
  <1>9. c = Body(c)
    BY <1>8, Zenon
  <1> HIDE DEF c
  <1>10. c[0] = <<>> /\ \A i \in 1 .. N : c[i] = Next1(i, c[i - 1])
    <2>1. 0 \in 0 .. N /\ \A i \in 1 .. N : i \in 0 .. N /\ i # 0
      BY <1>2
    <2> QED
      BY <1>9, <2>1 DEF Next1
  <1>11. ComputesIn(c, 0, N, Q, <<>>, step)
    BY <1>2, <1>3, <1>10 DEF ComputesIn
  <1>12. \A i \in 0 .. N : c[i] = f[i]
    BY ONLY <1>2, <1>6, <1>11, RecursionUnique, f \in [0 .. N -> Q]
  <1>13. \A i \in 0 .. N : c[i] \in Q
    BY <1>6, <1>12
  <1> DEFINE Has(i, n) == \E j \in 1 .. Len(c[i]) : c[i][j] = n
             Lost == {i \in Nat : i <= N /\ \E k \in 1 .. i : NameOrder[k] \in S /\ ~Has(i, NameOrder[k])}
  <1>14. ASSUME NEW i \in 1 .. N PROVE
            /\ NameOrder[i] \in S => Has(i, NameOrder[i])
            /\ \A n : Has(i - 1, n) => Has(i, n)
    <2>1. i - 1 \in 0 .. N /\ c[i - 1] \in Seq(S) /\ c[i] = Next1(i, c[i - 1])
      BY <1>2, <1>10, <1>13 DEF Q
    <2>2. CASE NameOrder[i] \in S
      <3>1. c[i] = Append(c[i - 1], NameOrder[i])
        BY <2>1, <2>2 DEF Next1
      <3>2. /\ Len(c[i]) = Len(c[i - 1]) + 1 /\ Len(c[i - 1]) \in Nat
            /\ c[i][Len(c[i - 1]) + 1] = NameOrder[i]
            /\ \A j \in 1 .. Len(c[i - 1]) : c[i][j] = c[i - 1][j]
        BY <2>1, <2>2, <3>1
      <3> QED
        BY <3>2
    <2>3. CASE NameOrder[i] \notin S
      BY <2>1, <2>3 DEF Next1
    <2> QED
      BY <2>2, <2>3
  <1>15. Lost = {}
    <2> SUFFICES ASSUME Lost # {} PROVE FALSE
      OBVIOUS
    <2>1. Lost \subseteq Nat
      OBVIOUS
    <2>2. PICK m \in Lost : \A x \in Lost : m <= x
      <3> HIDE DEF Lost
      <3> QED
        BY <2>1, LeastNatural
    <2>3. m \in Nat /\ m <= N
      OBVIOUS
    <2>4. PICK k \in 1 .. m : NameOrder[k] \in S /\ ~Has(m, NameOrder[k])
      OBVIOUS
    <2> HIDE DEF Has
    <2>5. m \in 1 .. N
      BY <2>3, <2>4
    <2>6. k # m
      BY <1>14, <2>4, <2>5
    <2>7. k \in 1 .. m - 1 /\ m - 1 \in Nat /\ m - 1 <= N /\ ~(m <= m - 1)
      BY <1>2, <2>4, <2>5, <2>6
    <2>8. ~Has(m - 1, NameOrder[k])
      BY <1>14, <2>4, <2>5
    <2>9. m - 1 \in Lost
      BY <2>4, <2>7, <2>8
    <2> HIDE DEF Lost
    <2> QED
      BY <2>2, <2>7, <2>9
  <1>16. ASSUME NEW n \in S \cap Listed(NameOrder) PROVE Has(N, n)
    <2>1. PICK k \in 1 .. N : NameOrder[k] = n
      BY <1>16 DEF Listed, N
    <2>2. N \notin Lost
      BY <1>15
    <2> HIDE DEF Has
    <2> QED
      BY <1>2, <1>16, <2>1, <2>2
  <1> QED
    BY <1>1, <1>2, <1>13, <1>16 DEF Q

LEMMA OwnersAreRanks ==
  ASSUME NEW n \in Shared, world \in Nat \ {0}
  PROVE  Owner(n) \in Ranks
  <1>1. n \in Listed(NameOrder)
    BY InnerLoopAssumption DEF Shared, ParamNames
  <1>2. \E i \in 1 .. Len(Sorted(Shared)) : Sorted(Shared)[i] = n
    BY <1>1, SortedLists
  <1> DEFINE k == CHOOSE i \in 1 .. Len(Sorted(Shared)) : Sorted(Shared)[i] = n
  <1>3. k \in 1 .. Len(Sorted(Shared)) /\ Len(Sorted(Shared)) \in Nat
    BY <1>2, SortedLists
  <1>4. Owner(n) = (k - 1) % world
    BY DEF Owner
  <1> HIDE DEF k
  <1>5. k - 1 \in Int
    BY <1>3
  <1> QED
    BY <1>4, <1>5 DEF Ranks

-----------------------------------------------------------------------------
(***************************************************************************)
(* Frames: what Serialize makes is read back from its bytes.               *)
(***************************************************************************)
LEMMA ListIsSeq ==
  ASSUME NEW s, IsList(s)
  PROVE  s \in Seq(Listed(s))
  <1>1. \A i \in 1 .. Len(s) : s[i] \in Listed(s)
    BY DEF Listed
  <1> QED
    BY <1>1, SeqIs DEF IsList

LEMMA SeqIsList ==
  ASSUME NEW V, NEW s \in Seq(V)
  PROVE  IsList(s)
  BY DEF IsList

LEMMA FunctionIsList ==
  ASSUME NEW n \in Nat, NEW s, s = [i \in 1 .. n |-> s[i]]
  PROVE  IsList(s) /\ Len(s) = n
  <1>1. s \in Seq({s[i] : i \in 1 .. n}) /\ Len(s) = n
    BY SeqIs
  <1> QED
    BY <1>1 DEF IsList

LEMMA ConcatOfLists ==
  ASSUME NEW n \in Nat, NEW ss, ss = [i \in 1 .. n |-> ss[i]], \A i \in 1 .. n : IsList(ss[i])
  PROVE  IsList(Concat(ss))
  <1> DEFINE V == UNION {Listed(ss[i]) : i \in 1 .. n}
  <1>1. ASSUME NEW i \in 1 .. n PROVE ss[i] \in Seq(V)
    <2>1. ss[i] \in Seq(Listed(ss[i]))
      BY ListIsSeq
    <2>2. Listed(ss[i]) \subseteq V
      OBVIOUS
    <2> HIDE DEF V
    <2>3. \A j \in 1 .. Len(ss[i]) : ss[i][j] \in V
      BY <2>1, <2>2
    <2>4. IsList(ss[i])
      OBVIOUS
    <2> QED
      BY <2>3, <2>4, SeqIs DEF IsList
  <1> HIDE DEF V
  <1>2. ss \in Seq(Seq(V))
    BY <1>1, SeqIs
  <1> QED
    BY <1>2, ConcatIsSeq, SeqIsList

LEMMA JoinOfLists ==
  ASSUME NEW a, NEW b, IsList(a), IsList(b)
  PROVE  IsList(a \o b)
  <1> DEFINE V == Listed(a) \cup Listed(b)
  <1>1. a \in Seq(V) /\ b \in Seq(V)
    <2>1. (\A i \in 1 .. Len(a) : a[i] \in V) /\ (\A i \in 1 .. Len(b) : b[i] \in V)
      BY DEF Listed
    <2> HIDE DEF V
    <2> QED
      BY <2>1, SeqIs DEF IsList
  <1> HIDE DEF V
  <1>2. a \o b \in Seq(V)
    BY <1>1
  <1> QED
    BY <1>2, SeqIsList

LEMMA FrameReadsBack ==
  ASSUME NEW f, f = [version |-> f.version, header |-> f.header, body |-> f.body],
         IsList(f.body)
  PROVE  IsFrame(f)
  <1> DEFINE h == [version |-> f.version, header |-> f.header]
             V == Listed(f.body) \cup {h}
             b == Bytes(f)
  <1>1. f.body \in Seq(V)
    <2>1. \A i \in 1 .. Len(f.body) : f.body[i] \in V
      BY DEF Listed
    <2> HIDE DEF V
    <2> QED
      BY <2>1, SeqIs DEF IsList
  <1>2. <<h>> \in Seq(V)
    OBVIOUS
  <1>3. b = <<h>> \o f.body
    BY DEF Bytes
  <1>4. h.version = f.version /\ h.header = f.header
    OBVIOUS
  <1> HIDE DEF h, V, b
  <1>5. b \in Seq(V) /\ b # <<>> /\ b[1] = h /\ Len(b) = Len(f.body) + 1
    BY <1>1, <1>2, <1>3
  <1>6. Tail(b) = f.body
    <2>1. Tail(b) \in Seq(V) /\ Len(Tail(b)) = Len(f.body)
      BY <1>1, <1>5
    <2>2. \A i \in 1 .. Len(f.body) : Tail(b)[i] = f.body[i]
      BY <1>1, <1>2, <1>3, <1>5
    <2> QED
      BY <1>1, <2>1, <2>2, SeqEqual
  <1>7. FrameOf(b) = [version |-> f.version, header |-> f.header, body |-> f.body]
    BY <1>4, <1>5, <1>6 DEF FrameOf
  <1> QED
    BY <1>7 DEF IsFrame, b

\* Both blobs of a compressed tensor are sequences of bytes.
LEMMA BlobsAreLists ==
  ASSUME NEW n \in Names, NEW tensor, NEW tie
  PROVE  /\ IsList(Compress(Shapes[n], tensor, tie).idxs)
         /\ IsList(Compress(Shapes[n], tensor, tie).codes)
  <1> DEFINE g == Geometry(Shapes[n])
             k == EffectiveTopK(g)
             chunked == Encode(g, tensor)
             idx == Kept(chunked, k, tie)
             vals == [j \in DOMAIN idx |-> chunked[(j - 1) \div k][idx[j]]]
             ct == Compress(Shapes[n], tensor, tie)
             K == Cardinality(DOMAIN chunked) * k
  <1>1. ct.idxs = Pack12(idx) /\ ct.codes = Pack2(Quantize(vals).codes)
    BY EvaluatedIs DEF Compress, CompressChunks, CompressKept, Wire
  <1>2. DOMAIN chunked = 0 .. g.chunks - 1
    BY DEF Encode
  <1>3. idx = [j \in 1 .. K |-> idx[j]]
    BY DEF Kept
  <1>4. \E centered, scale : Quantize(vals).codes = Codes(centered, scale)
                             /\ DOMAIN centered = DOMAIN vals
    <2> DEFINE shift == Total(vals) \div Len(vals)
               centered == [i \in DOMAIN vals |-> vals[i] - shift]
    <2>1. Quantize(vals).codes = Codes(centered, Scale(centered))
      BY EvaluatedIs DEF Quantize, QuantizeAround, Quantized
    <2>2. DOMAIN centered = DOMAIN vals
      OBVIOUS
    <2> HIDE DEF centered
    <2> QED
      BY <2>1, <2>2
  <1>5. DOMAIN vals = DOMAIN idx
    OBVIOUS
  <1>6. g.elems = TargetChunk * TargetChunk
    BY DEF Geometry
  <1> HIDE DEF vals, idx, chunked, ct, g
  <1>7. k \in Nat
    BY <1>6, CompressionAssumption DEF EffectiveTopK
  <1>8. g.chunks \in Int
    BY ChunksAreCounted DEF g
  <1>9. Cardinality(DOMAIN chunked) \in Nat
    BY <1>2, <1>8, CountUpTo
  <1> HIDE DEF k
  <1>10. K \in Nat
    BY <1>7, <1>9
  <1> HIDE DEF K
  <1>11. Len(idx) = K
    BY <1>3, <1>10, FunctionIsList
  <1>12. PICK centered, scale : Quantize(vals).codes = Codes(centered, scale)
                                /\ DOMAIN centered = DOMAIN vals
    BY <1>4
  <1> DEFINE codes == Quantize(vals).codes
  <1>13. codes = [i \in 1 .. K |-> codes[i]]
    <2>1. codes = [i \in 1 .. K |-> CodeOf(centered[i], scale)]
      BY <1>3, <1>5, <1>12 DEF Codes
    <2> QED
      BY <2>1
  <1> HIDE DEF codes
  <1>14. Len(codes) = K
    BY <1>10, <1>13, FunctionIsList
  <1>15. PackedBytes12(K) \in Nat /\ PackedBytes2(K) \in Nat
    BY <1>10 DEF PackedBytes12, PackedBytes2
  <1>16. Pack12(idx) = [b \in 1 .. PackedBytes12(K) |-> Pack12(idx)[b]]
    BY <1>11 DEF Pack12
  <1>17. Pack2(codes) = [b \in 1 .. PackedBytes2(K) |-> Pack2(codes)[b]]
    BY <1>14 DEF Pack2
  <1>18. IsList(Pack12(idx)) /\ IsList(Pack2(codes))
    BY <1>15, <1>16, <1>17, FunctionIsList
  <1> QED
    BY <1>1, <1>18 DEF codes, ct
LEMMA WholeDomains ==
  ASSUME NEW p, IsWhole(p)
  PROVE  /\ DOMAIN p = Names
         /\ \A n \in Names : /\ DOMAIN p[n] = 0 .. Product(Shapes[n]) - 1
                             /\ p[n] = [i \in 0 .. Product(Shapes[n]) - 1 |-> p[n][i]]
  BY DEF IsWhole

\* A payload made from whole parameters is a frame.
LEMMA PayloadsAreFrames ==
  ASSUME NEW uid, NEW w, NEW manifest, NEW counters, NEW from, NEW to, NEW residuals, NEW tie,
         IsWhole(from)
  PROVE  IsFrame(Serialize(PayloadOf(uid, w, manifest, counters, from, to, residuals, tie)))
  <1> DEFINE p == PayloadOf(uid, w, manifest, counters, from, to, residuals, tie)
             comp == Sorted(DOMAIN p.compressed)
             dense == Sorted(DOMAIN p.dense)
             blobs == [i \in 1 .. Len(comp) |->
                         p.compressed[comp[i]].idxs \o p.compressed[comp[i]].codes]
             values == [i \in 1 .. Len(dense) |-> Values(p.dense[dense[i]].value)]
  <1>1. DOMAIN p.compressed = CompNames /\ DOMAIN p.dense = BiasNames
    BY DEF PayloadOf
  <1>2. ASSUME NEW n \in CompNames
        PROVE  IsList(p.compressed[n].idxs) /\ IsList(p.compressed[n].codes)
    <2>1. n \in Names
      BY DEF CompNames
    <2>2. p.compressed[n] =
            Compress(Shapes[n], Evaluated(Feedback(residuals[n], TensorMinus(from[n], to[n]))), tie)
      BY DEF PayloadOf
    <2> QED
      BY <2>1, <2>2, BlobsAreLists
  <1>3. ASSUME NEW n \in BiasNames PROVE IsList(Values(p.dense[n].value))
    <2>1. n \in Names
      BY InnerLoopAssumption
    <2>2. p.dense[n].value = TensorMinus(from[n], to[n])
      BY DEF PayloadOf
    <2>3. DOMAIN TensorMinus(from[n], to[n]) = 0 .. Product(Shapes[n]) - 1
      BY <2>1, WholeDomains DEF TensorMinus
    <2>4. Cardinality(DOMAIN p.dense[n].value) \in Nat
      <3>1. Product(Shapes[n]) \in Int
        BY <2>1, ChunksAreCounted
      <3> QED
        BY <2>2, <2>3, <3>1, CountUpTo
    <2> DEFINE v == p.dense[n].value
    <2>5. Values(v) = [i \in 1 .. Cardinality(DOMAIN v) |-> Values(v)[i]]
      BY DEF Values
    <2> HIDE DEF v
    <2> QED
      BY <2>4, <2>5, FunctionIsList DEF v
  <1>4. comp \in Seq(CompNames) /\ dense \in Seq(BiasNames)
    BY <1>1, SortedLists
  <1>5. Serialize(p).body = Concat(blobs) \o Concat(values)
    BY Zenon DEF Serialize
  <1>6. Serialize(p) = [version |-> Serialize(p).version, header |-> Serialize(p).header,
                        body |-> Serialize(p).body]
    BY DEF Serialize
  <1> HIDE DEF p, comp, dense
  <1>7. Len(comp) \in Nat /\ Len(dense) \in Nat
    BY <1>4
  <1>8. \A i \in 1 .. Len(comp) : IsList(blobs[i])
    <2>1. \A i \in 1 .. Len(comp) : comp[i] \in CompNames
      BY <1>4
    <2>2. ASSUME NEW i \in 1 .. Len(comp)
          PROVE  IsList(p.compressed[comp[i]].idxs \o p.compressed[comp[i]].codes)
      BY <1>2, <2>1, JoinOfLists
    <2> QED
      BY <2>2
  <1>9. \A i \in 1 .. Len(dense) : IsList(values[i])
    <2>1. \A i \in 1 .. Len(dense) : dense[i] \in BiasNames
      BY <1>4
    <2>2. ASSUME NEW i \in 1 .. Len(dense) PROVE IsList(Values(p.dense[dense[i]].value))
      BY <1>3, <2>1
    <2> QED
      BY <2>2
  <1>10. /\ blobs = [i \in 1 .. Len(comp) |-> blobs[i]]
         /\ values = [i \in 1 .. Len(dense) |-> values[i]]
    OBVIOUS
  <1> HIDE DEF blobs, values
  <1>11. IsList(Concat(blobs)) /\ IsList(Concat(values))
    BY <1>7, <1>8, <1>9, <1>10, ConcatOfLists
  <1>12. IsList(Serialize(p).body)
    BY <1>5, <1>11, JoinOfLists
  <1> QED
    BY <1>6, <1>12, FrameReadsBack DEF p

\* What is decoded depends on the header and the body alone.
LEMMA FramesMeanTheSame ==
  ASSUME NEW f, IsFrame(f)
  PROVE  Deserialize(FrameOf(Bytes(f))) = Deserialize(f)
  BY DEF IsFrame

-----------------------------------------------------------------------------
(***************************************************************************)
(* Shards and views.                                                       *)
(***************************************************************************)
LEMMA SizesAreNatural ==
  ASSUME NEW n \in Names
  PROVE  Product(Shapes[n]) \in Nat
  BY ChunksAreCounted

\* The ranks' slices put together are the whole they were cut from.
LEMMA ViewOfSlices ==
  ASSUME NEW p, IsWhole(p), world \in Nat \ {0}, NEW r \in Ranks,
         \A n \in ExpertNames : Product(Shapes[n]) % world = 0
  PROVE  View([q \in Ranks |-> LocalOf(p, q)], r) = p
  <1> DEFINE m == [q \in Ranks |-> LocalOf(p, q)]
             V(n) == IF n \in ExpertNames
                     THEN [i \in 0 .. Product(Shapes[n]) - 1 |->
                             m[i \div LocalSize(n)][n][i % LocalSize(n)]]
                     ELSE m[r][n]
  <1>1. ASSUME NEW n \in Names PROVE V(n) = p[n]
    <2>1. Product(Shapes[n]) \in Nat /\ p[n] = [i \in 0 .. Product(Shapes[n]) - 1 |-> p[n][i]]
      BY SizesAreNatural, WholeDomains
    <2>2. CASE n \notin ExpertNames
      <3>1. LocalSize(n) = Product(Shapes[n]) /\ Offset(n, r) = 0
        BY <2>2 DEF LocalSize, Offset
      <3>2. LocalOf(p, r)[n] = [i \in 0 .. LocalSize(n) - 1 |-> p[n][Offset(n, r) + i]]
        BY DEF LocalOf
      <3>3. LocalOf(p, r)[n] = [i \in 0 .. Product(Shapes[n]) - 1 |-> p[n][i]]
        BY <3>1, <3>2
      <3>4. V(n) = LocalOf(p, r)[n]
        BY <2>2
      <3> QED
        BY <2>1, <3>3, <3>4
    <2>3. CASE n \in ExpertNames
      <3> DEFINE N == Product(Shapes[n])  L == LocalSize(n)
      <3>1. L = N \div world /\ N % world = 0 /\ N \in Nat
        BY <2>1, <2>3 DEF LocalSize
      <3>2. \A q \in Ranks : Offset(n, q) = q * L
        BY <2>3 DEF Offset
      <3>3. \A q \in Ranks : m[q][n] = [i \in 0 .. L - 1 |-> p[n][Offset(n, q) + i]]
        BY DEF LocalOf
      <3>4. V(n) = [i \in 0 .. N - 1 |-> m[i \div L][n][i % L]]
        BY <2>3
      <3> HIDE DEF N, L, m, V
      <3>5. ASSUME NEW i \in 0 .. N - 1 PROVE m[i \div L][n][i % L] = p[n][i]
        <4>1. world \in Int /\ world > 0 /\ N = world * L /\ L \in Nat
          BY <3>1, SMTT(30)
        <4>2. L # 0
          BY <3>1, <3>5, <4>1, SMTT(30)
        <4>3. L \in Int /\ L > 0 /\ i \in Nat
          BY <3>1, <3>5, <4>1, <4>2
        <4>4. i = (i \div L) * L + (i % L) /\ i \div L \in Nat /\ i % L \in 0 .. L - 1
          BY <4>3, SMTT(30)
        <4>5. i \div L < world
          <5> DEFINE a == i \div L
          <5>1. a \in Nat /\ a * L <= i /\ i < world * L
            BY <3>1, <3>5, <4>1, <4>3, <4>4
          <5> HIDE DEF a
          <5>2. ASSUME a >= world PROVE FALSE
            <6>1. PICK d \in Nat : a = world + d
              <7>1. a - world \in Nat /\ a = world + (a - world)
                BY <4>1, <5>1, <5>2
              <7> QED
                BY <7>1
            <6>2. a * L = world * L + d * L /\ d * L \in Nat
              BY <4>1, <4>3, <6>1, SMTT(30)
            <6>3. world * L \in Nat
              BY <3>1, <4>1
            <6>4. a * L >= world * L
              BY <6>2, <6>3
            <6>5. a * L \in Nat
              BY <4>1, <5>1, SMTT(30)
            <6> QED
              BY <4>3, <5>1, <6>3, <6>4, <6>5
          <5> QED
            BY <4>1, <5>1, <5>2 DEF a
        <4>6. i \div L \in Ranks
          BY <4>1, <4>4, <4>5 DEF Ranks
        <4>7. m[i \div L][n][i % L] = p[n][(i \div L) * L + (i % L)]
          <5> DEFINE a == i \div L  c == i % L
          <5>1. a \in Ranks /\ c \in 0 .. L - 1
            BY <4>4, <4>6
          <5> HIDE DEF a, c
          <5>2. Offset(n, a) = a * L
            BY <3>2, <5>1
          <5>3. m[a][n] = [j \in 0 .. L - 1 |-> p[n][Offset(n, a) + j]]
            BY <3>3, <5>1
          <5>4. m[a][n][c] = p[n][Offset(n, a) + c]
            BY <5>1, <5>3
          <5> QED
            BY <5>2, <5>4 DEF a, c
        <4> QED
          BY <4>4, <4>7
      <3> QED
        BY <2>1, <3>4, <3>5 DEF N
    <2> QED
      BY <2>2, <2>3
  <1>2. View(m, r) = [n \in Names |-> V(n)]
    BY DEF View
  <1>3. p = [n \in Names |-> p[n]]
    BY DEF IsWhole
  <1> HIDE DEF V, m
  <1> QED
    BY <1>1, <1>2, <1>3 DEF m

\* One rank holds everything.
LEMMA OneSlice ==
  ASSUME NEW p, IsWhole(p), world = 1
  PROVE  LocalOf(p, 0) = p
  <1>1. ASSUME NEW n \in Names
        PROVE  [i \in 0 .. LocalSize(n) - 1 |-> p[n][Offset(n, 0) + i]] = p[n]
    <2>1. Product(Shapes[n]) \in Nat /\ p[n] = [i \in 0 .. Product(Shapes[n]) - 1 |-> p[n][i]]
      BY SizesAreNatural, WholeDomains
    <2> DEFINE N == Product(Shapes[n])
    <2>2. LocalSize(n) \in {N \div 1, N} /\ Offset(n, 0) \in {0 * LocalSize(n), 0}
      BY DEF LocalSize, Offset
    <2> HIDE DEF N
    <2>3. LocalSize(n) = N
      BY <2>1, <2>2 DEF N
    <2>4. Offset(n, 0) = 0
      BY <2>1, <2>2, <2>3 DEF N
    <2>5. \A i \in 0 .. N - 1 : Offset(n, 0) + i = i
      BY <2>1, <2>4 DEF N
    <2>6. [i \in 0 .. LocalSize(n) - 1 |-> p[n][Offset(n, 0) + i]] = [i \in 0 .. N - 1 |-> p[n][i]]
      BY <2>3, <2>5
    <2> QED
      BY <2>1, <2>6 DEF N
  <1>2. p = [n \in Names |-> p[n]]
    BY DEF IsWhole
  <1> QED
    BY <1>1, <1>2 DEF LocalOf
-----------------------------------------------------------------------------
(***************************************************************************)
(* The outer step, and the gathers it is taken from.                       *)
(***************************************************************************)
LEMMA OuterStepIs ==
  ASSUME NEW state, state = Outer(state), IsWhole(state.params), NEW payloads
  PROVE  /\ OuterApply(state, payloads) = Outer(OuterApply(state, payloads))
         /\ IsWhole(OuterApply(state, payloads).params)
  <1>1. CASE DOMAIN payloads = {}
    BY <1>1 DEF OuterApply
  <1>2. CASE DOMAIN payloads # {}
    <2> DEFINE grad == [n \in DOMAIN state.params |->
                          Merged(Contributions(n, payloads), DOMAIN payloads, DOMAIN state.params[n])]
               after == Nesterov(state, grad)
    <2>1. OuterApply(state, payloads) = after
      BY <1>2, EvaluatedIs DEF OuterApply
    <2>2. after = Outer(after)
      BY DEF Nesterov, Outer
    <2>3. \A n \in Names : DOMAIN grad[n] = 0 .. Product(Shapes[n]) - 1
      BY WholeDomains DEF Merged, MergedUnder, MergedBy
    <2>4. DOMAIN grad = Names
      BY WholeDomains
    <2> HIDE DEF grad
    <2> DEFINE m == Evaluated([n \in DOMAIN grad |-> [i \in DOMAIN grad[n] |->
                                 MomentumOf(state.momentum[n][i]) + grad[n][i]]])
    <2>5. after.params = [n \in DOMAIN grad |-> [i \in DOMAIN grad[n] |->
                            state.params[n][i] - grad[n][i] - MomentumOf(m[n][i])]]
      BY DEF Nesterov
    <2> HIDE DEF m, after
    <2>6. after.params = [n \in Names |-> [i \in 0 .. Product(Shapes[n]) - 1 |->
                            state.params[n][i] - grad[n][i] - MomentumOf(m[n][i])]]
      BY <2>3, <2>4, <2>5
    <2>7. IsWhole(after.params)
      BY <2>6 DEF IsWhole
    <2> QED
      BY <2>1, <2>2, <2>7
  <1> QED
    BY <1>1, <1>2

\* What passes the checks of a fetch is what was certified.
LEMMA FetchedIsCertified ==
  ASSUME NEW cert, NEW read, NEW m, NEW raw,
         raw \in {FetchMirrored(cert, m), FetchCertified(cert, read, FetchMirrored(cert, m))},
         NEW u \in DOMAIN raw
  PROVE  raw[u] = cert.hashes[u]
  <1> DEFINE mirrored == FetchMirrored(cert, m)
  <1>1. ASSUME NEW v \in DOMAIN mirrored PROVE mirrored[v] = cert.hashes[v]
    <2>1. CASE MirrorUsable(m, cert.window, Cardinality(Peers(cert)))
      <3> DEFINE blobs == Evaluated([x \in Peers(cert) |-> MirrorBlob(m, x)])
      <3>1. mirrored = [x \in {y \in Peers(cert) : Verified(blobs[y], cert.hashes[y])} |-> blobs[x]]
        BY <2>1 DEF FetchMirrored
      <3> HIDE DEF mirrored, blobs
      <3>2. Verified(blobs[v], cert.hashes[v]) /\ mirrored[v] = blobs[v]
        BY <1>1, <3>1
      <3> QED
        BY <3>2 DEF Verified
    <2>2. CASE ~MirrorUsable(m, cert.window, Cardinality(Peers(cert)))
      <3>1. mirrored = <<>>
        BY <2>2 DEF FetchMirrored
      <3>2. DOMAIN mirrored = {}
        BY <3>1
      <3> QED
        BY <1>1, <3>2
    <2> QED
      BY <2>1, <2>2
  <1> HIDE DEF mirrored
  <1>2. CASE raw = mirrored
    BY <1>1, <1>2
  <1>3. CASE raw = FetchCertified(cert, read, mirrored)
    <2> DEFINE direct == {x \in Peers(cert) : Verified(read[x], cert.hashes[x])}
    <2>1. raw = [x \in direct \cup DOMAIN mirrored |-> IF x \in direct THEN read[x] ELSE mirrored[x]]
      BY <1>3 DEF FetchCertified
    <2>2. CASE u \in direct
      <3>1. raw[u] = read[u] /\ Verified(read[u], cert.hashes[u])
        BY <2>1, <2>2
      <3> QED
        BY <3>1 DEF Verified
    <2>3. CASE u \notin direct
      BY <2>1, <2>3, <1>1
    <2> QED
      BY <2>2, <2>3
  <1> QED
    BY <1>2, <1>3 DEF mirrored

\* So a complete gather is the certified payloads, wherever they came from.
LEMMA CompleteGathersAgree ==
  ASSUME NEW cert, NEW raws, NEW got \in Complete(cert, raws),
         \A raw \in raws : \A u \in DOMAIN raw : raw[u] = cert.hashes[u]
  PROVE  got.payloads = PayloadsOf(cert)
  <1>1. PICK raw \in raws : /\ DOMAIN raw = Peers(cert)
                            /\ got = Decoded(cert, raw, CompShapes, DenseShapes)
                            /\ got.missing = {}
    BY DEF Complete
  <1> DEFINE found == [u \in DOMAIN raw |->
                         DecodedOne(cert, u, FrameOf(raw[u]), CompShapes, DenseShapes)]
             good == {u \in DOMAIN found : found[u] # {}}
  <1>2. got = GatherOf(cert, found)
    BY <1>1, EvaluatedIs DEF Decoded
  <1>3. DOMAIN found = Peers(cert)
    BY <1>1
  <1>4. \A u \in Peers(cert) : found[u] \subseteq {Deserialize(FrameOf(cert.hashes[u]))}
    <2>1. \A u \in Peers(cert) : found[u] \subseteq {Deserialize(FrameOf(raw[u]))}
      BY <1>1 DEF DecodedOne
    <2> QED
      BY <1>1, <2>1
  <1> HIDE DEF found
  <1>5. /\ got.payloads = [u \in good |-> CHOOSE p \in found[u] : TRUE]
        /\ got.missing = Peers(cert) \ good
    BY <1>2 DEF GatherOf
  <1>6. good = Peers(cert)
    BY <1>1, <1>3, <1>5
  <1> HIDE DEF good
  <1>7. \A u \in Peers(cert) : (CHOOSE p \in found[u] : TRUE) = Deserialize(FrameOf(cert.hashes[u]))
    <2>1. \A u \in Peers(cert) : found[u] # {}
      BY <1>3, <1>6 DEF good
    <2>2. ASSUME NEW u \in Peers(cert)
          PROVE  (CHOOSE p \in found[u] : TRUE) = Deserialize(FrameOf(cert.hashes[u]))
      <3>1. (CHOOSE p \in found[u] : TRUE) \in found[u]
        BY <2>1
      <3> QED
        BY <1>4, <3>1
    <2> QED
      BY <2>2
  <1>8. got.payloads = [u \in Peers(cert) |-> Deserialize(FrameOf(cert.hashes[u]))]
    BY <1>5, <1>6, <1>7
  <1> QED
    BY <1>8 DEF PayloadsOf

LEMMA GathersAgree ==
  ASSUME NEW w, NEW got \in Gathers(w) \cup MirrorGathers(w)
  PROVE  got.payloads = PayloadsOf(Certificate(w))
  <1> DEFINE cert == Certificate(w)
  <1>1. CASE got \in Gathers(w)
    <2> DEFINE raws == {FetchCertified(cert, read, mirrored) :
                          read \in BucketFinds(cert), mirrored \in MirrorYields(w)}
    <2>1. got \in Complete(cert, raws)
      BY <1>1 DEF Gathers
    <2>2. ASSUME NEW raw \in raws, NEW u \in DOMAIN raw PROVE raw[u] = cert.hashes[u]
      <3>1. PICK read \in BucketFinds(cert), mirrored \in MirrorYields(w) :
               raw = FetchCertified(cert, read, mirrored)
        OBVIOUS
      <3>2. PICK m \in MirrorFinds(w) : mirrored = FetchMirrored(cert, m)
        BY DEF MirrorYields
      <3> HIDE DEF raws, cert
      <3> QED
        BY <2>2, <3>1, <3>2, FetchedIsCertified
    <2> HIDE DEF raws, cert
    <2> QED
      BY <2>1, <2>2, CompleteGathersAgree DEF cert
  <1>2. CASE got \in MirrorGathers(w)
    <2> DEFINE raws == MirrorYields(w)
    <2>1. got \in Complete(cert, raws)
      BY <1>2 DEF MirrorGathers
    <2>2. ASSUME NEW raw \in raws, NEW u \in DOMAIN raw PROVE raw[u] = cert.hashes[u]
      <3>1. PICK m \in MirrorFinds(w) : raw = FetchMirrored(cert, m)
        BY DEF MirrorYields
      <3> HIDE DEF raws, cert
      <3> QED
        BY <2>2, <3>1, FetchedIsCertified
    <2> HIDE DEF raws, cert
    <2> QED
      BY <2>1, <2>2, CompleteGathersAgree DEF cert
  <1> QED
    BY <1>1, <1>2
-----------------------------------------------------------------------------
(***************************************************************************)
(* The counters.                                                           *)
(***************************************************************************)
LEMMA PhaseKnobs ==
  ASSUME NEW m, SoundManifest(m), NEW w
  PROVE  /\ ResolvePhase(m, w).steps \in Nat \ {0}
         /\ ResolvePhase(m, w).accum \in Nat /\ ResolvePhase(m, w).microbatch \in Nat
  <1> DEFINE Setters(k) == {i \in Applicable(m, w) : k \in DOMAIN m.phases[i].over}
  <1>1. \A k \in Knobs : ResolvePhase(m, w)[k] =
          IF Setters(k) = {} THEN Defaults[k] ELSE m.phases[Max(Setters(k))].over[k]
    BY DEF ResolvePhase
  <1>2. ASSUME NEW k, Setters(k) # {}
        PROVE  /\ Max(Setters(k)) \in 1 .. Len(m.phases)
               /\ k \in DOMAIN m.phases[Max(Setters(k))].over
    <2>1. Setters(k) \subseteq 1 .. Len(m.phases) /\ Len(m.phases) \in Nat
      BY DEF Applicable, SoundManifest, IsList
    <2> HIDE DEF Setters
    <2>2. Max(Setters(k)) \in Setters(k)
      BY <1>2, <2>1, MaxIsIn
    <2>3. Setters(k) = {i \in Applicable(m, w) : k \in DOMAIN m.phases[i].over}
      BY DEF Setters
    <2> QED
      BY <2>1, <2>2, <2>3
  <1> HIDE DEF Setters
  <1>3. \A i \in 1 .. Len(m.phases) : SoundEntry(m.phases[i])
    BY DEF SoundManifest
  <1>4. {"steps", "accum", "microbatch"} \subseteq Knobs
    BY DEF Knobs
  <1>5. /\ Defaults["steps"] \in Nat \ {0} /\ Defaults["accum"] \in Nat
        /\ Defaults["microbatch"] \in Nat
    BY ScheduleAssumption
  <1>6. ResolvePhase(m, w)["steps"] \in Nat \ {0}
    BY <1>1, <1>2, <1>3, <1>4, <1>5 DEF SoundEntry
  <1>7. ResolvePhase(m, w)["accum"] \in Nat
    BY <1>1, <1>2, <1>3, <1>4, <1>5 DEF SoundEntry
  <1>8. ResolvePhase(m, w)["microbatch"] \in Nat
    BY <1>1, <1>2, <1>3, <1>4, <1>5 DEF SoundEntry
  <1> QED
    BY <1>6, <1>7, <1>8

LEMMA StepTokensAreNatural ==
  ASSUME NEW phase, phase.accum \in Nat, phase.microbatch \in Nat, NEW tokens \in Nat,
         NEW w \in Nat
  PROVE  StepTokens(phase, tokens, w) \in Nat
  <1> DEFINE a == AccumAt(tokens)  b == Min({a, phase.accum})  c == Max({1, b})
  <1>1. a \in Int
    <2>1. CASE tokens >= RampTokens
      BY <2>1, ScheduleAssumption DEF AccumAt
    <2>2. CASE ~(tokens >= RampTokens)
      <3>1. RampTokens \in Nat \ {0} /\ (Defaults.accum - RampStart) * tokens \in Int
        <4>1. Defaults.accum - RampStart \in Int /\ RampTokens \in Nat
          BY ScheduleAssumption
        <4> HIDE DEF a
        <4> QED
          BY <2>2, <4>1
      <3> DEFINE x == (Defaults.accum - RampStart) * tokens
      <3>2. a = RampStart + x \div RampTokens
        BY <2>2 DEF AccumAt
      <3> HIDE DEF a, x
      <3>3. x \div RampTokens \in Int /\ RampStart \in Int
        BY <3>1, ScheduleAssumption DEF x
      <3> QED
        BY <3>2, <3>3
    <2> QED
      BY <2>1, <2>2
  <1> HIDE DEF a
  <1>2. b \in Int
    BY <1>1, MinOfTwo
  <1> HIDE DEF b
  <1>3. c \in Nat
    <2>1. c \in {1, b} /\ c >= 1
      BY <1>2, MaxOfTwo
    <2> HIDE DEF c
    <2> QED
      BY <1>2, <2>1
  <1>4. StepTokens(phase, tokens, w) = c * phase.microbatch * w
    BY DEF StepTokens, StepAccum, a, b
  <1> HIDE DEF c
  <1>5. c * phase.microbatch \in Nat
    BY <1>3
  <1> DEFINE d == c * phase.microbatch
  <1> HIDE DEF d
  <1>6. d * w \in Nat
    BY <1>5 DEF d
  <1> QED
    BY <1>4, <1>6 DEF d

LEMMA TokenCountIs ==
  ASSUME NEW phase, phase.steps \in Nat, phase.accum \in Nat, phase.microbatch \in Nat,
         NEW tokens \in Nat, NEW w \in Nat
  PROVE  /\ TokenCount(phase, tokens, w)[0] = tokens
         /\ \A s \in 0 .. phase.steps : TokenCount(phase, tokens, w)[s] \in Nat
         /\ \A s \in 1 .. phase.steps :
              TokenCount(phase, tokens, w)[s] =
                TokenCount(phase, tokens, w)[s - 1]
                  + StepTokens(phase, TokenCount(phase, tokens, w)[s - 1], w)
         /\ TokensAfter(phase, tokens, w) = TokenCount(phase, tokens, w)[phase.steps]
  <1> DEFINE N == phase.steps
             Add(x) == x + StepTokens(phase, x, w)
             Body(g) == [i \in 0 .. N |-> IF i = 0 THEN tokens
                                          ELSE g[i - 1] + StepTokens(phase, g[i - 1], w)]
             c == CHOOSE g : g = Body(g)
             step == [a \in (1 .. N) \X Nat |-> Add(a[2])]
  <1>1. TokenCount(phase, tokens, w) = c /\ TokensAfter(phase, tokens, w) = c[N]
    BY DEF TokenCount, TokensAfter
  <1>2. N \in Nat /\ N \in Int /\ 0 \in Int /\ 0 <= N /\ 0 + 1 = 1 /\ tokens \in Nat
    OBVIOUS
  <1>3. \A i \in 1 .. N : \A x \in Nat : step[<<i, x>>] = Add(x)
    OBVIOUS
  <1>4. \A x \in Nat : Add(x) \in Nat
    <2>1. ASSUME NEW x \in Nat PROVE Add(x) \in Nat
      <3>1. StepTokens(phase, x, w) \in Nat
        BY StepTokensAreNatural
      <3> QED
        BY <3>1
    <2> QED
      BY <2>1
  <1> HIDE DEF step, N, Add
  <1>5. Steps(step, 0, N, Nat)
    BY <1>2, <1>3, <1>4 DEF Steps
  <1>6. PICK f \in [0 .. N -> Nat] : Computes(f, 0, N, tokens, step)
    BY <1>2, <1>5, RecursionExists
  <1>7. f[0] = tokens /\ \A i \in 1 .. N : f[i - 1] \in Nat /\ f[i] = Add(f[i - 1])
    <2>1. \A i \in 1 .. N : i - 1 \in 0 .. N
      BY <1>2
    <2> QED
      BY <1>2, <1>3, <1>6, <2>1 DEF Computes
  <1>8. f = Body(f)
    <2>1. \A i \in 0 .. N : i # 0 => i \in 1 .. N
      BY <1>2
    <2> QED
      BY <1>7, <2>1 DEF Add
  <1>9. c = Body(c)
    BY <1>8
  <1> HIDE DEF c
  <1>10. c[0] = tokens /\ \A i \in 1 .. N : c[i] = Add(c[i - 1])
    <2>1. 0 \in 0 .. N /\ \A i \in 1 .. N : i \in 0 .. N /\ i # 0
      BY <1>2
    <2> QED
      BY <1>9, <2>1 DEF Add
  <1>11. ComputesIn(c, 0, N, Nat, tokens, step)
    BY <1>2, <1>3, <1>10 DEF ComputesIn
  <1>12. \A i \in 0 .. N : c[i] = f[i]
    <2> DEFINE X == Nat
    <2>1. /\ 0 \in Int /\ N \in Int /\ 0 <= N /\ tokens \in X /\ f \in [0 .. N -> X]
          /\ Computes(f, 0, N, tokens, step) /\ ComputesIn(c, 0, N, X, tokens, step)
      BY <1>2, <1>6, <1>11
    <2> HIDE DEF X
    <2> QED
      BY ONLY <2>1, RecursionUnique
  <1> QED
    BY <1>1, <1>6, <1>10, <1>12 DEF Add, N

\* One window more of run_state_at.
RunAfter(m, n, w, now) ==
    IF IsVoid(m, n) THEN now
    ELSE [step   |-> now.step + 1, inner |-> now.inner + ResolvePhase(m, n).steps,
          tokens |-> TokensAfter(ResolvePhase(m, n), now.tokens, w)]

LEMMA RunsStayTyped ==
  ASSUME NEW m, SoundManifest(m), NEW n, NEW w \in Nat, NEW now \in Runs
  PROVE  RunAfter(m, n, w, now) \in Runs
  <1> DEFINE phase == ResolvePhase(m, n)  t == TokensAfter(phase, now.tokens, w)
  <1>1. /\ phase.steps \in Nat /\ phase.accum \in Nat /\ phase.microbatch \in Nat
        /\ now.step \in Nat /\ now.inner \in Nat /\ now.tokens \in Nat
    BY PhaseKnobs DEF Runs
  <1>2. t \in Nat
    <2> HIDE DEF phase
    <2>1. t = TokenCount(phase, now.tokens, w)[phase.steps] /\ phase.steps \in 0 .. phase.steps
      BY <1>1, TokenCountIs
    <2>2. TokenCount(phase, now.tokens, w)[phase.steps] \in Nat
      BY <1>1, <2>1, TokenCountIs
    <2> QED
      BY <2>1, <2>2
  <1>3. RunAfter(m, n, w, now) =
          IF IsVoid(m, n) THEN now
          ELSE [step |-> now.step + 1, inner |-> now.inner + phase.steps, tokens |-> t]
    BY DEF RunAfter
  <1> HIDE DEF phase, t
  <1>4. [step |-> now.step + 1, inner |-> now.inner + phase.steps, tokens |-> t] \in Runs
    BY <1>1, <1>2 DEF Runs
  <1> QED
    BY <1>3, <1>4

RunStates(m, n, w) ==
    LET state[i \in 0 .. n] ==
          IF i = 0 THEN [step |-> 0, inner |-> 0, tokens |-> 0]
          ELSE IF IsVoid(m, i - 1) THEN state[i - 1]
          ELSE LET phase == ResolvePhase(m, i - 1)
               IN  [step   |-> state[i - 1].step + 1,
                    inner  |-> state[i - 1].inner + phase.steps,
                    tokens |-> TokensAfter(phase, state[i - 1].tokens, w)]
    IN  state

LEMMA RunStatesAre ==
  ASSUME NEW m, SoundManifest(m), NEW n \in Nat, NEW w \in Nat
  PROVE  /\ \A i \in 0 .. n : RunStates(m, n, w)[i] \in Runs
         /\ RunStates(m, n, w)[0] = ZeroRun
         /\ \A i \in 1 .. n : RunStates(m, n, w)[i] = RunAfter(m, i - 1, w, RunStates(m, n, w)[i - 1])
         /\ RunStateAt(m, n, w) = RunStates(m, n, w)[n]
  <1> DEFINE Body(g) == [i \in 0 .. n |->
                IF i = 0 THEN [step |-> 0, inner |-> 0, tokens |-> 0]
                ELSE IF IsVoid(m, i - 1) THEN g[i - 1]
                ELSE LET phase == ResolvePhase(m, i - 1)
                     IN  [step   |-> g[i - 1].step + 1,
                          inner  |-> g[i - 1].inner + phase.steps,
                          tokens |-> TokensAfter(phase, g[i - 1].tokens, w)]]
             c == CHOOSE g : g = Body(g)
             step == [a \in (1 .. n) \X Runs |-> RunAfter(m, a[1] - 1, w, a[2])]
  <1>1. RunStates(m, n, w) = c /\ RunStateAt(m, n, w) = c[n]
    BY DEF RunStates, RunStateAt
  <1>2. n \in Int /\ 0 \in Int /\ 0 <= n /\ 0 + 1 = 1 /\ ZeroRun \in Runs
    BY DEF Runs, ZeroRun
  <1>3. \A i \in 1 .. n : \A x \in Runs : step[<<i, x>>] = RunAfter(m, i - 1, w, x)
    OBVIOUS
  <1> HIDE DEF step
  <1>4. Steps(step, 0, n, Runs)
    <2>1. ASSUME NEW i \in 1 .. n, NEW x \in Runs PROVE step[<<i, x>>] \in Runs
      <3>1. RunAfter(m, i - 1, w, x) \in Runs
        BY RunsStayTyped
      <3> QED
        BY <1>3, <3>1
    <2> QED
      BY <1>2, <2>1 DEF Steps
  <1>5. PICK f \in [0 .. n -> Runs] : Computes(f, 0, n, ZeroRun, step)
    BY <1>2, <1>4, RecursionExists
  <1>6. f[0] = ZeroRun /\ \A i \in 1 .. n : f[i - 1] \in Runs /\ f[i] = RunAfter(m, i - 1, w, f[i - 1])
    <2>1. \A i \in 1 .. n : i - 1 \in 0 .. n
      BY <1>2
    <2> QED
      BY <1>2, <1>3, <1>5, <2>1 DEF Computes
  <1>7. f = Body(f)
    <2>1. \A i \in 0 .. n : i # 0 => i \in 1 .. n
      BY <1>2
    <2>2. \A i \in 0 .. n : f[i] = Body(f)[i]
      BY <1>6, <2>1, Zenon DEF RunAfter, ZeroRun
    <2>3. DOMAIN f = 0 .. n /\ DOMAIN Body(f) = 0 .. n /\ f = [i \in 0 .. n |-> f[i]]
      OBVIOUS
    <2>4. Body(f) = [i \in 0 .. n |-> Body(f)[i]]
      OBVIOUS
    <2> HIDE DEF Body
    <2> QED
      BY <2>2, <2>3, <2>4
  <1>8. c = Body(c)
    BY <1>7, Zenon
  <1> HIDE DEF c
  <1>9. c[0] = ZeroRun /\ \A i \in 1 .. n : c[i] = RunAfter(m, i - 1, w, c[i - 1])
    <2>1. 0 \in 0 .. n /\ \A i \in 1 .. n : i \in 0 .. n /\ i # 0
      BY <1>2
    <2>2. c[0] = ZeroRun
      BY <1>8, <2>1 DEF ZeroRun
    <2>3. \A i \in 1 .. n : c[i] = RunAfter(m, i - 1, w, c[i - 1])
      BY <1>8, <2>1 DEF RunAfter
    <2> QED
      BY <2>2, <2>3
  <1>10. ComputesIn(c, 0, n, Runs, ZeroRun, step)
    BY <1>2, <1>3, <1>9 DEF ComputesIn
  <1>11. \A i \in 0 .. n : c[i] = f[i]
    BY ONLY <1>2, <1>5, <1>10, RecursionUnique, f \in [0 .. n -> Runs]
  <1> QED
    BY <1>1, <1>5, <1>9, <1>11

\* run_state_at, from window to window.
LEMMA RunStateUnfolds ==
  ASSUME NEW m, SoundManifest(m), NEW n \in Nat, NEW w \in Nat
  PROVE  /\ RunStateAt(m, 0, w) = ZeroRun /\ RunStateAt(m, n, w) \in Runs
         /\ RunStateAt(m, n + 1, w) = RunAfter(m, n, w, RunStateAt(m, n, w))
  <1> DEFINE f == RunStates(m, n, w)  g == RunStates(m, n + 1, w)
             Off == {i \in Nat : i <= n /\ f[i] # g[i]}
  <1>1. /\ \A i \in 0 .. n : f[i] \in Runs
        /\ f[0] = ZeroRun /\ \A i \in 1 .. n : f[i] = RunAfter(m, i - 1, w, f[i - 1])
        /\ RunStateAt(m, n, w) = f[n]
    BY RunStatesAre
  <1>2. /\ g[0] = ZeroRun /\ \A i \in 1 .. n + 1 : g[i] = RunAfter(m, i - 1, w, g[i - 1])
        /\ RunStateAt(m, n + 1, w) = g[n + 1]
    <2>1. n + 1 \in Nat
      OBVIOUS
    <2> QED
      BY <2>1, RunStatesAre
  <1>3. RunStateAt(m, 0, w) = ZeroRun
    <2>1. 0 \in Nat
      OBVIOUS
    <2> QED
      BY <2>1, RunStatesAre
  <1> HIDE DEF f, g
  <1>4. Off = {}
    <2> SUFFICES ASSUME Off # {} PROVE FALSE
      OBVIOUS
    <2>1. PICK k \in Off : \A x \in Off : k <= x
      <3>1. Off \subseteq Nat
        OBVIOUS
      <3> HIDE DEF Off
      <3> QED
        BY <3>1, LeastNatural
    <2>2. k \in Nat /\ k <= n /\ f[k] # g[k]
      OBVIOUS
    <2>3. k # 0
      BY <1>1, <1>2, <2>2
    <2>4. k \in 1 .. n /\ k \in 1 .. n + 1 /\ k - 1 \in Nat /\ k - 1 <= n /\ ~(k <= k - 1)
      BY <2>2, <2>3
    <2>5. f[k - 1] = g[k - 1]
      <3>1. k - 1 \notin Off
        <4> HIDE DEF Off
        <4> QED
          BY <2>1, <2>4
      <3> QED
        BY <2>4, <3>1
    <2> HIDE DEF Off
    <2> QED
      BY <1>1, <1>2, <2>2, <2>4, <2>5
  <1>5. f[n] = g[n]
    BY <1>4
  <1>6. g[n + 1] = RunAfter(m, n, w, g[n])
    <2>1. n + 1 \in 1 .. n + 1 /\ (n + 1) - 1 = n
      OBVIOUS
    <2> QED
      BY <1>2, <2>1
  <1> QED
    BY <1>1, <1>2, <1>3, <1>5, <1>6

LEMMA StepsAreBounded ==
  ASSUME NEW m, SoundManifest(m), NEW n \in Nat, NEW w \in Nat
  PROVE  RunStateAt(m, n, w).step \in 0 .. n
  <1> DEFINE R(k) == RunStateAt(m, k, w)
             Off == {k \in Nat : ~(R(k).step <= k)}
  <1>1. \A k \in Nat : R(k) \in Runs /\ R(k).step \in Nat
    BY RunStateUnfolds DEF Runs
  <1> SUFFICES ASSUME Off # {} PROVE FALSE
    <2>1. ASSUME Off = {} PROVE R(n).step <= n
      BY <2>1
    <2> HIDE DEF Off
    <2>2. R(n).step <= n
      BY <2>1
    <2>3. R(n).step \in Nat
      BY <1>1
    <2> QED
      BY <2>2, <2>3
  <1>2. PICK k \in Off : \A x \in Off : k <= x
    <2>1. Off \subseteq Nat
      OBVIOUS
    <2> HIDE DEF Off
    <2> QED
      BY <2>1, LeastNatural
  <1>3. k \in Nat /\ ~(R(k).step <= k)
    OBVIOUS
  <1>4. R(0).step = 0
    BY RunStateUnfolds DEF ZeroRun
  <1>5. k # 0
    BY <1>3, <1>4
  <1>6. k - 1 \in Nat /\ (k - 1) + 1 = k /\ ~(k <= k - 1)
    BY <1>3, <1>5
  <1>7. R(k - 1).step <= k - 1 /\ R(k - 1).step \in Nat
    <2>1. k - 1 \notin Off
      <3> HIDE DEF Off
      <3> QED
        BY <1>2, <1>6
    <2> QED
      BY <1>1, <1>6, <2>1
  <1>8. R(k) = RunAfter(m, k - 1, w, R(k - 1))
    <2>1. RunStateAt(m, (k - 1) + 1, w) = RunAfter(m, k - 1, w, RunStateAt(m, k - 1, w))
      BY <1>6, RunStateUnfolds
    <2> QED
      BY <1>6, <2>1
  <1> HIDE DEF R, Off
  <1>9. R(k).step \in {R(k - 1).step, R(k - 1).step + 1}
    BY <1>8 DEF RunAfter
  <1> QED
    BY <1>3, <1>6, <1>7, <1>9
-----------------------------------------------------------------------------
(***************************************************************************)
(* The ranks.                                                              *)
(***************************************************************************)
LEMMA WorldFacts ==
  ASSUME Places
  PROVE  /\ world \in Nat \ {0} /\ 0 \in Ranks /\ protocol \in Nat
         /\ role \in {"miner", "attest"}
         /\ \A n \in ExpertNames : Product(Shapes[n]) % world = 0
         /\ world = 1 => Ranks = {0}
  <1>1. /\ world \in Nat \ {0} /\ protocol \in Nat /\ role \in {"miner", "attest"}
        /\ \A n \in ExpertNames : Product(Shapes[n]) % world = 0
    BY TrainingAssumption DEF Places
  <1>2. 0 \in Ranks
    BY <1>1 DEF Ranks
  <1>3. world = 1 => Ranks = {0}
    BY DEF Ranks
  <1> QED
    BY <1>1, <1>2, <1>3

\* What no rank shards is on all of them.
LEMMA SlicesAgree ==
  ASSUME NEW p
  PROVE  /\ OnRanks([r \in Ranks |-> LocalOf(p, r)])
         /\ SameOnRanks([r \in Ranks |-> LocalOf(p, r)], Shared)
         /\ SameOnRanks([r \in Ranks |-> LocalOf(p, r)], BiasNames)
  <1> DEFINE m == [r \in Ranks |-> LocalOf(p, r)]
  <1>1. ASSUME NEW r \in Ranks PROVE IsLocal(m[r])
    <2>1. m[r] = LocalOf(p, r)
      OBVIOUS
    <2> HIDE DEF m
    <2> QED
      BY <2>1 DEF IsLocal, LocalOf
  <1>2. ASSUME NEW q \in Ranks, NEW r \in Ranks, NEW n \in Names, n \notin ExpertNames
        PROVE  m[q][n] = m[r][n]
    <2>1. Offset(n, q) = 0 /\ Offset(n, r) = 0
      BY <1>2 DEF Offset
    <2>2. LocalOf(p, q)[n] = [i \in 0 .. LocalSize(n) - 1 |-> p[n][Offset(n, q) + i]]
      BY DEF LocalOf
    <2>3. LocalOf(p, r)[n] = [i \in 0 .. LocalSize(n) - 1 |-> p[n][Offset(n, r) + i]]
      BY DEF LocalOf
    <2> QED
      BY <2>1, <2>2, <2>3
  <1>3. Shared \subseteq Names \ ExpertNames /\ BiasNames \subseteq Names \ ExpertNames
    BY InnerLoopAssumption DEF Shared, ParamNames
  <1>4. m = [r \in Ranks |-> m[r]]
    OBVIOUS
  <1> HIDE DEF m
  <1>5. OnRanks(m) /\ SameOnRanks(m, Shared) /\ SameOnRanks(m, BiasNames)
    BY <1>1, <1>2, <1>3, <1>4 DEF OnRanks, SameOnRanks
  <1> QED
    BY <1>5 DEF m

LEMMA InitialIsSliced == Initial(world) = [r \in Ranks |-> LocalOf(Whole0, r)]
  BY DEF Initial, Ranks, LocalOf, LocalSize, Offset

\* A single rank's parameters are whole.
LEMMA OneRankIsWhole ==
  ASSUME world = 1, NEW t, IsLocal(t)
  PROVE  IsWhole(t)
  <1>1. ASSUME NEW n \in Names PROVE LocalSize(n) = Product(Shapes[n])
    <2> DEFINE N == Product(Shapes[n])
    <2>1. N \in Nat /\ LocalSize(n) \in {N \div 1, N}
      BY SizesAreNatural DEF LocalSize
    <2> HIDE DEF N
    <2>2. LocalSize(n) = N
      BY <2>1
    <2> QED
      BY <2>2 DEF N
  <1>2. \A n \in Names : [i \in 0 .. LocalSize(n) - 1 |-> t[n][i]]
                           = [i \in 0 .. Product(Shapes[n]) - 1 |-> t[n][i]]
    BY <1>1
  <1> QED
    BY <1>2 DEF IsLocal, IsWhole

LEMMA WholeIsLocal ==
  ASSUME world = 1, NEW p, IsWhole(p)
  PROVE  IsLocal(p) /\ \A n \in Names : LocalSize(n) = Product(Shapes[n])
  <1>1. ASSUME NEW n \in Names PROVE LocalSize(n) = Product(Shapes[n])
    <2> DEFINE N == Product(Shapes[n])
    <2>1. N \in Nat /\ LocalSize(n) \in {N \div 1, N}
      BY SizesAreNatural DEF LocalSize
    <2> HIDE DEF N
    <2>2. LocalSize(n) = N
      BY <2>1
    <2> QED
      BY <2>2 DEF N
  <1>2. \A n \in Names : [i \in 0 .. LocalSize(n) - 1 |-> p[n][i]]
                           = [i \in 0 .. Product(Shapes[n]) - 1 |-> p[n][i]]
    BY <1>1
  <1> QED
    BY <1>1, <1>2 DEF IsLocal, IsWhole

LEMMA ViewOfOneRank ==
  ASSUME world = 1, NEW m, OnRanks(m)
  PROVE  View(m, 0) = m[0] /\ IsWhole(m[0])
  <1>1. Ranks = {0} /\ 0 \in Ranks
    BY DEF Ranks
  <1>2. IsLocal(m[0])
    BY <1>1 DEF OnRanks
  <1>3. IsWhole(m[0])
    BY <1>2, OneRankIsWhole
  <1>4. LocalOf(m[0], 0) = m[0]
    BY <1>3, OneSlice
  <1>5. m = [q \in Ranks |-> LocalOf(m[0], q)]
    <2>1. m = [q \in Ranks |-> m[q]]
      BY DEF OnRanks
    <2>2. \A q \in Ranks : m[q] = LocalOf(m[0], q)
      BY <1>1, <1>4
    <2> QED
      BY <2>1, <2>2
  <1>6. ASSUME NEW n \in ExpertNames PROVE Product(Shapes[n]) % world = 0
    <2>1. Product(Shapes[n]) \in Nat
      BY SizesAreNatural, InnerLoopAssumption DEF ParamNames
    <2> DEFINE N == Product(Shapes[n])
    <2> HIDE DEF N
    <2>2. N % 1 = 0
      BY <2>1 DEF N
    <2> QED
      BY <2>2 DEF N
  <1>7. View([q \in Ranks |-> LocalOf(m[0], q)], 0) = m[0]
    <2>1. world \in Nat \ {0}
      OBVIOUS
    <2> QED
      BY <1>1, <1>3, <1>6, <2>1, ViewOfSlices
  <1> QED
    BY <1>3, <1>5, <1>7

\* The root of several ranks cannot be formed: both own the experts.
LEMMA OnlyOneRankHasARoot ==
  ASSUME world \in Nat \ {0}, ~RootRaises
  PROVE  world = 1
  <1> SUFFICES ASSUME world # 1 PROVE FALSE
    OBVIOUS
  <1>1. 0 \in Ranks /\ 1 \in Ranks
    BY DEF Ranks
  <1>2. PICK n \in ExpertNames : TRUE
    BY InnerLoopAssumption
  <1>3. n \in Names \cap ExpertNames
    BY InnerLoopAssumption DEF ParamNames
  <1>4. \A r : n \in AssignOwned(Names, ExpertNames, r, world)
    BY <1>3 DEF AssignOwned
  <1> QED
    BY <1>1, <1>4 DEF RootRaises

LEMMA WorldIsFixed ==
  ASSUME Next
  PROVE  UNCHANGED <<role, world, protocol>>
  BY DEF Next, Start, Crash, LeaveWindow, TrainWindow, Train, BuildPayload, Publish, Join, Desync,
         Recover, Certify, Amend, Attest, Answer, Examine, Stop, minerVars

-----------------------------------------------------------------------------
(***************************************************************************)
(* The type invariant.                                                     *)
(***************************************************************************)
LEMMA ListGrows ==
  ASSUME NEW s, IsList(s), NEW x
  PROVE  /\ IsList(Append(s, x)) /\ Len(Append(s, x)) = Len(s) + 1
         /\ \A i \in 1 .. Len(s) : Append(s, x)[i] = s[i]
         /\ Append(s, x)[Len(s) + 1] = x
  <1> DEFINE V == Listed(s) \cup {x}
  <1>1. s \in Seq(V) /\ x \in V
    <2>1. \A i \in 1 .. Len(s) : s[i] \in V
      BY DEF Listed
    <2> HIDE DEF V
    <2>2. s \in Seq(V)
      BY <2>1, SeqIs DEF IsList
    <2> QED
      BY <2>2 DEF V
  <1> HIDE DEF V
  <1>2. Append(s, x) \in Seq(V)
    BY <1>1
  <1>3. IsList(Append(s, x))
    BY <1>2, SeqIsList
  <1> QED
    BY <1>1, <1>3

LEMMA RunsAreTyped ==
  ASSUME NEW m, SoundManifest(m), NEW n \in Nat, NEW w \in Nat
  PROVE  /\ RunStateAt(m, n, w) \in Runs
         /\ RunStateAt(m, n, w).step \in Nat /\ RunStateAt(m, n, w).step <= n
  BY RunStateUnfolds, StepsAreBounded

LEMMA PlacesStep ==
  ASSUME TypeInv, Next
  PROVE  Places'
  <1>0. /\ world \in Nat \ {0} /\ protocol \in Nat /\ role \in {"miner", "attest"}
        /\ UNCHANGED <<role, world, protocol>>
    BY WorldFacts, WorldIsFixed DEF TypeInv
  <1>z. Warmup \in Nat /\ LastWindow \in Nat
    BY TrainingAssumption
  <1> DEFINE Layout == \E l \in Layouts : role = l.role /\ world = l.world /\ protocol = l.protocol
             Row == IsList(lineage) /\ Len(lineage) \in 1 .. LastWindow + 2
             At == /\ pc \in {"stopped", "idle", "training", "built", "awaiting", "desync"}
                   /\ pc \notin {"stopped", "training"} => role = "miner"
                   /\ (InWindow \/ pc = "desync") => world = 1
             Counts == /\ window \in 0 .. HeadWindow /\ warmup \in 0 .. Warmup
                       /\ run \in Runs /\ run.step <= window
  <1>a. Layout'
    BY <1>0 DEF TypeInv, Places
  <1>b. /\ Row /\ At /\ Counts
        /\ Len(lineage) \in Nat /\ HeadWindow \in Nat /\ window \in Nat /\ warmup \in Nat
    BY DEF TypeInv, Places, HeadWindow, IsList
  <1>c. ASSUME UNCHANGED lineage PROVE Row' /\ HeadWindow' = HeadWindow
    BY <1>b, <1>c DEF IsList, HeadWindow
  <1>d. ZeroRun \in Runs /\ ZeroRun.step = 0
    BY DEF ZeroRun, Runs
  <1> USE DEF InWindow
  <1>s. ASSUME Stop PROVE Row' /\ At' /\ Counts'
    <2>1. Row' /\ HeadWindow' = HeadWindow
      BY <1>s, <1>c DEF Stop
    <2> QED
      BY <1>s, <1>b, <1>d, <1>z, <2>1 DEF Stop
  <1>u. ASSUME UNCHANGED <<lineage, window, warmup, run>> PROVE Row' /\ Counts'
    BY <1>b, <1>c, <1>u
  <1> SUFFICES Row' /\ At' /\ Counts'
    BY <1>a DEF Places
  <1> HIDE DEF Row, At, Counts, Layout
  <1>1. CASE Start
    <2>1. PICK w \in 0 .. HeadWindow : window' = w /\ run' = RunStateAt(posted, w, protocol)
      BY <1>1 DEF Start
    <2>2. w \in Nat
      BY <2>1, <1>b
    <2>3. run' \in Runs /\ run'.step <= w
      BY <1>0, <2>1, <2>2, RunsAreTyped DEF TypeInv, Manifests
    <2>4. warmup' \in {Warmup, 0} /\ pc' = "idle" /\ role' = "miner"
      BY <1>0, <1>1 DEF Start
    <2>5. Row' /\ HeadWindow' = HeadWindow
      BY <1>1, <1>c DEF Start
    <2>6. Counts'
      BY <2>1, <2>3, <2>4, <2>5, <1>z DEF Counts
    <2>7. At'
      BY <2>4 DEF At
    <2> QED
      BY <2>5, <2>6, <2>7
  <1>2. CASE Crash
    BY <1>2, <1>s DEF Crash
  <1>3. CASE LeaveWindow
    BY <1>3, <1>s DEF LeaveWindow
  <1>4. CASE TrainWindow
    <2>1. world = 1 /\ role = "miner"
      BY <1>0, <1>4, <1>b, OnlyOneRankHasARoot DEF TrainWindow, At
    <2>2. Row' /\ Counts'
      BY <1>4, <1>u DEF TrainWindow
    <2>3. At'
      BY <2>1, <1>0, <1>4 DEF TrainWindow, At
    <2> QED
      BY <2>2, <2>3
  <1>5. CASE Train
    <2>1. Row' /\ Counts'
      BY <1>5, <1>u DEF Train, minerVars
    <2>2. At'
      BY <1>5, <1>b DEF Train, minerVars, At
    <2> QED
      BY <2>1, <2>2
  <1>6. CASE BuildPayload
    <2>1. Row' /\ Counts'
      BY <1>6, <1>u DEF BuildPayload
    <2>2. At'
      BY <1>6, <1>b DEF BuildPayload, At
    <2> QED
      BY <2>1, <2>2
  <1>7. ASSUME NEW late \in BOOLEAN, Publish(late) PROVE Row' /\ At' /\ Counts'
    <2>1. Row' /\ Counts'
      BY <1>7, <1>u DEF Publish
    <2>2. At'
      BY <1>7, <1>b DEF Publish, At
    <2> QED
      BY <2>1, <2>2
  <1>8. CASE Join
    <2>1. Row' /\ HeadWindow' = HeadWindow
      BY <1>8, <1>c DEF Join
    <2>2. At'
      BY <1>8, <1>b DEF Join, At
    <2>3. /\ window' = window + 1 /\ window < HeadWindow /\ warmup' \in {0, warmup - 1, warmup}
          /\ warmup' = Served /\ pc = "awaiting"
          /\ run' = [step   |-> run.step + 1, tokens |-> progress.tokens,
                     inner  |-> run.inner + ResolvePhase(mine, window).steps]
      BY <1>8 DEF Join, Served
    <2>4. warmup' \in 0 .. Warmup
      BY <2>3, <1>b, <1>z DEF Served, Counts
    <2>5. progress.tokens \in Nat
      BY <2>3, <1>b DEF TypeInv, Tasks, At
    <2>6. ResolvePhase(mine, window).steps \in Nat
      BY PhaseKnobs DEF TypeInv, Manifests
    <2>7. run.step \in Nat /\ run.inner \in Nat /\ run.step <= window
      BY <1>b DEF Counts, Runs
    <2>8. run' \in Runs /\ run'.step = run.step + 1
      BY <2>3, <2>5, <2>6, <2>7 DEF Runs
    <2>9. window' \in 0 .. HeadWindow' /\ run'.step <= window'
      BY <2>1, <2>3, <2>7, <2>8, <1>b
    <2> QED
      BY <2>1, <2>2, <2>4, <2>8, <2>9 DEF Counts
  <1>9. CASE Desync
    <2>1. Row' /\ Counts'
      BY <1>9, <1>u DEF Desync
    <2>2. At'
      BY <1>9, <1>b DEF Desync, At
    <2> QED
      BY <2>1, <2>2
  <1>10. CASE Recover
    <2>1. Row' /\ HeadWindow' = HeadWindow
      BY <1>10, <1>c DEF Recover
    <2>2. At'
      BY <1>10, <1>b DEF Recover, At
    <2>3. /\ window' = HeadWindow /\ run' = RunStateAt(mine, HeadWindow, protocol)
          /\ warmup' \in {Served, warmup}
      BY <1>10 DEF Recover
    <2>4. run' \in Runs /\ run'.step <= HeadWindow
      BY <1>0, <1>b, <2>3, RunsAreTyped DEF TypeInv, Manifests
    <2>5. warmup' \in 0 .. Warmup
      BY <2>3, <1>b, <1>z DEF Served, Counts
    <2> QED
      BY <2>1, <2>2, <2>3, <2>4, <2>5, <1>b DEF Counts
  <1>11. CASE Certify
    <2>1. /\ HeadWindow <= LastWindow /\ \E x : lineage' = Append(lineage, x)
          /\ UNCHANGED <<window, warmup, run, pc>>
      BY <1>11 DEF Certify
    <2>2. Row' /\ Len(lineage') = Len(lineage) + 1
      BY <2>1, <1>b, <1>z, ListGrows DEF Row, HeadWindow
    <2>3. Counts'
      BY <2>1, <2>2, <1>b DEF Counts, HeadWindow
    <2>4. At'
      BY <1>0, <1>b, <2>1 DEF At
    <2> QED
      BY <2>2, <2>3, <2>4
  <1>12. CASE Amend
    <2>1. Row' /\ Counts'
      BY <1>12, <1>u DEF Amend
    <2>2. At'
      BY <1>12, <1>b DEF Amend, At
    <2> QED
      BY <2>1, <2>2
  <1>13. CASE Attest
    <2>1. Row' /\ Counts'
      BY <1>13, <1>u DEF Attest
    <2>2. At'
      BY <1>0, <1>13 DEF Attest, At
    <2> QED
      BY <2>1, <2>2
  <1>14. CASE Answer
    BY <1>14, <1>s DEF Answer
  <1>15. CASE Examine
    <2>1. Row' /\ Counts'
      BY <1>15, <1>u DEF Examine
    <2>2. At'
      BY <1>0, <1>15, <1>b DEF Examine, At
    <2> QED
      BY <2>1, <2>2
  <1> QED
    BY <1>1, <1>2, <1>3, <1>4, <1>5, <1>6, <1>7, <1>8, <1>9, <1>10, <1>11, <1>12, <1>13, <1>14,
       <1>15 DEF Next
LEMMA AmendmentsAreSound ==
  ASSUME NEW m, SoundManifest(m), NEW a \in Amendments
  PROVE  /\ SoundManifest(WithAmendment(m, a)) /\ m.voids \subseteq WithAmendment(m, a).voids
         /\ WithAmendment(m, a).voids \subseteq m.voids \cup (IF a.kind = "void" THEN {a.range} ELSE {})
  <1>1. SoundAmendment(a)
    BY TrainingAssumption
  <1>2. /\ m = [phases |-> m.phases, voids |-> m.voids, salt |-> m.salt, amendments |-> m.amendments]
        /\ IsList(m.phases) /\ Len(m.phases) \in Nat
        /\ \A i \in 1 .. Len(m.phases) : SoundEntry(m.phases[i])
    BY DEF SoundManifest, IsList
  <1> DEFINE t == AmendedTable(m, a)
  <1>3. WithAmendment(m, a) =
          [t EXCEPT !.amendments = Append(@, [seq |-> Len(m.amendments), effective |-> a.effective])]
    BY DEF WithAmendment
  <1>4. CASE a.kind \in {"phase", "capacity"}
    <2> DEFINE ph == Append(m.phases, a.entry)
    <2>1. t = [m EXCEPT !.phases = ph]
      BY <1>4 DEF AmendedTable
    <2>2. /\ IsList(ph) /\ Len(ph) = Len(m.phases) + 1 /\ ph[Len(m.phases) + 1] = a.entry
          /\ \A i \in 1 .. Len(m.phases) : ph[i] = m.phases[i]
      BY <1>2, ListGrows
    <2>3. SoundEntry(a.entry)
      BY <1>1, <1>4 DEF SoundAmendment
    <2> HIDE DEF t, ph
    <2>4. \A i \in 1 .. Len(ph) : i \in 1 .. Len(m.phases) \/ i = Len(m.phases) + 1
      BY <1>2, <2>2
    <2>5. \A i \in 1 .. Len(ph) : SoundEntry(ph[i])
      BY <1>2, <2>2, <2>3, <2>4
    <2>6. t = [phases |-> ph, voids |-> m.voids, salt |-> m.salt, amendments |-> m.amendments]
      BY <1>2, <2>1
    <2> DEFINE am == Append(m.amendments, [seq |-> Len(m.amendments), effective |-> a.effective])
    <2>7. WithAmendment(m, a) = [phases |-> ph, voids |-> m.voids, salt |-> m.salt, amendments |-> am]
      BY <1>3, <2>6
    <2> HIDE DEF am
    <2> QED
      BY <1>4, <2>2, <2>5, <2>7 DEF SoundManifest
  <1>5. CASE a.kind = "void"
    <2>1. t = [m EXCEPT !.voids = @ \cup {a.range}]
      BY <1>5 DEF AmendedTable
    <2> HIDE DEF t
    <2> DEFINE am == Append(m.amendments, [seq |-> Len(m.amendments), effective |-> a.effective])
    <2>2. WithAmendment(m, a) =
            [phases |-> m.phases, voids |-> m.voids \cup {a.range}, salt |-> m.salt, amendments |-> am]
      BY <1>2, <1>3, <2>1
    <2> HIDE DEF am
    <2> QED
      BY <1>2, <1>5, <2>2 DEF SoundManifest
  <1>6. CASE a.kind = "prf_salt"
    <2>1. t = [m EXCEPT !.salt = a.salt]
      BY <1>6 DEF AmendedTable
    <2> HIDE DEF t
    <2> DEFINE am == Append(m.amendments, [seq |-> Len(m.amendments), effective |-> a.effective])
    <2>2. WithAmendment(m, a) =
            [phases |-> m.phases, voids |-> m.voids, salt |-> a.salt, amendments |-> am]
      BY <1>2, <1>3, <2>1
    <2> HIDE DEF am
    <2> QED
      BY <1>2, <1>6, <2>2 DEF SoundManifest
  <1> QED
    BY <1>1, <1>4, <1>5, <1>6 DEF SoundAmendment

LEMMA ManifestsStep ==
  ASSUME TypeInv, Next
  PROVE  Manifests'
  <1>a. SoundManifest(posted) /\ SoundManifest(mine) /\ mine.voids \subseteq posted.voids
    BY DEF TypeInv, Manifests
  <1>1. CASE UNCHANGED <<posted, mine>>
    BY <1>a, <1>1 DEF Manifests
  <1>2. CASE Start
    BY <1>a, <1>2 DEF Start, Manifests
  <1>3. CASE Amend
    <2>1. PICK a \in Amendments : posted' = WithAmendment(posted, a)
      BY <1>3 DEF Amend
    <2>2. mine' = mine
      BY <1>3 DEF Amend
    <2>3. SoundManifest(posted') /\ posted.voids \subseteq posted'.voids
      BY <1>a, <2>1, AmendmentsAreSound
    <2> QED
      BY <1>a, <2>2, <2>3 DEF Manifests
  <1>4. Start \/ Amend \/ UNCHANGED <<posted, mine>>
    BY DEF Next, Crash, LeaveWindow, TrainWindow, Train, BuildPayload, Publish, Join, Desync,
           Recover, Certify, Attest, Answer, Examine, Stop, minerVars
  <1> QED
    BY <1>1, <1>2, <1>3, <1>4

LEMMA ExamStep ==
  ASSUME TypeInv, Next
  PROVE  Exam'
  <1>a. Exam
    BY DEF TypeInv
  <1>1. CASE UNCHANGED exam
    BY <1>a, <1>1 DEF Exam
  <1>2. CASE Issue
    <2>1. PICK block \in exam.asked.block + 1 .. LastBlock :
             exam' = [exam EXCEPT !.asked = MakeChallenge(block, exam.clock), !.verdict = "none"]
      BY <1>2 DEF Issue
    <2>2. exam' = [clock |-> exam.clock, asked |-> MakeChallenge(block, exam.clock),
                   held |-> exam.held, answer |-> exam.answer, verdict |-> "none"]
      BY <1>a, <2>1 DEF Exam
    <2>3. MakeChallenge(block, exam.clock).block = block
      BY DEF MakeChallenge
    <2>4. block \in Int /\ block > exam.asked.block
      BY <1>a DEF Exam
    <2> QED
      BY <1>a, <2>2, <2>3, <2>4 DEF Exam
  <1>3. CASE Hold
    <2>1. exam' = [clock |-> exam.clock, asked |-> exam.asked,
                   held |-> exam.asked, answer |-> exam.answer, verdict |-> exam.verdict]
      BY <1>a, <1>3 DEF Hold, Exam
    <2> QED
      BY <1>a, <2>1 DEF Exam
  <1>4. CASE Respond(View(model, 0))
    <2> DEFINE x == [id |-> exam.held.id, root |-> View(model, 0), received |-> exam.clock]
    <2>1. exam' = [exam EXCEPT !.answer = x, !.verdict = "none"]
      BY <1>4 DEF Respond
    <2> HIDE DEF x
    <2>2. exam' = [clock |-> exam.clock, asked |-> exam.asked,
                   held |-> exam.held, answer |-> x, verdict |-> "none"]
      BY <1>a, <2>1 DEF Exam
    <2> QED
      BY <1>a, <2>2 DEF Exam
  <1>5. CASE Judge
    <2>1. \E v \in {"ok", "rejected"} : exam' = [exam EXCEPT !.verdict = v]
      BY <1>5 DEF Judge
    <2>2. PICK v \in {"ok", "rejected"} : exam' = [exam EXCEPT !.verdict = v]
      BY <2>1
    <2>3. exam' = [clock |-> exam.clock, asked |-> exam.asked,
                   held |-> exam.held, answer |-> exam.answer, verdict |-> v]
      BY <1>a, <2>2 DEF Exam
    <2> QED
      BY <1>a, <2>3 DEF Exam
  <1>6. CASE Tick
    <2>1. exam' = [clock |-> exam.clock + 1, asked |-> exam.asked,
                   held |-> exam.held, answer |-> exam.answer, verdict |-> exam.verdict]
      BY <1>a, <1>6 DEF Tick, Exam
    <2>2. exam.clock + 1 \in 0 .. LastTick
      BY <1>a, <1>6, AttestationAssumption DEF Tick, Exam
    <2> QED
      BY <1>a, <2>1, <2>2 DEF Exam
  <1> QED
    BY <1>1, <1>2, <1>3, <1>4, <1>5, <1>6 DEF Next, Attest, Answer, Examine

LEMMA TasksStep ==
  ASSUME TypeInv, Next
  PROVE  Tasks'
  <1>a. Tasks /\ run.tokens \in Nat /\ world \in Nat \ {0}
    BY WorldFacts DEF TypeInv, Places, Runs
  <1>b. ASSUME Idle PROVE progress' = AtRest
    BY <1>b DEF Idle
  <1> USE DEF InWindow
  <1>1. CASE UNCHANGED <<progress, task>> /\ (InWindow' => InWindow /\ UNCHANGED <<mine, window>>)
    BY <1>a, <1>1 DEF Tasks
  <1>2. CASE progress' = AtRest /\ ~InWindow'
    BY <1>2 DEF Tasks, AtRest
  <1>3. CASE TrainWindow
    <2>1. /\ progress' = [stage |-> "micro", step |-> 0, micro |-> 0, tokens |-> run.tokens]
          /\ task' = [manifest |-> mine, uid |-> Uid, window |-> window, run |-> run]
          /\ UNCHANGED <<mine, window>>
      BY <1>3 DEF TrainWindow, BeginWindow, BeginTask
    <2> QED
      BY <1>a, <2>1 DEF Tasks
  <1>4. CASE Attest
    <2>1. /\ progress' = [stage |-> "micro", step |-> 0, micro |-> 0, tokens |-> ZeroRun.tokens]
          /\ role' = "attest"
      BY <1>4 DEF Attest, BeginTask
    <2> QED
      BY <2>1 DEF Tasks
  <1>5. CASE Train
    <2>1. UNCHANGED <<role, pc, mine, window, world>> /\ InnerStep
      BY <1>5 DEF Train, minerVars
    <2>2. CASE Microbatch
      <3>1. /\ task' = task
            /\ progress' = [progress EXCEPT !.micro = @ + 1,
                              !.stage = IF progress.micro + 1 = Accum THEN "reduce" ELSE @]
        BY <2>2 DEF Microbatch
      <3>2. progress' = [stage |-> IF progress.micro + 1 = Accum THEN "reduce" ELSE progress.stage,
                         step |-> progress.step, micro |-> progress.micro + 1,
                         tokens |-> progress.tokens]
        BY <1>a, <3>1 DEF Tasks
      <3> QED
        BY <1>a, <2>1, <3>1, <3>2 DEF Tasks
    <2>3. CASE Reduce
      <3>1. task' = task /\ progress' = [progress EXCEPT !.stage = "bucket"]
        BY <2>3 DEF Reduce
      <3>2. progress' = [stage |-> "bucket", step |-> progress.step, micro |-> progress.micro,
                         tokens |-> progress.tokens]
        BY <1>a, <3>1 DEF Tasks
      <3> QED
        BY <1>a, <2>1, <3>1, <3>2 DEF Tasks
    <2>4. CASE FinishStep
      <3>1. /\ task' = task
            /\ progress' = [stage |-> IF progress.step + 1 < Phase.steps THEN "micro" ELSE "done",
                            step |-> progress.step + 1, micro |-> 0, tokens |-> TokensCounted]
        BY <2>4 DEF FinishStep
      <3>2. ASSUME InWindow PROVE TokensCounted \in Nat
        <4>1. task.manifest = mine /\ task.window = window /\ progress.tokens \in Nat
          BY <1>a, <3>2 DEF Tasks
        <4>2. Phase = ResolvePhase(mine, window)
          BY <4>1 DEF Phase
        <4>3. Phase.accum \in Nat /\ Phase.microbatch \in Nat
          BY <4>2, PhaseKnobs DEF TypeInv, Manifests
        <4>4. StepTokens(Phase, progress.tokens, world) \in Nat
          BY <1>a, <4>1, <4>3, StepTokensAreNatural
        <4>5. TokensCounted = progress.tokens + StepTokens(Phase, progress.tokens, world)
          BY DEF TokensCounted, StepTokens, Accum
        <4> QED
          BY <4>1, <4>4, <4>5
      <3> QED
        BY <1>a, <2>1, <3>1, <3>2 DEF Tasks
    <2>5. CASE \E r \in Ranks : StepBucket(r)
      <3>1. UNCHANGED <<task, progress>>
        BY <2>5 DEF StepBucket
      <3> QED
        BY <1>1, <2>1, <3>1
    <2> QED
      BY <2>1, <2>2, <2>3, <2>4, <2>5 DEF InnerStep
  <1>6. CASE Start \/ Crash \/ LeaveWindow \/ Join \/ Desync \/ Answer
    <2>1. progress' = AtRest
      BY <1>6, <1>b DEF Start, Crash, LeaveWindow, Join, Desync, Answer, Stop
    <2>2. pc' \in {"idle", "stopped", "desync"}
      BY <1>6 DEF Start, Crash, LeaveWindow, Join, Desync, Answer, Stop
    <2> QED
      BY <1>2, <2>1, <2>2
  <1>7. CASE BuildPayload \/ Recover \/ Certify \/ Amend \/ Examine
    BY <1>1, <1>7 DEF BuildPayload, Recover, Certify, Amend, Examine, innerVars
  <1>8. ASSUME NEW late \in BOOLEAN, Publish(late) PROVE Tasks'
    BY <1>1, <1>8 DEF Publish, innerVars
  <1> QED
    BY <1>3, <1>4, <1>5, <1>6, <1>7, <1>8 DEF Next
\* catch_up, window by window.
LEMMA CaughtUpUnfolds ==
  ASSUME NEW from, NEW got, window \in Nat, HeadWindow \in Nat, window <= HeadWindow
  PROVE  \E f : /\ f[window] = from /\ CaughtUp(from, got) = f[HeadWindow]
                /\ \A w \in window + 1 .. HeadWindow :
                     f[w] = IF w - 1 \in Missed THEN OuterApply(f[w - 1], got[w - 1].payloads)
                            ELSE f[w - 1]
  <1> DEFINE lo == window  hi == HeadWindow
             Step(g, w) == IF w = lo THEN from
                           ELSE IF w - 1 \in Missed THEN OuterApply(g[w - 1], got[w - 1].payloads)
                           ELSE g[w - 1]
             Body(g) == [w \in lo .. hi |-> Step(g, w)]
             upTo == CHOOSE g : g = Body(g)
             Built(n) == \E f : \A i \in lo .. n : f[i] = Step(f, i)
             Unbuilt == {k \in Nat : lo + k <= hi /\ ~Built(lo + k)}
  <1>1. CaughtUp(from, got) = upTo[hi]
    BY DEF CaughtUp
  <1>2. lo \in Nat /\ hi \in Nat /\ lo <= hi
    OBVIOUS
  <1>3. \A f, g : \A w : (f[w - 1] = g[w - 1]) => Step(f, w) = Step(g, w)
    OBVIOUS
  <1>4. \A g : Step(g, lo) = from
    OBVIOUS
  <1>5. \A g : \A w \in lo + 1 .. hi :
           Step(g, w) = IF w - 1 \in Missed THEN OuterApply(g[w - 1], got[w - 1].payloads)
                        ELSE g[w - 1]
    BY <1>2
  <1> HIDE DEF lo, hi, Step, upTo
  <1>6. Built(lo)
    <2>1. \A i \in lo .. lo : [x \in {lo} |-> from][i] = Step([x \in {lo} |-> from], i)
      BY <1>2, <1>4
    <2> QED
      BY <2>1
  <1>7. ASSUME NEW n \in Nat, lo <= n, Built(n) PROVE Built(n + 1)
    <2>1. PICK f : \A i \in lo .. n : f[i] = Step(f, i)
      BY <1>7
    <2> DEFINE h == [i \in lo .. n + 1 |-> IF i = n + 1 THEN Step(f, n + 1) ELSE f[i]]
    <2>2. \A i \in lo .. n : h[i] = f[i]
      BY <1>2
    <2>3. h[n + 1] = Step(f, n + 1)
      BY <1>2, <1>7
    <2> HIDE DEF h
    <2>4. ASSUME NEW i \in lo .. n + 1 PROVE h[i] = Step(h, i)
      <3>1. CASE i = lo
        BY <1>2, <1>4, <1>7, <2>1, <2>2, <3>1
      <3>2. CASE i # lo
        <4>1. i - 1 \in lo .. n /\ h[i - 1] = f[i - 1]
          BY <1>2, <2>2, <3>2
        <4>2. Step(h, i) = Step(f, i)
          BY <1>3, <4>1
        <4>3. i = n + 1 \/ i \in lo .. n
          BY <1>2, <1>7
        <4>4. h[i] = Step(f, i)
          BY <2>1, <2>2, <2>3, <4>3
        <4> QED
          BY <4>2, <4>4
      <3> QED
        BY <3>1, <3>2
    <2> QED
      BY <2>4
  <1> HIDE DEF Built
  <1>8. Unbuilt = {}
    <2> SUFFICES ASSUME Unbuilt # {} PROVE FALSE
      OBVIOUS
    <2>1. PICK k \in Unbuilt : \A x \in Unbuilt : k <= x
      <3>1. Unbuilt \subseteq Nat
        OBVIOUS
      <3> HIDE DEF Unbuilt
      <3> QED
        BY <3>1, LeastNatural
    <2>2. k \in Nat /\ lo + k <= hi /\ ~Built(lo + k)
      OBVIOUS
    <2>3. lo + 0 = lo
      BY <1>2
    <2>4. k # 0
      BY <1>6, <2>2, <2>3
    <2>5. k - 1 \in Nat /\ ~(k <= k - 1) /\ lo + (k - 1) <= hi /\ (lo + (k - 1)) + 1 = lo + k
          /\ lo + (k - 1) \in Nat /\ lo <= lo + (k - 1)
      BY <1>2, <2>2, <2>4
    <2>6. Built(lo + (k - 1))
      <3>1. k - 1 \notin Unbuilt
        <4> HIDE DEF Unbuilt
        <4> QED
          BY <2>1, <2>5
      <3> QED
        BY <2>5, <3>1
    <2> QED
      BY <1>7, <2>2, <2>5, <2>6
  <1>9. Built(hi)
    <2>1. hi - lo \in Nat /\ lo + (hi - lo) = hi /\ hi <= hi
      BY <1>2
    <2>2. hi - lo \notin Unbuilt
      BY <1>8
    <2> QED
      BY <2>1, <2>2
  <1>10. PICK f : \A i \in lo .. hi : f[i] = Step(f, i)
    BY <1>9 DEF Built
  <1> DEFINE h == [i \in lo .. hi |-> f[i]]
  <1>11. h = Body(h)
    <2>1. ASSUME NEW i \in lo .. hi PROVE h[i] = Step(h, i)
      <3>1. CASE i = lo
        BY <1>4, <1>10, <3>1
      <3>2. CASE i # lo
        <4>1. i - 1 \in lo .. hi
          BY <1>2, <3>2
        <4>2. h[i - 1] = f[i - 1]
          BY <4>1
        <4> HIDE DEF h
        <4>3. Step(h, i) = Step(f, i)
          BY <1>3, <4>2
        <4> QED
          BY <1>10, <4>3 DEF h
      <3> QED
        BY <3>1, <3>2
    <2>2. h = [i \in lo .. hi |-> h[i]]
      OBVIOUS
    <2> HIDE DEF h
    <2> QED
      BY <2>1, <2>2
  <1> HIDE DEF h
  <1>12. upTo = Body(upTo)
    BY <1>11 DEF upTo
  <1>13. \A w \in lo .. hi : upTo[w] = Step(upTo, w)
    BY <1>12
  <1>14. upTo[lo] = from
    <2>1. lo \in lo .. hi
      BY <1>2
    <2> QED
      BY <1>4, <1>13, <2>1
  <1>15. \A w \in lo + 1 .. hi : upTo[w] = Step(upTo, w)
    <2>1. \A w \in lo + 1 .. hi : w \in lo .. hi
      BY <1>2
    <2> QED
      BY <1>13, <2>1
  <1> QED
    BY <1>1, <1>5, <1>14, <1>15 DEF lo, hi

LEMMA CaughtUpIsWhole ==
  ASSUME NEW from, NEW got, from = Outer(from), IsWhole(from.params),
         window \in Nat, HeadWindow \in Nat, window <= HeadWindow
  PROVE  IsWhole(CaughtUp(from, got).params)
  <1>1. PICK f : /\ f[window] = from /\ CaughtUp(from, got) = f[HeadWindow]
                 /\ \A w \in window + 1 .. HeadWindow :
                      f[w] = IF w - 1 \in Missed THEN OuterApply(f[w - 1], got[w - 1].payloads)
                             ELSE f[w - 1]
    BY CaughtUpUnfolds
  <1> DEFINE Good(s) == s = Outer(s) /\ IsWhole(s.params)
             Off == {k \in Nat : window + k <= HeadWindow /\ ~Good(f[window + k])}
  <1>2. \A s, p : Good(s) => Good(OuterApply(s, p))
    BY OuterStepIs
  <1>3. Good(f[window])
    BY <1>1
  <1> HIDE DEF Good
  <1>4. Off = {}
    <2> SUFFICES ASSUME Off # {} PROVE FALSE
      OBVIOUS
    <2>1. PICK k \in Off : \A x \in Off : k <= x
      <3>1. Off \subseteq Nat
        OBVIOUS
      <3> HIDE DEF Off
      <3> QED
        BY <3>1, LeastNatural
    <2>2. k \in Nat /\ window + k <= HeadWindow /\ ~Good(f[window + k])
      OBVIOUS
    <2>3. window + 0 = window
      OBVIOUS
    <2>4. k # 0
      BY <1>3, <2>2, <2>3
    <2>5. /\ k - 1 \in Nat /\ ~(k <= k - 1) /\ window + (k - 1) <= HeadWindow
          /\ window + k \in window + 1 .. HeadWindow /\ (window + k) - 1 = window + (k - 1)
      BY <2>2, <2>4
    <2>6. Good(f[window + (k - 1)])
      <3>1. k - 1 \notin Off
        <4> HIDE DEF Off
        <4> QED
          BY <2>1, <2>5
      <3> QED
        BY <2>5, <3>1
    <2>7. f[window + k] \in {OuterApply(f[window + (k - 1)], got[window + (k - 1)].payloads),
                             f[window + (k - 1)]}
      BY <1>1, <2>5
    <2> HIDE DEF Off
    <2> QED
      BY <1>2, <2>2, <2>6, <2>7
  <1>5. Good(f[HeadWindow])
    <2>1. HeadWindow - window \in Nat /\ window + (HeadWindow - window) = HeadWindow
      OBVIOUS
    <2>2. HeadWindow - window \notin Off
      BY <1>4
    <2> QED
      BY <2>1, <2>2
  <1> QED
    BY <1>1, <1>5 DEF Good
-----------------------------------------------------------------------------
(***************************************************************************)
(* The tensors of the ranks.                                               *)
(***************************************************************************)
\* A function with the names and indices of a rank's tensors.
LEMMA LocalByDomains ==
  ASSUME NEW t, t = [n \in Names |-> t[n]],
         \A n \in Names : t[n] = [i \in 0 .. LocalSize(n) - 1 |-> t[n][i]]
  PROVE  IsLocal(t)
  BY DEF IsLocal

LEMMA LocalDomains ==
  ASSUME NEW t, IsLocal(t)
  PROVE  /\ t = [n \in Names |-> t[n]]
         /\ \A n \in Names : t[n] = [i \in 0 .. LocalSize(n) - 1 |-> t[n][i]]
         /\ \A n \in Names : DOMAIN t[n] = 0 .. LocalSize(n) - 1
  <1>1. t = [n \in Names |-> t[n]]
    BY DEF IsLocal
  <1>2. \A n \in Names : t[n] = [i \in 0 .. LocalSize(n) - 1 |-> t[n][i]]
    BY DEF IsLocal
  <1>3. \A n \in Names : DOMAIN t[n] = 0 .. LocalSize(n) - 1
    <2>1. ASSUME NEW n \in Names PROVE DOMAIN t[n] = 0 .. LocalSize(n) - 1
      <3>1. DOMAIN [i \in 0 .. LocalSize(n) - 1 |-> t[n][i]] = 0 .. LocalSize(n) - 1
        OBVIOUS
      <3> QED
        BY <1>2, <3>1
    <2> QED
      BY <2>1
  <1> QED
    BY <1>1, <1>2, <1>3

\* The tensors after a step, where no rank is added.
LEMMA TensorsAre ==
  ASSUME world' = world,
         OnRanks(model'), SameOnRanks(model', BiasNames),
         progress'.stage # "bucket" => SameOnRanks(model', Shared),
         InWindow' => OnRanks(start'),
         stepped' \subseteq Ranks,
         pc' = "training" =>
           /\ DOMAIN adam' = Ranks /\ DOMAIN grads' = Ranks
           /\ \A r \in Ranks : \A n \in ParamNames :
                DOMAIN (grads')[r][n] = 0 .. LocalSize(n) - 1
  PROVE  Tensors'
  <1>1. Ranks' = Ranks
    BY DEF Ranks
  <1>2. \A n : LocalSize(n)' = LocalSize(n)
    BY DEF LocalSize
  <1>3. \A t : IsLocal(t) => t = [n \in Names |-> [i \in 0 .. LocalSize(n)' - 1 |-> t[n][i]]]
    BY <1>2 DEF IsLocal
  <1>4. OnRanks(model)'
    BY <1>1, <1>3 DEF OnRanks, IsLocal
  <1>5. InWindow' => OnRanks(start)'
    BY <1>1, <1>3 DEF OnRanks, IsLocal
  <1>6. SameOnRanks(model, BiasNames)' /\ (progress'.stage # "bucket" => SameOnRanks(model, Shared)')
    BY <1>1 DEF SameOnRanks
  <1> QED
    BY <1>1, <1>2, <1>4, <1>5, <1>6 DEF Tensors

LEMMA NamesAreSorted ==
  /\ ParamNames \subseteq Names /\ Shared \subseteq ParamNames /\ BiasNames \subseteq Names
  /\ BiasNames \cap ParamNames = {} /\ Shared \cap ExpertNames = {}
  /\ ExpertNames \subseteq ParamNames
  /\ Names \ (Shared \cup BiasNames) = ExpertNames
  /\ \A r : Owned(r) \subseteq ParamNames
  BY InnerLoopAssumption DEF ParamNames, Shared, Owned

\* The optimizer of a new window has the shape of the parameters it starts from.
LEMMA FreshTaskShapes ==
  ASSUME NEW m, OnRanks(m)
  PROVE  /\ DOMAIN NoGrads(m) = Ranks
         /\ \A r \in Ranks : \A n \in ParamNames : DOMAIN NoGrads(m)[r][n] = 0 .. LocalSize(n) - 1
  <1>1. ASSUME NEW r \in Ranks, NEW n \in ParamNames
        PROVE  DOMAIN NoGrads(m)[r][n] = 0 .. LocalSize(n) - 1
    <2>1. NoGrads(m)[r][n] = Zeros(m[r][n])
      BY DEF NoGrads
    <2>2. IsLocal(m[r]) /\ n \in Names
      BY NamesAreSorted DEF OnRanks
    <2>3. DOMAIN m[r][n] = 0 .. LocalSize(n) - 1
      BY <2>2, LocalDomains
    <2> QED
      BY <2>1, <2>3 DEF Zeros
  <1>2. DOMAIN NoGrads(m) = Ranks
    BY DEF NoGrads
  <1> QED
    BY <1>1, <1>2
-----------------------------------------------------------------------------
(* The inner loop keeps the shape of everything it touches.                *)

GradsInShape(g) ==
    /\ DOMAIN g = Ranks
    /\ \A r \in Ranks : \A n \in ParamNames : DOMAIN g[r][n] = 0 .. LocalSize(n) - 1

LEMMA MicrobatchKeepsShape ==
  ASSUME GradsInShape(grads), Microbatch
  PROVE  GradsInShape(grads')
  <1> DEFINE batch == Evaluated([r \in Ranks |-> Batch(r, progress.step, progress.micro)])
             view == Evaluated([r \in Ranks |-> View(model, r)])
             local(r, n, i) ==
               IF n \in ExpertNames
               THEN SumOf([q \in Ranks |->
                      SumOf([p \in batch[q] |-> Backward(n, view[q], p)[Offset(n, r) + i]])])
               ELSE SumOf([p \in batch[r] |-> Backward(n, view[r], p)[i]])
  <1>1. grads' = [r \in Ranks |-> [n \in ParamNames |-> [i \in DOMAIN grads[r][n] |->
                     grads[r][n][i] + local(r, n, i) \div Accum]]]
    BY DEF Microbatch
  <1> HIDE DEF local
  <1>2. \A r \in Ranks : \A n \in ParamNames : DOMAIN (grads')[r][n] = DOMAIN grads[r][n]
    BY <1>1
  <1>3. DOMAIN grads' = Ranks
    BY <1>1
  <1> QED
    BY <1>2, <1>3 DEF GradsInShape

LEMMA ReduceKeepsShape ==
  ASSUME GradsInShape(grads), Reduce, 0 \in Ranks
  PROVE  GradsInShape(grads')
  <1> DEFINE mean == [n \in Shared |-> [i \in DOMAIN grads[0][n] |->
                        SumOf([r \in Ranks |-> grads[r][n][i]]) \div world]]
             norm(r) == ExpertNorm(r) + NormOver(Shared, mean)
  <1>1. grads' = [r \in Ranks |-> [n \in ParamNames |->
                     ClippedBy(norm(r), IF n \in Shared THEN mean[n] ELSE grads[r][n])]]
    BY DEF Reduce
  <1>2. \A n \in Shared : DOMAIN mean[n] = 0 .. LocalSize(n) - 1
    BY NamesAreSorted DEF GradsInShape
  <1> HIDE DEF norm, mean
  <1>3. \A x, t : DOMAIN ClippedBy(x, t) = DOMAIN t
    BY DEF ClippedBy
  <1>4. ASSUME NEW r \in Ranks, NEW n \in ParamNames
        PROVE  DOMAIN (grads')[r][n] = 0 .. LocalSize(n) - 1
    <2>1. (grads')[r][n] = ClippedBy(norm(r), IF n \in Shared THEN mean[n] ELSE grads[r][n])
      BY <1>1
    <2>2. DOMAIN (IF n \in Shared THEN mean[n] ELSE grads[r][n]) = 0 .. LocalSize(n) - 1
      BY <1>2 DEF GradsInShape
    <2> QED
      BY <1>3, <2>1, <2>2
  <1>5. DOMAIN grads' = Ranks
    BY <1>1
  <1> QED
    BY <1>4, <1>5 DEF GradsInShape

\* A rank's update leaves what it does not own, the biases among it.
LEMMA BucketKeepsShape ==
  ASSUME OnRanks(model), GradsInShape(grads), DOMAIN adam = Ranks, NEW r \in Ranks, StepBucket(r)
  PROVE  /\ OnRanks(model') /\ DOMAIN adam' = Ranks
         /\ \A q \in Ranks : \A n \in BiasNames : (model')[q][n] = model[q][n]
  <1> DEFINE lr == LrOf(Phase, task.run, progress.step)
             new == [n \in Owned(r) |-> AdamStep(adam[r][n], grads[r][n], lr)]
             here == [n \in Names |-> IF n \in Owned(r) THEN new[n].master ELSE model[r][n]]
  <1>1. adam' = [adam EXCEPT ![r] = new]
    BY DEF StepBucket
  <1>2. DOMAIN adam' = Ranks /\ (adam')[r] = new
    BY <1>1
  <1>3. /\ model = [q \in Ranks |-> model[q]]
        /\ \A q \in Ranks : IsLocal(model[q])
    BY DEF OnRanks
  <1>4. model' = [model EXCEPT ![r] = [n \in Names |->
                     IF n \in Owned(r) THEN (adam')[r][n].master ELSE model[r][n]]]
    BY <1>3 DEF StepBucket
  <1>5. model' = [model EXCEPT ![r] = here]
    BY <1>2, <1>4
  <1>6. model' = [q \in Ranks |-> IF q = r THEN here ELSE model[q]]
    BY <1>3, <1>5
  <1>7. IsLocal(here)
    <2>1. here = [n \in Names |-> here[n]]
      OBVIOUS
    <2>2. ASSUME NEW n \in Names
          PROVE  here[n] = [i \in 0 .. LocalSize(n) - 1 |-> here[n][i]]
      <3>1. CASE n \in Owned(r)
        <4>1. here[n] = AdamStep(adam[r][n], grads[r][n], lr).master
          BY <3>1
        <4>2. DOMAIN grads[r][n] = 0 .. LocalSize(n) - 1
          BY <3>1, NamesAreSorted DEF GradsInShape
        <4> HIDE DEF here, lr
        <4>3. \E F : here[n] = [i \in DOMAIN grads[r][n] |-> F[i]]
          <5> DEFINE step == adam[r][n].step + 1
                     avg == [i \in DOMAIN grads[r][n] |-> Wrap((adam[r][n].avg[i] + grads[r][n][i]) \div 2)]
                     sq == [i \in DOMAIN grads[r][n] |-> (adam[r][n].sq[i] + grads[r][n][i] * grads[r][n][i]) \div 2]
                     F == [i \in DOMAIN grads[r][n] |->
                             Wrap(adam[r][n].master[i] - (lr * step * avg[i]) \div (1 + Root(sq[i])))]
          <5>1. AdamStep(adam[r][n], grads[r][n], lr).master = F
            BY DEF AdamStep
          <5>2. F = [i \in DOMAIN grads[r][n] |-> F[i]]
            OBVIOUS
          <5> HIDE DEF F
          <5>3. here[n] = [i \in DOMAIN grads[r][n] |-> F[i]]
            BY <4>1, <5>1, <5>2
          <5> QED
            BY <5>3
        <4>4. PICK F : here[n] = [i \in 0 .. LocalSize(n) - 1 |-> F[i]]
          BY <4>2, <4>3
        <4> QED
          BY <4>4
      <3>2. CASE n \notin Owned(r)
        <4>1. here[n] = model[r][n]
          BY <3>2
        <4>2. model[r][n] = [i \in 0 .. LocalSize(n) - 1 |-> model[r][n][i]]
          BY <1>3, LocalDomains
        <4> HIDE DEF here
        <4> QED
          BY <4>1, <4>2
      <3> QED
        BY <3>1, <3>2
    <2> HIDE DEF here
    <2> QED
      BY <2>1, <2>2, LocalByDomains
  <1>8. \A n \in BiasNames : here[n] = model[r][n]
    BY NamesAreSorted
  <1> HIDE DEF here
  <1>9. OnRanks(model')
    BY <1>3, <1>6, <1>7 DEF OnRanks
  <1> QED
    BY <1>2, <1>6, <1>8, <1>9

\* The end of a step: one owner's shared tensors and one balance, everywhere.
LEMMA FinishKeepsShape ==
  ASSUME OnRanks(model), SameOnRanks(model, BiasNames), FinishStep, world \in Nat \ {0}
  PROVE  /\ OnRanks(model')
         /\ SameOnRanks(model', Shared) /\ SameOnRanks(model', BiasNames)
  <1> DEFINE here(r) == [n \in Names |-> IF n \in Shared THEN model[Owner(n)][n]
                                         ELSE IF n \in BiasNames THEN PostStep(r)[n]
                                         ELSE model[r][n]]
  <1>1. model' = [r \in Ranks |-> here(r)]
    BY DEF FinishStep
  <1>2. \A n \in Shared : Owner(n) \in Ranks
    BY OwnersAreRanks
  <1>3. \A q \in Ranks : IsLocal(model[q])
    BY DEF OnRanks
  <1>4. ASSUME NEW r \in Ranks, NEW n \in BiasNames
        PROVE  /\ PostStep(r)[n] = BalanceBias(model[r][n], StepLoad(r))
               /\ PostStep(r)[n] = [i \in 0 .. LocalSize(n) - 1 |-> PostStep(r)[n][i]]
    <2>1. PostStep(r)[n] = BalanceBias(model[r][n], StepLoad(r))
      BY DEF PostStep
    <2>2. LocalSize(n) = NumExperts
      BY InnerLoopAssumption, NamesAreSorted DEF LocalSize
    <2>3. Experts = 0 .. LocalSize(n) - 1
      BY <2>2 DEF Experts
    <2> DEFINE total == SumOf(StepLoad(r))
               F == [e \in Experts |-> Wrap(model[r][n][e] - BiasRate * Sign(NumExperts * StepLoad(r)[e] - total))]
    <2>4. BalanceBias(model[r][n], StepLoad(r)) = F
      BY DEF BalanceBias
    <2>5. F = [e \in Experts |-> F[e]]
      OBVIOUS
    <2> HIDE DEF F
    <2> QED
      BY <2>1, <2>3, <2>4, <2>5
  <1>5. ASSUME NEW r \in Ranks PROVE IsLocal(here(r))
    <2>1. here(r) = [n \in Names |-> here(r)[n]]
      OBVIOUS
    <2>2. ASSUME NEW n \in Names
          PROVE  here(r)[n] = [i \in 0 .. LocalSize(n) - 1 |-> here(r)[n][i]]
      <3>1. CASE n \in Shared
        <4>1. here(r)[n] = model[Owner(n)][n]
          BY <3>1
        <4>2. model[Owner(n)][n] = [i \in 0 .. LocalSize(n) - 1 |-> model[Owner(n)][n][i]]
          BY <1>2, <1>3, <3>1, LocalDomains
        <4> HIDE DEF here
        <4> QED
          BY <4>1, <4>2
      <3>2. CASE n \in BiasNames
        <4>1. here(r)[n] = PostStep(r)[n]
          BY <3>2, NamesAreSorted
        <4> HIDE DEF here
        <4> QED
          BY <1>4, <3>2, <4>1
      <3>3. CASE n \notin Shared /\ n \notin BiasNames
        <4>1. here(r)[n] = model[r][n]
          BY <3>3
        <4>2. model[r][n] = [i \in 0 .. LocalSize(n) - 1 |-> model[r][n][i]]
          BY <1>3, LocalDomains
        <4> HIDE DEF here
        <4> QED
          BY <4>1, <4>2
      <3> QED
        BY <3>1, <3>2, <3>3
    <2> HIDE DEF here
    <2> QED
      BY <2>1, <2>2, LocalByDomains
  <1>6. ASSUME NEW q \in Ranks, NEW r \in Ranks, NEW n \in Shared PROVE here(q)[n] = here(r)[n]
    BY NamesAreSorted
  <1>7. ASSUME NEW q \in Ranks, NEW r \in Ranks, NEW n \in BiasNames PROVE here(q)[n] = here(r)[n]
    <2>1. here(q)[n] = PostStep(q)[n] /\ here(r)[n] = PostStep(r)[n]
      BY NamesAreSorted
    <2>2. model[q][n] = model[r][n]
      BY DEF SameOnRanks
    <2>3. StepLoad(q) = StepLoad(r)
      BY DEF StepLoad
    <2> HIDE DEF here
    <2>4. PostStep(q)[n] = BalanceBias(model[q][n], StepLoad(q)) /\ PostStep(r)[n] = BalanceBias(model[r][n], StepLoad(r))
      BY <1>4, Zenon
    <2> QED
      BY <2>1, <2>2, <2>3, <2>4, Zenon
  <1> HIDE DEF here
  <1>8. \A r \in Ranks : (model')[r] = here(r)
    BY <1>1
  <1>9. model' = [r \in Ranks |-> (model')[r]]
    BY <1>1
  <1>10. OnRanks(model')
    BY <1>5, <1>8, <1>9 DEF OnRanks
  <1> QED
    BY <1>6, <1>7, <1>8, <1>10 DEF SameOnRanks
LEMMA OneRankAgrees ==
  ASSUME world = 1, NEW m, NEW names
  PROVE  SameOnRanks(m, names)
  <1>1. Ranks = {0}
    BY DEF Ranks
  <1> QED
    BY <1>1 DEF SameOnRanks

\* An outer step leaves the tensors of a miner, which is one rank, whole.
LEMMA SteppedRank ==
  ASSUME world = 1, OnRanks(model), NEW p, IsWhole(p), model' = [model EXCEPT ![0] = p]
  PROVE  OnRanks(model')
  <1>1. Ranks = {0} /\ model = [r \in Ranks |-> model[r]]
    BY DEF Ranks, OnRanks
  <1>2. model' = [r \in Ranks |-> p]
    BY <1>1
  <1>3. IsLocal(p)
    BY WholeIsLocal
  <1> QED
    BY <1>2, <1>3 DEF OnRanks

LEMMA TensorsStep ==
  ASSUME TypeInv, Next
  PROVE  Tensors'
  <1>0. /\ world \in Nat \ {0} /\ 0 \in Ranks /\ world' = world /\ role' = role
        /\ world = 1 => Ranks = {0}
    BY WorldFacts, WorldIsFixed DEF TypeInv
  <1>a. /\ OnRanks(model) /\ SameOnRanks(model, BiasNames)
        /\ progress.stage # "bucket" => SameOnRanks(model, Shared)
        /\ InWindow => OnRanks(start) /\ world = 1
        /\ stepped \subseteq Ranks
        /\ pc = "training" => GradsInShape(grads) /\ DOMAIN adam = Ranks
    BY DEF TypeInv, Tensors, GradsInShape, Places
  <1>b. /\ window \in 0 .. HeadWindow /\ window \in Nat /\ HeadWindow \in Nat
        /\ pc \in {"stopped", "idle", "training", "built", "awaiting", "desync"}
        /\ pc = "desync" => world = 1
    BY DEF TypeInv, Places, HeadWindow, IsList
  <1>s. ASSUME Stop PROVE Tensors'
    <2>1. /\ model' = [r \in Ranks |-> LocalOf(Whole0, r)] /\ pc' = "stopped" /\ stepped' = {}
      BY <1>s, InitialIsSliced DEF Stop, Idle
    <2>2. OnRanks(model') /\ SameOnRanks(model', Shared) /\ SameOnRanks(model', BiasNames)
      BY <2>1, SlicesAgree
    <2>3. ~InWindow'
      BY <2>1 DEF InWindow
    <2> QED
      BY <1>0, <2>1, <2>2, <2>3, TensorsAre
  \* One rank at rest: only the shapes matter.
  <1>r. ASSUME world = 1, OnRanks(model'), stepped' \subseteq Ranks, pc' # "training",
               InWindow' => OnRanks(start')
        PROVE  Tensors'
    <2>1. SameOnRanks(model', Shared) /\ SameOnRanks(model', BiasNames)
      BY <1>r, OneRankAgrees
    <2> QED
      BY <1>0, <1>r, <2>1, TensorsAre
  <1>u. ASSUME UNCHANGED <<innerVars, world, role, start, pc>> PROVE Tensors'
    <2>1. UNCHANGED <<model, task, progress, adam, grads, loads, stepped>>
      BY <1>u DEF innerVars
    <2>2. InWindow' = InWindow
      BY <1>u DEF InWindow
    <2>3. OnRanks(model') /\ SameOnRanks(model', BiasNames)
          /\ (progress'.stage # "bucket" => SameOnRanks(model', Shared))
      BY <1>a, <2>1
    <2>4. InWindow' => OnRanks(start')
      BY <1>a, <1>u, <2>2
    <2>5. stepped' \subseteq Ranks
      BY <1>a, <2>1
    <2>6. pc' = "training" =>
           /\ DOMAIN adam' = Ranks /\ DOMAIN grads' = Ranks
           /\ \A r \in Ranks : \A n \in ParamNames : DOMAIN (grads')[r][n] = 0 .. LocalSize(n) - 1
      BY <1>a, <1>u, <2>1 DEF GradsInShape
    <2> QED
      BY <1>0, <2>3, <2>4, <2>5, <2>6, TensorsAre
  <1>1. CASE Start
    <2>1. PICK w \in 0 .. HeadWindow : model' = [r \in Ranks |-> LocalOf(lineage[w + 1].params, r)]
      BY <1>1 DEF Start
    <2>2. pc' = "idle" /\ stepped' = {}
      BY <1>1 DEF Start, Idle
    <2>3. OnRanks(model') /\ SameOnRanks(model', Shared) /\ SameOnRanks(model', BiasNames)
      BY <2>1, SlicesAgree
    <2>4. ~InWindow'
      BY <2>2 DEF InWindow
    <2> QED
      BY <1>0, <2>2, <2>3, <2>4, TensorsAre
  <1>2. CASE Crash \/ LeaveWindow \/ Answer
    BY <1>2, <1>s DEF Crash, LeaveWindow, Answer
  <1>3. CASE TrainWindow
    <2>1. world = 1
      BY <1>0, <1>3, OnlyOneRankHasARoot DEF TrainWindow
    <2>2. /\ model' = model /\ start' = model /\ stepped' = {} /\ grads' = NoGrads(model)
          /\ adam' = [r \in Ranks |-> [n \in Owned(r) |-> FreshAdam(model[r][n])]]
      BY <1>3 DEF TrainWindow, BeginWindow, BeginTask
    <2>3. SameOnRanks(model', Shared) /\ SameOnRanks(model', BiasNames)
      BY <2>1, OneRankAgrees
    <2>4. DOMAIN adam' = Ranks
      BY <2>2
    <2> QED
      BY <1>0, <1>a, <2>2, <2>3, <2>4, FreshTaskShapes, TensorsAre
  <1>4. CASE Attest
    <2>1. /\ model' = [r \in Ranks |-> LocalOf(InitModel(exam'.held.seed), r)]
          /\ grads' = NoGrads(model') /\ stepped' = {} /\ role' = "attest"
          /\ adam' = [r \in Ranks |-> [n \in Owned(r) |-> FreshAdam((model')[r][n])]]
      BY <1>4 DEF Attest, BeginTask
    <2>2. OnRanks(model') /\ SameOnRanks(model', Shared) /\ SameOnRanks(model', BiasNames)
      BY <2>1, SlicesAgree
    <2>3. ~InWindow' /\ DOMAIN adam' = Ranks
      BY <2>1 DEF InWindow
    <2> QED
      BY <1>0, <2>1, <2>2, <2>3, FreshTaskShapes, TensorsAre
  <1>5. CASE Train
    <2>1. /\ InnerStep /\ pc = "training" /\ UNCHANGED <<role, pc, start>>
      BY <1>5 DEF Train, minerVars
    <2>2. InWindow' => OnRanks(start')
      BY <1>a, <2>1 DEF InWindow
    <2>3. GradsInShape(grads) /\ DOMAIN adam = Ranks
      BY <1>a, <2>1
    <2>4. CASE Microbatch
      <3>1. /\ UNCHANGED <<model, adam, stepped>> /\ progress.stage = "micro"
        BY <2>4 DEF Microbatch
      <3>2. GradsInShape(grads')
        BY <2>3, <2>4, MicrobatchKeepsShape
      <3> QED
        BY <1>0, <1>a, <2>2, <2>3, <3>1, <3>2, TensorsAre DEF GradsInShape
    <2>5. CASE Reduce
      <3>1. /\ UNCHANGED <<model, adam, stepped>> /\ progress.stage = "reduce"
        BY <2>5 DEF Reduce
      <3>2. GradsInShape(grads')
        BY <1>0, <2>3, <2>5, ReduceKeepsShape
      <3> QED
        BY <1>0, <1>a, <2>2, <2>3, <3>1, <3>2, TensorsAre DEF GradsInShape
    <2>6. ASSUME NEW r \in Ranks, StepBucket(r) PROVE Tensors'
      <3>1. /\ UNCHANGED <<progress, grads>> /\ progress.stage = "bucket"
            /\ stepped' = stepped \cup {r}
        BY <2>6 DEF StepBucket
      <3>2. /\ OnRanks(model') /\ DOMAIN adam' = Ranks
            /\ \A q \in Ranks : \A n \in BiasNames : (model')[q][n] = model[q][n]
        BY <1>a, <2>3, <2>6, BucketKeepsShape
      <3>3. SameOnRanks(model', BiasNames)
        BY <1>a, <3>2 DEF SameOnRanks
      <3>4. GradsInShape(grads')
        BY <2>3, <3>1
      <3> QED
        BY <1>0, <1>a, <2>2, <3>1, <3>2, <3>3, <3>4, TensorsAre DEF GradsInShape
    <2>7. CASE FinishStep
      <3>1. grads' = NoGrads(model) /\ stepped' = {} /\ adam' = adam
        BY <2>7 DEF FinishStep
      <3>2. OnRanks(model') /\ SameOnRanks(model', Shared) /\ SameOnRanks(model', BiasNames)
        BY <1>0, <1>a, <2>7, FinishKeepsShape
      <3> QED
        BY <1>0, <1>a, <2>2, <2>3, <3>1, <3>2, FreshTaskShapes, TensorsAre
    <2> QED
      BY <2>1, <2>4, <2>5, <2>6, <2>7 DEF InnerStep
  <1>6. CASE BuildPayload
    <2>1. /\ model' = start /\ start' = start /\ stepped' = stepped /\ pc' = "built"
          /\ pc = "training" /\ role = "miner"
      BY <1>6 DEF BuildPayload
    <2>2. InWindow
      BY <2>1 DEF InWindow
    <2> QED
      BY <1>a, <1>r, <2>1, <2>2
  <1>7. ASSUME NEW late \in BOOLEAN, Publish(late) PROVE Tensors'
    <2>1. /\ UNCHANGED <<model, stepped, start>> /\ pc' = "awaiting" /\ pc = "built"
      BY <1>7 DEF Publish, innerVars
    <2>2. InWindow' => InWindow
      BY <1>0, <2>1 DEF InWindow
    <2>3. role = "miner"
      BY <2>1 DEF TypeInv, Places
    <2>4. world = 1
      BY <1>a, <2>1, <2>3 DEF InWindow
    <2> QED
      BY <1>a, <1>r, <2>1, <2>2, <2>4
  <1>8. CASE Join
    <2>1. PICK got \in Gathers(window) :
             model' = [model EXCEPT ![0] = OuterApply([params |-> model[0], momentum |-> momentum],
                                                      got.payloads).params]
      BY <1>8 DEF Join
    <2>2. pc = "awaiting" /\ pc' = "idle" /\ stepped' = {}
      BY <1>8 DEF Join, Idle
    <2>3. world = 1
      BY <2>2 DEF TypeInv, Places, InWindow
    <2>4. IsWhole(model[0])
      BY <1>a, <2>3, ViewOfOneRank
    <2> DEFINE now == [params |-> model[0], momentum |-> momentum]
               p == OuterApply(now, got.payloads).params
    <2>5. now = Outer(now) /\ IsWhole(now.params)
      BY <2>4 DEF Outer
    <2> HIDE DEF now
    <2>6. IsWhole(p)
      BY <2>5, OuterStepIs
    <2>7. model' = [model EXCEPT ![0] = p]
      BY <2>1 DEF now
    <2> HIDE DEF p
    <2>8. OnRanks(model')
      BY <1>a, <2>3, <2>6, <2>7, SteppedRank
    <2> QED
      BY <1>r, <2>2, <2>3, <2>8 DEF InWindow
  <1>9. CASE Desync
    <2>1. pc = "awaiting" /\ pc' = "desync" /\ model' = model /\ stepped' = {}
      BY <1>9 DEF Desync, Idle
    <2>2. world = 1
      BY <2>1 DEF TypeInv, Places, InWindow
    <2>3. OnRanks(model')
      BY <1>a, <2>1
    <2> QED
      BY <1>r, <2>1, <2>2, <2>3 DEF InWindow
  <1>10. CASE Recover
    <2> DEFINE now == [params |-> model[0], momentum |-> momentum]
    <2>1. PICK got : model' = [model EXCEPT ![0] = CaughtUp(now, got).params]
      <3>1. PICK got \in OneOfEach(Evaluated([w \in Missed |-> MirrorGathers(w)])) :
               model' = [model EXCEPT ![0] = Evaluated(CaughtUp(now, got)).params]
        BY <1>10 DEF Recover
      <3> QED
        BY <3>1, EvaluatedIs
    <2>2. world = 1 /\ window < HeadWindow /\ pc' = "idle" /\ stepped' = stepped
      BY <1>10 DEF Recover
    <2>3. IsWhole(model[0])
      BY <1>a, <2>2, ViewOfOneRank
    <2>4. now = Outer(now) /\ IsWhole(now.params)
      BY <2>3 DEF Outer
    <2> HIDE DEF now
    <2> DEFINE p == CaughtUp(now, got).params
    <2>5. IsWhole(p)
      BY <1>b, <2>4, <2>2, CaughtUpIsWhole
    <2>6. model' = [model EXCEPT ![0] = p]
      BY <2>1
    <2> HIDE DEF p
    <2>7. OnRanks(model')
      BY <1>a, <2>2, <2>5, <2>6, SteppedRank
    <2> QED
      BY <1>a, <1>r, <2>2, <2>7 DEF InWindow
  <1>11. CASE Certify \/ Amend \/ Examine
    BY <1>11, <1>u DEF Certify, Amend, Examine
  <1> QED
    BY <1>1, <1>2, <1>3, <1>4, <1>5, <1>6, <1>7, <1>8, <1>9, <1>10, <1>11 DEF Next
LEMMA InitIsTyped == Init => TypeInv
  <1> SUFFICES ASSUME Init PROVE TypeInv
    OBVIOUS
  <1>z. Warmup \in Nat /\ LastWindow \in Nat
    BY TrainingAssumption
  <1>1. /\ \E l \in Layouts : role = l.role /\ world = l.world /\ protocol = l.protocol
        /\ posted = Manifest0 /\ mine = Manifest0 /\ pc = "stopped" /\ window = 0 /\ run = ZeroRun
        /\ model = Initial(world) /\ progress = AtRest /\ stepped = {}
        /\ lineage = <<Genesis>> /\ warmup = 0
        /\ ExamInit
    BY DEF Init
  <1>2. ~InWindow
    BY <1>1 DEF InWindow
  <1>3. IsList(lineage) /\ Len(lineage) = 1
    <2> HIDE DEF Genesis
    <2> DEFINE V == {Genesis}
    <2>1. lineage \in Seq(V) /\ Len(lineage) = 1
      BY <1>1
    <2> HIDE DEF V
    <2> QED
      BY <2>1, SeqIsList
  <1>4. ZeroRun \in Runs /\ ZeroRun.step = 0
    BY DEF ZeroRun, Runs
  <1>5. Places
    <2>1. HeadWindow = 0
      BY <1>3 DEF HeadWindow
    <2> QED
      BY <1>z, <1>1, <1>2, <1>3, <1>4, <2>1 DEF Places
  <1>6. SoundManifest(Manifest0)
    <2>1. /\ Manifest0 = [k \in {"phases", "voids", "salt", "amendments"} |-> Manifest0[k]]
          /\ Manifest0.phases \in Seq({e \in Listed(Manifest0.phases) : SoundEntry(e)})
      BY TrainingAssumption
    <2>2. Manifest0 = [phases |-> Manifest0.phases, voids |-> Manifest0.voids,
                       salt |-> Manifest0.salt, amendments |-> Manifest0.amendments]
      BY <2>1
    <2>3. IsList(Manifest0.phases)
      BY <2>1, SeqIsList
    <2>4. \A i \in 1 .. Len(Manifest0.phases) : SoundEntry(Manifest0.phases[i])
      <3> DEFINE V == {e \in Listed(Manifest0.phases) : SoundEntry(e)}
      <3>1. \A e \in V : SoundEntry(e)
        OBVIOUS
      <3> HIDE DEF V
      <3>2. \A i \in 1 .. Len(Manifest0.phases) : Manifest0.phases[i] \in V
        BY <2>1 DEF V
      <3> QED
        BY <3>1, <3>2
    <2> QED
      BY <2>2, <2>3, <2>4 DEF SoundManifest
  <1>7. Manifests
    BY <1>1, <1>6 DEF Manifests
  <1>8. Tasks
    BY <1>1, <1>2 DEF Tasks, AtRest
  <1>9. Exam
    BY <1>1, AttestationAssumption DEF ExamInit, Exam, NoChallenge
  <1>10. Tensors
    <2>1. model = [r \in Ranks |-> LocalOf(Whole0, r)]
      BY <1>1, InitialIsSliced
    <2>2. OnRanks(model) /\ SameOnRanks(model, Shared) /\ SameOnRanks(model, BiasNames)
      BY <2>1, SlicesAgree
    <2> QED
      BY <1>1, <1>2, <2>2 DEF Tensors
  <1> QED
    BY <1>5, <1>7, <1>8, <1>9, <1>10 DEF TypeInv

LEMMA TypeInvStep == TypeInv /\ [Next]_vars => TypeInv'
  <1> SUFFICES ASSUME TypeInv, [Next]_vars PROVE TypeInv'
    OBVIOUS
  <1>1. CASE Next
    BY <1>1, PlacesStep, ManifestsStep, TasksStep, ExamStep, TensorsStep DEF TypeInv
  <1>2. CASE UNCHANGED vars
    <2>1. UNCHANGED <<model, task, progress, adam, grads, loads, stepped, role, protocol, posted,
                      mine, pc, window, run, momentum, ef, start, frame, bucket, slices, lineage,
                      warmup, starts, world, exam>>
      BY <1>2 DEF vars, innerVars, minerVars
    <2>2. InWindow' = InWindow /\ HeadWindow' = HeadWindow /\ Ranks' = Ranks
      BY <2>1 DEF InWindow, HeadWindow, Ranks
    <2>3. Places'
      BY <2>1, <2>2 DEF TypeInv, Places, IsList
    <2>4. Manifests' /\ Tasks' /\ Exam'
      BY <2>1, <2>2 DEF TypeInv, Manifests, SoundManifest, SoundEntry, IsList, Tasks, Exam
    <2>5. Tensors'
      <3>1. Tensors
        BY DEF TypeInv
      <3>2. /\ OnRanks(model') /\ SameOnRanks(model', BiasNames)
            /\ (progress'.stage # "bucket" => SameOnRanks(model', Shared))
            /\ (InWindow' => OnRanks(start')) /\ stepped' \subseteq Ranks
            /\ pc' = "training" =>
                 /\ DOMAIN adam' = Ranks /\ DOMAIN grads' = Ranks
                 /\ \A r \in Ranks : \A n \in ParamNames :
                      DOMAIN (grads')[r][n] = 0 .. LocalSize(n) - 1
        BY <2>1, <2>2, <3>1 DEF Tensors
      <3> QED
        BY <2>1, <3>2, TensorsAre
    <2> QED
      BY <2>3, <2>4, <2>5 DEF TypeInv
  <1> QED
    BY <1>1, <1>2

LEMMA TypeInvIsTyped == TypeInv => TypeOK
  <1> SUFFICES ASSUME TypeInv PROVE TypeOK
    OBVIOUS
  <1>1. Places /\ Tensors /\ Tasks /\ Exam
    BY DEF TypeInv
  <1>2. \A r \in Ranks : \A n \in Names : DOMAIN model[r][n] = 0 .. LocalSize(n) - 1
    BY <1>1, LocalDomains DEF Tensors, OnRanks
  <1>3. DOMAIN model = Ranks
    BY <1>1 DEF Tensors, OnRanks
  <1>4. window \in 0 .. LastWindow + 1 /\ run.step \in 0 .. LastWindow + 1 /\ run.tokens \in Nat
    BY <1>1, TrainingAssumption DEF Places, HeadWindow, Runs
  <1> QED
    BY <1>1, <1>2, <1>3, <1>4 DEF TypeOK, Places, Tensors, Tasks, Exam

\* Training is typed for every model, schedule and layout: ranks and tensors
\* keep their shapes through the inner loop, the outer step, catch-up and
\* restart, and no node holds a challenge later than the one last asked.
THEOREM TypesHold == Spec => []TypeOK
  <1>1. Init => TypeInv
    BY InitIsTyped
  <1>2. TypeInv /\ [Next]_vars => TypeInv'
    BY TypeInvStep
  <1>3. TypeInv => TypeOK
    BY TypeInvIsTyped
  <1> QED
    BY <1>1, <1>2, <1>3, PTL DEF Spec
-----------------------------------------------------------------------------
(***************************************************************************)
(* The lineage.                                                            *)
(***************************************************************************)
LEMMA InitIsALineage == Init => LineageInv
  <1> SUFFICES ASSUME Init PROVE LineageInv
    OBVIOUS
  <1>1. lineage = <<Genesis>> /\ bucket = NoFrame /\ pc = "stopped"
    BY DEF Init
  <1>2. Len(lineage) = 1 /\ lineage[1] = Genesis
    <2> HIDE DEF Genesis
    <2> QED
      BY <1>1
  <1>3. IsEntry(Genesis)
    BY TrainingAssumption DEF IsEntry, Genesis
  <1>4. HeadWindow = 0
    BY <1>2 DEF HeadWindow
  <1> QED
    BY <1>1, <1>2, <1>3, <1>4 DEF LineageInv

\* The window a certificate ends follows from the one before it.
LEMMA CertifiedFollows ==
  ASSUME NEW now, IsEntry(now), NEW S, NEW frames, frames = [u \in S |-> frames[u]],
         \A u \in S : IsFrame(frames[u]), HeadWindow \in Nat
  PROVE  LET x == CertifiedWith(now, frames)
         IN  /\ IsEntry(x) /\ x.cert # NoCertificate
             /\ Outer(x) = OuterApply(Outer(now), PayloadsOf(x.cert))
  <1> DEFINE x == CertifiedWith(now, frames)
             payloads == [u \in S |-> Deserialize(frames[u])]
             blobs == [u \in S |-> Bytes(frames[u])]
             after == OuterApply(Outer(now), payloads)
             cert == [window |-> HeadWindow, root |-> now.params, hashes |-> blobs]
             mirror == Mirror(HeadWindow, blobs)
  <1>1. DOMAIN frames = S
    OBVIOUS
  <1>2. [u \in DOMAIN frames |-> Evaluated(Deserialize(frames[u]))] = payloads
    BY <1>1, EvaluatedIs
  <1>3. Evaluated([u \in DOMAIN frames |-> Bytes(frames[u])]) = blobs
    BY <1>1, EvaluatedIs
  <1>4. x = [params |-> after.params, momentum |-> after.momentum, cert |-> cert, mirror |-> mirror]
    BY <1>2, <1>3 DEF CertifiedWith, Outer
  <1>5. Outer(now) = Outer(Outer(now)) /\ IsWhole(Outer(now).params)
    BY DEF Outer, IsEntry
  <1> HIDE DEF x, payloads
  <1>6. after = Outer(after) /\ IsWhole(after.params)
    BY <1>5, OuterStepIs
  <1>7. PayloadsOf(cert) = payloads
    <2>1. PayloadsOf(cert) = [u \in S |-> Deserialize(FrameOf(Bytes(frames[u])))]
      BY DEF PayloadsOf, Peers
    <2>2. \A u \in S : Deserialize(FrameOf(Bytes(frames[u]))) = Deserialize(frames[u])
      BY FramesMeanTheSame
    <2> QED
      BY <2>1, <2>2 DEF payloads
  <1> HIDE DEF after, mirror
  <1>8. cert # NoCertificate
    <2>1. cert.window = HeadWindow /\ NoCertificate.window = -1
      BY DEF NoCertificate
    <2> HIDE DEF cert
    <2> QED
      BY <2>1
  <1> HIDE DEF cert
  <1>9. Outer(x) = after
    <2>1. Outer(x) = [params |-> after.params, momentum |-> after.momentum]
      BY <1>4 DEF Outer
    <2> QED
      BY <1>6, <2>1 DEF Outer
  <1>10. IsEntry(x)
    BY <1>4, <1>6 DEF IsEntry
  <1>11. x.cert = cert
    BY <1>4
  <1>12. after = OuterApply(Outer(now), PayloadsOf(x.cert))
    BY <1>7, <1>11 DEF after
  <1> QED
    BY <1>8, <1>9, <1>10, <1>11, <1>12 DEF x

LEMMA VoidEntry ==
  ASSUME NEW a, NEW b, NEW e, IsEntry(e)
  PROVE  [e EXCEPT !.cert = a, !.mirror = b]
           = [params |-> e.params, momentum |-> e.momentum, cert |-> a, mirror |-> b]
  <1>0. PICK p, m, c, r : e = [params |-> p, momentum |-> m, cert |-> c, mirror |-> r]
    BY DEF IsEntry
  <1> DEFINE d == [e EXCEPT !.cert = a]
  <1>1. d = [params |-> p, momentum |-> m, cert |-> a, mirror |-> r]
    BY <1>0
  <1>2. [e EXCEPT !.cert = a, !.mirror = b] = [d EXCEPT !.mirror = b]
    OBVIOUS
  <1> HIDE DEF d
  <1>3. [d EXCEPT !.mirror = b] = [params |-> p, momentum |-> m, cert |-> a, mirror |-> b]
    BY <1>1
  <1>4. e.params = p /\ e.momentum = m
    BY <1>0
  <1> QED
    BY <1>2, <1>3, <1>4

\* What Certify appends.
LEMMA CertifyAppends ==
  ASSUME TypeInv, LineageInv, Certify
  PROVE  \E x : /\ lineage' = Append(lineage, x) /\ IsEntry(x)
                /\ Outer(x) = IF x.cert # NoCertificate
                              THEN OuterApply(Outer(lineage[HeadWindow + 1]), PayloadsOf(x.cert))
                              ELSE Outer(lineage[HeadWindow + 1])
                /\ IsVoid(posted, HeadWindow) => x.cert = NoCertificate
  <1> DEFINE now == lineage[HeadWindow + 1]
  <1>1. HeadWindow \in Nat /\ HeadWindow + 1 \in 1 .. Len(lineage)
    BY DEF TypeInv, Places, IsList, HeadWindow
  <1>2. IsEntry(now)
    BY <1>1 DEF LineageInv
  <1>3. CASE IsVoid(posted, HeadWindow)
    <2> DEFINE x == [now EXCEPT !.cert = NoCertificate, !.mirror = NoMirror]
    <2>1. lineage' = Append(lineage, x)
      BY <1>3 DEF Certify
    <2>2. now = [params |-> now.params, momentum |-> now.momentum, cert |-> now.cert,
                 mirror |-> now.mirror] /\ IsWhole(now.params)
      BY <1>2 DEF IsEntry
    <2> HIDE DEF now
    <2>3. x = [params |-> now.params, momentum |-> now.momentum, cert |-> NoCertificate,
               mirror |-> NoMirror]
      BY <1>2, VoidEntry DEF now
    <2> HIDE DEF x
    <2>4. IsEntry(x) /\ x.cert = NoCertificate /\ Outer(x) = Outer(now)
      BY <2>2, <2>3 DEF IsEntry, Outer
    <2> QED
      BY <2>1, <2>4 DEF now
  <1>4. CASE ~IsVoid(posted, HeadWindow)
    <2>1. PICK included \in SUBSET {Uid, Peer} :
             LET frames == Evaluated([u \in included |-> IF u = Uid THEN bucket ELSE PeerFrame])
             IN  /\ Uid \in included =>
                      Receivable(bucket) /\ bucket.header.window = HeadWindow
                 /\ Peer \in included => Plannable(posted, HeadWindow, world) /\ ~RootRaises
                 /\ lineage' = Append(lineage, CertifiedWith(now, frames))
      BY <1>4 DEF Certify
    <2> DEFINE frames == [u \in included |-> IF u = Uid THEN bucket ELSE PeerFrame]
    <2>2. /\ Uid \in included => Receivable(bucket)
          /\ lineage' = Append(lineage, CertifiedWith(now, frames))
      BY <2>1, EvaluatedIs
    <2>3. ASSUME NEW u \in included PROVE IsFrame(frames[u])
      <3>1. CASE u = Uid
        <4>1. bucket # NoFrame
          BY <2>2, <3>1 DEF Receivable
        <4>2. IsFrame(bucket)
          BY <4>1 DEF LineageInv
        <4> QED
          BY <3>1, <4>2
      <3>2. CASE u # Uid
        <4>1. IsFrame(PeerFrame)
          BY <1>2, PayloadsAreFrames DEF PeerFrame, IsEntry
        <4> QED
          BY <3>2, <4>1
      <3> QED
        BY <3>1, <3>2
    <2>4. frames = [u \in included |-> frames[u]]
      OBVIOUS
    <2> HIDE DEF frames, now
    <2> DEFINE x == CertifiedWith(now, frames)
    <2>5. /\ IsEntry(x) /\ x.cert # NoCertificate
          /\ Outer(x) = OuterApply(Outer(now), PayloadsOf(x.cert))
      BY <1>1, <1>2, <2>3, <2>4, CertifiedFollows
    <2>6. lineage' = Append(lineage, x)
      BY <2>2
    <2> HIDE DEF x
    <2> QED
      BY <1>4, <2>5, <2>6 DEF now
  <1> QED
    BY <1>3, <1>4

LEMMA LineageStep ==
  ASSUME TypeInv, LineageInv, [Next]_vars
  PROVE  LineageInv'
  <1> DEFINE Row == /\ \A i \in 1 .. Len(lineage) : IsEntry(lineage[i])
                    /\ \A w \in 0 .. HeadWindow - 1 : Follows(w)
             Buckets == bucket # NoFrame => IsFrame(bucket)
             Frames == pc = "built" => IsFrame(frame)
  <1>a. Row /\ Buckets /\ Frames
    BY DEF LineageInv
  <1>b. /\ Len(lineage) \in Nat /\ HeadWindow \in Nat /\ HeadWindow = Len(lineage) - 1
        /\ IsList(lineage)
    BY DEF TypeInv, Places, IsList, HeadWindow
  <1>c. ASSUME UNCHANGED lineage PROVE Row'
    <2>1. HeadWindow' = HeadWindow
      BY <1>c DEF HeadWindow
    <2>2. \A w : Follows(w) => Follows(w)'
      BY <1>c DEF Follows, Certified, Certificate
    <2>3. \A i \in 1 .. Len(lineage') : IsEntry((lineage')[i])
      BY <1>a, <1>c
    <2> QED
      BY <1>a, <1>c, <2>1, <2>2, <2>3
  <1>d. ASSUME UNCHANGED <<lineage, bucket, pc, frame>> PROVE Row' /\ Buckets' /\ Frames'
    BY <1>a, <1>c, <1>d
  <1>e. ASSUME UNCHANGED <<lineage, bucket>>, pc' # "built" PROVE Row' /\ Buckets' /\ Frames'
    BY <1>a, <1>c, <1>e
  <1> SUFFICES Row' /\ Buckets' /\ Frames'
    BY DEF LineageInv
  <1> HIDE DEF Buckets, Frames
  <1>1. CASE Start \/ Crash \/ LeaveWindow \/ TrainWindow \/ Join \/ Desync \/ Recover \/ Answer \/ Attest
    <2> HIDE DEF Row
    <2> QED
      BY <1>1, <1>e DEF Start, Crash, LeaveWindow, TrainWindow, Join, Desync, Recover, Answer, Attest,
                        Stop
  <1>2. CASE Train \/ Amend \/ Examine
    <2> HIDE DEF Row
    <2> QED
      BY <1>2, <1>d DEF Train, Amend, Examine, minerVars
  <1>3. CASE BuildPayload
    <2>1. /\ UNCHANGED <<lineage, bucket>> /\ pc = "training" /\ role = "miner"
          /\ \E tie \in Ties : frame' = Serialize(Evaluated(PayloadOf(Uid, window, mine, run,
                                            View(start, 0), View(model, 0), ef, tie)))
      BY <1>3 DEF BuildPayload
    <2>2. OnRanks(start) /\ world = 1
      BY <2>1 DEF TypeInv, Tensors, Places, InWindow
    <2>3. IsWhole(View(start, 0))
      BY <2>2, ViewOfOneRank
    <2>4. IsFrame(frame')
      BY <2>1, <2>3, EvaluatedIs, PayloadsAreFrames
    <2>5. Row' /\ Buckets'
      BY <1>a, <1>c, <2>1 DEF Buckets
    <2> QED
      BY <2>4, <2>5 DEF Frames, IsFrame
  <1>4. ASSUME NEW late \in BOOLEAN, Publish(late) PROVE Row' /\ Buckets' /\ Frames'
    <2>1. /\ UNCHANGED lineage /\ pc = "built" /\ pc' = "awaiting" /\ bucket' \in {bucket, frame}
      BY <1>4 DEF Publish
    <2>2. bucket' # NoFrame => IsFrame(bucket')
      BY <1>a, <2>1 DEF Buckets, Frames
    <2>3. Row'
      BY <1>c, <2>1
    <2> QED
      BY <2>1, <2>2, <2>3 DEF Buckets, Frames, IsFrame
  <1>5. CASE Certify
    <2>1. PICK x : /\ lineage' = Append(lineage, x) /\ IsEntry(x)
                   /\ Outer(x) = IF x.cert # NoCertificate
                                 THEN OuterApply(Outer(lineage[HeadWindow + 1]), PayloadsOf(x.cert))
                                 ELSE Outer(lineage[HeadWindow + 1])
      BY <1>5, CertifyAppends
    <2>2. UNCHANGED <<pc, frame, bucket>>
      BY <1>5 DEF Certify
    <2>3. /\ Len(lineage') = Len(lineage) + 1 /\ (lineage')[Len(lineage) + 1] = x
          /\ \A i \in 1 .. Len(lineage) : (lineage')[i] = lineage[i]
      BY <1>b, <2>1, ListGrows
    <2>4. \A i \in 1 .. Len(lineage') : IsEntry((lineage')[i])
      <3>1. \A i \in 1 .. Len(lineage') : i \in 1 .. Len(lineage) \/ i = Len(lineage) + 1
        BY <1>b, <2>3
      <3> QED
        BY <1>a, <2>1, <2>3, <3>1
    <2>5. HeadWindow' = HeadWindow + 1
      BY <1>b, <2>3 DEF HeadWindow
    <2>6. ASSUME NEW w \in 0 .. HeadWindow PROVE Follows(w)'
      <3>1. w + 1 \in 1 .. Len(lineage) /\ (lineage')[w + 1] = lineage[w + 1]
        BY <1>b, <2>3
      <3>2. CASE w = HeadWindow
        <4>1. w + 2 = Len(lineage) + 1 /\ (lineage')[w + 2] = x
          BY <1>b, <2>3, <3>2
        <4> QED
          BY <2>1, <3>1, <3>2, <4>1 DEF Follows, Certified, Certificate
      <3>3. CASE w # HeadWindow
        <4>1. w \in 0 .. HeadWindow - 1 /\ w + 2 \in 1 .. Len(lineage)
          BY <1>b, <3>3
        <4>2. (lineage')[w + 2] = lineage[w + 2]
          BY <2>3, <4>1
        <4>3. Follows(w)
          BY <1>a, <4>1
        <4> QED
          BY <3>1, <4>2, <4>3 DEF Follows, Certified, Certificate
      <3> QED
        BY <3>2, <3>3
    <2>7. \A w \in 0 .. HeadWindow' - 1 : Follows(w)'
      BY <1>b, <2>5, <2>6
    <2> QED
      BY <1>a, <2>2, <2>4, <2>7 DEF Buckets, Frames
  <1>6. CASE UNCHANGED vars
    <2> HIDE DEF Row
    <2> QED
      BY <1>6, <1>d DEF vars, minerVars
  <1> HIDE DEF Row
  <1> QED
    BY <1>1, <1>2, <1>3, <1>4, <1>5, <1>6 DEF Next
-----------------------------------------------------------------------------
(***************************************************************************)
(* The replica.                                                            *)
(***************************************************************************)
LEMMA AgreedStays ==
  ASSUME NEW w, (lineage')[w + 1] = lineage[w + 1], world' = world
  PROVE  Agreed(w)' = Agreed(w)
  <1>1. Ranks' = Ranks
    BY DEF Ranks
  <1>2. \A n : LocalSize(n)' = LocalSize(n)
    BY DEF LocalSize
  <1>3. \A n, r : Offset(n, r)' = Offset(n, r)
    BY <1>2 DEF Offset
  <1>4. \A p, r : LocalOf(p, r)' = LocalOf(p, r)
    BY <1>2, <1>3 DEF LocalOf
  <1> QED
    BY <1>1, <1>4 DEF Agreed

\* A miner that stands at the agreed parameters holds them whole.
LEMMA StandsAtThem ==
  ASSUME world = 1, NEW w, IsWhole(lineage[w + 1].params), model = Agreed(w)
  PROVE  model[0] = lineage[w + 1].params
  <1>1. Ranks = {0}
    BY DEF Ranks
  <1>2. model[0] = LocalOf(lineage[w + 1].params, 0)
    BY <1>1 DEF Agreed
  <1> QED
    BY <1>2, OneSlice

LEMMA PutAtThem ==
  ASSUME world = 1, OnRanks(model), NEW w, IsWhole(lineage[w + 1].params),
         model' = [model EXCEPT ![0] = lineage[w + 1].params]
  PROVE  model' = Agreed(w)
  <1>1. Ranks = {0} /\ model = [r \in Ranks |-> model[r]]
    BY DEF Ranks, OnRanks
  <1>2. model' = [r \in Ranks |-> lineage[w + 1].params]
    BY <1>1
  <1>3. LocalOf(lineage[w + 1].params, 0) = lineage[w + 1].params
    BY OneSlice
  <1>4. Agreed(w) = [r \in Ranks |-> lineage[w + 1].params]
    BY <1>1, <1>3 DEF Agreed
  <1> QED
    BY <1>2, <1>4

\* A miner's outer step over a complete gather is the step of the lineage.
LEMMA JoinFollows ==
  ASSUME NEW w \in 0 .. HeadWindow - 1, Follows(w), Certified(w),
         NEW got \in Gathers(w) \cup MirrorGathers(w)
  PROVE  OuterApply(Outer(lineage[w + 1]), got.payloads) = Outer(lineage[w + 2])
  <1>1. got.payloads = PayloadsOf(Certificate(w))
    BY GathersAgree
  <1> QED
    BY <1>1 DEF Follows

LEMMA VoidsStep ==
  ASSUME AmendsForward, TypeInv, LineageInv, VoidsUncertified, [Next]_vars
  PROVE  VoidsUncertified'
  <1>b. /\ Len(lineage) \in Nat /\ HeadWindow \in Nat /\ HeadWindow = Len(lineage) - 1
        /\ IsList(lineage)
    BY DEF TypeInv, Places, IsList, HeadWindow
  <1>1. CASE UNCHANGED <<lineage, posted>>
    <2>1. HeadWindow' = HeadWindow
      BY <1>1 DEF HeadWindow
    <2> QED
      BY <1>1, <2>1 DEF VoidsUncertified, Certified
  <1>2. CASE Certify
    <2>1. PICK x : /\ lineage' = Append(lineage, x)
                   /\ IsVoid(posted, HeadWindow) => x.cert = NoCertificate
      BY <1>2, CertifyAppends
    <2>2. posted' = posted
      BY <1>2 DEF Certify
    <2>3. /\ Len(lineage') = Len(lineage) + 1 /\ (lineage')[Len(lineage) + 1] = x
          /\ \A i \in 1 .. Len(lineage) : (lineage')[i] = lineage[i]
      BY <1>b, <2>1, ListGrows
    <2>4. HeadWindow' = HeadWindow + 1
      BY <1>b, <2>3 DEF HeadWindow
    <2>5. ASSUME NEW w \in 0 .. HeadWindow, IsVoid(posted, w) PROVE (lineage')[w + 2].cert = NoCertificate
      <3>1. CASE w = HeadWindow
        <4>1. w + 2 = Len(lineage) + 1
          BY <1>b, <3>1
        <4> QED
          BY <2>1, <2>3, <2>5, <3>1, <4>1
      <3>2. CASE w # HeadWindow
        <4>1. w \in 0 .. HeadWindow - 1 /\ w + 2 \in 1 .. Len(lineage)
          BY <1>b, <3>2
        <4> QED
          BY <2>3, <2>5, <4>1 DEF VoidsUncertified, Certified
      <3> QED
        BY <3>1, <3>2
    <2>6. \A w \in 0 .. HeadWindow' - 1 : w \in 0 .. HeadWindow
      BY <1>b, <2>4
    <2>7. NoCertificate' = NoCertificate
      BY DEF NoCertificate
    <2> QED
      BY <2>2, <2>5, <2>6, <2>7 DEF VoidsUncertified, Certified, IsVoid
  <1>3. CASE Amend
    <2>1. PICK a \in Amendments : a.effective >= HeadWindow + 2 /\ posted' = WithAmendment(posted, a)
      BY <1>3 DEF Amend
    <2>2. lineage' = lineage
      BY <1>3 DEF Amend
    <2>3. HeadWindow' = HeadWindow
      BY <2>2 DEF HeadWindow
    <2>4. posted'.voids \subseteq posted.voids \cup (IF a.kind = "void" THEN {a.range} ELSE {})
      BY <2>1, AmendmentsAreSound DEF TypeInv, Manifests
    <2>5. ASSUME NEW w \in 0 .. HeadWindow - 1, IsVoid(posted', w) PROVE IsVoid(posted, w)
      <3>1. PICK v \in posted'.voids : v.first <= w /\ w <= v.last
        BY <2>5 DEF IsVoid
      <3>2. CASE v \in posted.voids
        BY <3>1, <3>2 DEF IsVoid
      <3>3. CASE v \notin posted.voids
        <4>1. a.kind = "void" /\ v = a.range
          BY <2>4, <3>1, <3>3
        <4>2. a.effective <= v.first
          BY <4>1 DEF AmendsForward
        <4>3. a.effective \in Nat /\ v.first \in Nat
          BY <4>1, TrainingAssumption DEF SoundAmendment
        <4> QED
          BY <1>b, <2>1, <3>1, <4>2, <4>3
      <3> QED
        BY <3>2, <3>3
    <2> QED
      BY <2>2, <2>3, <2>5 DEF VoidsUncertified, Certified
  <1>4. Certify \/ Amend \/ UNCHANGED <<lineage, posted>>
    BY DEF Next, Start, Crash, LeaveWindow, TrainWindow, Train, BuildPayload, Publish, Join, Desync,
           Recover, Attest, Answer, Examine, Stop, minerVars, vars
  <1> QED
    BY <1>1, <1>2, <1>3, <1>4
LEMMA OuterHas == \A e : Outer(e).params = e.params /\ Outer(e).momentum = e.momentum
  BY DEF Outer

\* Catching up ends where the lineage does.
LEMMA CatchUpFollows ==
  ASSUME TypeInv, LineageInv, VoidsUncertified, \A w \in Missed : Certified(w),
         NEW got \in OneOfEach([w \in Missed |-> MirrorGathers(w)])
  PROVE  CaughtUp(Outer(lineage[window + 1]), got) = Outer(lineage[HeadWindow + 1])
  <1> DEFINE from == Outer(lineage[window + 1])
  <1>1. /\ window \in Nat /\ HeadWindow \in Nat /\ window <= HeadWindow
        /\ mine.voids \subseteq posted.voids
    BY DEF TypeInv, Places, Manifests, IsList, HeadWindow
  <1> HIDE DEF from
  <1>2. PICK f : /\ f[window] = from /\ CaughtUp(from, got) = f[HeadWindow]
                 /\ \A w \in window + 1 .. HeadWindow :
                      f[w] = IF w - 1 \in Missed THEN OuterApply(f[w - 1], got[w - 1].payloads)
                             ELSE f[w - 1]
    BY <1>1, CaughtUpUnfolds
  <1>3. \A w \in Missed : got[w] \in MirrorGathers(w)
    BY DEF OneOfEach
  <1> DEFINE Good(w) == f[w] = Outer(lineage[w + 1])
             Off == {k \in Nat : window + k <= HeadWindow /\ ~Good(window + k)}
  <1>4. Good(window)
    BY <1>2 DEF from
  <1>5. ASSUME NEW w \in window + 1 .. HeadWindow, Good(w - 1) PROVE Good(w)
    <2>1. w - 1 \in 0 .. HeadWindow - 1 /\ w - 1 \in window .. HeadWindow - 1
          /\ (w - 1) + 1 = w /\ (w - 1) + 2 = w + 1
      BY <1>1
    <2>2. Follows(w - 1)
      BY <2>1 DEF LineageInv
    <2>3. CASE w - 1 \in Missed
      <3>1. f[w] = OuterApply(Outer(lineage[w]), got[w - 1].payloads)
        BY <1>2, <1>5, <2>1, <2>3
      <3>2. Certified(w - 1) /\ got[w - 1] \in MirrorGathers(w - 1)
        BY <1>3, <2>3
      <3>3. OuterApply(Outer(lineage[w]), got[w - 1].payloads) = Outer(lineage[w + 1])
        BY <2>1, <2>2, <3>2, JoinFollows
      <3> QED
        BY <3>1, <3>3
    <2>4. CASE w - 1 \notin Missed
      <3>1. IsVoid(mine, w - 1)
        BY <2>1, <2>4 DEF Missed
      <3>2. IsVoid(posted, w - 1)
        BY <1>1, <3>1 DEF IsVoid
      <3>3. ~Certified(w - 1)
        BY <2>1, <3>2 DEF VoidsUncertified
      <3>4. Outer(lineage[w + 1]) = Outer(lineage[w])
        BY <2>1, <2>2, <3>3 DEF Follows
      <3> QED
        BY <1>2, <1>5, <2>1, <2>4, <3>4
    <2> QED
      BY <2>3, <2>4
  <1> HIDE DEF Good
  <1>6. Off = {}
    <2> SUFFICES ASSUME Off # {} PROVE FALSE
      OBVIOUS
    <2>1. PICK k \in Off : \A x \in Off : k <= x
      <3>1. Off \subseteq Nat
        OBVIOUS
      <3> HIDE DEF Off
      <3> QED
        BY <3>1, LeastNatural
    <2>2. k \in Nat /\ window + k <= HeadWindow /\ ~Good(window + k)
      OBVIOUS
    <2>3. window + 0 = window
      BY <1>1
    <2>4. k # 0
      BY <1>4, <2>2, <2>3
    <2>5. /\ k - 1 \in Nat /\ ~(k <= k - 1) /\ window + (k - 1) <= HeadWindow
          /\ window + k \in window + 1 .. HeadWindow /\ (window + k) - 1 = window + (k - 1)
      BY <1>1, <2>2, <2>4
    <2>6. Good(window + (k - 1))
      <3>1. k - 1 \notin Off
        <4> HIDE DEF Off
        <4> QED
          BY <2>1, <2>5
      <3> QED
        BY <2>5, <3>1
    <2> HIDE DEF Off
    <2> QED
      BY <1>5, <2>2, <2>5, <2>6
  <1>7. Good(HeadWindow)
    <2>1. HeadWindow - window \in Nat /\ window + (HeadWindow - window) = HeadWindow
      BY <1>1
    <2>2. HeadWindow - window \notin Off
      BY <1>6
    <2>3. Good(window + (HeadWindow - window))
      BY <1>1, <2>1, <2>2
    <2> QED
      BY <2>1, <2>3
  <1> QED
    BY <1>2, <1>7 DEF Good, from

\* A miner that joins the window it trained.
LEMMA JoinStands ==
  ASSUME TypeInv, LineageInv, ReplicaInv, Join
  PROVE  /\ window' = window + 1 /\ model' = Agreed(window + 1)
         /\ momentum' = lineage[window + 2].momentum /\ window \in 0 .. HeadWindow - 1
         /\ slices' \in {slices, [window |-> window, heads |-> Heads(lineage[window + 2].params)]}
  <1>1. /\ pc = "awaiting" /\ window < HeadWindow /\ Certified(window) /\ window' = window + 1
        /\ \E got \in Gathers(window) :
             LET after == OuterApply([params |-> model[0], momentum |-> momentum], got.payloads)
             IN  /\ model' = [model EXCEPT ![0] = after.params] /\ momentum' = after.momentum
                 /\ PostWindow(after.params)
    BY DEF Join
  <1>2. /\ window \in 0 .. HeadWindow - 1 /\ HeadWindow \in Nat /\ Len(lineage) = HeadWindow + 1
        /\ role = "miner" /\ world = 1
    BY <1>1 DEF TypeInv, Places, IsList, HeadWindow, InWindow
  <1>3. window + 1 \in 1 .. Len(lineage) /\ window + 2 \in 1 .. Len(lineage)
    BY <1>2
  <1>4. IsEntry(lineage[window + 1]) /\ IsEntry(lineage[window + 2]) /\ Follows(window)
    BY <1>2, <1>3 DEF LineageInv
  <1>5. momentum = lineage[window + 1].momentum /\ model = Agreed(window)
    BY <1>1, <1>2 DEF ReplicaInv, Stands
  <1>6. [params |-> model[0], momentum |-> momentum] = Outer(lineage[window + 1])
    BY <1>2, <1>4, <1>5, StandsAtThem DEF Outer, IsEntry
  <1>7. PICK got \in Gathers(window) :
             LET after == OuterApply(Outer(lineage[window + 1]), got.payloads)
             IN  /\ model' = [model EXCEPT ![0] = after.params] /\ momentum' = after.momentum
                 /\ PostWindow(after.params)
    BY <1>1, <1>6
  <1>8. OuterApply(Outer(lineage[window + 1]), got.payloads) = Outer(lineage[window + 2])
    BY <1>1, <1>2, <1>4, JoinFollows
  <1>9. /\ model' = [model EXCEPT ![0] = lineage[window + 2].params]
        /\ momentum' = lineage[window + 2].momentum
        /\ PostWindow(lineage[window + 2].params)
    BY <1>7, <1>8, OuterHas
  <1>10. (window + 1) + 1 = window + 2
    BY <1>2
  <1>11. model' = Agreed(window + 1)
    BY <1>2, <1>4, <1>9, <1>10, PutAtThem DEF IsEntry, TypeInv, Tensors
  <1>12. slices' \in {slices, [window |-> window, heads |-> Heads(lineage[window + 2].params)]}
    BY <1>9 DEF PostWindow
  <1> QED
    BY <1>1, <1>2, <1>9, <1>11, <1>12

\* And one that recovers.
LEMMA RecoverStands ==
  ASSUME TypeInv, LineageInv, ReplicaInv, Recover
  PROVE  /\ window' = HeadWindow /\ model' = Agreed(HeadWindow)
         /\ momentum' = lineage[HeadWindow + 1].momentum
  <1>1. /\ pc \in {"idle", "desync"} /\ role = "miner" /\ world = 1 /\ window' = HeadWindow
        /\ \A w \in Missed : Certified(w)
        /\ \E got \in OneOfEach(Evaluated([w \in Missed |-> MirrorGathers(w)])) :
             LET to == Evaluated(CaughtUp([params |-> model[0], momentum |-> momentum], got))
             IN  model' = [model EXCEPT ![0] = to.params] /\ momentum' = to.momentum
    BY DEF Recover
  <1>2. /\ window \in 0 .. HeadWindow /\ HeadWindow \in Nat /\ Len(lineage) = HeadWindow + 1
    BY <1>1 DEF TypeInv, Places, IsList, HeadWindow
  <1>3. IsEntry(lineage[window + 1]) /\ IsEntry(lineage[HeadWindow + 1])
    BY <1>2 DEF LineageInv
  <1>4. momentum = lineage[window + 1].momentum /\ model = Agreed(window)
    BY <1>1, <1>2 DEF ReplicaInv, Stands
  <1>5. [params |-> model[0], momentum |-> momentum] = Outer(lineage[window + 1])
    BY <1>1, <1>3, <1>4, StandsAtThem DEF Outer, IsEntry
  <1>6. PICK got \in OneOfEach([w \in Missed |-> MirrorGathers(w)]) :
             /\ model' = [model EXCEPT ![0] = CaughtUp(Outer(lineage[window + 1]), got).params]
             /\ momentum' = CaughtUp(Outer(lineage[window + 1]), got).momentum
    BY <1>1, <1>5, EvaluatedIs
  <1>7. CaughtUp(Outer(lineage[window + 1]), got) = Outer(lineage[HeadWindow + 1])
    BY <1>1, CatchUpFollows DEF ReplicaInv
  <1>8. /\ model' = [model EXCEPT ![0] = lineage[HeadWindow + 1].params]
        /\ momentum' = lineage[HeadWindow + 1].momentum
    BY <1>6, <1>7, OuterHas
  <1>9. model' = Agreed(HeadWindow)
    BY <1>1, <1>3, <1>8, PutAtThem DEF IsEntry, TypeInv, Tensors
  <1> QED
    BY <1>1, <1>8, <1>9
LEMMA StandsStep ==
  ASSUME TypeInv, LineageInv, ReplicaInv, [Next]_vars
  PROVE  Stands'
  <1>a. /\ window \in 0 .. HeadWindow /\ HeadWindow \in Nat /\ Len(lineage) = HeadWindow + 1
        /\ IsList(lineage) /\ Stands
    BY DEF TypeInv, Places, IsList, HeadWindow, ReplicaInv
  <1>w. UNCHANGED <<role, world>>
    BY WorldIsFixed DEF vars, minerVars
  \* Where the miner goes when the lineage does not move.
  <1>u. ASSUME UNCHANGED lineage, NEW w, window' = w,
               momentum' = lineage[w + 1].momentum,
               pc' # "training" => model' = Agreed(w),
               InWindow' => start' = Agreed(w)
        PROVE  Stands'
    <2>1. Agreed(w)' = Agreed(w)
      BY <1>u, <1>w, AgreedStays
    <2>2. Agreed(window)' = Agreed(w)'
      BY <1>u DEF Agreed
    <2> QED
      BY <1>u, <2>1, <2>2 DEF Stands
  <1>s. ASSUME UNCHANGED <<lineage, window, momentum, model, start, pc>> PROVE Stands'
    <2>1. CASE role = "miner" /\ pc # "stopped"
      BY <1>a, <1>s, <1>u, <1>w, <2>1 DEF Stands, InWindow
    <2>2. CASE ~(role = "miner" /\ pc # "stopped")
      BY <1>s, <1>w, <2>2 DEF Stands
    <2> QED
      BY <2>1, <2>2
  <1>1. CASE Start
    <2>1. PICK w \in 0 .. HeadWindow : /\ window' = w /\ momentum' = lineage[w + 1].momentum
                                       /\ model' = [r \in Ranks |-> LocalOf(lineage[w + 1].params, r)]
      BY <1>1 DEF Start
    <2>2. pc' = "idle" /\ lineage' = lineage
      BY <1>1 DEF Start
    <2> QED
      BY <1>u, <2>1, <2>2 DEF Agreed, InWindow
  <1>2. CASE Crash \/ LeaveWindow \/ Answer
    BY <1>2 DEF Crash, LeaveWindow, Answer, Stop, Stands
  <1>3. CASE TrainWindow
    <2>1. /\ pc = "idle" /\ pc' = "training" /\ start' = model
          /\ UNCHANGED <<lineage, window, momentum>>
      BY <1>3 DEF TrainWindow
    <2>2. role = "miner"
      BY <2>1 DEF TypeInv, Places
    <2>3. momentum = lineage[window + 1].momentum /\ model = Agreed(window)
      BY <1>a, <2>1, <2>2 DEF Stands
    <2> QED
      BY <1>u, <2>1, <2>3
  <1>4. CASE Train
    <2>1. pc = "training" /\ UNCHANGED <<lineage, window, momentum, start, pc>>
      BY <1>4 DEF Train, minerVars
    <2>2. CASE role = "miner"
      BY <1>a, <1>u, <1>w, <2>1, <2>2 DEF Stands, InWindow
    <2>3. CASE role # "miner"
      BY <1>w, <2>3 DEF Stands
    <2> QED
      BY <2>2, <2>3
  <1>5. CASE BuildPayload
    <2>1. /\ pc = "training" /\ role = "miner" /\ model' = start
          /\ UNCHANGED <<lineage, window, momentum, start>>
      BY <1>5 DEF BuildPayload
    <2>2. momentum = lineage[window + 1].momentum /\ start = Agreed(window)
      BY <1>a, <2>1 DEF Stands, InWindow
    <2> QED
      BY <1>u, <2>1, <2>2
  <1>6. ASSUME NEW late \in BOOLEAN, Publish(late) PROVE Stands'
    <2>1. /\ pc = "built" /\ pc' = "awaiting" /\ UNCHANGED <<lineage, window, momentum, start, model>>
      BY <1>6 DEF Publish, innerVars
    <2>2. role = "miner"
      BY <2>1 DEF TypeInv, Places
    <2>3. /\ momentum = lineage[window + 1].momentum /\ model = Agreed(window)
          /\ start = Agreed(window)
      BY <1>a, <2>1, <2>2 DEF Stands, InWindow
    <2> QED
      BY <1>u, <2>1, <2>3
  <1>7. CASE Join
    <2>1. /\ window' = window + 1 /\ model' = Agreed(window + 1)
          /\ momentum' = lineage[window + 2].momentum
      BY <1>7, JoinStands
    <2>2. lineage' = lineage /\ pc' = "idle"
      BY <1>7 DEF Join
    <2>3. (window + 1) + 1 = window + 2
      BY <1>a
    <2> QED
      BY <1>u, <2>1, <2>2, <2>3 DEF InWindow
  <1>8. CASE Desync
    <2>1. /\ pc = "awaiting" /\ pc' = "desync" /\ UNCHANGED <<lineage, window, momentum, model>>
      BY <1>8 DEF Desync
    <2>2. role = "miner"
      BY <2>1 DEF TypeInv, Places
    <2>3. momentum = lineage[window + 1].momentum /\ model = Agreed(window)
      BY <1>a, <2>1, <2>2 DEF Stands
    <2> QED
      BY <1>u, <2>1, <2>3 DEF InWindow
  <1>9. CASE Recover
    <2>1. /\ window' = HeadWindow /\ model' = Agreed(HeadWindow)
          /\ momentum' = lineage[HeadWindow + 1].momentum
      BY <1>9, RecoverStands
    <2>2. lineage' = lineage /\ pc' = "idle"
      BY <1>9 DEF Recover
    <2> QED
      BY <1>u, <2>1, <2>2 DEF InWindow
  <1>10. CASE Certify
    <2>1. PICK x : lineage' = Append(lineage, x)
      BY <1>10, CertifyAppends
    <2>2. UNCHANGED <<window, momentum, model, start, pc>>
      BY <1>10 DEF Certify, innerVars
    <2>3. (lineage')[window + 1] = lineage[window + 1]
      BY <1>a, <2>1, ListGrows
    <2>4. Agreed(window)' = Agreed(window)
      <3>1. \A v : (lineage')[v + 1] = lineage[v + 1] => Agreed(v)' = Agreed(v)
        BY <1>w, AgreedStays
      <3> QED
        BY <2>2, <2>3, <3>1 DEF Agreed
    <2> QED
      BY <1>a, <1>w, <2>2, <2>3, <2>4 DEF Stands, InWindow
  <1>11. CASE Amend \/ Examine \/ UNCHANGED vars
    BY <1>11, <1>s DEF Amend, Examine, innerVars, minerVars, vars
  <1>12. CASE Attest
    <2>1. role = "attest"
      BY <1>12 DEF Attest
    <2> QED
      BY <1>w, <2>1 DEF Stands
  <1> QED
    BY <1>1, <1>2, <1>3, <1>4, <1>5, <1>6, <1>7, <1>8, <1>9, <1>10, <1>11, <1>12 DEF Next

LEMMA SlicesStep ==
  ASSUME TypeInv, LineageInv, ReplicaInv, [Next]_vars
  PROVE  SlicesAreTrue'
  <1>a. /\ HeadWindow \in Nat /\ Len(lineage) = HeadWindow + 1
        /\ IsList(lineage) /\ SlicesAreTrue
    BY DEF TypeInv, Places, IsList, HeadWindow, ReplicaInv
  <1>1. CASE UNCHANGED <<slices, lineage>>
    BY <1>a, <1>1 DEF SlicesAreTrue, HeadWindow, Heads
  <1>2. CASE Certify
    <2>1. PICK x : lineage' = Append(lineage, x)
      BY <1>2, CertifyAppends
    <2>2. slices' = slices
      BY <1>2 DEF Certify
    <2>3. /\ Len(lineage') = Len(lineage) + 1
          /\ \A i \in 1 .. Len(lineage) : (lineage')[i] = lineage[i]
      BY <1>a, <2>1, ListGrows
    <2>4. HeadWindow' = HeadWindow + 1
      BY <1>a, <2>3 DEF HeadWindow
    <2>5. CASE slices # NoSlices
      <3>1. /\ slices.window \in 0 .. HeadWindow - 1
            /\ slices.heads = Heads(lineage[slices.window + 2].params)
        BY <1>a, <2>5 DEF SlicesAreTrue
      <3>2. /\ slices.window + 2 \in 1 .. Len(lineage)
            /\ slices.window \in 0 .. HeadWindow' - 1
        BY <1>a, <2>4, <3>1
      <3>3. (lineage')[slices.window + 2] = lineage[slices.window + 2]
        BY <2>3, <3>2
      <3> QED
        BY <2>2, <3>1, <3>2, <3>3 DEF SlicesAreTrue, Heads
    <2>6. CASE slices = NoSlices
      BY <2>2, <2>6 DEF SlicesAreTrue, NoSlices
    <2> QED
      BY <2>5, <2>6
  <1>3. CASE Join
    <2> DEFINE new == [window |-> window, heads |-> Heads(lineage[window + 2].params)]
    <2>1. window \in 0 .. HeadWindow - 1 /\ slices' \in {slices, new}
      BY <1>3, JoinStands
    <2>2. lineage' = lineage
      BY <1>3 DEF Join
    <2>3. CASE slices' = slices
      BY <1>1, <2>2, <2>3
    <2>4. CASE slices' = new
      <3>1. slices'.window = window /\ slices'.heads = Heads(lineage[window + 2].params)
        BY <2>4
      <3> HIDE DEF new
      <3> QED
        BY <2>1, <2>2, <3>1 DEF SlicesAreTrue, HeadWindow, Heads
    <2> QED
      BY <2>1, <2>3, <2>4
  <1>4. Certify \/ Join \/ UNCHANGED <<slices, lineage>>
    BY DEF Next, Start, Crash, LeaveWindow, TrainWindow, Train, BuildPayload, Publish, Desync,
           Recover, Attest, Answer, Examine, Amend, Stop, minerVars, vars
  <1> QED
    BY <1>1, <1>2, <1>3, <1>4

LEMMA InitIsAgreed == Init => ReplicaInv
  <1> SUFFICES ASSUME Init PROVE ReplicaInv
    OBVIOUS
  <1>1. lineage = <<Genesis>> /\ slices = NoSlices /\ pc = "stopped"
    BY DEF Init
  <1>2. HeadWindow = 0
    <2> HIDE DEF Genesis
    <2> QED
      BY <1>1 DEF HeadWindow
  <1> QED
    BY <1>1, <1>2 DEF ReplicaInv, VoidsUncertified, Stands, SlicesAreTrue

LEMMA LockstepFollows == TypeInv /\ LineageInv /\ ReplicaInv => RanksInLockstep
  <1> SUFFICES ASSUME TypeInv, LineageInv, ReplicaInv PROVE RanksInLockstep
    OBVIOUS
  <1>1. progress.stage \in {"rest", "micro", "done"} =>
          \A q, r \in Ranks : \A n \in Shared \cup BiasNames : model[q][n] = model[r][n]
    BY DEF TypeInv, Tensors, SameOnRanks
  <1>a. /\ window \in 0 .. HeadWindow /\ HeadWindow \in Nat /\ Len(lineage) = HeadWindow + 1
    BY DEF TypeInv, Places, IsList, HeadWindow
  <1>2. ASSUME pc \in {"idle", "built", "awaiting", "desync"}, role = "miner"
        PROVE  /\ View(model, 0) = lineage[window + 1].params
               /\ momentum = lineage[window + 1].momentum
    <2>1. model = Agreed(window) /\ momentum = lineage[window + 1].momentum
      BY <1>2 DEF ReplicaInv, Stands
    <2>2. IsWhole(lineage[window + 1].params)
      BY <1>a DEF LineageInv, IsEntry
    <2>3. /\ world \in Nat \ {0} /\ 0 \in Ranks
          /\ \A n \in ExpertNames : Product(Shapes[n]) % world = 0
      BY WorldFacts DEF TypeInv
    <2>4. View(Agreed(window), 0) = lineage[window + 1].params
      BY <2>2, <2>3, ViewOfSlices DEF Agreed
    <2> QED
      BY <2>1, <2>4
  <1>3. slices # NoSlices => Divergent(lineage[slices.window + 2].params, slices.heads) = {}
    BY DEF ReplicaInv, SlicesAreTrue, Divergent
  <1> QED
    BY <1>1, <1>2, <1>3 DEF RanksInLockstep

\* A miner never drifts: whatever it trained, published, missed, skipped or
\* caught up with, after any crash, it stands at the parameters and the momentum
\* of the lineage; and between two inner steps its ranks hold the same model.
\* For every model, schedule, gather and mirror, where the owner only voids
\* windows that are still to come.
THEOREM RanksStayInLockstep ==
  ASSUME AmendsForward
  PROVE  Spec => []RanksInLockstep
  <1> DEFINE IInv == TypeInv /\ LineageInv /\ ReplicaInv
  <1>1. Init => IInv
    BY InitIsTyped, InitIsALineage, InitIsAgreed
  <1>2. IInv /\ [Next]_vars => IInv'
    <2> SUFFICES ASSUME IInv, [Next]_vars PROVE IInv'
      OBVIOUS
    <2>1. TypeInv' /\ LineageInv'
      BY TypeInvStep, LineageStep
    <2>2. VoidsUncertified' /\ Stands' /\ SlicesAreTrue'
      BY VoidsStep, StandsStep, SlicesStep DEF ReplicaInv
    <2> QED
      BY <2>1, <2>2 DEF ReplicaInv
  <1>3. IInv => RanksInLockstep
    BY LockstepFollows
  <1> QED
    BY <1>1, <1>2, <1>3, PTL DEF Spec
-----------------------------------------------------------------------------
(***************************************************************************)
(* The counters.                                                           *)
(***************************************************************************)
\* What the inner loop has counted at the end of a window is what the consensus
\* counts for it.
LEMMA JoinCounts ==
  ASSUME TypeInv, ReplicaInv, Counting, Join
  PROVE  run' = RunStateAt(mine, window + 1, protocol)
  <1>1. /\ pc = "awaiting" /\ Certified(window) /\ window < HeadWindow
        /\ run' = [step |-> run.step + 1, tokens |-> progress.tokens,
                   inner |-> run.inner + ResolvePhase(mine, window).steps]
    BY DEF Join
  <1>2. /\ role = "miner" /\ window \in 0 .. HeadWindow /\ HeadWindow \in Nat /\ protocol \in Nat
        /\ SoundManifest(mine) /\ mine.voids \subseteq posted.voids /\ run.tokens \in Nat
    BY <1>1, WorldFacts DEF TypeInv, Places, Manifests, IsList, HeadWindow, Runs
  <1>3. InWindow
    BY <1>1, <1>2 DEF InWindow
  <1>4. ~IsVoid(mine, window)
    <2>1. window \in 0 .. HeadWindow - 1
      BY <1>1, <1>2
    <2>2. ~IsVoid(posted, window)
      BY <1>1, <2>1 DEF ReplicaInv, VoidsUncertified
    <2> QED
      BY <1>2, <2>2 DEF IsVoid
  <1> DEFINE phase == ResolvePhase(mine, window)
  <1>5. phase.steps \in Nat /\ phase.accum \in Nat /\ phase.microbatch \in Nat
    BY <1>2, PhaseKnobs
  <1>6. /\ run = RunStateAt(mine, window, protocol)
        /\ progress.step = phase.steps
        /\ progress.tokens = TokenCount(phase, run.tokens, protocol)[progress.step]
    BY <1>1, <1>2, <1>3 DEF Counting, Carried, CountedSoFar
  <1> HIDE DEF phase
  <1>7. progress.tokens = TokensAfter(phase, run.tokens, protocol)
    BY <1>2, <1>5, <1>6, TokenCountIs
  <1>8. RunAfter(mine, window, protocol, run) = run'
    BY <1>1, <1>4, <1>7 DEF RunAfter, phase
  <1>9. RunStateAt(mine, window + 1, protocol)
          = RunAfter(mine, window, protocol, RunStateAt(mine, window, protocol))
    BY <1>2, RunStateUnfolds
  <1> QED
    BY <1>6, <1>8, <1>9

LEMMA CarriedStep ==
  ASSUME TypeInv, ReplicaInv, Counting, [Next]_vars
  PROVE  Carried'
  <1>w. UNCHANGED <<role, world, protocol>>
    BY WorldIsFixed DEF vars, minerVars
  <1>u. ASSUME UNCHANGED <<mine, window, run>>, pc' # "stopped" => pc # "stopped" PROVE Carried'
    BY <1>u, <1>w DEF Counting, Carried
  <1>1. CASE Start
    BY <1>1, <1>w DEF Start, Carried
  <1>2. CASE Crash \/ LeaveWindow \/ Answer
    BY <1>2 DEF Crash, LeaveWindow, Answer, Stop, Carried
  <1>3. CASE Join
    <2>1. run' = RunStateAt(mine, window + 1, protocol)
      BY <1>3, JoinCounts
    <2>2. window' = window + 1 /\ mine' = mine
      BY <1>3 DEF Join
    <2> QED
      BY <1>w, <2>1, <2>2 DEF Carried
  <1>4. CASE Recover
    BY <1>4, <1>w DEF Recover, Carried
  <1>5. CASE Attest
    BY <1>5, <1>w DEF Attest, Carried
  <1>6. CASE \/ TrainWindow \/ Train \/ BuildPayload \/ Desync \/ Certify \/ Amend \/ Examine
             \/ UNCHANGED vars
    BY <1>6, <1>u DEF TrainWindow, Train, BuildPayload, Desync, Certify, Amend, Examine, minerVars, vars
  <1>7. ASSUME NEW late \in BOOLEAN, Publish(late) PROVE Carried'
    BY <1>7, <1>u DEF Publish
  <1> QED
    BY <1>1, <1>2, <1>3, <1>4, <1>5, <1>6, <1>7 DEF Next

LEMMA CountedStep ==
  ASSUME CountsItsRanks, TypeInv, Counting, [Next]_vars
  PROVE  CountedSoFar'
  <1>w. UNCHANGED <<role, world, protocol>>
    BY WorldIsFixed DEF vars, minerVars
  <1>a. /\ run.tokens \in Nat /\ SoundManifest(mine) /\ CountedSoFar
        /\ progress = [stage |-> progress.stage, step |-> progress.step, micro |-> progress.micro,
                       tokens |-> progress.tokens]
        /\ progress.stage \in {"rest", "micro", "reduce", "bucket", "done"}
        /\ InWindow => /\ task.manifest = mine /\ task.window = window /\ progress.tokens \in Nat
                       /\ world = 1
        /\ pc \notin {"stopped", "training"} => role = "miner"
        /\ protocol \in Nat
    BY WorldFacts DEF TypeInv, Places, Manifests, Tasks, Runs, Counting
  <1> DEFINE phase == ResolvePhase(mine, window)
  <1>b. /\ phase.steps \in Nat \ {0} /\ phase.accum \in Nat /\ phase.microbatch \in Nat
    BY <1>a, PhaseKnobs
  <1>c. ASSUME InWindow PROVE protocol = 1 /\ world = 1 /\ Phase = phase
    <2>1. role = "miner" /\ world = 1
      BY <1>a, <1>c DEF InWindow
    <2>2. protocol = 1
      BY <2>1 DEF CountsItsRanks, TypeInv, Places
    <2> QED
      BY <1>a, <1>c, <2>1, <2>2 DEF Phase
  <1>i. InWindow =>
          /\ progress.step \in 0 .. phase.steps
          /\ progress.stage \in {"micro", "reduce", "bucket"} => progress.step < phase.steps
          /\ (progress.stage = "done" \/ pc # "training") => progress.step = phase.steps
          /\ progress.stage # "rest"
          /\ progress.tokens = TokenCount(phase, run.tokens, protocol)[progress.step]
    BY <1>a DEF CountedSoFar
  \* What has to hold afterwards, where the window goes on.
  <1>g. ASSUME UNCHANGED <<mine, window, run>>,
               InWindow' =>
                 /\ progress'.step \in 0 .. phase.steps
                 /\ progress'.stage \in {"micro", "reduce", "bucket"} => progress'.step < phase.steps
                 /\ (progress'.stage = "done" \/ pc' # "training") => progress'.step = phase.steps
                 /\ progress'.stage # "rest"
                 /\ progress'.tokens = TokenCount(phase, run.tokens, protocol)[progress'.step]
        PROVE  CountedSoFar'
    <2>1. TokenCount(phase, run.tokens, protocol)' = TokenCount(phase, run.tokens, protocol)
      BY <1>g, <1>w
    <2> HIDE DEF phase
    <2>2. phase' = phase
      BY <1>g DEF phase
    <2> QED
      BY <1>g, <2>1, <2>2 DEF CountedSoFar, phase
  <1> HIDE DEF phase
  <1>u. ASSUME UNCHANGED <<mine, window, run, progress>>,
               InWindow' => InWindow /\ (pc' # "training" => pc # "training" \/ progress.stage = "done")
        PROVE  CountedSoFar'
    BY <1>g, <1>i, <1>u
  <1>1. CASE Start \/ Crash \/ LeaveWindow \/ Answer \/ Join \/ Desync \/ Recover
    <2>1. pc' \in {"idle", "stopped", "desync"}
      BY <1>1 DEF Start, Crash, LeaveWindow, Answer, Join, Desync, Recover, Stop
    <2>2. ~InWindow'
      BY <2>1 DEF InWindow
    <2> QED
      BY <2>2 DEF CountedSoFar
  <1>2. CASE Attest
    <2>1. ~InWindow'
      BY <1>2, <1>w DEF Attest, InWindow
    <2> QED
      BY <2>1 DEF CountedSoFar
  <1>3. CASE TrainWindow
    <2>1. /\ progress' = [stage |-> "micro", step |-> 0, micro |-> 0, tokens |-> run.tokens]
          /\ UNCHANGED <<mine, window, run>> /\ pc' = "training"
      BY <1>3 DEF TrainWindow, BeginWindow, BeginTask
    <2>2. TokenCount(phase, run.tokens, protocol)[0] = run.tokens
      BY <1>a, <1>b, TokenCountIs
    <2>3. /\ progress'.stage = "micro" /\ progress'.step = 0 /\ progress'.tokens = run.tokens
      BY <2>1
    <2>4. 0 \in 0 .. phase.steps /\ 0 < phase.steps
      BY <1>b
    <2> QED
      BY <1>g, <2>1, <2>2, <2>3, <2>4
  <1>4. CASE Train
    <2>1. /\ InnerStep /\ pc = "training" /\ UNCHANGED <<role, pc, mine, window, run>>
      BY <1>4 DEF Train, minerVars
    <2>2. InWindow' = InWindow
      BY <2>1 DEF InWindow
    <2>3. CASE Microbatch
      <3>1. /\ progress.stage = "micro"
            /\ progress' = [progress EXCEPT !.micro = @ + 1,
                              !.stage = IF progress.micro + 1 = Accum THEN "reduce" ELSE @]
        BY <2>3 DEF Microbatch
      <3>2. /\ progress'.stage \in {"micro", "reduce"} /\ progress'.step = progress.step
            /\ progress'.tokens = progress.tokens
        BY <1>a, <3>1
      <3> QED
        BY <1>g, <1>i, <2>1, <2>2, <3>1, <3>2
    <2>4. CASE Reduce
      <3>1. progress.stage = "reduce" /\ progress' = [progress EXCEPT !.stage = "bucket"]
        BY <2>4 DEF Reduce
      <3>2. /\ progress'.stage = "bucket" /\ progress'.step = progress.step
            /\ progress'.tokens = progress.tokens
        BY <1>a, <3>1
      <3> QED
        BY <1>g, <1>i, <2>1, <2>2, <3>1, <3>2
    <2>5. CASE \E r \in Ranks : StepBucket(r)
      <3>1. progress' = progress
        BY <2>5 DEF StepBucket
      <3> QED
        BY <1>u, <2>1, <2>2, <3>1
    <2>6. CASE FinishStep
      <3>1. /\ progress.stage = "bucket"
            /\ progress' = [stage |-> IF progress.step + 1 < Phase.steps THEN "micro" ELSE "done",
                            step |-> progress.step + 1, micro |-> 0, tokens |-> TokensCounted]
        BY <2>6 DEF FinishStep
      <3>2. ASSUME InWindow
            PROVE  /\ progress'.step \in 0 .. phase.steps
                   /\ progress'.stage \in {"micro", "reduce", "bucket"} => progress'.step < phase.steps
                   /\ progress'.stage = "done" => progress'.step = phase.steps
                   /\ progress'.stage # "rest"
                   /\ progress'.tokens = TokenCount(phase, run.tokens, protocol)[progress'.step]
        <4> DEFINE s == progress.step  T == TokenCount(phase, run.tokens, protocol)
        <4>1. /\ protocol = world /\ Phase = phase /\ s \in 0 .. phase.steps /\ s < phase.steps
              /\ progress.tokens = T[s]
          BY <1>c, <1>i, <3>1, <3>2
        <4>2. s + 1 \in 1 .. phase.steps /\ (s + 1) - 1 = s
          BY <1>b, <4>1
        <4>3. \A k \in 1 .. phase.steps : T[k] = T[k - 1] + StepTokens(phase, T[k - 1], protocol)
          BY <1>a, <1>b, TokenCountIs
        <4> HIDE DEF T
        <4>4. T[s + 1] = T[s] + StepTokens(phase, T[s], protocol)
          BY <4>2, <4>3
        <4>5. TokensCounted = T[s] + StepTokens(phase, T[s], protocol)
          BY <4>1 DEF TokensCounted, StepTokens, Accum
        <4>6. /\ progress'.step = s + 1 /\ progress'.tokens = T[s + 1]
              /\ progress'.stage = IF s + 1 < phase.steps THEN "micro" ELSE "done"
          BY <3>1, <4>1, <4>4, <4>5
        <4> HIDE DEF s
        <4>7. s + 1 < phase.steps \/ s + 1 = phase.steps
          BY <1>b, <4>2
        <4>8. s + 1 \in 0 .. phase.steps
          BY <4>2
        <4> QED
          BY <4>6, <4>7, <4>8 DEF T
      <3> QED
        BY <1>g, <2>1, <2>2, <3>2
    <2> QED
      BY <2>1, <2>3, <2>4, <2>5, <2>6 DEF InnerStep
  <1>5. CASE BuildPayload
    <2>1. /\ UNCHANGED <<mine, window, run, progress>> /\ pc = "training" /\ role = "miner"
          /\ progress.stage = "done"
      BY <1>5 DEF BuildPayload
    <2> QED
      BY <1>u, <2>1 DEF InWindow
  <1>6. ASSUME NEW late \in BOOLEAN, Publish(late) PROVE CountedSoFar'
    <2>1. /\ UNCHANGED <<mine, window, run, progress>> /\ pc = "built" /\ pc' = "awaiting"
      BY <1>6 DEF Publish, innerVars
    <2> QED
      BY <1>a, <1>u, <2>1 DEF InWindow
  <1>7. CASE Certify \/ Amend \/ Examine \/ UNCHANGED vars
    <2>1. UNCHANGED <<mine, window, run, progress, pc>>
      BY <1>7 DEF Certify, Amend, Examine, innerVars, minerVars, vars
    <2> QED
      BY <1>u, <1>w, <2>1 DEF InWindow
  <1> QED
    BY <1>1, <1>2, <1>3, <1>4, <1>5, <1>6, <1>7 DEF Next

\* The counters a miner carries from window to window are the ones the manifest
\* alone determines, whatever it trained, missed or restarted from: they need
\* that a miner of one rank counts the tokens of one.
THEOREM CountersHold ==
  ASSUME AmendsForward, CountsItsRanks
  PROVE  Spec => []CountersAreConsensus
  <1> DEFINE IInv == TypeInv /\ LineageInv /\ ReplicaInv /\ Counting
  <1>1. Init => IInv
    <2>1. Init => Counting
      BY DEF Init, Counting, Carried, CountedSoFar, InWindow
    <2> QED
      BY <2>1, InitIsTyped, InitIsALineage, InitIsAgreed
  <1>2. IInv /\ [Next]_vars => IInv'
    <2> SUFFICES ASSUME IInv, [Next]_vars PROVE IInv'
      OBVIOUS
    <2>1. TypeInv' /\ LineageInv'
      BY TypeInvStep, LineageStep
    <2>2. VoidsUncertified' /\ Stands' /\ SlicesAreTrue'
      BY VoidsStep, StandsStep, SlicesStep DEF ReplicaInv
    <2>3. Carried' /\ CountedSoFar'
      BY CarriedStep, CountedStep
    <2> QED
      BY <2>1, <2>2, <2>3 DEF ReplicaInv, Counting
  <1>3. IInv => CountersAreConsensus
    BY DEF Counting, Carried, CountersAreConsensus
  <1> QED
    BY <1>1, <1>2, <1>3, PTL DEF Spec
(* Quotient and remainder. *)
LEMMA DivMod ==
  ASSUME NEW n \in Nat, NEW d \in Nat \ {0}
  PROVE  n \div d \in Nat /\ n % d \in 0 .. d - 1 /\ n = (n \div d) * d + (n % d)
  <1>1. d \in Int /\ d > 0
    OBVIOUS
  <1>2. n = (n \div d) * d + (n % d) /\ n \div d \in Nat /\ n % d \in 0 .. d - 1
    BY <1>1, SMTT(30)
  <1> QED
    BY <1>2

LEMMA DivIs ==
  ASSUME NEW d \in Nat \ {0}, NEW q \in Nat, NEW r \in 0 .. d - 1
  PROVE  /\ q * d + r \in Nat
         /\ (q * d + r) \div d = q /\ (q * d + r) % d = r
  <1>1. q * d + r \in Nat
    OBVIOUS
  <1> DEFINE n == q * d + r
  <1>2. /\ n \div d \in Nat /\ n % d \in 0 .. d - 1 /\ n = (n \div d) * d + (n % d)
    BY <1>1, DivMod
  <1>3. n = q * d + r
    OBVIOUS
  <1> HIDE DEF n
  <1>4. ASSUME NEW a \in Nat, NEW b \in Nat, NEW x \in 0 .. d - 1, NEW y \in 0 .. d - 1,
               a * d + x = b * d + y
        PROVE  a = b /\ x = y
    <2>1. ASSUME NEW u \in Nat, NEW v \in Nat, NEW s \in 0 .. d - 1, NEW t \in 0 .. d - 1,
                 u < v, u * d + s = v * d + t
          PROVE  FALSE
      <3>1. (u + 1) * d <= v * d
        BY <2>1
      <3>2. (u + 1) * d = u * d + d
        OBVIOUS
      <3> QED
        BY <2>1, <3>1, <3>2
    <2>2. a = b
      BY <1>4, <2>1
    <2> QED
      BY <1>4, <2>2
  <1>5. n \div d = q /\ n % d = r
    BY <1>2, <1>3, <1>4
  <1> QED
    BY <1>1, <1>5 DEF n

(* An index below a product lies in one of its blocks. *)
LEMMA BelowProduct ==
  ASSUME NEW d \in Nat \ {0}, NEW m \in Nat, NEW n \in Nat, n < m * d
  PROVE  n \div d < m
  <1>1. /\ n \div d \in Nat /\ n % d \in 0 .. d - 1 /\ n = (n \div d) * d + (n % d)
    BY DivMod
  <1>2. ASSUME n \div d >= m PROVE FALSE
    <2>1. m * d <= (n \div d) * d
      BY <1>1, <1>2
    <2> QED
      BY <1>1, <2>1
  <1> QED
    BY <1>1, <1>2

LEMMA InProduct ==
  ASSUME NEW d \in Nat \ {0}, NEW m \in Nat, NEW q \in Nat, q < m, NEW r \in 0 .. d - 1
  PROVE  q * d + r < m * d /\ q * d + r \in Nat
  <1>1. (q + 1) * d <= m * d
    OBVIOUS
  <1>2. (q + 1) * d = q * d + d
    OBVIOUS
  <1>3. q * d \in Nat /\ m * d \in Nat
    OBVIOUS
  <1> QED
    BY <1>1, <1>2, <1>3

(* Enough blocks for n entries. *)
LEMMA BlocksHold ==
  ASSUME NEW d \in Nat \ {0}, NEW n \in Nat
  PROVE  /\ Blocks(n, d) \in Nat /\ n <= Blocks(n, d) * d
         /\ \A i \in Nat : i < n => i \div d < Blocks(n, d)
         /\ n >= 1 => Blocks(n, d) >= 1
  <1> DEFINE b == Blocks(n, d)
  <1>1. b = (n + d - 1) \div d
    BY DEF Blocks
  <1>2. n + d - 1 \in Nat
    OBVIOUS
  <1>3. b \in Nat /\ (n + d - 1) % d \in 0 .. d - 1 /\ n + d - 1 = b * d + ((n + d - 1) % d)
    BY <1>1, <1>2, DivMod
  <1> HIDE DEF b
  <1>4. n <= b * d
    BY <1>3
  <1>5. \A i \in Nat : i < n => i \div d < b
    <2> TAKE i \in Nat
    <2> HAVE i < n
    <2>1. i < b * d
      <3>1. b * d \in Nat
        BY <1>3
      <3> QED
        BY <1>4, <3>1
    <2> QED
      BY <1>3, <2>1, BelowProduct
  <1>6. ASSUME n >= 1 PROVE b >= 1
    <2>1. b = 0 => b * d = 0
      BY <1>3
    <2> QED
      BY <1>3, <1>4, <1>6, <2>1
  <1> QED
    BY <1>3, <1>4, <1>5, <1>6 DEF b

-----------------------------------------------------------------------------
(* Packing: two indices in three bytes. *)
Index12 == 0 .. 4095

Byte1(x)    == x % 256
Byte2(x, y) == (x \div 256) + (16 * (y % 16))
Byte3(y)    == y \div 16

Index1(b1, b2) == b1 + (256 * (b2 % 16))
Index2(b2, b3) == (b2 \div 16) + (16 * b3)

LEMMA TwoIndices ==
  ASSUME NEW x \in Index12, NEW y \in Index12
  PROVE  /\ Index1(Byte1(x), Byte2(x, y)) = x
         /\ Index2(Byte2(x, y), Byte3(y)) = y
         /\ Byte2(x, 0) < 16
  <1>1. (x % 256) + (256 * (((x \div 256) + (16 * (y % 16))) % 16)) = x
    BY DEF Index12
  <1>2. (((x \div 256) + (16 * (y % 16))) \div 16) + (16 * (y \div 16)) = y
    BY DEF Index12
  <1>3. (x \div 256) + (16 * (0 % 16)) < 16
    BY DEF Index12
  <1> QED
    BY <1>1, <1>2, <1>3, Zenon DEF Index1, Index2, Byte1, Byte2, Byte3

LEMMA ThreeBytes ==
  ASSUME NEW h \in Nat
  PROVE  /\ ((3 * h) + 1 - 1) \div 3 = h /\ ((3 * h) + 1 - 1) % 3 = 0
         /\ ((3 * h) + 2 - 1) \div 3 = h /\ ((3 * h) + 2 - 1) % 3 = 1
         /\ ((3 * h) + 3 - 1) \div 3 = h /\ ((3 * h) + 3 - 1) % 3 = 2
  OBVIOUS

LEMMA PlaceOfIndex ==
  ASSUME NEW n \in Nat, NEW i \in 1 .. n
  PROVE  \E h \in Nat :
           /\ h = (i - 1) \div 2 /\ (2 * h) + 1 \in 1 .. n
           /\ i % 2 = 1 => i = (2 * h) + 1
           /\ i % 2 # 1 => i = ((2 * h) + 1) + 1 /\ (2 * h) + 1 < n
           /\ (3 * h) + 1 \in 1 .. PackedBytes12(n) /\ (3 * h) + 2 \in 1 .. PackedBytes12(n)
           /\ (2 * h) + 1 < n => (3 * h) + 3 \in 1 .. PackedBytes12(n)
  <1> DEFINE h == (i - 1) \div 2
  <1>1. h \in Nat /\ (i % 2 = 1 => i = (2 * h) + 1) /\ (i % 2 # 1 => i = (2 * h) + 2)
    OBVIOUS
  <1> HIDE DEF h
  <1>2. (2 * h) + 1 <= n
    BY <1>1
  <1>3. /\ (3 * h) + 1 \in 1 .. PackedBytes12(n) /\ (3 * h) + 2 \in 1 .. PackedBytes12(n)
        /\ (2 * h) + 2 <= n => (3 * h) + 3 \in 1 .. PackedBytes12(n)
    BY <1>1, <1>2 DEF PackedBytes12
  <1> QED
    BY <1>1, <1>2, <1>3 DEF h

\* Packing keeps the indices: any list of twelve-bit indices, packed two to three
\* bytes, unpacks to itself, and an odd one leaves the high half of its last byte zero.
THEOREM Packed12 ==
  ASSUME NEW idx, IsList(idx), \A i \in 1 .. Len(idx) : idx[i] \in Index12
  PROVE  /\ IsList(Pack12(idx)) /\ Len(Pack12(idx)) = PackedBytes12(Len(idx))
         /\ Unpack12(Pack12(idx), Len(idx)) = idx
         /\ Len(idx) % 2 = 1 => Pack12(idx)[PackedBytes12(Len(idx))] < 16
  <1> DEFINE n == Len(idx)  B == PackedBytes12(n)  s == Pack12(idx)
             j(i) == IF i < n THEN idx[i + 1] ELSE 0
             byte(b) == LET i == 2 * ((b - 1) \div 3) + 1
                        IN  CASE (b - 1) % 3 = 0 -> idx[i] % 256
                              [] (b - 1) % 3 = 1 -> (idx[i] \div 256) + 16 * (j(i) % 16)
                              [] (b - 1) % 3 = 2 -> j(i) \div 16
  <1>1. n \in Nat /\ idx = [i \in 1 .. n |-> idx[i]] /\ \A i \in 1 .. n : idx[i] \in Index12
    BY DEF IsList
  <1>2. B \in Nat
    BY <1>1 DEF PackedBytes12
  <1>3. s = [b \in 1 .. B |-> byte(b)]
    BY DEF Pack12
  <1>4. Len(s) = B /\ IsList(s) /\ \A b \in 1 .. B : s[b] = byte(b)
    <2> HIDE DEF byte, B
    <2> QED
      BY <1>2, <1>3 DEF IsList
  <1> HIDE DEF s, B
  <1>5. ASSUME NEW i \in 1 .. n
        PROVE  j(i) \in Index12 /\ (i < n => j(i) = idx[i + 1]) /\ (~(i < n) => j(i) = 0)
    <2>1. 0 \in Index12
      BY DEF Index12
    <2>2. CASE i < n
      <3>1. i + 1 \in 1 .. n
        BY <1>1, <2>2
      <3> QED
        BY <1>1, <2>2, <3>1
    <2> QED
      BY <2>1, <2>2
  <1>6. ASSUME NEW h \in Nat
        PROVE  /\ (3 * h) + 1 \in 1 .. B => s[(3 * h) + 1] = Byte1(idx[(2 * h) + 1])
               /\ (3 * h) + 2 \in 1 .. B => s[(3 * h) + 2] = Byte2(idx[(2 * h) + 1], j((2 * h) + 1))
               /\ (3 * h) + 3 \in 1 .. B => s[(3 * h) + 3] = Byte3(j((2 * h) + 1))
    <2>1. /\ ((3 * h) + 1 - 1) \div 3 = h /\ ((3 * h) + 1 - 1) % 3 = 0
          /\ ((3 * h) + 2 - 1) \div 3 = h /\ ((3 * h) + 2 - 1) % 3 = 1
          /\ ((3 * h) + 3 - 1) \div 3 = h /\ ((3 * h) + 3 - 1) % 3 = 2
      BY ThreeBytes
    <2>2. /\ byte((3 * h) + 1) = Byte1(idx[(2 * h) + 1])
          /\ byte((3 * h) + 2) = Byte2(idx[(2 * h) + 1], j((2 * h) + 1))
          /\ byte((3 * h) + 3) = Byte3(j((2 * h) + 1))
      <3>1. ASSUME NEW b, NEW i, 2 * ((b - 1) \div 3) + 1 = i
            PROVE  /\ (b - 1) % 3 = 0 => byte(b) = Byte1(idx[i])
                   /\ (b - 1) % 3 = 1 => byte(b) = Byte2(idx[i], j(i))
                   /\ (b - 1) % 3 = 2 => byte(b) = Byte3(j(i))
        <4> HIDE DEF j
        <4> QED
          BY <3>1 DEF Byte1, Byte2, Byte3
      <3> HIDE DEF byte, j
      <3>2. /\ 2 * (((3 * h) + 1 - 1) \div 3) + 1 = (2 * h) + 1
            /\ 2 * (((3 * h) + 2 - 1) \div 3) + 1 = (2 * h) + 1
            /\ 2 * (((3 * h) + 3 - 1) \div 3) + 1 = (2 * h) + 1
        BY <2>1
      <3> DEFINE b1 == (3 * h) + 1  b2 == (3 * h) + 2  b3 == (3 * h) + 3  k == (2 * h) + 1
      <3>3. /\ 2 * ((b1 - 1) \div 3) + 1 = k /\ 2 * ((b2 - 1) \div 3) + 1 = k /\ 2 * ((b3 - 1) \div 3) + 1 = k
            /\ (b1 - 1) % 3 = 0 /\ (b2 - 1) % 3 = 1 /\ (b3 - 1) % 3 = 2
        BY <2>1, <3>2
      <3> HIDE DEF b1, b2, b3, k
      <3>4. byte(b1) = Byte1(idx[k]) /\ byte(b2) = Byte2(idx[k], j(k)) /\ byte(b3) = Byte3(j(k))
        BY <3>1, <3>3
      <3> QED
        BY <3>4, Zenon DEF b1, b2, b3, k
    <2> HIDE DEF byte, j
    <2> QED
      BY <1>4, <2>2
  <1> HIDE DEF byte, j, n
  <1> DEFINE at(i) == LET b == 3 * ((i - 1) \div 2)
                      IN  IF i % 2 = 1 THEN s[b + 1] + 256 * (s[b + 2] % 16)
                                       ELSE (s[b + 2] \div 16) + 16 * s[b + 3]
  <1>7. ASSUME NEW i \in 1 .. n PROVE at(i) = idx[i]
    <2>1. PICK h \in Nat : /\ h = (i - 1) \div 2 /\ (2 * h) + 1 \in 1 .. n
                           /\ i % 2 = 1 => i = (2 * h) + 1
                           /\ i % 2 # 1 => i = ((2 * h) + 1) + 1 /\ (2 * h) + 1 < n
                           /\ (3 * h) + 1 \in 1 .. B /\ (3 * h) + 2 \in 1 .. B
                           /\ (2 * h) + 1 < n => (3 * h) + 3 \in 1 .. B
      BY <1>1, PlaceOfIndex DEF B
    <2>2. /\ i % 2 = 1 => at(i) = Index1(s[(3 * h) + 1], s[(3 * h) + 2])
          /\ i % 2 # 1 => at(i) = Index2(s[(3 * h) + 2], s[(3 * h) + 3])
      BY <2>1 DEF Index1, Index2
    <2> HIDE DEF at
    <2> DEFINE k == (2 * h) + 1
    <2>3. k \in 1 .. n /\ idx[k] \in Index12 /\ j(k) \in Index12
      BY <1>1, <1>5, <2>1
    <2>4. /\ s[(3 * h) + 1] = Byte1(idx[k]) /\ s[(3 * h) + 2] = Byte2(idx[k], j(k))
          /\ k < n => s[(3 * h) + 3] = Byte3(j(k))
      BY <1>6, <2>1
    <2>5. Index1(Byte1(idx[k]), Byte2(idx[k], j(k))) = idx[k] /\ Index2(Byte2(idx[k], j(k)), Byte3(j(k))) = j(k)
      BY <2>3, TwoIndices, Zenon
    <2>6. CASE i % 2 = 1
      <3>1. i = k
        BY <2>1, <2>6
      <3> HIDE DEF k
      <3> QED
        BY <2>2, <2>4, <2>5, <2>6, <3>1
    <2>7. CASE i % 2 # 1
      <3>1. i = k + 1 /\ k < n /\ j(k) = idx[k + 1]
        BY <1>5, <2>1, <2>3, <2>7
      <3> HIDE DEF k
      <3> QED
        BY <2>2, <2>4, <2>5, <2>7, <3>1
    <2> QED
      BY <2>6, <2>7
  <1>8. Unpack12(s, n) = idx
    <2>1. Unpack12(s, n) = [i \in 1 .. n |-> at(i)]
      BY DEF Unpack12
    <2> HIDE DEF at
    <2> QED
      BY <1>1, <1>7, <2>1
  <1> HIDE DEF at
  <1>9. ASSUME n % 2 = 1 PROVE s[B] < 16
    <2>1. n \in 1 .. n
      BY <1>1, <1>9
    <2>2. (n - 1) \div 2 \in Nat /\ n = (2 * ((n - 1) \div 2)) + 1
      BY <1>1, <1>9
    <2>3. PICK h \in Nat : n = (2 * h) + 1
      BY <2>2
    <2>4. B = (3 * h) + 2 /\ (3 * h) + 2 \in 1 .. B
      BY <1>1, <2>1, <2>3 DEF B, PackedBytes12
    <2>5. s[B] = Byte2(idx[n], j(n))
      BY <1>6, <2>3, <2>4
    <2>6. j(n) = 0 /\ idx[n] \in Index12
      BY <1>1, <1>5, <2>1
    <2>7. Byte2(idx[n], 0) < 16
      BY <2>6, TwoIndices, Zenon
    <2> QED
      BY <2>5, <2>6, <2>7
  <1> QED
    BY <1>4, <1>8, <1>9 DEF s, B, n

(* Four codes in one byte. *)
Code2 == 0 .. 3

OfFour(w, x, y, z) == w + (4 * x) + (16 * y) + (64 * z)

Code(i, byte) == CASE i = 0 -> byte % 4
                   [] i = 1 -> (byte \div 4) % 4
                   [] i = 2 -> (byte \div 16) % 4
                   [] i = 3 -> byte \div 64

LEMMA FourCodes ==
  ASSUME NEW w \in Code2, NEW x \in Code2, NEW y \in Code2, NEW z \in Code2
  PROVE  /\ Code(0, OfFour(w, x, y, z)) = w /\ Code(1, OfFour(w, x, y, z)) = x
         /\ Code(2, OfFour(w, x, y, z)) = y /\ Code(3, OfFour(w, x, y, z)) = z
         /\ OfFour(w, 0, 0, 0) < 4 /\ OfFour(w, x, 0, 0) < 16 /\ OfFour(w, x, y, 0) < 64
  <1>1. /\ OfFour(w, x, y, z) % 4 = w /\ (OfFour(w, x, y, z) \div 4) % 4 = x
        /\ (OfFour(w, x, y, z) \div 16) % 4 = y /\ OfFour(w, x, y, z) \div 64 = z
        /\ OfFour(w, 0, 0, 0) < 4 /\ OfFour(w, x, 0, 0) < 16 /\ OfFour(w, x, y, 0) < 64
    BY DEF Code2, OfFour
  <1> QED
    BY <1>1 DEF Code

LEMMA PlaceOfCode ==
  ASSUME NEW n \in Nat, NEW i \in 1 .. n
  PROVE  \E b \in 1 .. PackedBytes2(n) :
           /\ b = ((i - 1) \div 4) + 1
           /\ \/ (i - 1) % 4 = 0 /\ i = 4 * b - 3
              \/ (i - 1) % 4 = 1 /\ i = 4 * b - 2
              \/ (i - 1) % 4 = 2 /\ i = 4 * b - 1
              \/ (i - 1) % 4 = 3 /\ i = 4 * b
  <1> DEFINE b == ((i - 1) \div 4) + 1
  <1>1. /\ b \in 1 .. PackedBytes2(n)
        /\ \/ (i - 1) % 4 = 0 /\ i = 4 * b - 3
           \/ (i - 1) % 4 = 1 /\ i = 4 * b - 2
           \/ (i - 1) % 4 = 2 /\ i = 4 * b - 1
           \/ (i - 1) % 4 = 3 /\ i = 4 * b
    BY DEF PackedBytes2
  <1> QED
    BY <1>1

\* Codes that do not fill their last byte.
LEMMA LastByteIs ==
  ASSUME NEW n \in Nat, n % 4 # 0
  PROVE  /\ n % 4 \in {1, 2, 3} /\ PackedBytes2(n) \in 1 .. PackedBytes2(n)
         /\ n = 4 * PackedBytes2(n) - 4 + (n % 4)
  <1> DEFINE q == n \div 4  r == n % 4
  <1>1. q \in Nat /\ r \in 1 .. 3 /\ n = 4 * q + r
    OBVIOUS
  <1>2. PackedBytes2(n) = (n + 3) \div 4
    BY DEF PackedBytes2
  <1> HIDE DEF q, r
  <1>3. (n + 3) \div 4 = q + 1
    BY <1>1
  <1>4. PackedBytes2(n) = q + 1 /\ r \in {1, 2, 3}
    BY <1>1, <1>2, <1>3
  <1> QED
    BY <1>1, <1>4 DEF r

\* Packing keeps the codes: any list of two-bit codes, packed four to a byte,
\* unpacks to itself, and the places a last byte has left are zero.
THEOREM Packed2 ==
  ASSUME NEW codes, IsList(codes), \A i \in 1 .. Len(codes) : codes[i] \in Code2
  PROVE  /\ IsList(Pack2(codes)) /\ Len(Pack2(codes)) = PackedBytes2(Len(codes))
         /\ Unpack2(Pack2(codes), Len(codes)) = codes
         /\ Len(codes) % 4 # 0 => Pack2(codes)[PackedBytes2(Len(codes))] < 4 ^ (Len(codes) % 4)
  <1> DEFINE n == Len(codes)  B == PackedBytes2(n)  s == Pack2(codes)
             code(i) == IF i <= n THEN codes[i] ELSE 0
             byte(b) == code(4 * b - 3) + 4 * code(4 * b - 2) + 16 * code(4 * b - 1) + 64 * code(4 * b)
  <1>1. n \in Nat /\ codes = [i \in 1 .. n |-> codes[i]] /\ \A i \in 1 .. n : codes[i] \in Code2
    BY DEF IsList
  <1>2. B \in Nat
    BY <1>1 DEF PackedBytes2
  <1>3. s = [b \in 1 .. B |-> byte(b)]
    BY DEF Pack2
  <1>4. Len(s) = B /\ IsList(s) /\ \A b \in 1 .. B : s[b] = byte(b)
    <2> HIDE DEF byte, B
    <2> QED
      BY <1>2, <1>3 DEF IsList
  <1> HIDE DEF s, B
  <1>5. \A i \in Nat \ {0} : code(i) \in Code2 /\ (i > n => code(i) = 0) /\ (i <= n => code(i) = codes[i])
    <2>1. 0 \in Code2
      BY DEF Code2
    <2> QED
      BY <1>1, <2>1
  <1>6. \A b \in Nat : s[b] = byte(b) => s[b] = OfFour(code(4 * b - 3), code(4 * b - 2), code(4 * b - 1), code(4 * b))
    <2> HIDE DEF code
    <2> QED
      BY DEF OfFour
  <1> HIDE DEF byte, code, n
  <1>7. \A b \in Nat \ {0} : /\ code(4 * b - 3) \in Code2 /\ code(4 * b - 2) \in Code2
                            /\ code(4 * b - 1) \in Code2 /\ code(4 * b) \in Code2
    <2>1. \A b \in Nat \ {0} : /\ 4 * b - 3 \in Nat \ {0} /\ 4 * b - 2 \in Nat \ {0}
                              /\ 4 * b - 1 \in Nat \ {0} /\ 4 * b \in Nat \ {0}
      OBVIOUS
    <2> QED
      BY <1>5, <2>1
  <1>8. ASSUME NEW b \in 1 .. B
        PROVE  /\ b \in Nat \ {0}
               /\ s[b] = OfFour(code(4 * b - 3), code(4 * b - 2), code(4 * b - 1), code(4 * b))
               /\ code(4 * b - 3) \in Code2 /\ code(4 * b - 2) \in Code2
               /\ code(4 * b - 1) \in Code2 /\ code(4 * b) \in Code2
    BY <1>2, <1>4, <1>6, <1>7
  <1> DEFINE at(i) == LET byt == s[((i - 1) \div 4) + 1]
                      IN  CASE (i - 1) % 4 = 0 -> byt % 4
                            [] (i - 1) % 4 = 1 -> (byt \div 4) % 4
                            [] (i - 1) % 4 = 2 -> (byt \div 16) % 4
                            [] (i - 1) % 4 = 3 -> byt \div 64
  <1>9. ASSUME NEW i \in 1 .. n PROVE at(i) = codes[i]
    <2>1. PICK b \in 1 .. B : /\ b = ((i - 1) \div 4) + 1
                              /\ \/ (i - 1) % 4 = 0 /\ i = 4 * b - 3
                                 \/ (i - 1) % 4 = 1 /\ i = 4 * b - 2
                                 \/ (i - 1) % 4 = 2 /\ i = 4 * b - 1
                                 \/ (i - 1) % 4 = 3 /\ i = 4 * b
      BY <1>1, PlaceOfCode DEF B
    <2>2. at(i) = Code((i - 1) % 4, s[b])
      BY <2>1 DEF Code
    <2> HIDE DEF at
    <2>3. /\ s[b] = OfFour(code(4 * b - 3), code(4 * b - 2), code(4 * b - 1), code(4 * b))
          /\ code(4 * b - 3) \in Code2 /\ code(4 * b - 2) \in Code2
          /\ code(4 * b - 1) \in Code2 /\ code(4 * b) \in Code2
      BY <1>8
    <2>4. /\ Code(0, s[b]) = code(4 * b - 3) /\ Code(1, s[b]) = code(4 * b - 2)
          /\ Code(2, s[b]) = code(4 * b - 1) /\ Code(3, s[b]) = code(4 * b)
      <3> DEFINE w == code(4 * b - 3)  x == code(4 * b - 2)  y == code(4 * b - 1)  z == code(4 * b)
      <3>1. s[b] = OfFour(w, x, y, z) /\ w \in Code2 /\ x \in Code2 /\ y \in Code2 /\ z \in Code2
        BY <2>3, Zenon
      <3> HIDE DEF w, x, y, z
      <3>2. Code(0, s[b]) = w /\ Code(1, s[b]) = x /\ Code(2, s[b]) = y /\ Code(3, s[b]) = z
        BY <3>1, FourCodes
      <3> QED
        BY <3>2, Zenon DEF w, x, y, z
    <2>5. code(i) = codes[i]
      <3>1. i \in Nat \ {0} /\ i <= n
        BY <1>1
      <3> QED
        BY <1>5, <3>1
    <2>6. at(i) = code(i)
      <3>1. CASE (i - 1) % 4 = 0 /\ i = 4 * b - 3
        BY <2>2, <2>4, <3>1, Zenon
      <3>2. CASE (i - 1) % 4 = 1 /\ i = 4 * b - 2
        BY <2>2, <2>4, <3>2, Zenon
      <3>3. CASE (i - 1) % 4 = 2 /\ i = 4 * b - 1
        BY <2>2, <2>4, <3>3, Zenon
      <3>4. CASE (i - 1) % 4 = 3 /\ i = 4 * b
        BY <2>2, <2>4, <3>4, Zenon
      <3> QED
        BY <2>1, <3>1, <3>2, <3>3, <3>4, Zenon
    <2> QED
      BY <2>5, <2>6
  <1>10. Unpack2(s, n) = codes
    <2>1. Unpack2(s, n) = [i \in 1 .. n |-> at(i)]
      BY DEF Unpack2
    <2> HIDE DEF at
    <2> QED
      BY <1>1, <1>9, <2>1
  <1> HIDE DEF at
  <1>11. ASSUME n % 4 # 0 PROVE s[B] < 4 ^ (n % 4)
    <2>1. /\ n % 4 \in {1, 2, 3} /\ B \in 1 .. B
          /\ n = 4 * B - 4 + (n % 4)
      BY <1>1, <1>11, LastByteIs DEF B
    <2>2. /\ s[B] = OfFour(code(4 * B - 3), code(4 * B - 2), code(4 * B - 1), code(4 * B))
          /\ code(4 * B - 3) \in Code2 /\ code(4 * B - 2) \in Code2 /\ code(4 * B - 1) \in Code2
      BY <1>8, <2>1
    <2>3. code(4 * B) = 0 /\ (n % 4 <= 2 => code(4 * B - 1) = 0) /\ (n % 4 <= 1 => code(4 * B - 2) = 0)
      <3>1. /\ 4 * B \in Nat \ {0} /\ 4 * B > n
            /\ 4 * B - 1 \in Nat \ {0} /\ (n % 4 <= 2 => 4 * B - 1 > n)
            /\ 4 * B - 2 \in Nat \ {0} /\ (n % 4 <= 1 => 4 * B - 2 > n)
        <4> DEFINE r == n % 4
        <4>1. r \in {1, 2, 3} /\ B \in Nat /\ B >= 1 /\ n = 4 * B - 4 + r
          BY <1>2, <2>1
        <4> HIDE DEF r
        <4> QED
          BY <4>1 DEF r
      <3> QED
        BY <1>5, <3>1
    <2>4. OfFour(code(4 * B - 3), 0, 0, 0) < 4 /\ OfFour(code(4 * B - 3), code(4 * B - 2), 0, 0) < 16
          /\ OfFour(code(4 * B - 3), code(4 * B - 2), code(4 * B - 1), 0) < 64
      BY <2>2, FourCodes, Zenon
    <2>5. 4 ^ 1 = 4 /\ 4 ^ 2 = 16 /\ 4 ^ 3 = 64
      OBVIOUS
    <2>6. CASE n % 4 = 1
      <3>1. s[B] < 4
        BY <2>2, <2>3, <2>4, <2>6
      <3>2. 4 ^ (n % 4) = 4
        BY <2>5, <2>6, Zenon
      <3> QED
        BY <3>1, <3>2
    <2>7. CASE n % 4 = 2
      <3>1. s[B] < 16
        BY <2>2, <2>3, <2>4, <2>7
      <3>2. 4 ^ (n % 4) = 16
        BY <2>5, <2>7, Zenon
      <3> QED
        BY <3>1, <3>2
    <2>8. CASE n % 4 = 3
      <3>1. s[B] < 64
        BY <2>2, <2>3, <2>4, <2>8
      <3>2. 4 ^ (n % 4) = 64
        BY <2>5, <2>8, Zenon
      <3> QED
        BY <3>1, <3>2
    <2> QED
      BY <2>1, <2>6, <2>7, <2>8
  <1> QED
    BY <1>4, <1>10, <1>11 DEF s, B, n

-----------------------------------------------------------------------------
(* Ranks in a finite order. *)
Below(S, R, x) == {y \in S : <<y, x>> \in R}

Orders(R, S) ==
    /\ \A x \in S : <<x, x>> \notin R
    /\ \A x, y \in S : x # y => <<x, y>> \in R \/ <<y, x>> \in R
    /\ \A x, y, z \in S : <<x, y>> \in R /\ <<y, z>> \in R => <<x, z>> \in R

LEMMA RanksDiffer ==
  ASSUME NEW S, IsFiniteSet(S), NEW R, Orders(R, S)
  PROVE  /\ \A x \in S : Cardinality(Below(S, R, x)) \in 0 .. Cardinality(S) - 1
         /\ \A x, y \in S : <<x, y>> \in R => Cardinality(Below(S, R, x)) < Cardinality(Below(S, R, y))
         /\ \A x, y \in S : Cardinality(Below(S, R, x)) = Cardinality(Below(S, R, y)) => x = y
  <1>1. ASSUME NEW x \in S
        PROVE  /\ IsFiniteSet(Below(S, R, x)) /\ Cardinality(Below(S, R, x)) \in Nat
               /\ Cardinality(Below(S, R, x)) < Cardinality(S) /\ Cardinality(S) \in Nat
    <2>1. Below(S, R, x) \in SUBSET S /\ x \notin Below(S, R, x)
      BY DEF Below, Orders
    <2>2. /\ IsFiniteSet(Below(S, R, x)) /\ Cardinality(Below(S, R, x)) <= Cardinality(S)
          /\ Cardinality(S) = Cardinality(Below(S, R, x)) => S = Below(S, R, x)
      BY <2>1, FS_Subset
    <2>3. Cardinality(Below(S, R, x)) \in Nat /\ Cardinality(S) \in Nat
      BY <2>2, FS_CardinalityType
    <2> QED
      BY <2>1, <2>2, <2>3
  <1>2. ASSUME NEW x \in S, NEW y \in S, <<x, y>> \in R
        PROVE  Cardinality(Below(S, R, x)) < Cardinality(Below(S, R, y))
    <2>1. Below(S, R, x) \in SUBSET Below(S, R, y) /\ x \in Below(S, R, y) /\ x \notin Below(S, R, x)
      BY <1>2 DEF Below, Orders
    <2>2. /\ Cardinality(Below(S, R, x)) <= Cardinality(Below(S, R, y))
          /\ Cardinality(Below(S, R, y)) = Cardinality(Below(S, R, x)) => Below(S, R, y) = Below(S, R, x)
      BY <1>1, <2>1, FS_Subset
    <2> QED
      BY <1>1, <2>1, <2>2
  <1>3. ASSUME NEW x \in S, NEW y \in S, Cardinality(Below(S, R, x)) = Cardinality(Below(S, R, y)), x # y
        PROVE  FALSE
    <2>1. <<x, y>> \in R \/ <<y, x>> \in R
      BY <1>3 DEF Orders
    <2> QED
      BY <1>1, <1>2, <1>3, <2>1
  <1>4. \A x \in S : Cardinality(Below(S, R, x)) \in 0 .. Cardinality(S) - 1
    BY <1>1
  <1> QED
    BY <1>2, <1>3, <1>4

LEMMA RanksFill ==
  ASSUME NEW S, IsFiniteSet(S), NEW R, Orders(R, S)
  PROVE  \A i \in 0 .. Cardinality(S) - 1 : \E x \in S : Cardinality(Below(S, R, x)) = i
  <1> DEFINE c == Cardinality(S)  T == 0 .. c - 1
             rank == [x \in S |-> Cardinality(Below(S, R, x))]
  <1>1. c \in Nat /\ IsFiniteSet(T) /\ Cardinality(T) = c
    <2>1. c \in Nat
      BY FS_CardinalityType
    <2>2. 0 \in Int /\ c - 1 \in Int
      BY <2>1
    <2>3. IsFiniteSet(0 .. c - 1) /\ Cardinality(0 .. c - 1) = IF 0 > c - 1 THEN 0 ELSE c - 1 - 0 + 1
      BY <2>2, FS_Interval
    <2> QED
      BY <2>1, <2>3
  <1>2. rank \in [S -> T] /\ \A x, y \in S : rank[x] = rank[y] => x = y
    BY RanksDiffer
  <1>3. \A x \in S : rank[x] = Cardinality(Below(S, R, x))
    OBVIOUS
  <1> HIDE DEF rank, T
  <1>4. rank \in Injection(S, T)
    BY <1>2 DEF Injection, IsInjective
  <1>5. rank \in Surjection(S, T)
    BY <1>1, <1>4, FS_Injection DEF c
  <1>6. \A i \in T : \E x \in S : rank[x] = i
    BY <1>5 DEF Surjection
  <1>7. \A i \in T : \E x \in S : Cardinality(Below(S, R, x)) = i
    BY <1>3, <1>6
  <1> QED
    BY <1>7 DEF T, c

LEMMA CountBelow ==
  ASSUME NEW S, IsFiniteSet(S), NEW R, Orders(R, S), NEW k \in 0 .. Cardinality(S)
  PROVE  /\ IsFiniteSet({x \in S : Cardinality(Below(S, R, x)) < k})
         /\ Cardinality({x \in S : Cardinality(Below(S, R, x)) < k}) = k
  <1> DEFINE rank == [x \in S |-> Cardinality(Below(S, R, x))]
             F == {x \in S : rank[x] < k}
             g == [x \in F |-> rank[x]]
  <1>1. Cardinality(S) \in Nat
    BY FS_CardinalityType
  <1>2. /\ \A x \in S : rank[x] \in 0 .. Cardinality(S) - 1
        /\ \A x, y \in S : rank[x] = rank[y] => x = y
    BY RanksDiffer
  <1>3. \A i \in 0 .. Cardinality(S) - 1 : \E x \in S : rank[x] = i
    BY RanksFill
  <1>4. F = {x \in S : Cardinality(Below(S, R, x)) < k}
    OBVIOUS
  <1> HIDE DEF rank
  <1>5. IsFiniteSet(F)
    <2>1. F \in SUBSET S
      OBVIOUS
    <2> QED
      BY <2>1, FS_Subset
  <1>6. \A x \in F : x \in S /\ rank[x] \in 0 .. k - 1 /\ g[x] = rank[x]
    BY <1>1, <1>2
  <1>7. \A i \in 0 .. k - 1 : \E x \in F : g[x] = i
    <2> TAKE i \in 0 .. k - 1
    <2>1. PICK x \in S : rank[x] = i
      BY <1>1, <1>3
    <2>2. x \in F
      BY <1>1, <2>1
    <2> QED
      BY <1>6, <2>1, <2>2
  <1>8. g \in [F -> 0 .. k - 1]
    BY <1>6
  <1> HIDE DEF F, g
  <1>9. g \in Bijection(F, 0 .. k - 1)
    BY <1>2, <1>6, <1>7, <1>8 DEF Bijection, Injection, Surjection, IsInjective
  <1>10. Cardinality(0 .. k - 1) = Cardinality(F)
    BY <1>5, <1>9, FS_Bijection DEF ExistsBijection
  <1>11. Cardinality(0 .. k - 1) = k
    <2>1. 0 \in Int /\ k - 1 \in Int
      BY <1>1
    <2>2. Cardinality(0 .. k - 1) = IF 0 > k - 1 THEN 0 ELSE k - 1 - 0 + 1
      BY <2>1, FS_Interval
    <2> QED
      BY <1>1, <2>2
  <1> QED
    BY <1>4, <1>5, <1>10, <1>11

(* A finite set of integers in ascending order. *)
LEMMA AscendingLists ==
  ASSUME NEW S, IsFiniteSet(S), S \subseteq Int
  PROVE  /\ \A i \in 1 .. Cardinality(S) : Ascending(S)[i] \in S
         /\ \A i, j \in 1 .. Cardinality(S) : i < j => Ascending(S)[i] < Ascending(S)[j]
         /\ \A x \in S : \E i \in 1 .. Cardinality(S) : Ascending(S)[i] = x
  <1> DEFINE c == Cardinality(S)  R == {p \in S \X S : p[1] < p[2]}
             of(x) == Cardinality({y \in S : y < x})
  <1>1. c \in Nat
    BY FS_CardinalityType
  <1>2. Orders(R, S)
    <2>1. \A x, y \in S : <<x, y>> \in R <=> x < y
      OBVIOUS
    <2> HIDE DEF R
    <2> QED
      BY <2>1 DEF Orders
  <1>3. \A x \in S : Below(S, R, x) = {y \in S : y < x}
    BY DEF Below
  <1>4. \A x, y \in S : x < y => <<x, y>> \in R
    OBVIOUS
  <1> HIDE DEF R
  <1>5. /\ \A x \in S : of(x) \in 0 .. c - 1
        /\ \A x, y \in S : x < y => of(x) < of(y)
        /\ \A i \in 0 .. c - 1 : \E x \in S : of(x) = i
    <2>1. \A x \in S : of(x) = Cardinality(Below(S, R, x))
      BY <1>3
    <2>2. /\ \A x \in S : Cardinality(Below(S, R, x)) \in 0 .. c - 1
          /\ \A x, y \in S : <<x, y>> \in R => Cardinality(Below(S, R, x)) < Cardinality(Below(S, R, y))
          /\ \A i \in 0 .. c - 1 : \E x \in S : Cardinality(Below(S, R, x)) = i
      <3>1. /\ \A x \in S : Cardinality(Below(S, R, x)) \in 0 .. Cardinality(S) - 1
            /\ \A x, y \in S : <<x, y>> \in R => Cardinality(Below(S, R, x)) < Cardinality(Below(S, R, y))
        BY <1>2, RanksDiffer
      <3>2. \A i \in 0 .. Cardinality(S) - 1 : \E x \in S : Cardinality(Below(S, R, x)) = i
        BY <1>2, RanksFill
      <3> QED
        BY <3>1, <3>2
    <2> HIDE DEF of, c
    <2> QED
      BY <1>4, <2>1, <2>2
  <1> HIDE DEF of
  <1>6. \A i \in 1 .. c : Ascending(S)[i] \in S /\ of(Ascending(S)[i]) = i - 1
    <2> TAKE i \in 1 .. c
    <2>1. Ascending(S)[i] = CHOOSE x \in S : of(x) = i - 1
      BY DEF Ascending, of
    <2>2. i - 1 \in 0 .. c - 1
      BY <1>1
    <2> QED
      BY <1>5, <2>1, <2>2
  <1>7. ASSUME NEW x \in S, NEW y \in S, of(x) = of(y) PROVE x = y
    BY <1>5, <1>7
  <1>8. ASSUME NEW i \in 1 .. c, NEW j \in 1 .. c, i < j PROVE Ascending(S)[i] < Ascending(S)[j]
    <2> DEFINE x == Ascending(S)[i]  y == Ascending(S)[j]
    <2>1. x \in S /\ y \in S /\ of(x) = i - 1 /\ of(y) = j - 1
      BY <1>6
    <2> HIDE DEF x, y
    <2>2. x \in Int /\ y \in Int /\ ~(y < x) /\ x # y
      BY <1>1, <1>5, <1>8, <2>1
    <2>3. x < y
      BY <2>2
    <2> QED
      BY <2>3 DEF x, y
  <1>9. ASSUME NEW x \in S PROVE \E i \in 1 .. c : Ascending(S)[i] = x
    <2>1. of(x) \in 0 .. c - 1 /\ of(x) + 1 \in 1 .. c /\ (of(x) + 1) - 1 = of(x)
      BY <1>1, <1>5
    <2>2. Ascending(S)[of(x) + 1] \in S /\ of(Ascending(S)[of(x) + 1]) = of(x)
      BY <1>6, <2>1
    <2> QED
      BY <1>7, <2>1, <2>2
  <1> QED
    BY <1>6, <1>8, <1>9

(* The positions top-k keeps of a chunk: as many as asked for. *)
LEMMA TopPositionsAre ==
  ASSUME NEW D, IsFiniteSet(D), D \subseteq Int, NEW chunk \in [D -> Int], NEW k \in 0 .. Cardinality(D), NEW tie
  PROVE  /\ TopPositions(chunk, k, tie) \subseteq D /\ IsFiniteSet(TopPositions(chunk, k, tie))
         /\ Cardinality(TopPositions(chunk, k, tie)) = k
  <1> DEFINE mag == [p \in D |-> Magnitude(chunk[p])]
             beats(q, p) == \/ mag[q] > mag[p]
                            \/ mag[q] = mag[p] /\ IF tie = "first" THEN q < p ELSE q > p
             R == {e \in D \X D : beats(e[1], e[2])}
  <1>1. mag \in [D -> Int]
    <2>1. \A p \in D : chunk[p] \in Int
      OBVIOUS
    <2> QED
      BY <2>1 DEF Magnitude
  <1>2. Orders(R, D)
    <2>1. \A q, p \in D : <<q, p>> \in R <=> beats(q, p)
      OBVIOUS
    <2>2. \A p \in D : p \in Int /\ mag[p] \in Int
      BY <1>1
    <2> HIDE DEF R, mag
    <2>3. \A x \in D : ~beats(x, x)
      BY <2>2
    <2>4. \A x, y \in D : x # y => beats(x, y) \/ beats(y, x)
      BY <2>2
    <2>5. \A x, y, z \in D : beats(x, y) /\ beats(y, z) => beats(x, z)
      BY <2>2
    <2> HIDE DEF beats
    <2> QED
      BY <2>1, <2>3, <2>4, <2>5 DEF Orders
  <1>3. TopPositions(chunk, k, tie) = {p \in D : Cardinality(Below(D, R, p)) < k}
    <2>1. DOMAIN chunk = D
      OBVIOUS
    <2>2. \A p \in D : Below(D, R, p) = {q \in D : beats(q, p)}
      BY DEF Below
    <2>3. \A p \in D : {q \in D : beats(q, p)} =
             {q \in DOMAIN chunk :
                \/ Magnitude(chunk[q]) > Magnitude(chunk[p])
                \/ /\ Magnitude(chunk[q]) = Magnitude(chunk[p])
                   /\ IF tie = "first" THEN q < p ELSE q > p}
      BY <2>1
    <2>4. TopPositions(chunk, k, tie) =
             {p \in D : Cardinality({q \in DOMAIN chunk :
                \/ Magnitude(chunk[q]) > Magnitude(chunk[p])
                \/ /\ Magnitude(chunk[q]) = Magnitude(chunk[p])
                   /\ IF tie = "first" THEN q < p ELSE q > p}) < k}
      BY <2>1 DEF TopPositions
    <2> HIDE DEF R, mag, beats
    <2> QED
      BY <2>2, <2>3, <2>4
  <1> HIDE DEF R
  <1> QED
    BY <1>2, <1>3, CountBelow

-----------------------------------------------------------------------------
(* Shapes, and the places of their entries. *)
IsShape(s) == s \in Seq(Nat \ {0}) /\ s # <<>>

LEMMA ProductSplits ==
  ASSUME NEW s, IsShape(s)
  PROVE  /\ Product(s) \in Nat \ {0}
         /\ \E q \in Nat \ {0} : Product(s) = q * s[Len(s)]
  <1> DEFINE N == Len(s)  P == Nat \ {0}
             Body(g) == [i \in 0 .. N |-> IF i = 0 THEN 1 ELSE g[i - 1] * s[i]]
             p == CHOOSE g : g = Body(g)
             step == [a \in (1 .. N) \X P |-> a[2] * s[a[1]]]
  <1>1. Product(s) = p[N]
    BY DEF Product
  <1>2. /\ N \in Nat /\ N \in Int /\ 0 \in Int /\ 0 <= N /\ 0 + 1 = 1 /\ 1 \in P /\ N \in 1 .. N /\ N - 1 \in 0 .. N
        /\ \A i \in 1 .. N : s[i] \in P
    BY DEF IsShape
  <1>3. \A i \in 1 .. N : \A x \in P : step[<<i, x>>] = x * s[i]
    OBVIOUS
  <1>4. \A x, y \in P : x * y \in P
    <2> TAKE x, y \in P
    <2>1. x * y \in Nat /\ x * 1 <= x * y
      OBVIOUS
    <2> QED
      BY <2>1
  <1> HIDE DEF step, N, P
  <1>5. Steps(step, 0, N, P)
    <2>1. \A i \in 1 .. N : \A x \in P : step[<<i, x>>] \in P
      BY <1>2, <1>3, <1>4
    <2> QED
      BY <1>2, <2>1 DEF Steps
  <1>6. PICK f \in [0 .. N -> P] : Computes(f, 0, N, 1, step)
    BY <1>2, <1>5, RecursionExists
  <1>7. f[0] = 1 /\ \A i \in 1 .. N : f[i - 1] \in P /\ f[i] = f[i - 1] * s[i]
    <2>1. \A i \in 1 .. N : i - 1 \in 0 .. N
      BY <1>2
    <2> QED
      BY <1>2, <1>3, <1>6, <2>1 DEF Computes
  <1>8. f = Body(f)
    <2>1. \A i \in 0 .. N : i # 0 => i \in 1 .. N
      BY <1>2
    <2> QED
      BY <1>7, <2>1
  <1>9. p = Body(p)
    BY <1>8
  <1> HIDE DEF p
  <1>10. p[0] = 1 /\ \A i \in 1 .. N : p[i] = p[i - 1] * s[i]
    <2>1. 0 \in 0 .. N /\ \A i \in 1 .. N : i \in 0 .. N /\ i # 0
      BY <1>2
    <2> QED
      BY <1>9, <2>1
  <1>11. ComputesIn(p, 0, N, P, 1, step)
    BY <1>2, <1>3, <1>10 DEF ComputesIn
  <1>12. \A i \in 0 .. N : p[i] = f[i]
    BY ONLY <1>2, <1>6, <1>11, RecursionUnique, f \in [0 .. N -> P]
  <1>13. p[N] \in P /\ p[N - 1] \in P /\ p[N] = p[N - 1] * s[N]
    BY <1>2, <1>10, <1>12
  <1> QED
    BY <1>1, <1>13 DEF N, P

(* The entry at a position of a chunk. *)
Row(g, c, p)  == (c \div g.across) * TargetChunk + (p \div TargetChunk)
Col(g, c, p)  == (c % g.across) * TargetChunk + (p % TargetChunk)
Flat(g, c, p) == c * g.elems + p

AnEntry(g, c, p) == Inside(g, Row(g, c, p), Col(g, c, p), Flat(g, c, p))
EntryAt(g, c, p) == IF g.grid THEN Row(g, c, p) * g.cols + Col(g, c, p) ELSE Flat(g, c, p)

LEMMA BlocksArePositive ==
  ASSUME NEW d \in Nat \ {0}, NEW n \in Nat \ {0}
  PROVE  Blocks(n, d) \in Nat \ {0} /\ n <= Blocks(n, d) * d
  <1>1. Blocks(n, d) \in Nat /\ n <= Blocks(n, d) * d /\ (n >= 1 => Blocks(n, d) >= 1)
    BY BlocksHold
  <1> QED
    BY <1>1

LEMMA BlockOf ==
  ASSUME NEW d \in Nat \ {0}, NEW n \in Nat \ {0}, NEW i \in 0 .. n - 1
  PROVE  i \div d < Blocks(n, d) /\ Blocks(n, d) \in Nat
  <1>1. Blocks(n, d) \in Nat /\ \A k \in Nat : k < n => k \div d < Blocks(n, d)
    BY BlocksHold
  <1>2. i \in Nat /\ i < n
    OBVIOUS
  <1> QED
    BY <1>1, <1>2

LEMMA GeometryIs ==
  ASSUME NEW s, IsShape(s), NEW g, g = Geometry(s)
  PROVE  /\ g.numel \in Nat \ {0} /\ g.numel = Product(s)
         /\ g.elems \in Nat \ {0} /\ g.elems = TargetChunk * TargetChunk /\ g.elems <= 4096
         /\ g.chunks \in Nat \ {0} /\ g.grid \in BOOLEAN
         /\ g.grid => /\ g.rows \in Nat \ {0} /\ g.cols \in Nat \ {0} /\ g.numel = g.rows * g.cols
                      /\ g.across = Blocks(g.cols, TargetChunk)
                      /\ g.chunks = Blocks(g.rows, TargetChunk) * g.across
         /\ ~g.grid => g.chunks = Blocks(g.numel, g.elems)
  <1> DEFINE T == TargetChunk  numel == Product(s)  cols == s[Len(s)]
  <1>1. T \in 1 .. 64
    BY CompressionAssumption
  <1>2. T * T \in Nat \ {0} /\ T * T <= 4096
    <2>1. 1 * T <= T * T /\ T * T <= 64 * T
      BY <1>1
    <2>2. T * T \in Nat
      BY <1>1
    <2> QED
      BY <1>1, <2>1, <2>2
  <1>3. numel \in Nat \ {0} /\ cols \in Nat \ {0}
    BY ProductSplits DEF IsShape
  <1>4. PICK q \in Nat \ {0} : numel = q * cols
    BY ProductSplits
  <1>5. numel \div cols = q
    <2>1. 0 \in 0 .. cols - 1 /\ numel = q * cols + 0
      BY <1>3, <1>4
    <2> QED
      BY <1>3, <2>1, DivIs
  <1>6. /\ g.numel = numel /\ g.elems = T * T /\ g.grid \in BOOLEAN
        /\ g.grid => g.rows = numel \div cols /\ g.cols = cols /\ g.across = Blocks(cols, T)
                     /\ g.chunks = Blocks(numel \div cols, T) * Blocks(cols, T)
        /\ ~g.grid => g.chunks = Blocks(numel, T * T)
    BY DEF Geometry
  <1> HIDE DEF T, numel, cols
  <1>7. Blocks(q, T) \in Nat \ {0} /\ Blocks(cols, T) \in Nat \ {0}
    BY <1>1, <1>3, BlocksArePositive
  <1>8. Blocks(numel, T * T) \in Nat \ {0}
    BY <1>2, <1>3, BlocksArePositive
  <1>9. Blocks(q, T) * Blocks(cols, T) \in Nat \ {0}
    <2>1. \A x, y \in Nat \ {0} : x * y \in Nat \ {0}
      <3> TAKE x, y \in Nat \ {0}
      <3>1. x * y \in Nat /\ x * 1 <= x * y
        OBVIOUS
      <3> QED
        BY <3>1
    <2> QED
      BY <1>7, <2>1
  <1> QED
    BY <1>2, <1>3, <1>4, <1>5, <1>6, <1>8, <1>9 DEF T, numel, cols

LEMMA TargetIs == TargetChunk \in Nat \ {0}
  BY CompressionAssumption

LEMMA ChunksHold ==
  ASSUME NEW s, IsShape(s), NEW g, g = Geometry(s)
  PROVE  g.numel <= g.chunks * g.elems
  <1>1. CASE ~g.grid
    <2>1. g.numel \in Nat \ {0} /\ g.elems \in Nat \ {0} /\ g.chunks = Blocks(g.numel, g.elems)
      BY <1>1, GeometryIs
    <2> QED
      BY <2>1, BlocksArePositive
  <1>2. CASE g.grid
    <2> DEFINE T == TargetChunk  a == Blocks(g.rows, T)  b == g.across
    <2>1. /\ T \in Nat \ {0} /\ g.rows \in Nat \ {0} /\ g.cols \in Nat \ {0} /\ g.numel = g.rows * g.cols
          /\ b = Blocks(g.cols, T) /\ g.chunks = a * b /\ g.elems = T * T
      BY <1>2, GeometryIs, TargetIs
    <2>2. a \in Nat /\ b \in Nat /\ g.rows <= a * T /\ g.cols <= b * T
      BY <2>1, BlocksHold
    <2> HIDE DEF T, a, b
    <2>3. \A x, y, u, v \in Nat : x <= u /\ y <= v => x * y <= u * v
      <3> TAKE x, y, u, v \in Nat
      <3> HAVE x <= u /\ y <= v
      <3>1. x * y <= u * y /\ u * y <= u * v
        OBVIOUS
      <3>2. x * y \in Nat /\ u * y \in Nat /\ u * v \in Nat
        OBVIOUS
      <3> QED
        BY <3>1, <3>2
    <2>4. a * T \in Nat /\ b * T \in Nat
      BY <2>1, <2>2
    <2>5. g.rows * g.cols <= (a * T) * (b * T)
      BY <2>1, <2>2, <2>3, <2>4
    <2>6. (a * T) * (b * T) = (a * b) * (T * T)
      BY <2>1, <2>2
    <2> QED
      BY <2>1, <2>5, <2>6
  <1> QED
    BY <1>1, <1>2, GeometryIs

\* Every entry of a tensor, tiled or flat, has one place in one chunk, and what is
\* at that place is the entry: chunking loses and moves nothing.
THEOREM PlacesAre ==
  ASSUME NEW s, IsShape(s), NEW g, g = Geometry(s), NEW i \in 0 .. g.numel - 1
  PROVE  \E c \in 0 .. g.chunks - 1 : \E p \in 0 .. g.elems - 1 :
           /\ Place(g, i) = <<c, p>>
           /\ AnEntry(g, c, p) /\ EntryAt(g, c, p) = i
  <1>1. CASE ~g.grid
    <2> DEFINE c == i \div g.elems  p == i % g.elems
    <2>1. Place(g, i) = <<c, p>>
      BY <1>1 DEF Place
    <2>2. i \in Nat /\ g.elems \in Nat \ {0} /\ i < g.numel /\ g.numel \in Nat /\ g.chunks = Blocks(g.numel, g.elems)
      BY <1>1, GeometryIs
    <2>3. c \in Nat /\ p \in 0 .. g.elems - 1 /\ i = c * g.elems + p
      BY <2>2, DivMod
    <2>4. c < g.chunks /\ g.chunks \in Nat
      BY <2>2, BlocksHold
    <2> HIDE DEF c, p
    <2>5. c \in 0 .. g.chunks - 1
      BY <2>3, <2>4
    <2>6. AnEntry(g, c, p) /\ EntryAt(g, c, p) = i
      BY <1>1, <2>2, <2>3 DEF AnEntry, EntryAt, Inside, Flat
    <2> QED
      BY <2>1, <2>3, <2>5, <2>6
  <1>2. CASE g.grid
    <2> DEFINE T == TargetChunk  row == i \div g.cols  col == i % g.cols
               a == row \div T  u == row % T  b == col \div T  v == col % T
               c == a * g.across + b  p == u * T + v
    <2>1. Place(g, i) = <<c, p>>
      BY <1>2 DEF Place
    <2>2. /\ T \in Nat \ {0} /\ g.rows \in Nat \ {0} /\ g.cols \in Nat \ {0} /\ g.numel = g.rows * g.cols
          /\ g.across = Blocks(g.cols, T) /\ g.chunks = Blocks(g.rows, T) * g.across /\ g.elems = T * T
      BY <1>2, GeometryIs, TargetIs
    <2>3. i \in Nat /\ i < g.numel
      BY GeometryIs
    <2>4. row \in Nat /\ col \in 0 .. g.cols - 1 /\ i = row * g.cols + col /\ row < g.rows
      BY <2>2, <2>3, DivMod, BelowProduct
    <2> HIDE DEF T, row, col
    <2>5. a \in Nat /\ u \in 0 .. T - 1 /\ row = a * T + u
      BY <2>2, <2>4, DivMod
    <2>6. b \in Nat /\ v \in 0 .. T - 1 /\ col = b * T + v
      <3>1. col \in Nat
        BY <2>4
      <3> QED
        BY <2>2, <3>1, DivMod
    <2>7. a < Blocks(g.rows, T) /\ Blocks(g.rows, T) \in Nat
      BY <2>2, <2>4, BlocksHold
    <2>8. b < g.across /\ g.across \in Nat
      BY <2>2, <2>4, BlockOf
    <2> HIDE DEF a, b, u, v
    <2>9. g.across \in Nat \ {0} /\ b \in 0 .. g.across - 1
      BY <2>6, <2>8
    <2>10. c < g.chunks /\ c \in Nat /\ c \div g.across = a /\ c % g.across = b
      <3>1. a * g.across + b < Blocks(g.rows, T) * g.across /\ a * g.across + b \in Nat
        BY <2>5, <2>7, <2>9, InProduct
      <3>2. (a * g.across + b) \div g.across = a /\ (a * g.across + b) % g.across = b
        BY <2>5, <2>9, DivIs
      <3> QED
        BY <2>2, <3>1, <3>2, Zenon
    <2>11. p < g.elems /\ p \in Nat /\ p \div T = u /\ p % T = v
      <3>1. u \in Nat /\ u < T /\ T \in Nat
        BY <2>2, <2>5
      <3> QED
        <4>1. u * T + v < T * T /\ u * T + v \in Nat
          BY <2>2, <2>6, <3>1, InProduct
        <4>2. (u * T + v) \div T = u /\ (u * T + v) % T = v
          BY <2>2, <2>6, <3>1, DivIs
        <4> QED
          BY <2>2, <4>1, <4>2, Zenon
    <2> HIDE DEF c, p
    <2>12. c \in 0 .. g.chunks - 1 /\ p \in 0 .. g.elems - 1
      <3>1. g.chunks \in Nat /\ g.elems \in Nat
        BY GeometryIs
      <3> QED
        BY <2>10, <2>11, <3>1
    <2>13. Row(g, c, p) = row /\ Col(g, c, p) = col
      BY <2>5, <2>6, <2>10, <2>11, Zenon DEF Row, Col, T
    <2>14. row < g.rows /\ col < g.cols
      BY <2>2, <2>4
    <2>15. AnEntry(g, c, p) /\ EntryAt(g, c, p) = i
      BY <1>2, <2>4, <2>13, <2>14 DEF AnEntry, EntryAt, Inside
    <2> QED
      BY <2>1, <2>12, <2>15
  <1> QED
    BY <1>1, <1>2

(* And a position that is an entry is that entry's place. *)
LEMMA EntriesAre ==
  ASSUME NEW s, IsShape(s), NEW g, g = Geometry(s), NEW c \in 0 .. g.chunks - 1, NEW p \in 0 .. g.elems - 1,
         AnEntry(g, c, p)
  PROVE  EntryAt(g, c, p) \in 0 .. g.numel - 1 /\ Place(g, EntryAt(g, c, p)) = <<c, p>>
  <1>1. CASE ~g.grid
    <2>1. EntryAt(g, c, p) = c * g.elems + p /\ c * g.elems + p < g.numel
      BY <1>1 DEF EntryAt, AnEntry, Inside, Flat
    <2>2. g.elems \in Nat \ {0} /\ c \in Nat
      BY GeometryIs
    <2>3. c * g.elems + p \in Nat /\ (c * g.elems + p) \div g.elems = c /\ (c * g.elems + p) % g.elems = p
      BY <2>2, DivIs
    <2> DEFINE e == c * g.elems + p
    <2> HIDE DEF e
    <2>4. e \in 0 .. g.numel - 1 /\ e \div g.elems = c /\ e % g.elems = p
      BY <2>1, <2>3, GeometryIs DEF e
    <2>5. Place(g, e) = <<c, p>>
      BY <1>1, <2>4 DEF Place
    <2> QED
      BY <2>1, <2>4, <2>5 DEF e
  <1>2. CASE g.grid
    <2> DEFINE T == TargetChunk  a == c \div g.across  b == c % g.across  u == p \div T  v == p % T
               row == a * T + u  col == b * T + v  e == row * g.cols + col
    <2>1. /\ T \in Nat \ {0} /\ g.rows \in Nat \ {0} /\ g.cols \in Nat \ {0} /\ g.numel = g.rows * g.cols
          /\ g.across = Blocks(g.cols, T) /\ g.elems = T * T /\ g.numel \in Nat /\ c \in Nat /\ p \in Nat
      BY <1>2, GeometryIs, TargetIs
    <2>2. g.across \in Nat \ {0}
      BY <2>1, BlocksArePositive
    <2>3. EntryAt(g, c, p) = e /\ row < g.rows /\ col < g.cols
      BY <1>2 DEF EntryAt, AnEntry, Inside, Row, Col
    <2>4. a \in Nat /\ b \in 0 .. g.across - 1 /\ c = a * g.across + b
      BY <2>1, <2>2, DivMod
    <2>5. u \in Nat /\ v \in 0 .. T - 1 /\ p = u * T + v
      BY <2>1, DivMod
    <2>6. u < T
      <3>1. T \in Nat /\ p < T * T
        BY <2>1
      <3> QED
        BY <2>1, <3>1, BelowProduct
    <2> HIDE DEF T, a, b, u, v
    <2>7. b \in Nat /\ u \in 0 .. T - 1
      BY <2>1, <2>4, <2>5, <2>6
    <2>8. row \in Nat /\ row \div T = a /\ row % T = u /\ col \in Nat /\ col \div T = b /\ col % T = v
      <3>1. a * T + u \in Nat /\ (a * T + u) \div T = a /\ (a * T + u) % T = u
        <4>1. T \in Nat \ {0} /\ a \in Nat /\ u \in 0 .. T - 1
          BY <2>1, <2>4, <2>7
        <4> QED
          BY <4>1, DivIs
      <3>2. b * T + v \in Nat /\ (b * T + v) \div T = b /\ (b * T + v) % T = v
        <4>1. T \in Nat \ {0} /\ b \in Nat /\ v \in 0 .. T - 1
          BY <2>1, <2>5, <2>7
        <4> QED
          BY <4>1, DivIs
      <3> QED
        BY <3>1, <3>2, Zenon
    <2> HIDE DEF row, col
    <2>9. col \in 0 .. g.cols - 1
      BY <2>1, <2>3, <2>8
    <2>10. e < g.numel /\ e \in Nat /\ e \div g.cols = row /\ e % g.cols = col
      <3>1. row * g.cols + col < g.rows * g.cols /\ row * g.cols + col \in Nat
        BY <2>1, <2>3, <2>8, <2>9, InProduct
      <3>2. (row * g.cols + col) \div g.cols = row /\ (row * g.cols + col) % g.cols = col
        <4>1. g.cols \in Nat \ {0} /\ row \in Nat /\ col \in 0 .. g.cols - 1
          BY <2>1, <2>8, <2>9
        <4> QED
          BY <4>1, DivIs
      <3> QED
        BY <2>1, <3>1, <3>2, Zenon
    <2> HIDE DEF e
    <2>11. e \in 0 .. g.numel - 1
      BY <2>1, <2>10
    <2>12. Place(g, e) = <<(row \div T) * g.across + (col \div T), (row % T) * T + (col % T)>>
      BY <1>2, <2>10 DEF Place, T
    <2>13. Place(g, e) = <<c, p>>
      BY <2>4, <2>5, <2>8, <2>12, Zenon
    <2> QED
      BY <2>3, <2>11, <2>13
  <1> QED
    BY <1>1, <1>2

-----------------------------------------------------------------------------
(* Sums over finite sets: FoldFunction picks the elements one by one. *)
OneOf(s) == CHOOSE x \in s : TRUE

\* g sums f over the subsets of S that have at most k elements.
SumsUpTo(g, f, S, k) ==
    \A s \in SUBSET S : Cardinality(s) <= k =>
        g[s] \in Int /\ g[s] = IF s = {} THEN 0 ELSE f[OneOf(s)] + g[s \ {OneOf(s)}]

LEMMA OneLess ==
  ASSUME NEW S, IsFiniteSet(S), NEW s \in SUBSET S, s # {}, NEW x \in s
  PROVE  /\ OneOf(s) \in s /\ IsFiniteSet(s) /\ Cardinality(s) \in Nat
         /\ s \ {x} \in SUBSET S /\ Cardinality(s \ {x}) \in Nat /\ Cardinality(s \ {x}) + 1 = Cardinality(s)
         /\ Cardinality(s) <= Cardinality(S) /\ Cardinality(S) \in Nat
  <1>1. OneOf(s) \in s
    BY DEF OneOf
  <1>2. IsFiniteSet(s) /\ Cardinality(s) <= Cardinality(S)
    BY FS_Subset
  <1>3. Cardinality(s) \in Nat /\ Cardinality(S) \in Nat
    BY <1>2, FS_CardinalityType
  <1>4. IsFiniteSet(s \ {x}) /\ Cardinality(s \ {x}) = Cardinality(s) - 1
    BY <1>2, FS_RemoveElement
  <1>5. Cardinality(s \ {x}) \in Nat
    BY <1>4, FS_CardinalityType
  <1> QED
    BY <1>1, <1>2, <1>3, <1>4, <1>5

LEMMA SumsExist ==
  ASSUME NEW S, IsFiniteSet(S), NEW f, \A x \in S : f[x] \in Int, NEW k \in Nat
  PROVE  \E g : g = [s \in SUBSET S |-> g[s]] /\ SumsUpTo(g, f, S, k)
  <1> DEFINE P(n) == \E g : g = [s \in SUBSET S |-> g[s]] /\ SumsUpTo(g, f, S, n)
             Off == {n \in Nat : ~P(n)}
  <1> SUFFICES ASSUME Off # {} PROVE FALSE
    OBVIOUS
  <1>1. PICK n \in Off : \A m \in Off : n <= m
    <2>1. Off \subseteq Nat
      OBVIOUS
    <2> HIDE DEF Off
    <2> QED
      BY <2>1, LeastNatural
  <1>2. P(0)
    <2> DEFINE g == [s \in SUBSET S |-> 0]
    <2>1. \A s \in SUBSET S : Cardinality(s) <= 0 => s = {}
      <3> TAKE s \in SUBSET S
      <3> SUFFICES ASSUME s # {} PROVE ~(Cardinality(s) <= 0)
        OBVIOUS
      <3>1. PICK x \in s : TRUE
        OBVIOUS
      <3>2. Cardinality(s \ {x}) \in Nat /\ Cardinality(s \ {x}) + 1 = Cardinality(s)
        BY OneLess
      <3> QED
        BY <3>2
    <2>2. SumsUpTo(g, f, S, 0)
      BY <2>1 DEF SumsUpTo
    <2>3. g = [s \in SUBSET S |-> g[s]]
      OBVIOUS
    <2> HIDE DEF g
    <2> QED
      BY <2>2, <2>3
  <1>3. n \in Nat /\ n # 0 /\ ~P(n)
    BY <1>2
  <1>4. P(n - 1)
    <2>1. n - 1 \in Nat /\ ~(n <= n - 1)
      BY <1>3
    <2>2. n - 1 \notin Off
      BY <1>1, <2>1
    <2> QED
      BY <2>1, <2>2
  <1>5. PICK g : g = [s \in SUBSET S |-> g[s]] /\ SumsUpTo(g, f, S, n - 1)
    BY <1>4
  <1> DEFINE h == [s \in SUBSET S |-> IF Cardinality(s) <= n - 1 THEN g[s] ELSE f[OneOf(s)] + g[s \ {OneOf(s)}]]
  <1>6. ASSUME NEW s \in SUBSET S, Cardinality(s) <= n
        PROVE  h[s] \in Int /\ h[s] = IF s = {} THEN 0 ELSE f[OneOf(s)] + h[s \ {OneOf(s)}]
    <2>1. CASE s = {}
      <3>1. Cardinality(s) <= n - 1
        BY <1>3, <2>1, FS_EmptySet
      <3>2. g[s] = 0
        BY <1>5, <2>1, <3>1 DEF SumsUpTo
      <3> QED
        BY <2>1, <3>1, <3>2
    <2>2. CASE s # {}
      <3> DEFINE x == OneOf(s)  t == s \ {x}
      <3>1. x \in s /\ Cardinality(s) \in Nat
        BY <2>2, OneLess
      <3>2. t \in SUBSET S /\ Cardinality(t) \in Nat /\ Cardinality(t) + 1 = Cardinality(s)
        BY <2>2, <3>1, OneLess
      <3> HIDE DEF x, t
      <3>3. Cardinality(t) <= n - 1
        BY <1>3, <1>6, <3>1, <3>2
      <3>4. h[t] = g[t] /\ g[t] \in Int
        BY <1>5, <3>2, <3>3 DEF SumsUpTo
      <3>5. h[s] = f[x] + g[t]
        <4>1. CASE Cardinality(s) <= n - 1
          BY <1>5, <2>2, <4>1 DEF SumsUpTo, x, t
        <4>2. CASE ~(Cardinality(s) <= n - 1)
          BY <4>2 DEF x, t
        <4> QED
          BY <4>1, <4>2
      <3>6. f[x] \in Int
        BY <3>1
      <3> HIDE DEF h
      <3> QED
        BY <2>2, <3>4, <3>5, <3>6 DEF x, t
    <2> QED
      BY <2>1, <2>2
  <1>7. h = [s \in SUBSET S |-> h[s]]
    OBVIOUS
  <1> HIDE DEF h
  <1>8. SumsUpTo(h, f, S, n)
    BY <1>6 DEF SumsUpTo
  <1> QED
    BY <1>3, <1>7, <1>8

\* The function the fold is defined by, which is any function with its equation.
LEMMA SumIsAny ==
  ASSUME NEW S, IsFiniteSet(S), NEW f, \A x \in S : f[x] \in Int, NEW T \in SUBSET S,
         NEW g, SumsUpTo(g, f, S, Cardinality(S))
  PROVE  SumFunctionOnSet(f, T) = g[T]
  <1> DEFINE Body(h) == [s \in SUBSET T |-> IF s = {} THEN 0 ELSE f[OneOf(s)] + h[s \ {OneOf(s)}]]
             iter == CHOOSE h : h = Body(h)
             own == [s \in SUBSET T |-> g[s]]
  <1>1. SumFunctionOnSet(f, T) = iter[T]
    BY DEF SumFunctionOnSet, FoldFunctionOnSet, MapThenFoldSet, OneOf
  <1>2. \A s \in SUBSET T : g[s] = IF s = {} THEN 0 ELSE f[OneOf(s)] + g[s \ {OneOf(s)}]
    <2> TAKE s \in SUBSET T
    <2>1. s \in SUBSET S
      OBVIOUS
    <2>2. Cardinality(s) <= Cardinality(S)
      BY <2>1, FS_Subset
    <2> QED
      BY <2>1, <2>2 DEF SumsUpTo
  <1>3. own = Body(own)
    <2>1. \A s \in SUBSET T : s \ {OneOf(s)} \in SUBSET T
      OBVIOUS
    <2> QED
      BY <1>2, <2>1
  <1>4. iter = Body(iter)
    <2> HIDE DEF Body
    <2> QED
      BY <1>3
  <1> HIDE DEF iter, own
  <1>5. \A s \in SUBSET T : iter[s] = IF s = {} THEN 0 ELSE f[OneOf(s)] + iter[s \ {OneOf(s)}]
    BY <1>4
  <1> DEFINE Off == {n \in Nat : \E s \in SUBSET T : Cardinality(s) = n /\ iter[s] # g[s]}
  <1>6. Off = {}
    <2> SUFFICES ASSUME Off # {} PROVE FALSE
      OBVIOUS
    <2>1. PICK n \in Off : \A m \in Off : n <= m
      <3>1. Off \subseteq Nat
        OBVIOUS
      <3> HIDE DEF Off
      <3> QED
        BY <3>1, LeastNatural
    <2>2. PICK s \in SUBSET T : Cardinality(s) = n /\ iter[s] # g[s]
      OBVIOUS
    <2>3. s # {}
      BY <1>2, <1>5, <2>2
    <2> DEFINE t == s \ {OneOf(s)}
    <2>4. OneOf(s) \in s /\ s \in SUBSET S
      BY <2>3, OneLess
    <2>5. Cardinality(s) \in Nat /\ Cardinality(t) \in Nat /\ Cardinality(t) + 1 = Cardinality(s) /\ t \in SUBSET T
      BY <2>3, <2>4, OneLess
    <2>6. Cardinality(t) \notin Off
      BY <2>1, <2>2, <2>5
    <2>7. iter[t] = g[t]
      BY <2>5, <2>6
    <2> QED
      BY <1>2, <1>5, <2>2, <2>3, <2>7
  <1>7. T \in SUBSET T /\ Cardinality(T) \in Nat
    BY FS_Subset, FS_CardinalityType
  <1>8. iter[T] = g[T]
    BY <1>6, <1>7
  <1> QED
    BY <1>1, <1>8

LEMMA SumUnfolds ==
  ASSUME NEW S, IsFiniteSet(S), NEW f, \A x \in S : f[x] \in Int
  PROVE  /\ SumFunctionOnSet(f, S) \in Int
         /\ S = {} => SumFunctionOnSet(f, S) = 0
         /\ S # {} => SumFunctionOnSet(f, S) = f[OneOf(S)] + SumFunctionOnSet(f, S \ {OneOf(S)})
  <1> DEFINE k == Cardinality(S)
  <1>1. k \in Nat
    BY FS_CardinalityType
  <1>2. PICK g : SumsUpTo(g, f, S, k)
    BY <1>1, SumsExist
  <1>3. \A T \in SUBSET S : SumFunctionOnSet(f, T) = g[T]
    BY <1>2, SumIsAny
  <1>4. g[S] \in Int /\ g[S] = IF S = {} THEN 0 ELSE f[OneOf(S)] + g[S \ {OneOf(S)}]
    BY <1>1, <1>2 DEF SumsUpTo
  <1> QED
    BY <1>3, <1>4

\* Any element can be taken out first.
LEMMA SumSplits ==
  ASSUME NEW S, IsFiniteSet(S), NEW f, \A x \in S : f[x] \in Int, NEW x \in S
  PROVE  SumFunctionOnSet(f, S) = f[x] + SumFunctionOnSet(f, S \ {x})
  <1> DEFINE sum(s) == SumFunctionOnSet(f, s)
             Off == {n \in Nat : \E s \in SUBSET S : \E y \in s : Cardinality(s) = n /\ sum(s) # f[y] + sum(s \ {y})}
  <1>1. \A s \in SUBSET S : sum(s) \in Int /\ (s # {} => sum(s) = f[OneOf(s)] + sum(s \ {OneOf(s)}))
    <2> TAKE s \in SUBSET S
    <2>1. IsFiniteSet(s) /\ \A y \in s : f[y] \in Int
      BY FS_Subset
    <2> QED
      BY <2>1, SumUnfolds
  <1> HIDE DEF sum
  <1>2. Off = {}
    <2> SUFFICES ASSUME Off # {} PROVE FALSE
      OBVIOUS
    <2>1. PICK n \in Off : \A m \in Off : n <= m
      <3>1. Off \subseteq Nat
        OBVIOUS
      <3> HIDE DEF Off
      <3> QED
        BY <3>1, LeastNatural
    <2>2a. PICK s \in SUBSET S : \E y \in s : Cardinality(s) = n /\ sum(s) # f[y] + sum(s \ {y})
      OBVIOUS
    <2>2. PICK y \in s : Cardinality(s) = n /\ sum(s) # f[y] + sum(s \ {y})
      BY <2>2a
    <2>2b. n \in Nat
      OBVIOUS
    <2> DEFINE z == OneOf(s)
    <2>3. z \in s /\ sum(s) = f[z] + sum(s \ {z})
      BY <1>1, <2>2, OneLess
    <2>4. z # y
      BY <2>2, <2>3
    <2> HIDE DEF z
    <2>5. /\ s \ {y} \in SUBSET S /\ Cardinality(s \ {y}) + 1 = Cardinality(s) /\ Cardinality(s \ {y}) \in Nat
          /\ s \ {z} \in SUBSET S /\ Cardinality(s \ {z}) + 1 = Cardinality(s) /\ Cardinality(s \ {z}) \in Nat
          /\ Cardinality(s) \in Nat
      BY <2>3, OneLess
    <2>6. Cardinality(s \ {y}) \notin Off /\ Cardinality(s \ {z}) \notin Off
      <3> HIDE DEF Off
      <3> QED
        BY <2>1, <2>2, <2>2b, <2>5
    <2>7. sum(s \ {y}) = f[z] + sum((s \ {y}) \ {z}) /\ sum(s \ {z}) = f[y] + sum((s \ {z}) \ {y})
      <3>1. z \in s \ {y} /\ y \in s \ {z}
        BY <2>3, <2>4
      <3> QED
        BY <3>1, <2>5, <2>6
    <2>8. (s \ {y}) \ {z} = (s \ {z}) \ {y} /\ (s \ {y}) \ {z} \in SUBSET S
      OBVIOUS
    <2>9. f[y] \in Int /\ f[z] \in Int /\ sum((s \ {y}) \ {z}) \in Int
      BY <1>1, <2>3, <2>8
    <2> DEFINE a == f[y]  b == f[z]  c == sum((s \ {y}) \ {z})
    <2>10. sum(s \ {z}) = a + c
      BY <2>7, <2>8
    <2>11. sum(s) = b + (a + c) /\ sum(s \ {y}) = b + c /\ sum(s) # a + sum(s \ {y})
      BY <2>2, <2>3, <2>7, <2>10
    <2>12. a \in Int /\ b \in Int /\ c \in Int
      BY <2>9
    <2> HIDE DEF Off, a, b, c
    <2> QED
      BY <2>11, <2>12
  <1>3. Cardinality(S) \in Nat
    BY FS_CardinalityType
  <1> QED
    BY <1>2, <1>3 DEF sum

LEMMA SumOfIs == \A f : SumOf(f) = SumFunctionOnSet(f, DOMAIN f)
  BY DEF SumOf, FoldFunction, SumFunctionOnSet

LEMMA SumIsInt ==
  ASSUME NEW f, IsFiniteSet(DOMAIN f), \A x \in DOMAIN f : f[x] \in Int
  PROVE  SumOf(f) \in Int
  BY SumOfIs, SumUnfolds

-----------------------------------------------------------------------------
(* Totals, of any prefix. *)
Totals(t, s, N, X) == t \in [0 .. N -> X] /\ t[0] = 0 /\ \A i \in 1 .. N : t[i] = t[i - 1] + s[i]

AddsUp(X) == X \subseteq Int /\ 0 \in X /\ \A x, y \in X : x + y \in X

LEMMA NumbersAddUp == AddsUp(Nat) /\ AddsUp(Int)
  BY DEF AddsUp

LEMMA TotalsExist ==
  ASSUME NEW X, AddsUp(X), NEW N \in Nat, NEW s, \A i \in 1 .. N : s[i] \in X
  PROVE  \E t : Totals(t, s, N, X)
  <1> DEFINE step == [a \in (1 .. N) \X X |-> a[2] + s[a[1]]]
  <1>1. N \in Int /\ 0 \in Int /\ 0 <= N /\ 0 + 1 = 1 /\ 0 \in X
    BY DEF AddsUp
  <1>2. \A i \in 1 .. N : \A x \in X : step[<<i, x>>] = x + s[i]
    OBVIOUS
  <1> HIDE DEF step
  <1>3. Steps(step, 0, N, X)
    <2>1. \A i \in 1 .. N : \A x \in X : step[<<i, x>>] \in X
      BY <1>2 DEF AddsUp
    <2> QED
      BY <1>1, <2>1 DEF Steps
  <1>4. PICK f \in [0 .. N -> X] : Computes(f, 0, N, 0, step)
    BY <1>1, <1>3, RecursionExists
  <1>5. f[0] = 0 /\ \A i \in 1 .. N : f[i] = f[i - 1] + s[i]
    <2>1. \A i \in 1 .. N : i - 1 \in 0 .. N
      OBVIOUS
    <2> QED
      BY <1>1, <1>2, <1>4, <2>1 DEF Computes
  <1> QED
    BY <1>4, <1>5 DEF Totals

LEMMA TotalIs ==
  ASSUME NEW X, AddsUp(X), NEW N \in Nat, NEW s, NEW t, Totals(t, s, N, X),
         NEW k \in 0 .. N, NEW r, Len(r) = k, \A i \in 1 .. k : r[i] = s[i]
  PROVE  Total(r) = t[k]
  <1> DEFINE Body(g) == [i \in 0 .. k |-> IF i = 0 THEN 0 ELSE g[i - 1] + r[i]]
             p == CHOOSE g : g = Body(g)
             own == [i \in 0 .. k |-> t[i]]
             Off == {n \in Nat : n <= k /\ p[n] # t[n]}
  <1>1. Total(r) = p[k]
    BY DEF Total
  <1>2. own = Body(own)
    <2>1. \A i \in 0 .. k : i # 0 => i \in 1 .. k /\ i \in 1 .. N /\ i - 1 \in 0 .. k
      OBVIOUS
    <2> QED
      BY <2>1 DEF Totals
  <1>3. p = Body(p)
    <2> HIDE DEF Body
    <2> QED
      BY <1>2
  <1> HIDE DEF p
  <1>4. p[0] = 0 /\ \A i \in 1 .. k : p[i] = p[i - 1] + s[i]
    <2>1. 0 \in 0 .. k /\ \A i \in 1 .. k : i \in 0 .. k /\ i # 0
      OBVIOUS
    <2> QED
      BY <1>3, <2>1
  <1>5. Off = {}
    <2> SUFFICES ASSUME Off # {} PROVE FALSE
      OBVIOUS
    <2>1. PICK n \in Off : \A m \in Off : n <= m
      <3>1. Off \subseteq Nat
        OBVIOUS
      <3> HIDE DEF Off
      <3> QED
        BY <3>1, LeastNatural
    <2>2. n \in Nat /\ n <= k /\ p[n] # t[n]
      OBVIOUS
    <2>3. n # 0
      BY <1>4, <2>2 DEF Totals
    <2>4. n - 1 \in Nat /\ n - 1 <= k /\ ~(n <= n - 1) /\ n \in 1 .. k /\ n \in 1 .. N
      BY <2>2, <2>3
    <2>5. p[n - 1] = t[n - 1]
      BY <2>1, <2>4
    <2> HIDE DEF Off
    <2> QED
      BY <1>4, <2>2, <2>4, <2>5 DEF Totals
  <1>6. k \in Nat /\ k <= k
    OBVIOUS
  <1> QED
    BY <1>1, <1>5, <1>6

LEMMA TotalIsIn ==
  ASSUME NEW X, AddsUp(X), NEW s, Len(s) \in Nat, \A i \in 1 .. Len(s) : s[i] \in X
  PROVE  Total(s) \in X
  <1> DEFINE N == Len(s)
  <1>1. N \in Nat /\ \A i \in 1 .. N : s[i] \in X
    OBVIOUS
  <1>2. Len(s) = N /\ N \in 0 .. N
    OBVIOUS
  <1> HIDE DEF N
  <1>3. PICK t : Totals(t, s, N, X)
    BY <1>1, TotalsExist
  <1>4. Total(s) = t[N]
    BY <1>1, <1>2, <1>3, TotalIs
  <1> QED
    BY <1>2, <1>3, <1>4 DEF Totals

-----------------------------------------------------------------------------
(* Quantization, of integers. *)
LEMMA RootIs ==
  ASSUME NEW x \in Nat
  PROVE  Root(x) \in 0 .. x
  <1> DEFINE Past == {r \in Nat : x < (r + 1) * (r + 1)}
  <1>1. x \in Past
    <2>1. (x + 1) * 1 <= (x + 1) * (x + 1)
      OBVIOUS
    <2> QED
      BY <2>1
  <1>2. PICK r \in Past : \A y \in Past : r <= y
    <2>1. Past \subseteq Nat /\ Past # {}
      BY <1>1
    <2> HIDE DEF Past
    <2> QED
      BY <2>1, LeastNatural
  <1>3. r \in Nat /\ x < (r + 1) * (r + 1) /\ r <= x
    BY <1>1, <1>2
  <1>4. r * r <= x
    <2>1. CASE r = 0
      BY <2>1
    <2>2. CASE r # 0
      <3>1. r - 1 \in Nat /\ (r - 1) + 1 = r /\ ~(r <= r - 1)
        BY <1>3, <2>2
      <3>2. r - 1 \notin Past
        BY <1>2, <3>1
      <3>3. ~(x < r * r)
        BY <3>1, <3>2
      <3>4. r * r \in Nat
        BY <1>3
      <3> QED
        BY <3>3, <3>4
    <2> QED
      BY <2>1, <2>2
  <1>5. r \in 0 .. x
    BY <1>3
  <1> QED
    BY <1>3, <1>4, <1>5 DEF Root

LEMMA ScaleIs ==
  ASSUME NEW centered, Len(centered) \in Nat \ {0}, \A i \in 1 .. Len(centered) : centered[i] \in Int
  PROVE  Scale(centered) \in Nat \ {0} /\ ScaleFloor <= Scale(centered)
  <1> DEFINE n == Len(centered)
             sq == [i \in 1 .. n |-> centered[i] * centered[i]]
             squares == Total(sq)
             top == squares * RangeSigmas * RangeSigmas
             under == (n - 1) * Bins * Bins
             spread == IF n = 1 THEN 0 ELSE Root(top \div under)
  <1>1. Scale(centered) = IF spread < ScaleFloor THEN ScaleFloor ELSE spread
    BY DEF Scale
  <1>2. squares \in Nat
    <2>1. \A x \in Int : x * x \in Nat
      OBVIOUS
    <2>2. sq = [i \in 1 .. n |-> sq[i]] /\ \A i \in 1 .. n : sq[i] \in Nat
      BY <2>1
    <2> HIDE DEF sq
    <2>3. Len(sq) = n
      BY <2>2, FunctionIsList
    <2> QED
      BY <2>2, <2>3, NumbersAddUp, TotalIsIn
  <1> HIDE DEF sq, squares
  <1>3. RangeSigmas \in Nat /\ Bins \in Nat \ {0} /\ ScaleFloor \in Nat \ {0}
    BY CompressionAssumption
  <1>4. top \in Nat
    <2>1. squares * RangeSigmas \in Nat
      BY <1>2, <1>3
    <2> QED
      BY <1>3, <2>1
  <1>5. CASE n = 1
    <2>1. spread = 0
      BY <1>5
    <2> HIDE DEF spread
    <2> QED
      BY <1>1, <1>3, <2>1
  <1>6. CASE n # 1
    <2>1. n - 1 \in Nat \ {0}
      BY <1>6
    <2>2. under \in Nat \ {0}
      <3>1. \A x, y \in Nat \ {0} : x * y \in Nat \ {0}
        <4> TAKE x, y \in Nat \ {0}
        <4>1. x * y \in Nat /\ x * 1 <= x * y
          OBVIOUS
        <4> QED
          BY <4>1
      <3>2. (n - 1) * Bins \in Nat \ {0}
        BY <1>3, <2>1, <3>1
      <3> QED
        BY <1>3, <3>1, <3>2
    <2> HIDE DEF top, under
    <2>3. top \div under \in Nat
      BY <1>4, <2>2, DivMod
    <2>4. Root(top \div under) \in Nat
      BY <2>3, RootIs
    <2>5. spread \in Nat
      BY <1>6, <2>4
    <2> HIDE DEF spread
    <2> QED
      BY <1>1, <1>3, <2>5
  <1> QED
    BY <1>5, <1>6

LEMMA CodeIs ==
  ASSUME NEW x \in Int, NEW scale \in Nat \ {0}
  PROVE  CodeOf(x, scale) \in 0 .. Bins - 1
  <1>1. Bins \in Nat /\ Bins >= 2
    BY CompressionAssumption
  <1>2. \A a \in Int, b \in Nat \ {0} : Rounded(a, b) \in Int
    <2> TAKE a \in Int, b \in Nat \ {0}
    <2>1. (2 * a + b) \div (2 * b) \in Int
      OBVIOUS
    <2> QED
      BY <2>1 DEF Rounded
  <1>3. x + scale * (Bins \div 2) \in Int
    <2>1. Bins \div 2 \in Int
      BY <1>1
    <2>2. scale * (Bins \div 2) \in Int
      BY <2>1
    <2> QED
      BY <2>2
  <1> DEFINE b == Rounded(x + scale * (Bins \div 2), scale)
  <1>4. b \in Int
    BY <1>2, <1>3
  <1>5. CodeOf(x, scale) = IF b < 0 THEN 0 ELSE IF b >= Bins THEN Bins - 1 ELSE b
    BY DEF CodeOf
  <1> HIDE DEF b
  <1> QED
    BY <1>1, <1>4, <1>5

LEMMA BinMeanIs ==
  ASSUME NEW n \in Nat, NEW centered, \A i \in 1 .. n : centered[i] \in Int,
         NEW codes, DOMAIN codes = 1 .. n, NEW b
  PROVE  BinMean(centered, codes, b) \in Int
  <1> DEFINE inBin == {i \in DOMAIN codes : codes[i] = b}
             of == [i \in inBin |-> centered[i]]
  <1>1. IsFiniteSet(inBin)
    <2>1. IsFiniteSet(1 .. n)
      BY FS_Interval
    <2>2. inBin \subseteq 1 .. n
      OBVIOUS
    <2> HIDE DEF inBin
    <2> QED
      BY <2>1, <2>2, FS_Subset
  <1>2. DOMAIN of = inBin /\ \A i \in inBin : of[i] \in Int
    OBVIOUS
  <1>3. BinMean(centered, codes, b) = IF inBin = {} THEN 0 ELSE SumOf(of) \div Cardinality(inBin)
    BY DEF BinMean
  <1> HIDE DEF inBin, of
  <1>4. SumOf(of) \in Int
    BY <1>1, <1>2, SumIsInt
  <1>5. inBin # {} => Cardinality(inBin) \in Nat \ {0}
    BY <1>1, FS_CardinalityType, FS_EmptySet
  <1> QED
    BY <1>3, <1>4, <1>5

LEMMA QuantizeIs ==
  ASSUME NEW n \in Nat \ {0}, NEW vals, DOMAIN vals = 1 .. n, Len(vals) = n, \A i \in 1 .. n : vals[i] \in Int,
         NEW q, q = Quantize(vals)
  PROVE  /\ DOMAIN q.codes = 1 .. n /\ Len(q.codes) = n
         /\ q.codes = [i \in 1 .. n |-> q.codes[i]]
         /\ \A i \in 1 .. n : q.codes[i] \in 0 .. Bins - 1
         /\ q.qparams.shift \in Int
         /\ q.qparams.scale \in Nat /\ ScaleFloor <= q.qparams.scale
         /\ DOMAIN q.qparams.lookup = 0 .. Bins - 1
         /\ \A b \in 0 .. Bins - 1 : q.qparams.lookup[b] \in Int
  <1> DEFINE shift == Total(vals) \div Len(vals)
             centered == [i \in DOMAIN vals |-> vals[i] - shift]
             scale == Scale(centered)
             codes == Codes(centered, scale)
  <1>1. shift \in Int
    <2>1. Total(vals) \in Int
      BY NumbersAddUp, TotalIsIn
    <2> QED
      BY <2>1
  <1>2. q = Quantized(shift, scale, centered, codes)
    BY EvaluatedIs DEF Quantize, QuantizeAround
  <1> HIDE DEF shift
  <1>3. centered = [i \in 1 .. n |-> centered[i]] /\ DOMAIN centered = 1 .. n /\ \A i \in 1 .. n : centered[i] \in Int
    BY <1>1
  <1> HIDE DEF centered
  <1>4. Len(centered) = n
    BY <1>3, FunctionIsList
  <1>5. scale \in Nat \ {0} /\ ScaleFloor <= scale
    BY <1>3, <1>4, ScaleIs
  <1> HIDE DEF scale
  <1>6. codes = [i \in 1 .. n |-> CodeOf(centered[i], scale)]
    BY <1>3 DEF Codes
  <1> HIDE DEF codes
  <1>7. DOMAIN codes = 1 .. n /\ codes = [i \in 1 .. n |-> codes[i]]
    BY <1>6
  <1>8. \A i \in 1 .. n : codes[i] \in 0 .. Bins - 1
    BY <1>3, <1>5, <1>6, CodeIs
  <1>9. Len(codes) = n
    BY <1>7, FunctionIsList
  <1> DEFINE lookup == [b \in 0 .. Bins - 1 |-> BinMean(centered, codes, b)]
  <1>10. \A b \in 0 .. Bins - 1 : lookup[b] \in Int
    BY <1>3, <1>7, BinMeanIs
  <1>11. DOMAIN lookup = 0 .. Bins - 1
    OBVIOUS
  <1>12. q.codes = codes /\ q.qparams.shift = shift /\ q.qparams.scale = scale /\ q.qparams.lookup = lookup
    <2>1. q = [codes |-> codes, qparams |-> [shift |-> shift, scale |-> scale, lookup |-> lookup]]
      BY <1>2 DEF Quantized
    <2> HIDE DEF lookup
    <2> QED
      BY <2>1
  <1> HIDE DEF lookup
  <1> QED
    BY <1>1, <1>5, <1>7, <1>8, <1>9, <1>10, <1>11, <1>12

-----------------------------------------------------------------------------
(* Compression: what is kept, and what the pairs of a receiver mean. *)
LEMMA SlotIs ==
  ASSUME NEW k \in Nat \ {0}, NEW C \in Nat, NEW j \in 1 .. C * k
  PROVE  /\ (j - 1) \div k \in 0 .. C - 1 /\ (j - 1) % k \in 0 .. k - 1
         /\ j - 1 = ((j - 1) \div k) * k + ((j - 1) % k)
  <1> DEFINE i == j - 1
  <1>1. C * k \in Nat
    OBVIOUS
  <1>2. i \in Nat /\ i < C * k
    BY <1>1
  <1> HIDE DEF i
  <1>3. i \div k \in Nat /\ i % k \in 0 .. k - 1 /\ i = (i \div k) * k + (i % k)
    BY <1>2, DivMod
  <1>4. i \div k < C
    BY <1>2, BelowProduct
  <1> QED
    BY <1>3, <1>4 DEF i

LEMMA NextSlot ==
  ASSUME NEW k \in Nat \ {0}, NEW j \in Nat \ {0}, j % k # 0
  PROVE  j \div k = (j - 1) \div k /\ j % k = ((j - 1) % k) + 1
  <1> DEFINE q == j \div k  r == j % k
  <1>1. q \in Nat /\ r \in 0 .. k - 1 /\ j = q * k + r
    BY DivMod
  <1>2. r - 1 \in 0 .. k - 1
    BY <1>1
  <1>3. q * k + (r - 1) = j - 1
    <2> DEFINE m == q * k
    <2>1. m \in Nat /\ j = m + r
      BY <1>1
    <2> HIDE DEF m
    <2>2. r \in Nat
      BY <1>1
    <2> HIDE DEF r
    <2>3. m + (r - 1) = j - 1
      BY <2>1, <2>2
    <2> QED
      BY <2>3 DEF m
  <1>4. (q * k + (r - 1)) \div k = q /\ (q * k + (r - 1)) % k = r - 1
    BY <1>1, <1>2, DivIs
  <1>5. (j - 1) \div k = q /\ (j - 1) % k = r - 1
    BY <1>3, <1>4
  <1>6. r \in Int
    BY <1>1
  <1> HIDE DEF r
  <1>7. (r - 1) + 1 = r
    BY <1>6
  <1> QED
    BY <1>5, <1>7 DEF r

LEMMA TopKIs ==
  ASSUME NEW s, IsShape(s), NEW g, g = Geometry(s)
  PROVE  EffectiveTopK(g) \in Nat \ {0} /\ EffectiveTopK(g) <= g.elems
  BY GeometryIs, CompressionAssumption DEF EffectiveTopK

\* A tensor of integers has chunks of integers.
IntTensor(t, shape) == \A i \in 0 .. Product(shape) - 1 : t[i] \in Int

LEMMA EncodeIs ==
  ASSUME NEW s, IsShape(s), NEW g, g = Geometry(s), NEW t, IntTensor(t, s)
  PROVE  /\ DOMAIN Encode(g, t) = 0 .. g.chunks - 1
         /\ \A c \in 0 .. g.chunks - 1 : Encode(g, t)[c] \in [0 .. g.elems - 1 -> Int]
  <1> DEFINE here(c, p) == {i \in 0 .. g.numel - 1 : Place(g, i) = <<c, p>>}
             at(c, p) == IF here(c, p) = {} THEN 0 ELSE t[CHOOSE i \in here(c, p) : TRUE]
  <1>1. g.numel = Product(s)
    BY GeometryIs
  <1>2. \A c, p : at(c, p) \in Int
    <2> TAKE c, p
    <2>1. CASE here(c, p) # {}
      <3>1. (CHOOSE i \in here(c, p) : TRUE) \in here(c, p)
        BY <2>1
      <3>2. here(c, p) \subseteq 0 .. Product(s) - 1
        BY <1>1
      <3> DEFINE i == CHOOSE i \in here(c, p) : TRUE
      <3> HIDE DEF i
      <3>3. i \in 0 .. Product(s) - 1
        BY <3>1, <3>2 DEF i
      <3>4. t[i] \in Int
        BY <3>3 DEF IntTensor
      <3> QED
        BY <2>1, <3>4 DEF i
    <2> QED
      BY <2>1
  <1>3. Encode(g, t) = [c \in 0 .. g.chunks - 1 |-> [p \in 0 .. g.elems - 1 |-> at(c, p)]]
    BY DEF Encode
  <1> HIDE DEF at
  <1> QED
    BY <1>2, <1>3

\* The slots of a chunk hold different positions of it, in ascending order.
KeepsPlaces(idx, n, k, elems) ==
    /\ \A i \in 1 .. n : idx[i] \in 0 .. elems - 1
    /\ \A i \in 1 .. n - 1 : i % k # 0 => idx[i] < idx[i + 1]
    /\ \A i, j \in 1 .. n : (i - 1) \div k = (j - 1) \div k /\ idx[i] = idx[j] => i = j

LEMMA UpToIs ==
  ASSUME NEW n \in Nat
  PROVE  IsFiniteSet(0 .. n - 1) /\ Cardinality(0 .. n - 1) = n /\ 0 .. n - 1 \subseteq Int
  <1>1. 0 \in Int /\ n - 1 \in Int
    OBVIOUS
  <1>2. IsFiniteSet(0 .. n - 1) /\ Cardinality(0 .. n - 1) = IF 0 > n - 1 THEN 0 ELSE (n - 1) - 0 + 1
    BY <1>1, FS_Interval
  <1>3. (IF 0 > n - 1 THEN 0 ELSE (n - 1) - 0 + 1) = n
    OBVIOUS
  <1> QED
    BY <1>2, <1>3

\* k of the positions D.
Picks(S, D, k) == S \subseteq D /\ IsFiniteSet(S) /\ Cardinality(S) = k

LEMMA TopPicks ==
  ASSUME NEW n \in Nat, NEW chunk \in [0 .. n - 1 -> Int], NEW k \in 0 .. n, NEW tie
  PROVE  Picks(TopPositions(chunk, k, tie), 0 .. n - 1, k)
  <1> DEFINE D == 0 .. n - 1
  <1>1. IsFiniteSet(D) /\ Cardinality(D) = n /\ D \subseteq Int
    BY UpToIs
  <1> HIDE DEF D
  <1>2. k \in 0 .. Cardinality(D) /\ chunk \in [D -> Int]
    BY <1>1 DEF D
  <1>3. TopPositions(chunk, k, tie) \subseteq D
    BY ONLY <1>1, <1>2, TopPositionsAre
  <1>4. IsFiniteSet(TopPositions(chunk, k, tie))
    BY <1>1, <1>3, FS_Subset
  <1>5. Cardinality(TopPositions(chunk, k, tie)) = k
    BY ONLY <1>1, <1>2, TopPositionsAre
  <1> QED
    BY <1>3, <1>4, <1>5 DEF Picks, D

LEMMA KeptIs ==
  ASSUME NEW C \in Nat, NEW elems \in Nat \ {0}, NEW chunked, DOMAIN chunked = 0 .. C - 1,
         \A c \in 0 .. C - 1 : chunked[c] \in [0 .. elems - 1 -> Int],
         NEW k \in Nat \ {0}, k <= elems, NEW tie, NEW idx, idx = Kept(chunked, k, tie)
  PROVE  /\ idx = [j \in 1 .. C * k |-> idx[j]]
         /\ KeepsPlaces(idx, C * k, k, elems)
  <1> DEFINE D == 0 .. elems - 1
             top(c) == TopPositions(chunked[c], k, tie)
             list(c) == Ascending(top(c))
             K == C * k
             at(j) == (j - 1) \div k
             pos(j) == ((j - 1) % k) + 1
  <1>1. IsFiniteSet(D) /\ D \subseteq Int /\ Cardinality(D) = elems
    BY UpToIs
  <1>2. Cardinality(0 .. C - 1) = C
    BY UpToIs
  <1>3. idx = [j \in 1 .. K |-> list(at(j))[pos(j)]]
    BY <1>2 DEF Kept
  <1>4. ASSUME NEW c \in 0 .. C - 1
        PROVE  top(c) \subseteq D /\ IsFiniteSet(top(c)) /\ Cardinality(top(c)) = k
    <2> DEFINE chunk == chunked[c]
    <2>1. chunk \in [0 .. elems - 1 -> Int] /\ k \in 0 .. elems
      OBVIOUS
    <2> HIDE DEF chunk
    <2>2. Picks(TopPositions(chunk, k, tie), 0 .. elems - 1, k)
      BY <2>1, TopPicks
    <2> QED
      BY <2>2 DEF chunk, Picks
  <1> HIDE DEF D
  <1>5. ASSUME NEW c \in 0 .. C - 1
        PROVE  /\ \A i \in 1 .. k : list(c)[i] \in D
               /\ \A i, j \in 1 .. k : i < j => list(c)[i] < list(c)[j]
    <2> DEFINE S == top(c)
    <2>1. S \subseteq D /\ IsFiniteSet(S) /\ Cardinality(S) = k /\ S \subseteq Int
      BY <1>1, <1>4
    <2> HIDE DEF S
    <2>2. /\ \A i \in 1 .. k : Ascending(S)[i] \in S
          /\ \A i, j \in 1 .. k : i < j => Ascending(S)[i] < Ascending(S)[j]
      BY <2>1, AscendingLists
    <2> QED
      BY <2>1, <2>2 DEF S
  <1> HIDE DEF list, K
  <1>6. ASSUME NEW j \in 1 .. K PROVE at(j) \in 0 .. C - 1 /\ pos(j) \in 1 .. k /\ j - 1 = at(j) * k + (pos(j) - 1)
    <2> DEFINE a == (j - 1) \div k  r == (j - 1) % k
    <2>1. a \in 0 .. C - 1 /\ r \in 0 .. k - 1 /\ j - 1 = (a * k) + r
      BY SlotIs DEF K
    <2> HIDE DEF a, r
    <2>2. r + 1 \in 1 .. k /\ (r + 1) - 1 = r
      BY <2>1
    <2> QED
      BY <2>1, <2>2 DEF a, r
  <1>7. ASSUME NEW i \in 1 .. K - 1, i % k # 0
        PROVE  i \in 1 .. K /\ i + 1 \in 1 .. K /\ at(i + 1) = at(i) /\ pos(i) < pos(i + 1)
    <2>1. K \in Int
      BY DEF K
    <2>2. i \in 1 .. K /\ i + 1 \in 1 .. K /\ i \in Nat \ {0} /\ (i + 1) - 1 = i
      BY <1>7, <2>1
    <2>3. i \div k = (i - 1) \div k /\ i % k = ((i - 1) % k) + 1
      BY <1>7, <2>2, NextSlot
    <2>4. at(i + 1) = at(i) /\ pos(i + 1) = (i % k) + 1 /\ pos(i) = i % k
      BY <2>2, <2>3
    <2>5. pos(i) \in Int
      BY <1>6, <2>2
    <2> HIDE DEF at, pos
    <2> DEFINE r == i % k
    <2> HIDE DEF r
    <2>6. pos(i + 1) = r + 1 /\ pos(i) = r
      BY <2>4 DEF r
    <2> QED
      BY <2>2, <2>4, <2>5, <2>6
  <1> HIDE DEF at, pos
  <1>8. \A j \in 1 .. K : idx[j] = list(at(j))[pos(j)]
    BY <1>3
  <1>9. idx = [j \in 1 .. K |-> idx[j]]
    BY <1>3
  <1>10. \A i \in 1 .. K : idx[i] \in D
    BY <1>5, <1>6, <1>8
  <1>11. \A i \in 1 .. K - 1 : i % k # 0 => idx[i] < idx[i + 1]
    <2> TAKE i \in 1 .. K - 1
    <2> HAVE i % k # 0
    <2>1. i \in 1 .. K /\ i + 1 \in 1 .. K /\ at(i + 1) = at(i) /\ pos(i) < pos(i + 1)
      BY <1>7
    <2> QED
      BY <1>5, <1>6, <1>8, <2>1
  <1>12. \A i, j \in 1 .. K : at(i) = at(j) /\ idx[i] = idx[j] => i = j
    <2> TAKE i, j \in 1 .. K
    <2> HAVE at(i) = at(j) /\ idx[i] = idx[j]
    <2>1. /\ at(i) \in 0 .. C - 1 /\ pos(i) \in 1 .. k /\ pos(j) \in 1 .. k
          /\ i - 1 = (at(i) * k) + (pos(i) - 1) /\ j - 1 = (at(i) * k) + (pos(j) - 1)
      BY <1>6
    <2>2. list(at(i))[pos(i)] = list(at(i))[pos(j)] /\ list(at(i))[pos(i)] \in D
      BY <1>5, <1>8, <2>1
    <2> DEFINE v == list(at(i))
    <2>3. ~(pos(i) < pos(j)) /\ ~(pos(j) < pos(i))
      <3>1. \A a, b \in 1 .. k : a < b => v[a] < v[b]
        BY <1>5, <2>1
      <3>2. v[pos(i)] = v[pos(j)] /\ v[pos(i)] \in Int
        BY <1>1, <2>2
      <3>3. \A x \in Int : ~(x < x)
        OBVIOUS
      <3> HIDE DEF v
      <3>4. ~(v[pos(i)] < v[pos(j)]) /\ ~(v[pos(j)] < v[pos(i)])
        BY <3>2, <3>3, Zenon
      <3> QED
        BY <2>1, <3>1, <3>4, Zenon
    <2>4. pos(i) = pos(j)
      BY <2>1, <2>3
    <2>5. i - 1 = j - 1
      BY <2>1, <2>4
    <2> QED
      BY <2>5
  <1> QED
    BY <1>9, <1>10, <1>11, <1>12 DEF KeepsPlaces, K, D, at

\* The values kept are integers.
LEMMA KeptAreIntegers ==
  ASSUME NEW C \in Nat, NEW elems \in Nat \ {0}, NEW chunked,
         \A c \in 0 .. C - 1 : chunked[c] \in [0 .. elems - 1 -> Int],
         NEW k \in Nat \ {0}, NEW idx, KeepsPlaces(idx, C * k, k, elems), NEW j \in 1 .. C * k
  PROVE  chunked[(j - 1) \div k][idx[j]] \in Int
  <1>1. (j - 1) \div k \in 0 .. C - 1
    BY SlotIs
  <1>2. idx[j] \in 0 .. elems - 1
    BY DEF KeepsPlaces
  <1> QED
    BY <1>1, <1>2

\* The pairs of a tensor, scattered into zeros, are the tensor.
PairsMean(ct) ==
    LET pairs == SparsePairs(ct)  sent == Decompress(ct)
    IN  /\ \A p \in pairs : p.at \in DOMAIN sent /\ p.val = sent[p.at]
        /\ \A i \in DOMAIN sent : sent[i] # 0 => \E p \in pairs : p.at = i

LEMMA PairsAreTheTensor ==
  ASSUME NEW s, IsShape(s), NEW g, g = Geometry(s),
         NEW ct, ct.shape = s, ct.chunks = g.chunks, ct.elems = g.elems, ct.topk \in Nat \ {0},
         NEW idx, idx = Indices(ct), DOMAIN idx = 1 .. ct.chunks * ct.topk,
         KeepsPlaces(idx, ct.chunks * ct.topk, ct.topk, ct.elems)
  PROVE  PairsMean(ct)
  <1> DEFINE k == ct.topk  n == ct.chunks * k  vals == KeptValues(ct)
             chunk(j) == (j - 1) \div k
             at(c, p) == {j \in DOMAIN idx : chunk(j) = c /\ idx[j] = p}
             value(c, p) == IF at(c, p) = {} THEN 0 ELSE vals[CHOOSE j \in at(c, p) : TRUE]
             scattered == [c \in 0 .. g.chunks - 1 |-> [p \in 0 .. g.elems - 1 |-> value(c, p)]]
             sent == Decompress(ct)
             in(j) == AnEntry(g, chunk(j), idx[j])
             pair(j) == [slot |-> j, val |-> vals[j], at |-> EntryAt(g, chunk(j), idx[j])]
  <1>1. sent = [i \in 0 .. g.numel - 1 |-> scattered[Place(g, i)[1]][Place(g, i)[2]]]
    <2>1. Scattered(ct, idx, vals) = scattered
      BY DEF Scattered
    <2>2. sent = Decode(g, Scattered(ct, idx, vals))
      BY EvaluatedIs DEF Decompress
    <2> HIDE DEF scattered, sent, vals
    <2> QED
      BY <2>1, <2>2 DEF Decode
  <1>2. SparsePairs(ct) = {pair(j) : j \in {j \in DOMAIN idx : in(j)}}
    <2>1. SparsePairs(ct) = PairsAt(g, ct, idx, vals)
      BY EvaluatedIs DEF SparsePairs
    <2> HIDE DEF vals
    <2>2. PairsAt(g, ct, idx, vals) = {pair(j) : j \in {j \in DOMAIN idx : in(j)}}
      BY DEF PairsAt, AnEntry, EntryAt, Row, Col, Flat
    <2> QED
      BY <2>1, <2>2
  <1>3. /\ g.chunks \in Nat \ {0} /\ g.elems \in Nat \ {0}
        /\ \A j \in 1 .. n : chunk(j) \in 0 .. g.chunks - 1 /\ idx[j] \in 0 .. g.elems - 1
    <2>1. g.chunks \in Nat \ {0} /\ g.elems \in Nat \ {0}
      BY GeometryIs
    <2>2. \A j \in 1 .. n : chunk(j) \in 0 .. g.chunks - 1
      BY <2>1, SlotIs
    <2>3. \A j \in 1 .. n : idx[j] \in 0 .. g.elems - 1
      BY DEF KeepsPlaces
    <2> QED
      BY <2>1, <2>2, <2>3
  <1>4. \A i, j \in 1 .. n : chunk(i) = chunk(j) /\ idx[i] = idx[j] => i = j
    BY DEF KeepsPlaces
  <1>5. DOMAIN idx = 1 .. n
    OBVIOUS
  <1> HIDE DEF vals, n, chunk, sent, k
  <1>6. ASSUME NEW j \in 1 .. n PROVE value(chunk(j), idx[j]) = vals[j]
    <2>1. at(chunk(j), idx[j]) = {j}
      BY <1>4, <1>5
    <2> HIDE DEF at
    <2> QED
      BY <2>1
  <1>7. ASSUME NEW i \in 0 .. g.numel - 1, NEW c \in 0 .. g.chunks - 1, NEW p \in 0 .. g.elems - 1, Place(g, i) = <<c, p>>
        PROVE  sent[i] = value(c, p)
    <2>1. Place(g, i)[1] = c /\ Place(g, i)[2] = p
      BY <1>7
    <2>2. scattered[c][p] = value(c, p)
      OBVIOUS
    <2> HIDE DEF scattered, value
    <2> QED
      BY <1>1, <2>1, <2>2
  <1>8. DOMAIN sent = 0 .. g.numel - 1
    BY <1>1
  <1> HIDE DEF value, scattered
  <1>9. ASSUME NEW q \in SparsePairs(ct) PROVE q.at \in DOMAIN sent /\ q.val = sent[q.at]
    <2>1. PICK j \in DOMAIN idx : in(j) /\ q = pair(j)
      <3> HIDE DEF in, pair
      <3> QED
        BY <1>2
    <2> DEFINE e == EntryAt(g, chunk(j), idx[j])
    <2>2. q.at = e /\ q.val = vals[j]
      BY <2>1
    <2>3. j \in 1 .. n /\ chunk(j) \in 0 .. g.chunks - 1 /\ idx[j] \in 0 .. g.elems - 1
      BY <1>3, <1>5
    <2>4. e \in 0 .. g.numel - 1 /\ Place(g, e) = <<chunk(j), idx[j]>>
      BY <2>1, <2>3, EntriesAre
    <2> HIDE DEF e
    <2>5. sent[e] = vals[j]
      BY <1>6, <1>7, <2>3, <2>4
    <2> QED
      BY <1>8, <2>2, <2>4, <2>5
  <1>10. ASSUME NEW i \in DOMAIN sent, sent[i] # 0 PROVE \E q \in SparsePairs(ct) : q.at = i
    <2>1. PICK c \in 0 .. g.chunks - 1 : \E p \in 0 .. g.elems - 1 :
             Place(g, i) = <<c, p>> /\ AnEntry(g, c, p) /\ EntryAt(g, c, p) = i
      BY <1>8, PlacesAre
    <2>2. PICK p \in 0 .. g.elems - 1 : Place(g, i) = <<c, p>> /\ AnEntry(g, c, p) /\ EntryAt(g, c, p) = i
      BY <2>1
    <2>3. value(c, p) # 0
      BY <1>7, <1>8, <1>10, <2>2
    <2>4. at(c, p) # {}
      BY <2>3 DEF value
    <2>5. PICK j \in DOMAIN idx : chunk(j) = c /\ idx[j] = p
      BY <2>4
    <2>6. in(j) /\ pair(j).at = i
      BY <2>2, <2>5
    <2> HIDE DEF in, pair
    <2>7. pair(j) \in SparsePairs(ct)
      BY <1>2, <2>6
    <2> QED
      BY <2>6, <2>7
  <1> QED
    BY <1>9, <1>10 DEF PairsMean, sent

-----------------------------------------------------------------------------
\* What Compress makes of a tensor of integers.
LEMMA CompressIs ==
  ASSUME NEW s, IsShape(s), NEW g, g = Geometry(s), NEW t, IntTensor(t, s), NEW tie,
         NEW ct, ct = Compress(s, t, tie), NEW k, k = EffectiveTopK(g), NEW n, n = g.chunks * k
  PROVE  \E idx, codes :
           /\ ct.shape = s /\ ct.chunks = g.chunks /\ ct.elems = g.elems /\ ct.topk = k
           /\ ct.idxs = Pack12(idx) /\ IsList(idx) /\ Len(idx) = n /\ KeepsPlaces(idx, n, k, g.elems)
           /\ ct.codes = Pack2(codes) /\ IsList(codes) /\ Len(codes) = n
           /\ \A i \in 1 .. n : codes[i] \in 0 .. Bins - 1
           /\ ct.qparams.shift \in Int
           /\ ct.qparams.scale \in Nat /\ ScaleFloor <= ct.qparams.scale
           /\ DOMAIN ct.qparams.lookup = 0 .. Bins - 1
           /\ \A b \in 0 .. Bins - 1 : ct.qparams.lookup[b] \in Int
  <1> DEFINE chunked == Encode(g, t)
             idx == Kept(chunked, k, tie)
             vals == [j \in DOMAIN idx |-> chunked[(j - 1) \div k][idx[j]]]
             q == Quantize(vals)
  <1>1. ct = Wire(s, g, idx, q)
    BY EvaluatedIs DEF Compress, CompressChunks, CompressKept
  <1>2. k \in Nat \ {0} /\ k <= g.elems /\ g.chunks \in Nat \ {0} /\ g.elems \in Nat \ {0}
    BY TopKIs, GeometryIs
  <1>3. n \in Nat \ {0}
    <2>1. \A x, y \in Nat \ {0} : x * y \in Nat \ {0}
      <3> TAKE x, y \in Nat \ {0}
      <3>1. x * y \in Nat /\ x * 1 <= x * y
        OBVIOUS
      <3> QED
        BY <3>1
    <2> QED
      BY <1>2, <2>1
  <1>4. DOMAIN chunked = 0 .. g.chunks - 1 /\ \A c \in 0 .. g.chunks - 1 : chunked[c] \in [0 .. g.elems - 1 -> Int]
    BY EncodeIs
  <1> HIDE DEF chunked
  <1>5. idx = [j \in 1 .. n |-> idx[j]] /\ KeepsPlaces(idx, n, k, g.elems)
    <2>1. idx = Kept(chunked, k, tie)
      OBVIOUS
    <2> HIDE DEF idx
    <2>2. /\ idx = [j \in 1 .. g.chunks * k |-> idx[j]]
          /\ KeepsPlaces(idx, g.chunks * k, k, g.elems)
      <3> DEFINE C == g.chunks  e == g.elems
      <3>1. /\ C \in Nat /\ e \in Nat \ {0} /\ k \in Nat \ {0} /\ k <= e
            /\ DOMAIN chunked = 0 .. C - 1 /\ \A c \in 0 .. C - 1 : chunked[c] \in [0 .. e - 1 -> Int]
        BY <1>2, <1>4
      <3> HIDE DEF C, e
      <3>2. idx = [j \in 1 .. C * k |-> idx[j]]
        BY <2>1, <3>1, KeptIs
      <3>3. KeepsPlaces(idx, C * k, k, e)
        BY <2>1, <3>1, KeptIs
      <3> QED
        BY <3>2, <3>3 DEF C, e
    <2> QED
      BY <2>2
  <1> HIDE DEF idx
  <1>6. \A j \in 1 .. n : chunked[(j - 1) \div k][idx[j]] \in Int
    <2> DEFINE C == g.chunks  e == g.elems
    <2>1. /\ C \in Nat /\ e \in Nat \ {0} /\ k \in Nat \ {0} /\ n = C * k
          /\ \A c \in 0 .. C - 1 : chunked[c] \in [0 .. e - 1 -> Int]
          /\ KeepsPlaces(idx, C * k, k, e)
      BY <1>2, <1>4, <1>5
    <2> HIDE DEF C, e
    <2> TAKE j \in 1 .. n
    <2>2. j \in 1 .. C * k
      BY <2>1
    <2> QED
      BY <2>1, <2>2, KeptAreIntegers
  <1>7. DOMAIN vals = 1 .. n /\ vals = [j \in 1 .. n |-> vals[j]] /\ \A j \in 1 .. n : vals[j] \in Int
    <2>1. DOMAIN idx = 1 .. n
      BY <1>5
    <2> QED
      BY <1>6, <2>1
  <1> HIDE DEF vals
  <1>8. Len(vals) = n
    BY <1>3, <1>7, FunctionIsList
  <1>9. /\ DOMAIN q.codes = 1 .. n /\ Len(q.codes) = n
        /\ q.codes = [i \in 1 .. n |-> q.codes[i]]
        /\ \A i \in 1 .. n : q.codes[i] \in 0 .. Bins - 1
        /\ q.qparams.shift \in Int
        /\ q.qparams.scale \in Nat /\ ScaleFloor <= q.qparams.scale
        /\ DOMAIN q.qparams.lookup = 0 .. Bins - 1
        /\ \A b \in 0 .. Bins - 1 : q.qparams.lookup[b] \in Int
    BY <1>3, <1>7, <1>8, QuantizeIs
  <1> HIDE DEF q
  <1>10. IsList(idx) /\ Len(idx) = n /\ IsList(q.codes)
    BY <1>3, <1>5, <1>9, FunctionIsList
  <1>11. /\ ct.shape = s /\ ct.chunks = g.chunks /\ ct.elems = g.elems /\ ct.topk = k
         /\ ct.idxs = Pack12(idx) /\ ct.codes = Pack2(q.codes) /\ ct.qparams = q.qparams
    BY <1>1 DEF Wire
  <1> QED
    BY <1>5, <1>9, <1>10, <1>11

-----------------------------------------------------------------------------
(* Blobs one after another, each at the offset those before it add up to. *)
Blobs(ss, n) == n \in Nat /\ ss = [i \in 1 .. n |-> ss[i]] /\ \A i \in 1 .. n : IsList(ss[i])

\* c holds the first i blobs.
Holds(c, ss, t, i) ==
    /\ IsList(c) /\ Len(c) = t[i]
    /\ \A h \in 1 .. i : \A j \in 1 .. Len(ss[h]) :
         t[h - 1] + j \in 1 .. t[i] /\ c[t[h - 1] + j] = ss[h][j]

LEMMA JoinIs ==
  ASSUME NEW a, NEW b, IsList(a), IsList(b)
  PROVE  /\ IsList(a \o b) /\ Len(a \o b) = Len(a) + Len(b)
         /\ \A i \in 1 .. Len(a) : (a \o b)[i] = a[i]
         /\ \A i \in 1 .. Len(b) : (a \o b)[Len(a) + i] = b[i]
  <1> DEFINE V == Listed(a) \cup Listed(b)
  <1>1. a \in Seq(V) /\ b \in Seq(V)
    <2>1. (\A i \in 1 .. Len(a) : a[i] \in V) /\ (\A i \in 1 .. Len(b) : b[i] \in V)
      BY DEF Listed
    <2> HIDE DEF V
    <2> QED
      BY <2>1, SeqIs DEF IsList
  <1> HIDE DEF V
  <1>2. Len(a \o b) = Len(a) + Len(b)
    BY <1>1
  <1>3. \A i \in 1 .. Len(a) : (a \o b)[i] = a[i]
    BY <1>1
  <1>4. \A i \in 1 .. Len(b) : (a \o b)[Len(a) + i] = b[i]
    BY <1>1
  <1> QED
    BY <1>2, <1>3, <1>4, JoinOfLists

LEMMA HoldsNext ==
  ASSUME NEW n \in Nat, NEW ss, NEW t, NEW i \in 1 .. n, IsList(ss[i]), t[i - 1] \in Nat, t[i] = t[i - 1] + Len(ss[i]),
         NEW c, Holds(c, ss, t, i - 1)
  PROVE  Holds(c \o ss[i], ss, t, i)
  <1> DEFINE d == c \o ss[i]  L == Len(ss[i])  a == t[i - 1]
  <1>1. IsList(c) /\ Len(c) = a
    BY DEF Holds
  <1>2. /\ IsList(d) /\ Len(d) = a + L
        /\ \A m \in 1 .. a : d[m] = c[m]
        /\ \A m \in 1 .. L : d[a + m] = ss[i][m]
    <2> DEFINE b == ss[i]
    <2>1. /\ IsList(d) /\ Len(d) = Len(c) + L
          /\ \A m \in 1 .. Len(c) : d[m] = c[m]
          /\ \A m \in 1 .. L : d[Len(c) + m] = ss[i][m]
      <3>1. IsList(b) /\ IsList(c)
        BY <1>1
      <3> HIDE DEF b
      <3>2. IsList(c \o b) /\ Len(c \o b) = Len(c) + Len(b)
        BY ONLY <3>1, JoinIs
      <3>3. \A m \in 1 .. Len(c) : (c \o b)[m] = c[m]
        BY ONLY <3>1, JoinIs
      <3>4. \A m \in 1 .. Len(b) : (c \o b)[Len(c) + m] = b[m]
        BY ONLY <3>1, JoinIs
      <3> QED
        BY <3>2, <3>3, <3>4 DEF b
    <2> HIDE DEF d, L, a
    <2> QED
      BY <1>1, <2>1
  <1>3. L \in Nat /\ a \in Nat /\ t[i] = a + L
    BY DEF IsList
  <1> HIDE DEF d, L, a
  <1>4. ASSUME NEW h \in 1 .. i, NEW j \in 1 .. Len(ss[h])
        PROVE  t[h - 1] + j \in 1 .. t[i] /\ d[t[h - 1] + j] = ss[h][j]
    <2>1. CASE h = i
      <3>1. j \in 1 .. L /\ t[h - 1] = a
        BY <2>1 DEF L, a
      <3>2. a + j \in 1 .. a + L /\ d[a + j] = ss[i][j]
        BY <1>2, <1>3, <3>1
      <3> QED
        BY <1>3, <2>1, <3>1, <3>2
    <2>2. CASE h # i
      <3>1. h \in 1 .. i - 1
        BY <2>2
      <3>2. t[h - 1] + j \in 1 .. a /\ c[t[h - 1] + j] = ss[h][j]
        BY <3>1 DEF Holds, a
      <3>3. t[h - 1] + j \in 1 .. t[i]
        BY <1>3, <3>2
      <3> QED
        BY <1>2, <3>2, <3>3
    <2> QED
      BY <2>1, <2>2
  <1> QED
    BY <1>2, <1>3, <1>4 DEF Holds, d

LEMMA ConcatHolds ==
  ASSUME NEW n, NEW ss, Blobs(ss, n), NEW t, NEW lens, Totals(t, lens, n, Nat),
         \A i \in 1 .. n : lens[i] = Len(ss[i])
  PROVE  Holds(Concat(ss), ss, t, n)
  <1> DEFINE Body(g) == [i \in 0 .. n |-> IF i = 0 THEN <<>> ELSE g[i - 1] \o ss[i]]
             c == CHOOSE g : g = Body(g)
             V == UNION {Listed(ss[i]) : i \in 1 .. n}
             Q == Seq(V)
             step == [a \in (1 .. n) \X Q |-> a[2] \o ss[a[1]]]
             Off == {i \in Nat : i <= n /\ ~Holds(c[i], ss, t, i)}
  <1>1. n \in Nat /\ Len(ss) = n
    BY FunctionIsList DEF Blobs
  <1>2. Concat(ss) = c[n]
    BY <1>1 DEF Concat
  <1>3. /\ n \in Int /\ 0 \in Int /\ 0 <= n /\ 0 + 1 = 1 /\ <<>> \in Q
    BY <1>1
  <1>4. ASSUME NEW i \in 1 .. n PROVE ss[i] \in Q
    <2>1. \A j \in 1 .. Len(ss[i]) : ss[i][j] \in V
      BY DEF Listed
    <2> HIDE DEF V
    <2>2. IsList(ss[i])
      BY DEF Blobs
    <2> QED
      BY <2>1, <2>2, SeqIs DEF IsList
  <1>5. \A i \in 1 .. n : \A x \in Q : step[<<i, x>>] = x \o ss[i]
    OBVIOUS
  <1>6. \A x, y \in Q : x \o y \in Q
    OBVIOUS
  <1> HIDE DEF step, Q, V
  <1>7. Steps(step, 0, n, Q)
    <2>1. \A i \in 1 .. n : \A x \in Q : step[<<i, x>>] \in Q
      BY <1>4, <1>5, <1>6
    <2> QED
      BY <1>3, <2>1 DEF Steps
  <1>8. PICK f \in [0 .. n -> Q] : Computes(f, 0, n, <<>>, step)
    BY <1>3, <1>7, RecursionExists
  <1>9. f[0] = <<>> /\ \A i \in 1 .. n : f[i - 1] \in Q /\ f[i] = f[i - 1] \o ss[i]
    <2>1. \A i \in 1 .. n : i - 1 \in 0 .. n
      BY <1>1
    <2> QED
      BY <1>3, <1>5, <1>8, <2>1 DEF Computes
  <1>10. f = Body(f)
    <2>1. \A i \in 0 .. n : i # 0 => i \in 1 .. n
      BY <1>1
    <2> QED
      BY <1>9, <2>1, Zenon
  <1>11. c = Body(c)
    BY <1>10, Zenon
  <1> HIDE DEF c
  <1>12. c[0] = <<>> /\ \A i \in 1 .. n : c[i] = c[i - 1] \o ss[i]
    <2>1. 0 \in 0 .. n /\ \A i \in 1 .. n : i \in 0 .. n /\ i # 0
      BY <1>1
    <2> QED
      BY <1>11, <2>1
  <1>13. t[0] = 0 /\ \A i \in 1 .. n : t[i - 1] \in Nat /\ t[i] = t[i - 1] + Len(ss[i])
    <2>1. \A i \in 1 .. n : i - 1 \in 0 .. n
      BY <1>1
    <2> QED
      BY <2>1 DEF Totals
  <1>14. Holds(c[0], ss, t, 0)
    <2>1. <<>> \in Seq({}) /\ Len(<<>>) = 0
      OBVIOUS
    <2>2. IsList(<<>>)
      BY <2>1, SeqIsList
    <2> QED
      BY <1>12, <1>13, <2>1, <2>2 DEF Holds
  <1>15. Off = {}
    <2> SUFFICES ASSUME Off # {} PROVE FALSE
      OBVIOUS
    <2>1. PICK i \in Off : \A m \in Off : i <= m
      <3>1. Off \subseteq Nat
        OBVIOUS
      <3> HIDE DEF Off
      <3> QED
        BY <3>1, LeastNatural
    <2>2. i \in Nat /\ i <= n /\ ~Holds(c[i], ss, t, i)
      OBVIOUS
    <2>3. i # 0
      BY <1>14, <2>2
    <2>4. i \in 1 .. n /\ i - 1 \in Nat /\ i - 1 <= n /\ ~(i <= i - 1)
      BY <1>1, <2>2, <2>3
    <2>5. Holds(c[i - 1], ss, t, i - 1)
      BY <2>1, <2>4
    <2>6. IsList(ss[i])
      BY <2>4 DEF Blobs
    <2>7. Holds(c[i - 1] \o ss[i], ss, t, i)
      BY <1>1, <1>13, <2>4, <2>5, <2>6, HoldsNext
    <2> HIDE DEF Off
    <2> QED
      BY <1>12, <2>2, <2>4, <2>7
  <1>16. n \in Nat /\ n <= n
    BY <1>1
  <1> QED
    BY <1>2, <1>15, <1>16

\* A piece of a list.
PieceAt(s, a, m, r) ==
    /\ IsList(s) /\ a \in Nat /\ m \in Nat /\ a + m <= Len(s)
    /\ IsList(r) /\ Len(r) = m /\ \A j \in 1 .. m : s[a + j] = r[j]

LEMMA PieceIs ==
  ASSUME NEW s, NEW a, NEW m, NEW r, PieceAt(s, a, m, r)
  PROVE  SubSeq(s, a + 1, a + m) = r
  <1> DEFINE V == Listed(s)  p == SubSeq(s, a + 1, a + m)
  <1>1. s \in Seq(V)
    BY ListIsSeq DEF PieceAt
  <1> HIDE DEF V
  <1>0. a \in Nat /\ m \in Nat /\ a + m <= Len(s) /\ Len(s) \in Nat
    BY DEF PieceAt, IsList
  <1>2. a + 1 \in 1 .. Len(s) + 1 /\ a + m \in (a + 1) - 1 .. Len(s) /\ Len(s) \in Nat
    BY <1>0
  <1>3. p \in Seq(V) /\ Len(p) = (a + m) - (a + 1) + 1 /\ \A i \in 1 .. (a + m) - (a + 1) + 1 : p[i] = s[(a + 1) + i - 1]
    BY <1>1, <1>2, SubSeqProperties
  <1> HIDE DEF p
  <1>4. (a + m) - (a + 1) + 1 = m
    BY <1>0
  <1>5. \A i \in 1 .. m : (a + 1) + i - 1 = a + i
    BY <1>0
  <1>6. Len(p) = m /\ \A i \in 1 .. m : p[i] = r[i]
    BY <1>3, <1>4, <1>5 DEF PieceAt
  <1>7. IsList(p)
    BY <1>3, SeqIsList
  <1> QED
    BY <1>6, <1>7 DEF IsList, p, PieceAt

-----------------------------------------------------------------------------
(* A payload that is written reads back as it was. *)

\* A compressed tensor whose header entry is within the bounds of the reader.
IsCompressed(ct) ==
    /\ ct = [idxs |-> ct.idxs, codes |-> ct.codes, qparams |-> ct.qparams, chunks |-> ct.chunks,
             elems |-> ct.elems, shape |-> ct.shape, topk |-> ct.topk]
    /\ IsList(ct.idxs) /\ IsList(ct.codes)
    /\ \A n : EntryBounded(Entry(n, ct))

\* A dense tensor: an entry for each index of its shape.
IsDense(d) ==
    /\ d = [shape |-> d.shape, value |-> d.value] /\ Product(d.shape) \in Nat
    /\ d.value = [i \in 0 .. Product(d.shape) - 1 |-> d.value[i]]

\* Tensors of known names, each compressed or dense.
IsPayload(p) ==
    /\ p = [uid |-> p.uid, window |-> p.window, meta |-> p.meta, compressed |-> p.compressed, dense |-> p.dense]
    /\ p.compressed = [n \in DOMAIN p.compressed |-> p.compressed[n]] /\ DOMAIN p.compressed \subseteq Listed(NameOrder)
    /\ p.dense = [n \in DOMAIN p.dense |-> p.dense[n]] /\ DOMAIN p.dense \subseteq Listed(NameOrder)
    /\ DOMAIN p.compressed \cap DOMAIN p.dense = {}
    /\ \A n \in DOMAIN p.compressed : IsCompressed(p.compressed[n])
    /\ \A n \in DOMAIN p.dense : IsDense(p.dense[n])

\* Entries in the order of their names, of every name.
EntriesOf(es, S) ==
    /\ es = [i \in 1 .. Len(Sorted(S)) |-> es[i]]
    /\ \A i \in 1 .. Len(Sorted(S)) : es[i].name = Sorted(S)[i]

\* es has an entry of every name of S.
HasAll(es, S) == \A n \in S : \E i \in 1 .. Len(es) : es[i].name = n

LEMMA EntriesAreSorted ==
  ASSUME NEW S, S \subseteq Listed(NameOrder), NEW es, EntriesOf(es, S)
  PROVE  /\ Len(es) = Len(Sorted(S)) /\ Len(es) \in Nat
         /\ {e.name : e \in Listed(es)} = S
         /\ StrictlySorted(es)
         /\ HasAll(es, S)
  <1> DEFINE L == Sorted(S)  k == Len(L)  names == {e.name : e \in Listed(es)}
  <1>1. L \in Seq(S) /\ \A n \in S : \E i \in 1 .. k : L[i] = n
    <2>1. S \cap Listed(NameOrder) = S
      OBVIOUS
    <2> QED
      BY <2>1, SortedLists
  <1>2. k \in Nat /\ L = [i \in 1 .. k |-> L[i]] /\ \A i \in 1 .. k : L[i] \in S
    BY <1>1
  <1>3. es = [i \in 1 .. k |-> es[i]] /\ \A i \in 1 .. k : es[i].name = L[i]
    BY DEF EntriesOf
  <1> HIDE DEF L, k
  <1>4. Len(es) = k
    BY <1>2, <1>3, FunctionIsList
  <1>5. \A n \in S : \E i \in 1 .. k : es[i].name = n
    BY <1>1, <1>3 DEF k
  <1>6. names = S
    <2>1. ASSUME NEW n \in S PROVE n \in names
      BY <1>4, <1>5, <2>1 DEF Listed
    <2>2. ASSUME NEW n \in names PROVE n \in S
      <3>1. PICK i \in 1 .. k : n = es[i].name
        BY <1>4 DEF Listed
      <3> QED
        BY <1>2, <1>3, <3>1
    <2> QED
      BY <2>1, <2>2
  <1> HIDE DEF names
  <1>7. [i \in 1 .. k |-> es[i].name] = L
    BY <1>2, <1>3
  <1>8. StrictlySorted(es)
    <2>1. [i \in 1 .. Len(es) |-> es[i].name] = Sorted({e.name : e \in Listed(es)})
      BY <1>4, <1>6, <1>7 DEF L, names
    <2> QED
      BY <2>1, Zenon DEF StrictlySorted
  <1> QED
    BY <1>2, <1>4, <1>5, <1>6, <1>8 DEF L, k, names, HasAll

LEMMA ValuesAre ==
  ASSUME NEW d, IsDense(d)
  PROVE  /\ IsList(Values(d.value)) /\ Len(Values(d.value)) = Product(d.shape)
         /\ \A j \in 0 .. Product(d.shape) - 1 : Values(d.value)[j + 1] = d.value[j]
  <1> DEFINE P == Product(d.shape)  v == Values(d.value)
  <1>1. P \in Nat /\ DOMAIN d.value = 0 .. P - 1
    BY DEF IsDense
  <1>2. v = [i \in 1 .. P |-> d.value[i - 1]]
    BY <1>1, UpToIs DEF Values
  <1> HIDE DEF P
  <1>3. v = [i \in 1 .. P |-> v[i]] /\ \A j \in 0 .. P - 1 : v[j + 1] = d.value[j]
    <2>1. \A j \in 0 .. P - 1 : j + 1 \in 1 .. P /\ (j + 1) - 1 = j
      BY <1>1
    <2> QED
      BY <1>2, <2>1
  <1> HIDE DEF v
  <1>4. IsList(v) /\ Len(v) = P
    BY <1>1, <1>3, FunctionIsList
  <1> QED
    BY <1>3, <1>4 DEF v, P

LEMMA TotalsGrow ==
  ASSUME NEW t, NEW s, NEW n \in Nat, Totals(t, s, n, Nat), \A i \in 1 .. n : s[i] \in Nat
  PROVE  \A i \in 0 .. n : t[i] \in Nat /\ t[i] <= t[n]
  <1> DEFINE Off == {k \in Nat : k <= n /\ ~(t[n - k] <= t[n])}
  <1>1. \A i \in 0 .. n : t[i] \in Nat
    BY DEF Totals
  <1>2. Off = {}
    <2> SUFFICES ASSUME Off # {} PROVE FALSE
      OBVIOUS
    <2>1. PICK k \in Off : \A m \in Off : k <= m
      <3>1. Off \subseteq Nat
        OBVIOUS
      <3> HIDE DEF Off
      <3> QED
        BY <3>1, LeastNatural
    <2>2. k \in Nat /\ k <= n /\ ~(t[n - k] <= t[n])
      OBVIOUS
    <2>3. k # 0
      BY <1>1, <2>2
    <2>4. k - 1 \in Nat /\ k - 1 <= n /\ ~(k <= k - 1)
      BY <2>2, <2>3
    <2>5. t[n - (k - 1)] <= t[n]
      BY <2>1, <2>4
    <2> DEFINE i == n - (k - 1)
    <2>6. i \in 1 .. n /\ i - 1 = n - k
      BY <2>2, <2>3
    <2>7. t[i] = t[i - 1] + s[i] /\ s[i] \in Nat
      BY <2>6 DEF Totals
    <2>8. t[i - 1] \in Nat /\ t[i] \in Nat /\ t[n] \in Nat
      <3>1. i - 1 \in 0 .. n /\ i \in 0 .. n /\ n \in 0 .. n
        BY <2>6
      <3> QED
        BY <1>1, <3>1
    <2>9. t[i] <= t[n] /\ ~(t[i - 1] <= t[n])
      BY <2>2, <2>5, <2>6
    <2> HIDE DEF i
    <2> QED
      BY <2>7, <2>8, <2>9
  <1>3. ASSUME NEW i \in 0 .. n PROVE t[i] <= t[n]
    <2>1. n - i \in Nat /\ n - i <= n /\ n - (n - i) = i
      OBVIOUS
    <2> QED
      BY <1>2, <2>1
  <1> QED
    BY <1>1, <1>3

\* What two concatenations, one after the other, hold.
Offsets(t, ss, n) ==
    Blobs(ss, n) /\ \E ls : Totals(t, ls, n, Nat) /\ \A i \in 1 .. n : ls[i] = Len(ss[i])

BodyHolds(body, ss, t, a, vs, u, b) ==
    /\ IsList(body) /\ Len(body) = t[a] + u[b]
    /\ \A i \in 1 .. a : \A j \in 1 .. Len(ss[i]) : body[t[i - 1] + j] = ss[i][j]
    /\ \A i \in 1 .. b : \A j \in 1 .. Len(vs[i]) : body[t[a] + (u[i - 1] + j)] = vs[i][j]

LEMMA BodyIs ==
  ASSUME NEW ss, NEW a, NEW t, Offsets(t, ss, a), NEW vs, NEW b, NEW u, Offsets(u, vs, b),
         NEW body, body = Concat(ss) \o Concat(vs)
  PROVE  BodyHolds(body, ss, t, a, vs, u, b)
  <1> DEFINE A == Concat(ss)  B == Concat(vs)
  <1>1. Holds(A, ss, t, a) /\ Holds(B, vs, u, b)
    BY ConcatHolds DEF Offsets
  <1>2. body = A \o B
    OBVIOUS
  <1> HIDE DEF A, B
  <1>3. IsList(A) /\ Len(A) = t[a] /\ IsList(B) /\ Len(B) = u[b]
    BY <1>1 DEF Holds
  <1>4. IsList(body) /\ Len(body) = Len(A) + Len(B)
    BY ONLY <1>2, <1>3, JoinIs
  <1>5. \A m \in 1 .. Len(A) : body[m] = A[m]
    BY ONLY <1>2, <1>3, JoinIs
  <1>6. \A m \in 1 .. Len(B) : body[Len(A) + m] = B[m]
    BY ONLY <1>2, <1>3, JoinIs
  <1>7. \A i \in 1 .. a : \A j \in 1 .. Len(ss[i]) : body[t[i - 1] + j] = ss[i][j]
    BY <1>1, <1>3, <1>5 DEF Holds
  <1>8. \A i \in 1 .. b : \A j \in 1 .. Len(vs[i]) : body[t[a] + (u[i - 1] + j)] = vs[i][j]
    BY <1>1, <1>3, <1>6, Zenon DEF Holds
  <1> QED
    BY <1>3, <1>4, <1>7, <1>8 DEF BodyHolds

\* The compressed tensors of a frame: entries, totals and the pieces of its body.
CompressedAt(p, f, t, a) ==
    LET of(i) == p.compressed[Sorted(DOMAIN p.compressed)[i]]
    IN  /\ a = Len(f.header.compressed) /\ a \in Nat
        /\ EntriesOf(f.header.compressed, DOMAIN p.compressed)
        /\ \A i \in 1 .. a : f.header.compressed[i] = Entry(Sorted(DOMAIN p.compressed)[i], of(i))
        /\ Totals(t, [i \in 1 .. a |-> EntrySize(f.header.compressed[i])], a, Nat)
        /\ \A i \in 1 .. a :
             /\ \A j \in 1 .. Len(of(i).idxs) : f.body[t[i - 1] + j] = of(i).idxs[j]
             /\ \A j \in 1 .. Len(of(i).codes) : f.body[t[i - 1] + (Len(of(i).idxs) + j)] = of(i).codes[j]

DenseAt(p, f, t, a, u, b) ==
    LET of(i) == p.dense[Sorted(DOMAIN p.dense)[i]]
    IN  /\ b = Len(f.header.dense) /\ b \in Nat
        /\ EntriesOf(f.header.dense, DOMAIN p.dense)
        /\ \A i \in 1 .. b : f.header.dense[i].shape = of(i).shape
        /\ Totals(u, [i \in 1 .. b |-> Product(f.header.dense[i].shape)], b, Nat)
        /\ \A i \in 1 .. b : \A j \in 0 .. Product(of(i).shape) - 1 :
              f.body[t[a] + (u[i - 1] + (j + 1))] = of(i).value[j]

LEMMA WritesAll ==
  ASSUME NEW p, IsPayload(p), NEW f, f = Serialize(p)
  PROVE  \E t, a, u, b : /\ CompressedAt(p, f, t, a) /\ DenseAt(p, f, t, a, u, b)
                         /\ IsList(f.body) /\ Len(f.body) = t[a] + u[b]
                         /\ \A i \in 1 .. a : EntrySize(f.header.compressed[i]) \in Nat
                         /\ \A i \in 1 .. b : Product(f.header.dense[i].shape) \in Nat
  <1> DEFINE C == DOMAIN p.compressed  D == DOMAIN p.dense
             comp == Sorted(C)  dense == Sorted(D)  a == Len(comp)  b == Len(dense)
             ct(i) == p.compressed[comp[i]]  d(i) == p.dense[dense[i]]
             ss == [i \in 1 .. a |-> ct(i).idxs \o ct(i).codes]
             vs == [i \in 1 .. b |-> Values(d(i).value)]
             hc == [i \in 1 .. a |-> Entry(comp[i], ct(i))]
             hd == [i \in 1 .. b |-> [name |-> dense[i], shape |-> d(i).shape]]
             ls == [i \in 1 .. a |-> EntrySize(hc[i])]
             ms == [i \in 1 .. b |-> Product(hd[i].shape)]
  <1>1. /\ f.header.compressed = hc /\ f.header.dense = hd /\ f.body = Concat(ss) \o Concat(vs)
    BY Zenon DEF Serialize
  <1>2. /\ comp \in Seq(C) /\ dense \in Seq(D)
    BY SortedLists
  <1>3. a \in Nat /\ b \in Nat /\ (\A i \in 1 .. a : comp[i] \in C) /\ (\A i \in 1 .. b : dense[i] \in D)
    BY <1>2
  <1>4. (\A i \in 1 .. a : IsCompressed(ct(i))) /\ (\A i \in 1 .. b : IsDense(d(i)))
    BY <1>3 DEF IsPayload
  <1>5. /\ hc = [i \in 1 .. a |-> hc[i]] /\ hd = [i \in 1 .. b |-> hd[i]]
        /\ \A i \in 1 .. a : hc[i] = Entry(comp[i], ct(i)) /\ hc[i].name = comp[i]
        /\ \A i \in 1 .. b : hd[i].name = dense[i] /\ hd[i].shape = d(i).shape
    BY DEF Entry
  <1>6. Len(hc) = a /\ Len(hd) = b
    <2> HIDE DEF hc, hd, a, b
    <2> QED
      BY <1>3, <1>5, FunctionIsList
  <1>7. EntriesOf(hc, C) /\ EntriesOf(hd, D)
    BY <1>5 DEF EntriesOf
  <1> HIDE DEF comp, dense
  <1>8. ASSUME NEW i \in 1 .. a
        PROVE  /\ IsList(ss[i]) /\ EntrySize(hc[i]) = Len(ss[i]) /\ Len(ss[i]) \in Nat
               /\ Len(ct(i).idxs) \in Nat /\ Len(ct(i).codes) \in Nat /\ Len(ss[i]) = Len(ct(i).idxs) + Len(ct(i).codes)
               /\ \A j \in 1 .. Len(ct(i).idxs) : ss[i][j] = ct(i).idxs[j]
               /\ \A j \in 1 .. Len(ct(i).codes) : ss[i][Len(ct(i).idxs) + j] = ct(i).codes[j]
    <2> DEFINE x == ct(i).idxs  y == ct(i).codes
    <2>1. IsList(x) /\ IsList(y)
      BY <1>4 DEF IsCompressed
    <2>2. ss[i] = x \o y
      OBVIOUS
    <2>3. EntrySize(hc[i]) = Len(x) + Len(y)
      BY <1>5 DEF EntrySize, Entry
    <2> HIDE DEF x, y, ss, hc
    <2>4. IsList(x \o y) /\ Len(x \o y) = Len(x) + Len(y)
      BY ONLY <2>1, JoinIs
    <2>5. \A j \in 1 .. Len(x) : (x \o y)[j] = x[j]
      BY ONLY <2>1, JoinIs
    <2>6. \A j \in 1 .. Len(y) : (x \o y)[Len(x) + j] = y[j]
      BY ONLY <2>1, JoinIs
    <2>7. Len(x) \in Nat /\ Len(y) \in Nat
      BY <2>1 DEF IsList
    <2>8. Len(x) + Len(y) \in Nat
      BY <2>7
    <2> QED
      BY <2>2, <2>3, <2>4, <2>5, <2>6, <2>7, <2>8, Zenon DEF x, y
  <1>9. ASSUME NEW i \in 1 .. b
        PROVE  /\ IsList(vs[i]) /\ Product(hd[i].shape) = Len(vs[i]) /\ Len(vs[i]) \in Nat
               /\ Len(vs[i]) = Product(d(i).shape)
               /\ \A j \in 0 .. Product(d(i).shape) - 1 : vs[i][j + 1] = d(i).value[j]
    <2>1. IsDense(d(i))
      BY <1>4
    <2> DEFINE e == d(i)
    <2>2. vs[i] = Values(e.value) /\ hd[i].shape = e.shape
      BY <1>5
    <2> HIDE DEF vs, hd, e
    <2>3. /\ IsList(Values(e.value)) /\ Len(Values(e.value)) = Product(e.shape)
          /\ \A j \in 0 .. Product(e.shape) - 1 : Values(e.value)[j + 1] = e.value[j]
      BY <2>1, ValuesAre DEF e
    <2> QED
      BY <2>2, <2>3 DEF e, IsList
  <1>10. Blobs(ss, a) /\ Blobs(vs, b)
    <2>1. ss = [i \in 1 .. a |-> ss[i]] /\ vs = [i \in 1 .. b |-> vs[i]]
      OBVIOUS
    <2>2. a \in Nat /\ b \in Nat
      BY <1>3
    <2>3. (\A i \in 1 .. a : IsList(ss[i])) /\ \A i \in 1 .. b : IsList(vs[i])
      BY <1>8, <1>9, Zenon
    <2> HIDE DEF ss, vs, a, b
    <2> QED
      BY <2>1, <2>2, <2>3, Zenon DEF Blobs
  <1>11. /\ \A i \in 1 .. a : ls[i] = EntrySize(hc[i]) /\ ls[i] = Len(ss[i]) /\ ls[i] \in Nat
         /\ \A i \in 1 .. b : ms[i] = Product(hd[i].shape) /\ ms[i] = Len(vs[i]) /\ ms[i] \in Nat
    <2>1. (\A i \in 1 .. a : ls[i] = EntrySize(hc[i])) /\ \A i \in 1 .. b : ms[i] = Product(hd[i].shape)
      OBVIOUS
    <2> HIDE DEF ls, ms, ss, vs, hc, hd
    <2>2. \A i \in 1 .. a : EntrySize(hc[i]) = Len(ss[i]) /\ Len(ss[i]) \in Nat
      BY <1>8, Zenon
    <2>3. \A i \in 1 .. b : Product(hd[i].shape) = Len(vs[i]) /\ Len(vs[i]) \in Nat
      BY <1>9, Zenon
    <2> QED
      BY <2>1, <2>2, <2>3, Zenon
  <1>12. /\ ls = [i \in 1 .. a |-> EntrySize(f.header.compressed[i])]
         /\ ms = [i \in 1 .. b |-> Product(f.header.dense[i].shape)]
    BY <1>1
  <1>13. Len(f.header.compressed) = a /\ Len(f.header.dense) = b
    BY <1>1, <1>6
  <1> HIDE DEF a, b, ss, vs, hc, hd, ls, ms, ct, d, C, D
  <1>14. PICK t : Totals(t, ls, a, Nat)
    BY <1>3, <1>11, NumbersAddUp, TotalsExist
  <1>15. PICK u : Totals(u, ms, b, Nat)
    BY <1>3, <1>11, NumbersAddUp, TotalsExist
  <1>16. /\ IsList(f.body) /\ Len(f.body) = t[a] + u[b]
         /\ \A i \in 1 .. a : \A j \in 1 .. Len(ss[i]) : f.body[t[i - 1] + j] = ss[i][j]
         /\ \A i \in 1 .. b : \A j \in 1 .. Len(vs[i]) : f.body[t[a] + (u[i - 1] + j)] = vs[i][j]
    <2>1. Offsets(t, ss, a) /\ Offsets(u, vs, b)
      BY <1>10, <1>11, <1>14, <1>15 DEF Offsets
    <2>2. BodyHolds(f.body, ss, t, a, vs, u, b)
      BY <1>1, <2>1, BodyIs
    <2> QED
      BY <2>2 DEF BodyHolds
  <1>17. ASSUME NEW i \in 1 .. a
         PROVE  /\ \A j \in 1 .. Len(ct(i).idxs) : f.body[t[i - 1] + j] = ct(i).idxs[j]
                /\ \A j \in 1 .. Len(ct(i).codes) : f.body[t[i - 1] + (Len(ct(i).idxs) + j)] = ct(i).codes[j]
    <2> DEFINE x == Len(ct(i).idxs)  y == Len(ct(i).codes)
    <2>1. x \in Nat /\ y \in Nat /\ Len(ss[i]) = x + y
      BY <1>8
    <2>2. \A j \in 1 .. x : ss[i][j] = ct(i).idxs[j]
      BY <1>8
    <2>3. \A j \in 1 .. y : ss[i][x + j] = ct(i).codes[j]
      BY <1>8
    <2>4. \A j \in 1 .. Len(ss[i]) : f.body[t[i - 1] + j] = ss[i][j]
      BY <1>16
    <2> HIDE DEF x, y
    <2>5. \A j \in 1 .. x : f.body[t[i - 1] + j] = ct(i).idxs[j]
      BY <2>1, <2>2, <2>4
    <2>6. \A j \in 1 .. y : f.body[t[i - 1] + (x + j)] = ct(i).codes[j]
      <3> TAKE j \in 1 .. y
      <3>1. x + j \in 1 .. Len(ss[i])
        BY <2>1
      <3> QED
        BY <2>3, <2>4, <3>1
    <2> QED
      BY <2>5, <2>6 DEF x, y
  <1>18. ASSUME NEW i \in 1 .. b, NEW j \in 0 .. Product(d(i).shape) - 1
         PROVE  f.body[t[a] + (u[i - 1] + (j + 1))] = d(i).value[j]
    <2>1. j + 1 \in 1 .. Len(vs[i]) /\ vs[i][j + 1] = d(i).value[j]
      BY <1>9
    <2> QED
      BY <1>16, <2>1
  <1>19. CompressedAt(p, f, t, a)
    BY <1>1, <1>3, <1>5, <1>7, <1>12, <1>13, <1>14, <1>17 DEF CompressedAt, ct, C, comp
  <1>20. DenseAt(p, f, t, a, u, b)
    BY <1>1, <1>3, <1>5, <1>7, <1>12, <1>13, <1>15, <1>18 DEF DenseAt, d, D, dense
  <1>21. /\ \A i \in 1 .. a : EntrySize(f.header.compressed[i]) \in Nat
         /\ \A i \in 1 .. b : Product(f.header.dense[i].shape) \in Nat
    BY <1>1, <1>8, <1>9
  <1> QED
    BY <1>16, <1>19, <1>20, <1>21

LEMMA WholeTotal ==
  ASSUME NEW t, NEW s, NEW n, n \in Nat, s = [i \in 1 .. n |-> s[i]], Totals(t, s, n, Nat)
  PROVE  Total(s) = t[n]
  <1>1. Len(s) = n /\ n \in 0 .. n
    BY FunctionIsList
  <1> QED
    BY <1>1, NumbersAddUp, TotalIs

LEMMA PrefixTotal ==
  ASSUME NEW s, NEW n \in Nat, NEW t, Totals(t, s, n, Nat), NEW k \in 0 .. n,
         NEW r, r = [i \in 1 .. k |-> r[i]], \A i \in 1 .. k : r[i] = s[i]
  PROVE  Total(r) = t[k]
  <1>1. k \in Nat
    OBVIOUS
  <1>2. Len(r) = k
    BY <1>1, FunctionIsList
  <1> QED
    BY <1>2, NumbersAddUp, TotalIs

\* Entry i of a frame, as Deserialize reads it.
CompressedRead(f, i) ==
    LET e == f.header.compressed[i]
        from == Total([j \in 1 .. i - 1 |-> EntrySize(f.header.compressed[j])])
    IN  [idxs  |-> SubSeq(f.body, from + 1, from + e.idxsBytes),
         codes |-> SubSeq(f.body, from + e.idxsBytes + 1, from + EntrySize(e)),
         qparams |-> e.qparams, chunks |-> e.chunks, elems |-> e.elems,
         shape |-> e.shape, topk |-> e.topk]

DenseRead(f, at, i) ==
    LET from == at + Total([j \in 1 .. i - 1 |-> Product(f.header.dense[j].shape)])
    IN  [shape |-> f.header.dense[i].shape,
         value |-> [k \in 0 .. Product(f.header.dense[i].shape) - 1 |-> f.body[from + k + 1]]]

LEMMA CompressedReadsBack ==
  ASSUME NEW p, IsPayload(p), NEW f, NEW t, NEW a, CompressedAt(p, f, t, a),
         IsList(f.body), t[a] <= Len(f.body), \A i \in 1 .. a : EntrySize(f.header.compressed[i]) \in Nat,
         NEW i \in 1 .. a, NEW n, f.header.compressed[i].name = n
  PROVE  CompressedRead(f, i) = p.compressed[n]
  <1> DEFINE hc == f.header.compressed  e == hc[i]  ct == p.compressed[n]
             r == [j \in 1 .. i - 1 |-> EntrySize(hc[j])]
             ls == [j \in 1 .. a |-> EntrySize(hc[j])]
             from == t[i - 1]
             x == Len(ct.idxs)  y == Len(ct.codes)
  <1>1. a \in Nat /\ i - 1 \in 0 .. a /\ i \in 0 .. a
    BY DEF CompressedAt
  <1>2. Totals(t, ls, a, Nat) /\ (\A j \in 1 .. a : ls[j] \in Nat) /\ ls[i] = EntrySize(e)
    BY DEF CompressedAt
  <1>3. Total(r) = from
    <2>1. r = [j \in 1 .. i - 1 |-> r[j]] /\ \A j \in 1 .. i - 1 : r[j] = ls[j]
      BY <1>1
    <2> DEFINE k == i - 1
    <2>2. k \in 0 .. a /\ a \in Nat /\ r = [j \in 1 .. k |-> r[j]] /\ (\A j \in 1 .. k : r[j] = ls[j]) /\ Totals(t, ls, a, Nat)
      BY <1>1, <1>2, <2>1
    <2> HIDE DEF r, ls, k
    <2>3. Total(r) = t[k]
      BY ONLY <2>2, PrefixTotal
    <2> QED
      BY <2>3 DEF k
  <1>4. from \in Nat /\ t[i] = from + EntrySize(e) /\ t[i] <= t[a] /\ t[i] \in Nat /\ t[a] \in Nat
    <2>1. \A j \in 0 .. a : t[j] \in Nat /\ t[j] <= t[a]
      <3> HIDE DEF ls
      <3> QED
        BY <1>1, <1>2, TotalsGrow
    <2>2. t[i] = t[i - 1] + ls[i]
      BY <1>2 DEF Totals
    <2>3. a \in 0 .. a
      BY <1>1
    <2> QED
      BY <1>1, <1>2, <2>1, <2>2, <2>3
  <1>5. n = Sorted(DOMAIN p.compressed)[i] /\ e = Entry(n, ct)
    <2>1. n = Sorted(DOMAIN p.compressed)[i]
      <3>1. e = Entry(Sorted(DOMAIN p.compressed)[i], p.compressed[Sorted(DOMAIN p.compressed)[i]])
        BY DEF CompressedAt
      <3> QED
        BY <3>1 DEF Entry
    <2> QED
      BY <2>1 DEF CompressedAt
  <1>6. /\ \A j \in 1 .. x : f.body[from + j] = ct.idxs[j]
        /\ \A j \in 1 .. y : f.body[from + (x + j)] = ct.codes[j]
    BY <1>5 DEF CompressedAt
  <1>7. IsCompressed(ct)
    <2>1. Sorted(DOMAIN p.compressed) \in Seq(DOMAIN p.compressed)
      BY SortedLists
    <2>2. i \in 1 .. Len(Sorted(DOMAIN p.compressed))
      <3>1. DOMAIN p.compressed \subseteq Listed(NameOrder)
        BY DEF IsPayload
      <3> DEFINE S == DOMAIN p.compressed
      <3>2. EntriesOf(hc, S) /\ a = Len(hc)
        BY DEF CompressedAt
      <3> HIDE DEF S, hc
      <3>3. Len(hc) = Len(Sorted(S))
        BY <3>1, <3>2, EntriesAreSorted DEF S
      <3> QED
        BY <3>2, <3>3 DEF S
    <2>3. n \in DOMAIN p.compressed
      BY <1>5, <2>1, <2>2
    <2> QED
      BY <2>3 DEF IsPayload
  <1>8. /\ e.idxsBytes = x /\ EntrySize(e) = x + y
        /\ e.qparams = ct.qparams /\ e.chunks = ct.chunks /\ e.elems = ct.elems /\ e.shape = ct.shape /\ e.topk = ct.topk
    BY <1>5 DEF Entry, EntrySize
  <1>9. IsList(ct.idxs) /\ IsList(ct.codes) /\ x \in Nat /\ y \in Nat
    BY <1>7 DEF IsCompressed, IsList
  <1> DEFINE body == f.body
  <1>10. Len(body) \in Nat /\ from + (x + y) <= Len(body)
    <2>1. Len(body) \in Nat /\ t[a] <= Len(body)
      BY DEF IsList
    <2> DEFINE top == t[a]  end == t[i]  es == EntrySize(e)
    <2>2. es = x + y /\ end = from + es /\ end <= top /\ end \in Nat /\ top \in Nat /\ top <= Len(body)
      BY <1>4, <1>8, <2>1
    <2> HIDE DEF top, end, es, from, x, y, body
    <2> QED
      BY <2>1, <2>2
  <1> DEFINE ix == ct.idxs  cs == ct.codes
  <1>11. SubSeq(body, from + 1, from + x) = ix
    <2>1. from + x <= Len(body) /\ IsList(body) /\ IsList(ix) /\ Len(ix) = x
      <3>1. IsList(body) /\ IsList(ix) /\ Len(ix) = x
        BY <1>9
      <3>2. from \in Nat
        BY <1>4
      <3> HIDE DEF from, x, y, body
      <3>3. from + x <= Len(body)
        BY <1>9, <1>10, <3>2
      <3> QED
        BY <3>1, <3>3 DEF body
    <2>2. \A j \in 1 .. x : body[from + j] = ix[j]
      BY <1>6
    <2>3. from \in Nat /\ x \in Nat
      BY <1>4, <1>9
    <2> HIDE DEF body, ix, x, from
    <2> QED
      <3>1. PieceAt(body, from, x, ix)
        BY <2>1, <2>2, <2>3 DEF PieceAt
      <3> QED
        BY <3>1, PieceIs
  <1>12. SubSeq(body, from + x + 1, from + (x + y)) = cs
    <2> DEFINE z == from + x
    <2>1. z \in Nat /\ z + y <= Len(body) /\ z + y = from + (x + y) /\ IsList(body) /\ IsList(cs) /\ Len(cs) = y
      <3>1. IsList(body) /\ IsList(cs) /\ Len(cs) = y
        BY <1>9
      <3>2. from \in Nat
        BY <1>4
      <3> HIDE DEF from, x, y, body
      <3>3. z \in Nat /\ z + y <= Len(body) /\ z + y = from + (x + y)
        BY <1>9, <1>10, <3>2
      <3> QED
        BY <3>1, <3>3 DEF body
    <2>2. \A j \in 1 .. y : body[z + j] = cs[j]
      <3> TAKE j \in 1 .. y
      <3>1. from \in Nat /\ x \in Nat
        BY <1>4, <1>9
      <3>2. body[from + (x + j)] = cs[j]
        BY <1>6
      <3> HIDE DEF from, x, body, cs
      <3>3. z + j = from + (x + j)
        BY <1>9, <3>1
      <3> QED
        BY <3>2, <3>3
    <2>4. y \in Nat
      BY <1>9
    <2> HIDE DEF body, cs, y, z
    <2>3. SubSeq(body, z + 1, z + y) = cs
      <3>1. PieceAt(body, z, y, cs)
        BY <2>1, <2>2, <2>4 DEF PieceAt
      <3> QED
        BY <3>1, PieceIs
    <2> QED
      BY <2>1, <2>3 DEF z
  <1>13. ct = [idxs |-> ix, codes |-> cs, qparams |-> ct.qparams, chunks |-> ct.chunks,
               elems |-> ct.elems, shape |-> ct.shape, topk |-> ct.topk]
    BY <1>7 DEF IsCompressed
  <1>14. Total([j \in 1 .. i - 1 |-> EntrySize(f.header.compressed[j])]) = from
    BY <1>3
  <1> HIDE DEF from, x, y, ix, cs
  <1>15. /\ SubSeq(f.body, from + 1, from + e.idxsBytes) = ix
         /\ SubSeq(f.body, from + e.idxsBytes + 1, from + EntrySize(e)) = cs
    BY <1>8, <1>11, <1>12
  <1> HIDE DEF e, ct
  <1>16. [idxs |-> ix, codes |-> cs, qparams |-> e.qparams, chunks |-> e.chunks, elems |-> e.elems,
          shape |-> e.shape, topk |-> e.topk] = ct
    BY <1>8, <1>13
  <1> QED
    BY <1>14, <1>15, <1>16, Zenon DEF e, ct, hc, CompressedRead

LEMMA DenseReadsBack ==
  ASSUME NEW p, IsPayload(p), NEW f, NEW t, NEW a, NEW u, NEW b, DenseAt(p, f, t, a, u, b), t[a] \in Nat,
         \A i \in 1 .. b : Product(f.header.dense[i].shape) \in Nat,
         NEW i \in 1 .. b, NEW n, f.header.dense[i].name = n
  PROVE  DenseRead(f, t[a], i) = p.dense[n]
  <1> DEFINE hd == f.header.dense  d == p.dense[n]
             r == [j \in 1 .. i - 1 |-> Product(hd[j].shape)]
             ms == [j \in 1 .. b |-> Product(hd[j].shape)]
  <1>1. b \in Nat /\ i - 1 \in 0 .. b
    BY DEF DenseAt
  <1>2. Totals(u, ms, b, Nat)
    BY DEF DenseAt
  <1>3. Total(r) = u[i - 1]
    <2>1. r = [j \in 1 .. i - 1 |-> r[j]] /\ \A j \in 1 .. i - 1 : r[j] = ms[j]
      BY <1>1
    <2> DEFINE k == i - 1
    <2>2. k \in 0 .. b /\ b \in Nat /\ r = [j \in 1 .. k |-> r[j]] /\ (\A j \in 1 .. k : r[j] = ms[j]) /\ Totals(u, ms, b, Nat)
      BY <1>1, <1>2, <2>1
    <2> HIDE DEF r, ms, k
    <2>3. Total(r) = u[k]
      BY ONLY <2>2, PrefixTotal
    <2> QED
      BY <2>3 DEF k
  <1>4. u[i - 1] \in Nat
    BY <1>1, <1>2 DEF Totals
  <1>i. i \in 1 .. Len(Sorted(DOMAIN p.dense))
    <2>1. DOMAIN p.dense \subseteq Listed(NameOrder)
      BY DEF IsPayload
    <2> DEFINE S == DOMAIN p.dense
    <2>2. EntriesOf(hd, S) /\ b = Len(hd)
      BY DEF DenseAt
    <2> HIDE DEF S, hd
    <2>3. Len(hd) = Len(Sorted(S))
      BY <2>1, <2>2, EntriesAreSorted DEF S
    <2> QED
      BY <2>2, <2>3 DEF S
  <1>5. n = Sorted(DOMAIN p.dense)[i] /\ hd[i].shape = d.shape
    <2>1. n = Sorted(DOMAIN p.dense)[i]
      BY <1>i DEF DenseAt, EntriesOf
    <2> QED
      BY <2>1 DEF DenseAt
  <1>6. \A j \in 0 .. Product(d.shape) - 1 : f.body[t[a] + (u[i - 1] + (j + 1))] = d.value[j]
    BY <1>5 DEF DenseAt
  <1>7. IsDense(d)
    <2>1. Sorted(DOMAIN p.dense) \in Seq(DOMAIN p.dense)
      BY SortedLists
    <2>3. n \in DOMAIN p.dense
      BY <1>5, <1>i, <2>1
    <2> QED
      BY <2>3 DEF IsPayload
  <1> DEFINE P == Product(d.shape)  at == t[a] + u[i - 1]
  <1>8. d = [shape |-> d.shape, value |-> d.value] /\ P \in Nat /\ d.value = [j \in 0 .. P - 1 |-> d.value[j]]
    BY <1>7 DEF IsDense
  <1>9. \A j \in 0 .. P - 1 : f.body[at + j + 1] = d.value[j]
    <2> TAKE j \in 0 .. P - 1
    <2>1. at + j + 1 = t[a] + (u[i - 1] + (j + 1))
      BY <1>4, <1>8
    <2> QED
      BY <1>6, <2>1
  <1> HIDE DEF P, at
  <1>10. [j \in 0 .. P - 1 |-> f.body[at + j + 1]] = d.value
    BY <1>8, <1>9
  <1> HIDE DEF d
  <1>11. [shape |-> d.shape, value |-> [j \in 0 .. P - 1 |-> f.body[at + j + 1]]] = d
    BY <1>8, <1>10
  <1> QED
    BY <1>3, <1>5, <1>11, Zenon DEF d, P, at, hd, DenseRead

LEMMA WrittenIsReadable ==
  ASSUME NEW p, IsPayload(p), NEW f, f = Serialize(p)
  PROVE  Readable(f)
  <1> DEFINE hc == f.header.compressed  hd == f.header.dense
             C == DOMAIN p.compressed  D == DOMAIN p.dense
             ls(a) == [i \in 1 .. a |-> EntrySize(hc[i])]
             ms(b) == [i \in 1 .. b |-> Product(hd[i].shape)]
  <1>1. PICK t, a, u, b : /\ CompressedAt(p, f, t, a) /\ DenseAt(p, f, t, a, u, b)
                          /\ IsList(f.body) /\ Len(f.body) = t[a] + u[b]
                          /\ \A i \in 1 .. a : EntrySize(f.header.compressed[i]) \in Nat
                          /\ \A i \in 1 .. b : Product(f.header.dense[i].shape) \in Nat
    BY WritesAll
  <1>2. f.version = WireVersion
    BY Zenon DEF Serialize
  <1>3. C \subseteq Listed(NameOrder) /\ D \subseteq Listed(NameOrder) /\ C \cap D = {}
    BY DEF IsPayload
  <1>4. a = Len(hc) /\ a \in Nat /\ b = Len(hd) /\ b \in Nat /\ EntriesOf(hc, C) /\ EntriesOf(hd, D)
    BY <1>1 DEF CompressedAt, DenseAt
  <1>5. Total(ls(a)) = t[a] /\ Total(ms(b)) = u[b]
    <2>1. /\ ls(a) = [i \in 1 .. a |-> ls(a)[i]] /\ ms(b) = [i \in 1 .. b |-> ms(b)[i]]
          /\ Totals(t, ls(a), a, Nat) /\ Totals(u, ms(b), b, Nat)
      BY <1>1 DEF CompressedAt, DenseAt
    <2> DEFINE l == ls(a)  m == ms(b)
    <2>2. /\ l = [i \in 1 .. a |-> l[i]] /\ m = [i \in 1 .. b |-> m[i]]
          /\ Totals(t, l, a, Nat) /\ Totals(u, m, b, Nat) /\ a \in 0 .. a /\ b \in 0 .. b
      BY <1>4, <2>1
    <2> HIDE DEF l, m
    <2>4. Total(l) = t[a]
      BY <1>4, <2>2, WholeTotal
    <2>5. Total(m) = u[b]
      BY <1>4, <2>2, WholeTotal
    <2> QED
      BY <2>4, <2>5 DEF l, m
  <1>6. \A i \in 1 .. Len(hc) : EntryBounded(hc[i])
    <2> TAKE i \in 1 .. Len(hc)
    <2> DEFINE L == Sorted(C)
    <2>1. hc[i] = Entry(L[i], p.compressed[L[i]])
      BY <1>1, <1>4 DEF CompressedAt
    <2>2. Len(hc) = Len(L)
      BY <1>3, <1>4, EntriesAreSorted
    <2>3. L \in Seq(C)
      BY SortedLists
    <2>4. L[i] \in C
      BY <2>2, <2>3
    <2>5. IsCompressed(p.compressed[L[i]])
      BY <2>4 DEF IsPayload
    <2> HIDE DEF L
    <2> QED
      BY <2>1, <2>5 DEF IsCompressed
  <1>7. StrictlySorted(hc) /\ {e.name : e \in Listed(hc)} = C
    <2> HIDE DEF hc, C
    <2>1. StrictlySorted(hc)
      BY <1>3, <1>4, EntriesAreSorted
    <2>2. {e.name : e \in Listed(hc)} = C
      BY <1>3, <1>4, EntriesAreSorted
    <2> QED
      BY <2>1, <2>2
  <1>8. StrictlySorted(hd) /\ {e.name : e \in Listed(hd)} = D
    <2> HIDE DEF hd, D
    <2>1. StrictlySorted(hd)
      BY <1>3, <1>4, EntriesAreSorted
    <2>2. {e.name : e \in Listed(hd)} = D
      BY <1>3, <1>4, EntriesAreSorted
    <2> QED
      BY <2>1, <2>2
  <1>9. Len(f.body) = Total([i \in 1 .. Len(hc) |-> EntrySize(hc[i])]) + Total([i \in 1 .. Len(hd) |-> Product(hd[i].shape)])
    BY <1>1, <1>4, <1>5, Zenon
  <1>10. {e.name : e \in Listed(hc)} \cap {e.name : e \in Listed(hd)} = {}
    BY <1>3, <1>7, <1>8, Zenon
  <1> QED
    BY <1>2, <1>6, <1>7, <1>8, <1>9, <1>10, Zenon DEF Readable

\* The wire format loses nothing: whatever payload the encoder can write, with any
\* tensors of any shapes, the decoder reads back as it was.
THEOREM WrittenReadsBack ==
  ASSUME NEW p, IsPayload(p), NEW f, f = Serialize(p)
  PROVE  Deserialize(f) = p
  <1> DEFINE hc == f.header.compressed  hd == f.header.dense
             C == DOMAIN p.compressed  D == DOMAIN p.dense
             size(i) == Total([j \in 1 .. i - 1 |-> EntrySize(hc[j])])
             offset(i) == Total([j \in 1 .. i - 1 |-> Product(hd[j].shape)])
             index(es, n) == CHOOSE i \in 1 .. Len(es) : es[i].name = n
             ct(i) == [idxs  |-> SubSeq(f.body, size(i) + 1, size(i) + hc[i].idxsBytes),
                       codes |-> SubSeq(f.body, size(i) + hc[i].idxsBytes + 1, size(i) + EntrySize(hc[i])),
                       qparams |-> hc[i].qparams, chunks |-> hc[i].chunks, elems |-> hc[i].elems,
                       shape |-> hc[i].shape, topk |-> hc[i].topk]
             from(i) == size(Len(hc) + 1) + offset(i)
             dense(i) == [shape |-> hd[i].shape,
                          value |-> [k \in 0 .. Product(hd[i].shape) - 1 |-> f.body[from(i) + k + 1]]]
  <1>1. PICK t, a, u, b : /\ CompressedAt(p, f, t, a) /\ DenseAt(p, f, t, a, u, b)
                          /\ IsList(f.body) /\ Len(f.body) = t[a] + u[b]
                          /\ \A i \in 1 .. a : EntrySize(f.header.compressed[i]) \in Nat
                          /\ \A i \in 1 .. b : Product(f.header.dense[i].shape) \in Nat
    BY WritesAll
  <1>2. Deserialize(f) =
          [uid |-> f.header.uid, window |-> f.header.window, meta |-> f.header.meta,
           compressed |-> [n \in {e.name : e \in Listed(hc)} |-> ct(index(hc, n))],
           dense |-> [n \in {e.name : e \in Listed(hd)} |-> dense(index(hd, n))]]
    BY Zenon DEF Deserialize
  <1>3. C \subseteq Listed(NameOrder) /\ D \subseteq Listed(NameOrder)
    BY DEF IsPayload
  <1>4. a = Len(hc) /\ a \in Nat /\ b = Len(hd) /\ b \in Nat /\ EntriesOf(hc, C) /\ EntriesOf(hd, D)
    BY <1>1 DEF CompressedAt, DenseAt
  <1>5. f.header.uid = p.uid /\ f.header.window = p.window /\ f.header.meta = p.meta
    BY Zenon DEF Serialize
  <1>6. /\ Totals(t, [i \in 1 .. a |-> EntrySize(hc[i])], a, Nat) /\ Totals(u, [i \in 1 .. b |-> Product(hd[i].shape)], b, Nat)
    BY <1>1 DEF CompressedAt, DenseAt
  <1>7. t[a] \in Nat /\ u[b] \in Nat
    <2>1. a \in 0 .. a /\ b \in 0 .. b
      BY <1>4
    <2> QED
      BY <1>6, <2>1 DEF Totals
  <1>8. t[a] <= Len(f.body)
    BY <1>1, <1>7
  <1>9. size(Len(hc) + 1) = t[a]
    <2> DEFINE l == [j \in 1 .. a |-> EntrySize(hc[j])]
    <2>1. size(Len(hc) + 1) = Total(l)
      <3>1. (a + 1) - 1 = a
        BY <1>4
      <3> QED
        BY <1>4, <3>1
    <2>2. l = [i \in 1 .. a |-> l[i]] /\ Totals(t, l, a, Nat) /\ a \in 0 .. a
      BY <1>4, <1>6
    <2> HIDE DEF l
    <2>4. Total(l) = t[a]
      BY <1>4, <2>2, WholeTotal
    <2> QED
      BY <2>1, <2>4
  <1>10. ASSUME NEW n \in C PROVE ct(index(hc, n)) = p.compressed[n]
    <2> DEFINE i == index(hc, n)
    <2>1. \E k \in 1 .. Len(hc) : hc[k].name = n
      <3> HIDE DEF hc, C
      <3>0. C \subseteq Listed(NameOrder) /\ EntriesOf(hc, C)
        BY <1>3, <1>4
      <3>1. HasAll(hc, C)
        BY ONLY <3>0, EntriesAreSorted
      <3> QED
        BY <3>1 DEF HasAll
    <2>2. i \in 1 .. Len(hc) /\ hc[i].name = n
      BY <2>1
    <2> HIDE DEF i
    <2>3a. CompressedRead(f, i) = p.compressed[n]
      <3>1. /\ IsPayload(p) /\ CompressedAt(p, f, t, a) /\ IsList(f.body) /\ t[a] <= Len(f.body)
            /\ (\A h \in 1 .. a : EntrySize(f.header.compressed[h]) \in Nat)
            /\ i \in 1 .. a /\ f.header.compressed[i].name = n
        BY <1>1, <1>4, <1>8, <2>2
      <3> QED
        BY ONLY <3>1, CompressedReadsBack
    <2>3. ct(i) = p.compressed[n]
      BY <2>3a, Zenon DEF CompressedRead
    <2> HIDE DEF ct
    <2> QED
      BY <2>3 DEF i
  <1>11. ASSUME NEW n \in D PROVE dense(index(hd, n)) = p.dense[n]
    <2> DEFINE i == index(hd, n)
    <2>1. \E k \in 1 .. Len(hd) : hd[k].name = n
      <3> HIDE DEF hd, D
      <3>0. D \subseteq Listed(NameOrder) /\ EntriesOf(hd, D)
        BY <1>3, <1>4
      <3>1. HasAll(hd, D)
        BY ONLY <3>0, EntriesAreSorted
      <3> QED
        BY <3>1 DEF HasAll
    <2>2. i \in 1 .. Len(hd) /\ hd[i].name = n
      BY <2>1
    <2> HIDE DEF i
    <2>3. DenseRead(f, t[a], i) = p.dense[n]
      <3>1. /\ IsPayload(p) /\ DenseAt(p, f, t, a, u, b) /\ t[a] \in Nat
            /\ (\A h \in 1 .. b : Product(f.header.dense[h].shape) \in Nat)
            /\ i \in 1 .. b /\ f.header.dense[i].name = n
        BY <1>1, <1>4, <1>7, <2>2
      <3> QED
        BY ONLY <3>1, DenseReadsBack
    <2>4. from(i) = t[a] + offset(i)
      BY <1>9
    <2>5. dense(i) = p.dense[n]
      BY <2>3, <2>4, Zenon DEF DenseRead
    <2> HIDE DEF dense
    <2> QED
      BY <2>5 DEF i
  <1>12. {e.name : e \in Listed(hc)} = C /\ {e.name : e \in Listed(hd)} = D
    <2> HIDE DEF hc, hd, C, D
    <2>1. {e.name : e \in Listed(hc)} = C
      BY <1>3, <1>4, EntriesAreSorted
    <2>2. {e.name : e \in Listed(hd)} = D
      BY <1>3, <1>4, EntriesAreSorted
    <2> QED
      BY <2>1, <2>2
  <1> HIDE DEF ct, dense, index, hc, hd
  <1>13. [n \in C |-> ct(index(hc, n))] = p.compressed
    <2>1. p.compressed = [n \in C |-> p.compressed[n]]
      BY DEF IsPayload
    <2> QED
      BY <1>10, <2>1
  <1>14. [n \in D |-> dense(index(hd, n))] = p.dense
    <2>1. p.dense = [n \in D |-> p.dense[n]]
      BY DEF IsPayload
    <2> QED
      BY <1>11, <2>1
  <1>15. Deserialize(f) = [uid |-> p.uid, window |-> p.window, meta |-> p.meta, compressed |-> p.compressed, dense |-> p.dense]
    BY <1>2, <1>5, <1>12, <1>13, <1>14
  <1> QED
    BY <1>15 DEF IsPayload

-----------------------------------------------------------------------------
(* What a compressed tensor says to those who receive it. *)

Recorded(ct) ==
    ct = [idxs |-> ct.idxs, codes |-> ct.codes, qparams |-> ct.qparams, chunks |-> ct.chunks,
          elems |-> ct.elems, shape |-> ct.shape, topk |-> ct.topk]

\* ct is the wire form of these positions and codes, n of them, k to a chunk,
\* and reads back as them.
Carries(ct, g, k, n, idx, codes) ==
    /\ n = ct.chunks * ct.topk /\ n \in Nat /\ ct.topk = k
    /\ ct.chunks = g.chunks /\ ct.elems = g.elems
    /\ IsList(ct.idxs) /\ Len(ct.idxs) = PackedBytes12(n) /\ Indices(ct) = idx
    /\ DOMAIN idx = 1 .. n /\ KeepsPlaces(idx, n, k, g.elems)
    /\ n % 2 = 1 => ct.idxs[Len(ct.idxs)] < 16
    /\ IsList(ct.codes) /\ Len(ct.codes) = PackedBytes2(n) /\ Unpack2(ct.codes, n) = codes
    /\ Len(codes) = n /\ \A i \in 1 .. n : codes[i] \in DOMAIN ct.qparams.lookup
    /\ n % 4 # 0 => ct.codes[Len(ct.codes)] < 4 ^ (n % 4)

\* Its quantizer: up to four integers around an integer.
Quantizes(q) ==
    /\ q.shift \in Int /\ q.scale \in Nat /\ ScaleFloor <= q.scale
    /\ Cardinality(DOMAIN q.lookup) <= 4 /\ \A b \in DOMAIN q.lookup : q.lookup[b] \in Int

LEMMA CompressCarries ==
  ASSUME NEW s, IsShape(s), NEW t, IntTensor(t, s), NEW tie, NEW ct, ct = Compress(s, t, tie)
  PROVE  /\ Recorded(ct) /\ ct.shape = s /\ Quantizes(ct.qparams)
         /\ \E n, idx, codes : Carries(ct, Geometry(s), EffectiveTopK(Geometry(s)), n, idx, codes)
  <1> DEFINE g == Geometry(s)  k == EffectiveTopK(g)  n == g.chunks * k
  <1>1. PICK idx, codes :
           /\ ct.shape = s /\ ct.chunks = g.chunks /\ ct.elems = g.elems /\ ct.topk = k
           /\ ct.idxs = Pack12(idx) /\ IsList(idx) /\ Len(idx) = n /\ KeepsPlaces(idx, n, k, g.elems)
           /\ ct.codes = Pack2(codes) /\ IsList(codes) /\ Len(codes) = n
           /\ \A i \in 1 .. n : codes[i] \in 0 .. Bins - 1
           /\ ct.qparams.shift \in Int
           /\ ct.qparams.scale \in Nat /\ ScaleFloor <= ct.qparams.scale
           /\ DOMAIN ct.qparams.lookup = 0 .. Bins - 1
           /\ \A b \in 0 .. Bins - 1 : ct.qparams.lookup[b] \in Int
    <2> HIDE DEF g, k, n
    <2> QED
      BY CompressIs DEF g, k, n
  <1>2. k \in Nat \ {0} /\ g.chunks \in Nat \ {0} /\ g.elems \in Nat \ {0} /\ g.elems <= 4096
    BY TopKIs, GeometryIs
  <1>3. n \in Nat
    BY <1>2
  <1>4. g = Geometry(s)
    OBVIOUS
  <1> HIDE DEF g, k
  <1>5. ct.chunks * ct.topk = n
    BY <1>1
  <1> HIDE DEF n
  <1>6. \A i \in 1 .. n : idx[i] \in 0 .. g.elems - 1
    BY <1>1 DEF KeepsPlaces
  <1>7. \A i \in 1 .. n : idx[i] \in Index12
    <2> TAKE i \in 1 .. n
    <2> DEFINE e == g.elems  x == idx[i]
    <2>1. e \in Nat /\ e <= 4096 /\ x \in 0 .. e - 1
      BY <1>2, <1>6
    <2> HIDE DEF e, x
    <2>2. x \in 0 .. 4095
      BY <2>1
    <2> QED
      BY <2>2 DEF Index12, x
  <1>8. /\ Len(Pack12(idx)) = PackedBytes12(n) /\ Unpack12(Pack12(idx), n) = idx
        /\ n % 2 = 1 => Pack12(idx)[PackedBytes12(n)] < 16
    BY <1>1, <1>7, Packed12
  <1>9. Bins \in 2 .. 4
    BY CompressionAssumption
  <1>10. \A i \in 1 .. n : codes[i] \in Code2
    BY <1>1, <1>9 DEF Code2
  <1>11. /\ Len(Pack2(codes)) = PackedBytes2(n) /\ Unpack2(Pack2(codes), n) = codes
         /\ n % 4 # 0 => Pack2(codes)[PackedBytes2(n)] < 4 ^ (n % 4)
    BY <1>1, <1>10, Packed2
  <1>12. Indices(ct) = idx
    BY <1>1, <1>5, <1>8 DEF Indices
  <1>13. Cardinality(DOMAIN ct.qparams.lookup) <= 4
    <2>1. Bins \in Nat /\ Bins <= 4
      BY <1>9
    <2>2. Cardinality(0 .. Bins - 1) = Bins
      BY <2>1, UpToIs
    <2> QED
      BY <1>1, <2>1, <2>2
  <1>14. Recorded(ct)
    <2>1. \A h, i, q : Recorded(Wire(s, h, i, q))
      BY DEF Recorded, Wire
    <2> QED
      BY <2>1 DEF Compress, CompressChunks, CompressKept
  <1>15. Quantizes(ct.qparams)
    BY <1>1, <1>13 DEF Quantizes
  <1>16. Carries(ct, g, k, n, idx, codes)
    <2>1. DOMAIN idx = 1 .. n
      BY <1>1 DEF IsList
    <2>2. IsList(Pack12(idx)) /\ IsList(Pack2(codes))
      BY <1>1, <1>7, <1>10, Packed12, Packed2
    <2>3. /\ n % 2 = 1 => ct.idxs[Len(ct.idxs)] < 16
          /\ n % 4 # 0 => ct.codes[Len(ct.codes)] < 4 ^ (n % 4)
      BY <1>1, <1>8, <1>11
    <2>4. /\ n = ct.chunks * ct.topk /\ n \in Nat /\ ct.topk = k /\ ct.chunks = g.chunks /\ ct.elems = g.elems
          /\ IsList(ct.idxs) /\ Len(ct.idxs) = PackedBytes12(n) /\ Indices(ct) = idx
          /\ DOMAIN idx = 1 .. n /\ KeepsPlaces(idx, n, k, g.elems)
          /\ IsList(ct.codes) /\ Len(ct.codes) = PackedBytes2(n) /\ Unpack2(ct.codes, n) = codes
          /\ Len(codes) = n /\ \A i \in 1 .. n : codes[i] \in DOMAIN ct.qparams.lookup
      BY <1>1, <1>3, <1>5, <1>8, <1>11, <1>12, <2>1, <2>2
    <2> QED
      BY <2>3, <2>4, Zenon DEF Carries
  <1> QED
    BY <1>1, <1>4, <1>14, <1>15, <1>16, Zenon DEF k

LEMMA ImageIsFinite ==
  ASSUME NEW S, IsFiniteSet(S), NEW f, DOMAIN f = S
  PROVE  IsFiniteSet({f[x] : x \in S})
  <1> DEFINE T == {f[x] : x \in S}  g == [x \in S |-> f[x]]
  <1>1. g \in Surjection(S, T)
    BY DEF Surjection
  <1> HIDE DEF T, g
  <1>2. IsFiniteSet(T)
    BY <1>1, FS_Surjection
  <1> QED
    BY <1>2 DEF T

\* What compression makes of any tensor of integers, of any shape: its pairs mean
\* the same to every reader, and, its scale within the limit, validation accepts it.
THEOREM CompressIsSound ==
  ASSUME NEW s, IsShape(s), NEW t, IntTensor(t, s), NEW tie, NEW ct, ct = Compress(s, t, tie)
  PROVE  PairsMean(ct) /\ (ct.qparams.scale <= ScaleCeil => ValidTensor(ct, s))
  <1> DEFINE g == Geometry(s)  k == EffectiveTopK(g)
  <1>1. ct.shape = s /\ Quantizes(ct.qparams)
    BY CompressCarries
  <1>2. PICK n, idx, codes : Carries(ct, g, k, n, idx, codes)
    BY CompressCarries
  <1>3. k \in Nat \ {0} /\ g.elems \in Nat \ {0} /\ g = Geometry(s)
    BY TopKIs, GeometryIs
  <1> HIDE DEF g, k
  <1>4. PairsMean(ct)
    <2>1. /\ ct.shape = s /\ ct.chunks = g.chunks /\ ct.elems = g.elems /\ ct.topk \in Nat \ {0}
          /\ idx = Indices(ct) /\ DOMAIN idx = 1 .. ct.chunks * ct.topk
          /\ KeepsPlaces(idx, ct.chunks * ct.topk, ct.topk, ct.elems)
      BY <1>1, <1>2, <1>3 DEF Carries
    <2> QED
      BY <1>3, <2>1, PairsAreTheTensor
  <1>5. ASSUME ct.qparams.scale <= ScaleCeil PROVE ValidTensor(ct, s)
    <2>1. /\ n % 2 = 1 => ct.idxs[Len(ct.idxs)] < 16
          /\ n % 4 # 0 => ct.codes[Len(ct.codes)] < 4 ^ (n % 4)
      BY <1>2, Zenon DEF Carries
    <2>2. /\ ct.chunks = g.chunks /\ ct.elems = g.elems /\ ct.topk = k /\ ct.chunks * ct.topk = n
          /\ Len(ct.idxs) = PackedBytes12(n) /\ Len(ct.codes) = PackedBytes2(n)
          /\ Indices(ct) = idx /\ Unpack2(ct.codes, n) = codes
      BY <1>2 DEF Carries
    <2>3. /\ \A i \in 1 .. n : idx[i] < ct.elems
          /\ \A i \in 1 .. n - 1 : i % ct.topk # 0 => idx[i] < idx[i + 1]
      BY <1>2, <1>3, <2>2 DEF Carries, KeepsPlaces
    <2>4. \A i \in 1 .. n : Unpack2(ct.codes, n)[i] \in DOMAIN ct.qparams.lookup
      BY <1>2 DEF Carries
    <2>5. ScaleFloor <= ct.qparams.scale /\ Cardinality(DOMAIN ct.qparams.lookup) <= 4
      BY <1>1 DEF Quantizes
    <2>6. Evaluated(Indices(ct)) = idx
      BY <2>2, EvaluatedIs
    <2> QED
      BY <1>1, <1>3, <1>5, <2>1, <2>2, <2>3, <2>4, <2>5, <2>6, Zenon DEF ValidTensor, k
  <1> QED
    BY <1>4, <1>5

\* What a compressed tensor of shape s brings into a merge, and what its miner
\* takes out of its error feedback.
Sends(ct, s) ==
    /\ IsFiniteSet(SparsePairs(ct)) /\ \A p \in SparsePairs(ct) : p.val \in Int
    /\ IntTensor(Decompress(ct), s)

LEMMA CompressSends ==
  ASSUME NEW s, IsShape(s), NEW t, IntTensor(t, s), NEW tie, NEW ct, ct = Compress(s, t, tie)
  PROVE  Sends(ct, s)
  <1> DEFINE g == Geometry(s)  k == EffectiveTopK(g)  vals == KeptValues(ct)  pairs == SparsePairs(ct)
             sent == Decompress(ct)
  <1>1. ct.shape = s /\ Quantizes(ct.qparams)
    BY CompressCarries
  <1>2. PICK n, idx, codes : Carries(ct, g, k, n, idx, codes)
    BY CompressCarries
  <1>3. n \in Nat /\ DOMAIN idx = 1 .. n /\ Indices(ct) = idx /\ Unpack2(ct.codes, ct.chunks * ct.topk) = codes
        /\ Len(codes) = n /\ \A i \in 1 .. n : codes[i] \in DOMAIN ct.qparams.lookup
    BY <1>2 DEF Carries
  <1>4. \A j \in 1 .. n : vals[j] \in Int
    <2>1. vals = [j \in 1 .. n |-> ct.qparams.lookup[codes[j]] + ct.qparams.shift]
      BY <1>3 DEF KeptValues, Dequantize
    <2>2. ct.qparams.shift \in Int /\ \A b \in DOMAIN ct.qparams.lookup : ct.qparams.lookup[b] \in Int
      BY <1>1 DEF Quantizes
    <2> QED
      BY <1>3, <2>1, <2>2
  <1>5. pairs = PairsAt(g, ct, idx, vals)
    BY <1>1, <1>3, EvaluatedIs DEF SparsePairs
  <1> HIDE DEF vals, g
  <1>6. IsFiniteSet(pairs) /\ \A p \in pairs : p.val \in Int
    <2> DEFINE chunk(i) == (i - 1) \div ct.topk
               row(i) == (chunk(i) \div g.across) * TargetChunk + (idx[i] \div TargetChunk)
               col(i) == (chunk(i) % g.across) * TargetChunk + (idx[i] % TargetChunk)
               flat(i) == chunk(i) * g.elems + idx[i]
               in == {j \in DOMAIN idx : Inside(g, row(j), col(j), flat(j))}
               at(i) == IF g.grid THEN row(i) * g.cols + col(i) ELSE flat(i)
               pair == [i \in 1 .. n |-> [slot |-> i, val |-> vals[i], at |-> at(i)]]
    <2>1. pairs = {[slot |-> i, val |-> vals[i], at |-> at(i)] : i \in in}
      BY <1>5 DEF PairsAt
    <2>2. in \subseteq 1 .. n
      BY <1>3
    <2> HIDE DEF at, in
    <2>3. pairs \subseteq {pair[i] : i \in 1 .. n}
      BY <2>1, <2>2
    <2>4. \A i \in 1 .. n : pair[i].val = vals[i]
      OBVIOUS
    <2> DEFINE D == 1 .. n
    <2>7. DOMAIN pair = D
      OBVIOUS
    <2> HIDE DEF pair
    <2>5. IsFiniteSet({pair[i] : i \in 1 .. n})
      <3>1. IsFiniteSet(D)
        BY <1>3, FS_Interval
      <3> HIDE DEF D
      <3>2. IsFiniteSet({pair[i] : i \in D})
        BY <2>7, <3>1, ImageIsFinite
      <3> QED
        BY <3>2 DEF D
    <2>6. IsFiniteSet(pairs)
      BY <2>3, <2>5, FS_Subset
    <2> QED
      BY <1>4, <2>3, <2>4, <2>6
  <1>7. IntTensor(sent, s)
    <2>1. PairsMean(ct)
      BY CompressIsSound
    <2>2. DOMAIN sent = 0 .. Product(s) - 1
      <3>1. Geometry(s).numel = Product(s)
        BY GeometryIs
      <3>2. \A x : DOMAIN Decode(Geometry(s), x) = 0 .. Geometry(s).numel - 1
        BY DEF Decode
      <3> QED
        BY <1>1, <3>1, <3>2 DEF Decompress
    <2> HIDE DEF sent, pairs
    <2>3. ASSUME NEW i \in DOMAIN sent PROVE sent[i] \in Int
      BY <1>6, <2>1, <2>3 DEF PairsMean, sent, pairs
    <2> QED
      BY <2>2, <2>3 DEF IntTensor
  <1> QED
    BY <1>6, <1>7 DEF Sends

LEMMA CompressIsWritable ==
  ASSUME NEW s, IsShape(s), NEW t, IntTensor(t, s), NEW tie, NEW ct, ct = Compress(s, t, tie)
  PROVE  IsCompressed(ct)
  <1> DEFINE g == Geometry(s)  k == EffectiveTopK(g)
  <1>1. ct.shape = s /\ Recorded(ct)
    BY CompressCarries
  <1>2. PICK n, idx, codes : Carries(ct, g, k, n, idx, codes)
    BY CompressCarries
  <1>3. /\ k \in Nat \ {0} /\ k <= g.elems /\ g.elems \in Nat \ {0} /\ g.chunks \in Nat \ {0}
        /\ g.numel = Product(s) /\ g.numel <= g.chunks * g.elems
    BY TopKIs, GeometryIs, ChunksHold
  <1> HIDE DEF g, k
  <1>4. /\ ct.chunks = g.chunks /\ ct.elems = g.elems /\ ct.topk = k /\ ct.chunks * ct.topk = n
        /\ IsList(ct.idxs) /\ Len(ct.idxs) = PackedBytes12(n)
        /\ IsList(ct.codes) /\ Len(ct.codes) = PackedBytes2(n)
    BY <1>2 DEF Carries
  <1>5. ct.chunks >= 1 /\ ct.topk \in 1 .. ct.elems
    BY <1>3, <1>4
  <1>6. Product(ct.shape) <= ct.chunks * ct.elems
    BY <1>1, <1>3, <1>4, Zenon
  <1>7. ASSUME NEW name PROVE EntryBounded(Entry(name, ct))
    <2> DEFINE e == Entry(name, ct)
    <2>1. /\ e.chunks = ct.chunks /\ e.topk = ct.topk /\ e.elems = ct.elems /\ e.shape = ct.shape
          /\ e.idxsBytes = Len(ct.idxs) /\ e.codesBytes = Len(ct.codes)
      BY DEF Entry
    <2> HIDE DEF e
    <2> QED
      BY <1>4, <1>5, <1>6, <2>1, Zenon DEF EntryBounded, e
  <1> QED
    BY <1>1, <1>4, <1>7, Zenon DEF IsCompressed, Recorded

-----------------------------------------------------------------------------
(* What a miner sends. *)

\* Every tensor of p is of integers, over all of its indices.
Numbers(p) == p = [n \in Names |-> p[n]] /\ \A n \in Names : p[n] \in [0 .. Product(Shapes[n]) - 1 -> Int]

\* A payload that says the same to everyone.
Means(p) ==
    /\ DOMAIN p.compressed = CompNames /\ DOMAIN p.dense = BiasNames
    /\ \A n \in CompNames :
         /\ Sends(p.compressed[n], Shapes[n]) /\ PairsMean(p.compressed[n])
         /\ p.compressed[n].qparams.scale <= ScaleCeil => ValidTensor(p.compressed[n], Shapes[n])
    /\ \A n \in BiasNames :
         /\ p.dense[n].shape = Shapes[n]
         /\ p.dense[n].value \in [0 .. Product(Shapes[n]) - 1 -> Int]

LEMMA PayloadIsMeant ==
  ASSUME NEW from, Numbers(from), NEW to, Numbers(to), NEW residuals, Numbers(residuals),
         \A x \in Int : Decay(x) \in Int,
         NEW uid, NEW w, NEW manifest, NEW counters, NEW tie,
         NEW p, p = PayloadOf(uid, w, manifest, counters, from, to, residuals, tie)
  PROVE  IsPayload(p) /\ Means(p) /\ p.window = w
  <1> DEFINE delta(n) == TensorMinus(from[n], to[n])
             sum(n) == Feedback(residuals[n], delta(n))
  <1>1. /\ CompNames \subseteq Names /\ BiasNames \subseteq Names /\ CompNames \cap BiasNames = {}
        /\ Names = Listed(NameOrder)
    BY InnerLoopAssumption DEF CompNames
  <1>2. /\ p = [uid |-> p.uid, window |-> p.window, meta |-> p.meta, compressed |-> p.compressed, dense |-> p.dense]
        /\ p.compressed = [n \in CompNames |-> Compress(Shapes[n], sum(n), tie)]
        /\ p.dense = [n \in BiasNames |-> [shape |-> Shapes[n], value |-> delta(n)]]
        /\ p.window = w
    BY EvaluatedIs DEF PayloadOf
  <1>3. ASSUME NEW n \in Names
        PROVE  /\ IsShape(Shapes[n]) /\ Product(Shapes[n]) \in Nat
               /\ delta(n) \in [0 .. Product(Shapes[n]) - 1 -> Int] /\ IntTensor(sum(n), Shapes[n])
    <2>1. IsShape(Shapes[n])
      BY InnerLoopAssumption DEF IsShape
    <2> DEFINE P == Product(Shapes[n])
    <2>2. P \in Nat
      BY <2>1, ProductSplits
    <2>3. from[n] \in [0 .. P - 1 -> Int] /\ to[n] \in [0 .. P - 1 -> Int] /\ residuals[n] \in [0 .. P - 1 -> Int]
      BY DEF Numbers
    <2> DEFINE I == 0 .. P - 1
    <2>6. ASSUME NEW a \in [I -> Int], NEW b \in [I -> Int], NEW r \in [I -> Int]
          PROVE  /\ TensorMinus(a, b) \in [I -> Int]
                 /\ \A i \in I : Feedback(r, TensorMinus(a, b))[i] \in Int
      <3> HIDE DEF I
      <3> DEFINE d == TensorMinus(a, b)
      <3>1. d = [i \in I |-> a[i] - b[i]]
        BY DEF TensorMinus
      <3>2. d \in [I -> Int]
        BY <3>1
      <3> HIDE DEF d
      <3>3. Feedback(r, d) = [i \in I |-> Decay(r[i]) + d[i]]
        BY <3>2 DEF Feedback
      <3>4. \A i \in I : Decay(r[i]) + d[i] \in Int
        BY <3>2
      <3> QED
        BY <3>2, <3>3, <3>4 DEF d
    <2> HIDE DEF P
    <2>4. delta(n) \in [0 .. P - 1 -> Int]
      BY <2>3, <2>6
    <2>5. \A i \in 0 .. P - 1 : sum(n)[i] \in Int
      BY <2>3, <2>6
    <2> QED
      BY <2>1, <2>2, <2>4, <2>5 DEF P, IntTensor
  <1> HIDE DEF delta, sum
  <1>4. ASSUME NEW n \in CompNames
        PROVE  /\ IsCompressed(p.compressed[n]) /\ Sends(p.compressed[n], Shapes[n]) /\ PairsMean(p.compressed[n])
               /\ p.compressed[n].qparams.scale <= ScaleCeil => ValidTensor(p.compressed[n], Shapes[n])
    <2> DEFINE ct == p.compressed[n]
    <2>1. ct = Compress(Shapes[n], sum(n), tie) /\ IsShape(Shapes[n]) /\ IntTensor(sum(n), Shapes[n])
      BY <1>1, <1>2, <1>3
    <2> HIDE DEF ct
    <2> QED
      BY <2>1, CompressIsWritable, CompressSends, CompressIsSound DEF ct
  <1>5. ASSUME NEW n \in BiasNames
        PROVE  /\ p.dense[n].shape = Shapes[n] /\ p.dense[n].value \in [0 .. Product(Shapes[n]) - 1 -> Int]
               /\ IsDense(p.dense[n])
    <2>1. p.dense[n] = [shape |-> Shapes[n], value |-> delta(n)]
      BY <1>2
    <2>2. delta(n) \in [0 .. Product(Shapes[n]) - 1 -> Int] /\ Product(Shapes[n]) \in Nat
      BY <1>1, <1>3
    <2> QED
      BY <2>1, <2>2 DEF IsDense
  <1>6. /\ DOMAIN p.compressed = CompNames /\ DOMAIN p.dense = BiasNames
        /\ p.compressed = [n \in DOMAIN p.compressed |-> p.compressed[n]]
        /\ p.dense = [n \in DOMAIN p.dense |-> p.dense[n]]
    BY <1>2
  <1>7. IsPayload(p)
    BY <1>1, <1>2, <1>4, <1>5, <1>6 DEF IsPayload
  <1>8. Means(p)
    BY <1>4, <1>5, <1>6 DEF Means
  <1> QED
    BY <1>2, <1>7, <1>8

-----------------------------------------------------------------------------
(* The outer step, in integers. *)

LEMMA SumIsNat ==
  ASSUME NEW f, IsFiniteSet(DOMAIN f), \A x \in DOMAIN f : f[x] \in Nat
  PROVE  SumOf(f) \in Nat
  <1> DEFINE S == DOMAIN f  sum(s) == SumFunctionOnSet(f, s)
             Off == {n \in Nat : \E s \in SUBSET S : Cardinality(s) = n /\ sum(s) \notin Nat}
  <1>1. ASSUME NEW s \in SUBSET S, s # {}
        PROVE  OneOf(s) \in s /\ sum(s) = f[OneOf(s)] + sum(s \ {OneOf(s)})
    <2>1. IsFiniteSet(s) /\ \A x \in s : f[x] \in Int
      BY FS_Subset
    <2> QED
      BY <1>1, <2>1, SumUnfolds DEF OneOf
  <1>2. sum({}) = 0
    BY SumUnfolds, FS_EmptySet
  <1> HIDE DEF sum
  <1>3. Off = {}
    <2> SUFFICES ASSUME Off # {} PROVE FALSE
      OBVIOUS
    <2>1. PICK n \in Off : \A m \in Off : n <= m
      <3>1. Off \subseteq Nat
        OBVIOUS
      <3> HIDE DEF Off
      <3> QED
        BY <3>1, LeastNatural
    <2>2. PICK s \in SUBSET S : Cardinality(s) = n /\ sum(s) \notin Nat
      OBVIOUS
    <2>3. s # {}
      BY <1>2, <2>2
    <2> DEFINE z == OneOf(s)
    <2>4. z \in s /\ sum(s) = f[z] + sum(s \ {z})
      BY <1>1, <2>3
    <2> HIDE DEF z
    <2>5. s \ {z} \in SUBSET S /\ Cardinality(s \ {z}) + 1 = Cardinality(s) /\ Cardinality(s \ {z}) \in Nat
      BY <2>3, <2>4, OneLess
    <2>6. Cardinality(s \ {z}) \notin Off
      <3>1. n \in Nat
        OBVIOUS
      <3> HIDE DEF Off
      <3> QED
        BY <2>1, <2>2, <2>5, <3>1
    <2>7. sum(s \ {z}) \in Nat /\ f[z] \in Nat
      BY <2>4, <2>5, <2>6
    <2> QED
      BY <2>2, <2>4, <2>7
  <1>4. Cardinality(S) \in Nat
    BY FS_CardinalityType
  <1>5. sum(S) \in Nat
    BY <1>3, <1>4
  <1> QED
    BY <1>5, SumOfIs DEF sum

\* The norm that no other exceeds.
LEMMA LargestNorm ==
  ASSUME NEW D, IsFiniteSet(D), D # {}, NEW norms \in [D -> Nat]
  PROVE  \E v \in D : \A x \in D : norms[x] <= norms[v]
  <1> DEFINE over(v) == {y \in D : norms[y] > norms[v]}
             counts == {Cardinality(over(v)) : v \in D}
  <1>1. ASSUME NEW v \in D PROVE IsFiniteSet(over(v)) /\ Cardinality(over(v)) \in Nat
    BY FS_Subset, FS_CardinalityType
  <1> HIDE DEF over
  <1>2. PICK k \in counts : \A m \in counts : k <= m
    <2>1. counts \subseteq Nat /\ counts # {}
      BY <1>1
    <2> HIDE DEF counts
    <2> QED
      BY <2>1, LeastNatural
  <1>3. PICK v \in D : k = Cardinality(over(v))
    OBVIOUS
  <1>4. ASSUME NEW x \in D, ~(norms[x] <= norms[v]) PROVE FALSE
    <2>1. norms[x] > norms[v]
      BY <1>4
    <2>2. over(x) \subseteq over(v) /\ x \in over(v) /\ x \notin over(x)
      BY <2>1 DEF over
    <2>3. Cardinality(over(x)) < Cardinality(over(v))
      <3>1. Cardinality(over(x)) <= Cardinality(over(v)) /\ Cardinality(over(v)) # Cardinality(over(x))
        BY <1>1, <2>2, FS_Subset
      <3> QED
        BY <1>1, <3>1
    <2>4. Cardinality(over(v)) <= Cardinality(over(x))
      BY <1>2, <1>3
    <2> QED
      BY <1>1, <2>3, <2>4
  <1> QED
    BY <1>4

LEMMA MedianIsNat ==
  ASSUME NEW D, IsFiniteSet(D), D # {}, NEW norms \in [D -> Nat]
  PROVE  MedianNorm(norms) \in Nat
  <1> DEFINE upTo(v) == {x \in D : norms[x] <= norms[v]}
             V == {v \in D : 2 * Cardinality(upTo(v)) >= Cardinality(D)}
             S == {norms[u] : u \in V}
  <1>1. MedianNorm(norms) = Min(S)
    <2>1. DOMAIN norms = D
      OBVIOUS
    <2> QED
      BY <2>1 DEF MedianNorm
  <1>2. PICK v \in D : \A x \in D : norms[x] <= norms[v]
    BY LargestNorm
  <1>3. v \in V
    <2>1. upTo(v) = D
      BY <1>2
    <2>2. Cardinality(D) \in Nat
      BY FS_CardinalityType
    <2> HIDE DEF upTo
    <2> QED
      BY <2>1, <2>2
  <1>4. S \subseteq Nat /\ S # {}
    BY <1>3
  <1> HIDE DEF S
  <1>5. PICK m \in S : \A x \in S : m <= x
    BY <1>4, LeastNatural
  <1>6. Min(S) \in S
    BY <1>5 DEF Min
  <1> QED
    BY <1>1, <1>4, <1>6

\* Contributions of integers, finitely many, by these peers.
Contribute(contribs, peers) ==
    IsFiniteSet(contribs) /\ \A c \in contribs : c.val \in Int /\ c.peer \in peers

LEMMA MagnitudeIsNat == \A x \in Int : Magnitude(x) \in Nat
  BY DEF Magnitude

LEMMA NormsAre ==
  ASSUME NEW contribs, NEW peers, Contribute(contribs, peers)
  PROVE  Norms(contribs, peers) \in [peers -> Nat]
  <1>1. ASSUME NEW u \in peers
        PROVE  SumOf([c \in {d \in contribs : d.peer = u} |-> Magnitude(c.val)]) \in Nat
    <2> DEFINE C == {d \in contribs : d.peer = u}  f == [c \in C |-> Magnitude(c.val)]
    <2>1. IsFiniteSet(C) /\ \A c \in C : c.val \in Int
      BY FS_Subset DEF Contribute
    <2> HIDE DEF C
    <2>2. DOMAIN f = C /\ \A c \in C : f[c] \in Nat
      BY <2>1, MagnitudeIsNat
    <2> HIDE DEF f
    <2>3. SumOf(f) \in Nat
      BY <2>1, <2>2, SumIsNat
    <2> QED
      BY <2>3 DEF f, C
  <1> QED
    BY <1>1 DEF Norms

LEMMA ClippedIsInt ==
  ASSUME NEW val \in Int, NEW norm \in Nat, NEW median \in Nat
  PROVE  Clipped(val, norm, median) \in Int
  <1>1. CASE norm <= median
    BY <1>1 DEF Clipped
  <1>2. CASE ~(norm <= median)
    <2>1. norm \in Nat \ {0}
      BY <1>2
    <2>2. val * median \in Int
      OBVIOUS
    <2> DEFINE a == val * median
    <2> HIDE DEF a
    <2>3. a \div norm \in Int
      BY <2>1, <2>2 DEF a
    <2> QED
      BY <1>2, <2>3 DEF Clipped, a
  <1> QED
    BY <1>1, <1>2

LEMMA SegmentIsInt ==
  ASSUME NEW contribs, NEW peers, Contribute(contribs, peers), NEW here \in SUBSET contribs,
         NEW norms \in [peers -> Nat], NEW median \in Nat
  PROVE  SegmentMean(here, norms, median) \in Int
  <1>1. CASE here = {}
    BY <1>1 DEF SegmentMean
  <1>2. CASE here # {}
    <2> DEFINE f == [c \in here |-> Clipped(c.val, norms[c.peer], median)]  k == Cardinality(here)
    <2>1. IsFiniteSet(here) /\ k \in Nat \ {0}
      BY <1>2, FS_Subset, FS_CardinalityType, FS_EmptySet DEF Contribute
    <2>2. ASSUME NEW c \in here PROVE f[c] \in Int
      <3>1. c.val \in Int /\ norms[c.peer] \in Nat
        BY DEF Contribute
      <3> DEFINE v == c.val  x == norms[c.peer]
      <3>2. v \in Int /\ x \in Nat
        BY <3>1
      <3> HIDE DEF v, x
      <3>3. Clipped(v, x, median) \in Int
        BY <3>2, ClippedIsInt
      <3> QED
        BY <3>3 DEF v, x
    <2>3. DOMAIN f = here
      OBVIOUS
    <2>4. SegmentMean(here, norms, median) = SumOf(f) \div k
      BY <1>2 DEF SegmentMean
    <2> HIDE DEF f, k
    <2>5. SumOf(f) \in Int
      BY <2>1, <2>2, <2>3, SumIsInt
    <2> QED
      BY <2>1, <2>4, <2>5
  <1> QED
    BY <1>1, <1>2

LEMMA MergedIsInt ==
  ASSUME NEW contribs, NEW peers, IsFiniteSet(peers), peers # {}, Contribute(contribs, peers), NEW indices
  PROVE  Merged(contribs, peers, indices) \in [indices -> Int]
  <1> DEFINE norms == Norms(contribs, peers)  median == MedianNorm(norms)
             here(i) == {c \in contribs : c.at = i}
  <1>1. norms \in [peers -> Nat]
    BY NormsAre
  <1> HIDE DEF norms
  <1>2. median \in Nat
    BY <1>1, MedianIsNat
  <1>3. Merged(contribs, peers, indices) = [i \in indices |-> SegmentMean(here(i), norms, median)]
    BY EvaluatedIs DEF Merged, MergedUnder, MergedBy, norms
  <1> HIDE DEF median
  <1>4. ASSUME NEW i \in indices PROVE SegmentMean(here(i), norms, median) \in Int
    <2>1. here(i) \in SUBSET contribs
      OBVIOUS
    <2> HIDE DEF here
    <2> QED
      BY <1>1, <1>2, <2>1, SegmentIsInt
  <1> HIDE DEF here
  <1> QED
    BY <1>3, <1>4

LEMMA PeerPairsAre ==
  ASSUME NEW p, Means(p), NEW n \in Names
  PROVE  IsFiniteSet(PeerPairs(n, p)) /\ \A c \in PeerPairs(n, p) : c.val \in Int
  <1>1. CASE n \in CompNames
    <2>1. PeerPairs(n, p) = SparsePairs(p.compressed[n])
      BY <1>1 DEF PeerPairs, Means
    <2>2. Sends(p.compressed[n], Shapes[n])
      BY <1>1 DEF Means
    <2> QED
      BY <2>1, <2>2 DEF Sends
  <1>2. CASE n \in BiasNames
    <2> DEFINE t == p.dense[n].value  I == 0 .. Product(Shapes[n]) - 1
               pair == [i \in I |-> [slot |-> i + 1, at |-> i, val |-> t[i]]]
    <2>1. PeerPairs(n, p) = DensePairs(t)
      BY <1>2 DEF PeerPairs, Means, CompNames
    <2>2. t \in [I -> Int]
      BY <1>2 DEF Means
    <2>3. IsFiniteSet(I)
      <3>1. IsShape(Shapes[n])
        BY InnerLoopAssumption DEF IsShape
      <3>2. Product(Shapes[n]) \in Nat
        BY <3>1, ProductSplits
      <3> DEFINE P == Product(Shapes[n])
      <3>3. IsFiniteSet(0 .. P - 1)
        <4>1. P \in Nat
          BY <3>2
        <4> HIDE DEF P
        <4> QED
          BY <4>1, UpToIs
      <3> QED
        BY <3>3
    <2> HIDE DEF t, I
    <2>4. DensePairs(t) = {pair[i] : i \in I}
      BY <2>2 DEF DensePairs
    <2>5. DOMAIN pair = I /\ \A i \in I : pair[i].val = t[i]
      OBVIOUS
    <2> HIDE DEF pair
    <2>6. IsFiniteSet({pair[i] : i \in I})
      BY <2>3, <2>5, ImageIsFinite
    <2> QED
      BY <2>1, <2>2, <2>4, <2>5, <2>6
  <1> QED
    BY <1>1, <1>2 DEF CompNames

LEMMA ContributionsAre ==
  ASSUME NEW payloads, IsFiniteSet(DOMAIN payloads), \A u \in DOMAIN payloads : Means(payloads[u]),
         NEW n \in Names
  PROVE  Contribute(Contributions(n, payloads), DOMAIN payloads)
  <1> DEFINE D == DOMAIN payloads  pairs(u) == PeerPairs(n, payloads[u])
             by(u) == {[peer |-> u, slot |-> c.slot, at |-> c.at, val |-> c.val] : c \in pairs(u)}
             all == [u \in D |-> by(u)]
             family == {all[u] : u \in D}
  <1>1. ASSUME NEW u \in D
        PROVE  IsFiniteSet(by(u)) /\ \A c \in by(u) : c.val \in Int /\ c.peer = u
    <2> DEFINE S == pairs(u)
               f == [c \in S |-> [peer |-> u, slot |-> c.slot, at |-> c.at, val |-> c.val]]
    <2>1. IsFiniteSet(S) /\ \A c \in S : c.val \in Int
      BY PeerPairsAre
    <2>2. by(u) = {f[c] : c \in S}
      OBVIOUS
    <2> HIDE DEF S
    <2>3. DOMAIN f = S /\ \A c \in S : f[c].val = c.val /\ f[c].peer = u
      OBVIOUS
    <2> HIDE DEF f, by
    <2>4. IsFiniteSet({f[c] : c \in S})
      BY <2>1, <2>3, ImageIsFinite
    <2> QED
      BY <2>1, <2>2, <2>3, <2>4
  <1>2. Contributions(n, payloads) = UNION {by(u) : u \in D}
    BY DEF Contributions
  <1> HIDE DEF by
  <1>3. DOMAIN all = D /\ \A u \in D : all[u] = by(u)
    OBVIOUS
  <1> HIDE DEF all
  <1>4. {by(u) : u \in D} = family
    BY <1>3
  <1>5. IsFiniteSet(family) /\ \A T \in family : IsFiniteSet(T)
    <2>1. IsFiniteSet(D)
      OBVIOUS
    <2> HIDE DEF D
    <2> QED
      BY <1>1, <1>3, <2>1, ImageIsFinite
  <1>6. IsFiniteSet(UNION family)
    <2> HIDE DEF family
    <2> QED
      BY <1>5, FS_UNION
  <1>7. \A c \in UNION family : c.val \in Int /\ c.peer \in D
    BY <1>1, <1>3
  <1> QED
    BY <1>2, <1>4, <1>6, <1>7 DEF Contribute

\* The outer step takes numbers to numbers, whatever valid payloads it merges.
LEMMA OuterStepIsNumbers ==
  ASSUME \A x \in Int : MomentumOf(x) \in Int,
         NEW at, Numbers(at.params), Numbers(at.momentum),
         NEW payloads, IsFiniteSet(DOMAIN payloads), \A u \in DOMAIN payloads : Means(payloads[u])
  PROVE  Numbers(OuterApply(at, payloads).params) /\ Numbers(OuterApply(at, payloads).momentum)
  <1> DEFINE D == DOMAIN payloads  I(n) == 0 .. Product(Shapes[n]) - 1
             grad == [n \in DOMAIN at.params |-> Merged(Contributions(n, payloads), D, DOMAIN at.params[n])]
  <1>1. CASE D = {}
    BY <1>1 DEF OuterApply
  <1>2. CASE D # {}
    <2>1. DOMAIN at.params = Names /\ \A n \in Names : at.params[n] \in [I(n) -> Int] /\ at.momentum[n] \in [I(n) -> Int]
      BY DEF Numbers
    <2>2. DOMAIN grad = Names
      BY <2>1
    <2>3. ASSUME NEW n \in Names PROVE grad[n] \in [I(n) -> Int]
      <3>1. grad[n] = Merged(Contributions(n, payloads), D, I(n))
        BY <2>1
      <3>2. Contribute(Contributions(n, payloads), D)
        BY ContributionsAre
      <3> DEFINE c == Contributions(n, payloads)  J == I(n)
      <3>3. Contribute(c, D) /\ IsFiniteSet(D) /\ D # {}
        BY <1>2, <3>2
      <3> HIDE DEF c, D, J
      <3>4. Merged(c, D, J) \in [J -> Int]
        BY <3>3, MergedIsInt
      <3> QED
        BY <3>1, <3>4 DEF c, J
    <2>4. OuterApply(at, payloads) = Nesterov(at, grad)
      BY <1>2, EvaluatedIs DEF OuterApply
    <2> HIDE DEF grad, I
    <2> DEFINE m == [n \in Names |-> [i \in I(n) |-> MomentumOf(at.momentum[n][i]) + grad[n][i]]]
               q == [n \in Names |-> [i \in I(n) |-> at.params[n][i] - grad[n][i] - MomentumOf(m[n][i])]]
    <2>5. Nesterov(at, grad) = [momentum |-> m, params |-> q]
      <3>1. \A n \in Names : DOMAIN grad[n] = I(n)
        BY <2>3
      <3>2. [n \in DOMAIN grad |-> [i \in DOMAIN grad[n] |-> MomentumOf(at.momentum[n][i]) + grad[n][i]]] = m
        BY <2>2, <3>1
      <3> HIDE DEF m
      <3>3. [n \in DOMAIN grad |-> [i \in DOMAIN grad[n] |-> at.params[n][i] - grad[n][i] - MomentumOf(m[n][i])]] = q
        BY <2>2, <3>1
      <3> HIDE DEF q
      <3> QED
        BY <3>2, <3>3, EvaluatedIs DEF Nesterov
    <2>6. \A n \in Names : m[n] \in [I(n) -> Int]
      <3> TAKE n \in Names
      <3>1. m[n] = [i \in I(n) |-> MomentumOf(at.momentum[n][i]) + grad[n][i]]
        OBVIOUS
      <3>2. \A i \in I(n) : MomentumOf(at.momentum[n][i]) + grad[n][i] \in Int
        BY <2>1, <2>3
      <3> HIDE DEF m
      <3> QED
        BY <3>1, <3>2
    <2>7. m = [n \in Names |-> m[n]]
      OBVIOUS
    <2>8. q = [n \in Names |-> q[n]]
      OBVIOUS
    <2> HIDE DEF m
    <2>9. \A n \in Names : q[n] \in [I(n) -> Int]
      <3> TAKE n \in Names
      <3>1. q[n] = [i \in I(n) |-> at.params[n][i] - grad[n][i] - MomentumOf(m[n][i])]
        OBVIOUS
      <3>2. \A i \in I(n) : at.params[n][i] - grad[n][i] - MomentumOf(m[n][i]) \in Int
        BY <2>1, <2>3, <2>6
      <3> HIDE DEF q
      <3> QED
        BY <3>1, <3>2
    <2> HIDE DEF q
    <2>10. OuterApply(at, payloads).params = q /\ OuterApply(at, payloads).momentum = m
      BY <2>4, <2>5
    <2> QED
      BY <2>6, <2>7, <2>8, <2>9, <2>10, Zenon DEF Numbers, I
  <1> QED
    BY <1>1, <1>2

-----------------------------------------------------------------------------
(* The reference window, in integers. *)

\* The reference takes its steps one by one.
LEMMA ReferenceUnfolds ==
  ASSUME NEW whole, NEW pairs, NEW phase, NEW counters, phase.steps \in Nat
  PROVE  \E f : /\ f[0].whole = whole
                /\ ReferenceWindow(whole, pairs, phase, counters) = f[phase.steps].whole
                /\ \A s \in 1 .. phase.steps :
                     f[s] = ReferenceStep(f[s - 1], pairs, phase, counters, s - 1,
                                          StepAccum(phase, f[s - 1].tokens))
  <1> DEFINE hi == phase.steps
             base == [whole |-> whole, opt |-> [n \in ParamNames |-> FreshAdam(whole[n])],
                      tokens |-> counters.tokens]
             Next1(at, s) == Evaluated(ReferenceStep(at, pairs, phase, counters, s - 1,
                                                     StepAccum(phase, at.tokens)))
             Step(g, s) == IF s = 0 THEN base ELSE Next1(g[s - 1], s)
             Body(g) == [s \in 0 .. hi |-> Step(g, s)]
             at == CHOOSE g : g = Body(g)
             Built(n) == \E f : \A i \in 0 .. n : f[i] = Step(f, i)
             Unbuilt == {k \in Nat : k <= hi /\ ~Built(k)}
  <1>1. ReferenceWindow(whole, pairs, phase, counters) = at[hi].whole
    BY DEF ReferenceWindow
  <1>2. hi \in Nat
    OBVIOUS
  <1>3. \A f, g : \A s : (f[s - 1] = g[s - 1]) => Step(f, s) = Step(g, s)
    <2> HIDE DEF Next1, base
    <2> QED
      OBVIOUS
  <1>4. \A g : Step(g, 0) = base /\ base.whole = whole
    OBVIOUS
  <1>5. \A g : \A s \in 1 .. hi : Step(g, s) = Next1(g[s - 1], s)
    BY <1>2
  <1> HIDE DEF hi, Step, at, base
  <1>6. Built(0)
    <2> DEFINE h == [x \in {0} |-> base]
    <2>1. \A i \in 0 .. 0 : h[i] = Step(h, i)
      BY <1>4
    <2> QED
      BY <2>1
  <1>7. ASSUME NEW n \in Nat, Built(n) PROVE Built(n + 1)
    <2>1. PICK f : \A i \in 0 .. n : f[i] = Step(f, i)
      BY <1>7
    <2> DEFINE h == [i \in 0 .. n + 1 |-> IF i = n + 1 THEN Step(f, n + 1) ELSE f[i]]
    <2>2. \A i \in 0 .. n : h[i] = f[i]
      OBVIOUS
    <2>3. h[n + 1] = Step(f, n + 1)
      OBVIOUS
    <2> HIDE DEF h
    <2>4. ASSUME NEW i \in 0 .. n + 1 PROVE h[i] = Step(h, i)
      <3>1. CASE i = 0
        BY <1>4, <2>1, <2>2, <3>1
      <3>2. CASE i # 0
        <4>1. i - 1 \in 0 .. n /\ h[i - 1] = f[i - 1]
          BY <2>2, <3>2
        <4>2. Step(h, i) = Step(f, i)
          BY <1>3, <4>1
        <4>3. i = n + 1 \/ i \in 0 .. n
          OBVIOUS
        <4>4. h[i] = Step(f, i)
          BY <2>1, <2>2, <2>3, <4>3
        <4> QED
          BY <4>2, <4>4
      <3> QED
        BY <3>1, <3>2
    <2> QED
      BY <2>4
  <1> HIDE DEF Built
  <1>8. Unbuilt = {}
    <2> SUFFICES ASSUME Unbuilt # {} PROVE FALSE
      OBVIOUS
    <2>1. PICK k \in Unbuilt : \A x \in Unbuilt : k <= x
      <3>1. Unbuilt \subseteq Nat
        OBVIOUS
      <3> HIDE DEF Unbuilt
      <3> QED
        BY <3>1, LeastNatural
    <2>2. k \in Nat /\ k <= hi /\ ~Built(k)
      OBVIOUS
    <2>3. k # 0
      BY <1>6, <2>2
    <2>4. k - 1 \in Nat /\ ~(k <= k - 1) /\ k - 1 <= hi /\ (k - 1) + 1 = k
      BY <1>2, <2>2, <2>3
    <2>5. Built(k - 1)
      <3>1. k - 1 \notin Unbuilt
        <4> HIDE DEF Unbuilt
        <4> QED
          BY <2>1, <2>4
      <3> QED
        BY <2>4, <3>1
    <2> QED
      BY <1>7, <2>2, <2>4, <2>5
  <1>9. Built(hi)
    <2>1. hi <= hi /\ hi \notin Unbuilt
      BY <1>2, <1>8
    <2> QED
      BY <1>2, <2>1
  <1>10. PICK f : \A i \in 0 .. hi : f[i] = Step(f, i)
    BY <1>9 DEF Built
  <1> DEFINE h == [i \in 0 .. hi |-> f[i]]
  <1>11. h = Body(h)
    <2>1. ASSUME NEW i \in 0 .. hi PROVE h[i] = Step(h, i)
      <3>1. CASE i = 0
        BY <1>4, <1>10, <3>1
      <3>2. CASE i # 0
        <4>1. i - 1 \in 0 .. hi
          BY <1>2, <3>2
        <4>2. h[i - 1] = f[i - 1]
          BY <4>1
        <4> HIDE DEF h
        <4>3. Step(h, i) = Step(f, i)
          BY <1>3, <4>2
        <4> QED
          BY <1>10, <4>3 DEF h
      <3> QED
        BY <3>1, <3>2
    <2>2. h = [i \in 0 .. hi |-> h[i]]
      OBVIOUS
    <2> HIDE DEF h
    <2> QED
      BY <2>1, <2>2
  <1> HIDE DEF h
  <1>12. at = Body(at)
    BY <1>11 DEF at
  <1>13. \A s \in 0 .. hi : at[s] = Step(at, s)
    BY <1>12
  <1>14. at[0].whole = whole
    BY <1>2, <1>4, <1>13
  <1>15. \A s \in 1 .. hi : at[s] = Next1(at[s - 1], s)
    <2>1. \A s \in 1 .. hi : s \in 0 .. hi
      BY <1>2
    <2> HIDE DEF Next1
    <2> QED
      BY <1>5, <1>13, <2>1
  <1>16. \A s \in 1 .. hi : at[s] = ReferenceStep(at[s - 1], pairs, phase, counters, s - 1,
                                                  StepAccum(phase, at[s - 1].tokens))
    BY <1>15, EvaluatedIs
  <1> QED
    BY <1>1, <1>14, <1>16 DEF hi

LEMMA ReferenceStepIsNumbers ==
  ASSUME \A x : Wrap(x) \in Int, NEW at, Numbers(at.whole),
         NEW pairs, NEW phase, NEW counters, NEW s, NEW a
  PROVE  Numbers(ReferenceStep(at, pairs, phase, counters, s, a).whole)
  <1> DEFINE I(n) == 0 .. Product(Shapes[n]) - 1
             grad == ReferenceGrad(at.whole, pairs, s, a)
             norm == NormOver(ParamNames, grad)
             load == ReferenceLoad(at.whole, pairs, s, a)
             lr == LrOf(phase, counters, s)
             opt == Optimized(at.opt, grad, norm, lr)
             after == [n \in Names |-> IF n \in BiasNames THEN BalanceBias(at.whole[n], load) ELSE opt[n].master]
  <1>1. ReferenceStep(at, pairs, phase, counters, s, a).whole = after
    BY EvaluatedIs DEF ReferenceStep, StepWith, AfterStep
  <1>2. \A n \in ParamNames : DOMAIN grad[n] = I(n)
    <2>1. \A n \in ParamNames : DOMAIN at.whole[n] = I(n)
      BY DEF Numbers, ParamNames
    <2> QED
      BY <2>1 DEF ReferenceGrad
  <1> HIDE DEF grad, norm, load, lr
  <1>3. \A n \in ParamNames : opt[n] = AdamStep(at.opt[n], ClippedBy(norm, grad[n]), lr)
    BY DEF Optimized
  <1>4. ASSUME NEW state, NEW g PROVE
             /\ DOMAIN AdamStep(state, g, lr).master = DOMAIN g
             /\ AdamStep(state, g, lr).master \in [DOMAIN g -> Int]
    BY DEF AdamStep
  <1>5. \A g : DOMAIN ClippedBy(norm, g) = DOMAIN g
    BY DEF ClippedBy
  <1> HIDE DEF opt
  <1>6. ASSUME NEW n \in Names \ BiasNames PROVE after[n] \in [I(n) -> Int]
    <2>1. n \in ParamNames /\ after[n] = opt[n].master
      BY DEF ParamNames
    <2> HIDE DEF after, I
    <2> QED
      BY <1>2, <1>3, <1>4, <1>5, <2>1
  <1>7. ASSUME NEW n \in BiasNames PROVE after[n] \in [I(n) -> Int]
    <2>1. n \in Names /\ Product(Shapes[n]) = NumExperts
      BY InnerLoopAssumption
    <2>2. after[n] = BalanceBias(at.whole[n], load)
      BY <2>1
    <2>3. BalanceBias(at.whole[n], load) \in [Experts -> Int]
      BY DEF BalanceBias
    <2>4. I(n) = Experts
      BY <2>1 DEF Experts
    <2> HIDE DEF after, I
    <2> QED
      BY <2>2, <2>3, <2>4
  <1>8. after = [n \in Names |-> after[n]]
    OBVIOUS
  <1> HIDE DEF after
  <1> QED
    BY <1>1, <1>6, <1>7, <1>8 DEF Numbers, I

LEMMA ReferenceIsNumbers ==
  ASSUME \A x : Wrap(x) \in Int, NEW whole, Numbers(whole), NEW m, SoundManifest(m),
         NEW uid, NEW w, NEW counters
  PROVE  Numbers(Reference(whole, m, uid, w, counters))
  <1> DEFINE phase == ResolvePhase(m, w)  pairs == ReferencePairs(phase, m, uid, w)
             Same(f) == /\ f[0].whole = whole
                        /\ \A s \in 1 .. phase.steps :
                             f[s] = ReferenceStep(f[s - 1], pairs, phase, counters, s - 1,
                                                  StepAccum(phase, f[s - 1].tokens))
  <1>1. phase.steps \in Nat
    BY PhaseKnobs
  <1>2. Reference(whole, m, uid, w, counters) = ReferenceWindow(whole, pairs, phase, counters)
    BY EvaluatedIs DEF Reference
  <1> HIDE DEF phase, pairs
  <1>3. PICK f : Same(f) /\ ReferenceWindow(whole, pairs, phase, counters) = f[phase.steps].whole
    BY <1>1, ReferenceUnfolds
  <1> DEFINE Off == {s \in Nat : s <= phase.steps /\ ~Numbers(f[s].whole)}
  <1>4. Off = {}
    <2> SUFFICES ASSUME Off # {} PROVE FALSE
      OBVIOUS
    <2>1. PICK k \in Off : \A x \in Off : k <= x
      <3>1. Off \subseteq Nat
        OBVIOUS
      <3> HIDE DEF Off
      <3> QED
        BY <3>1, LeastNatural
    <2>2. k \in Nat /\ k <= phase.steps /\ ~Numbers(f[k].whole)
      OBVIOUS
    <2>3. k # 0
      BY <1>3, <2>2
    <2>4. k - 1 \in Nat /\ ~(k <= k - 1) /\ k - 1 <= phase.steps /\ k \in 1 .. phase.steps
      BY <1>1, <2>2, <2>3
    <2>5. Numbers(f[k - 1].whole)
      <3>1. k - 1 \notin Off
        <4> HIDE DEF Off
        <4> QED
          BY <2>1, <2>4
      <3> QED
        BY <2>4, <3>1
    <2>6. f[k] = ReferenceStep(f[k - 1], pairs, phase, counters, k - 1, StepAccum(phase, f[k - 1].tokens))
      BY <1>3, <2>4
    <2>7. Numbers(f[k].whole)
      BY <2>5, <2>6, ReferenceStepIsNumbers
    <2> QED
      BY <2>2, <2>7
  <1>5. Numbers(f[phase.steps].whole)
    BY <1>1, <1>4
  <1> QED
    BY <1>2, <1>3, <1>5

LEMMA NumbersAre ==
  ASSUME NEW p, IsWhole(p), \A n \in Names : \A i \in 0 .. Product(Shapes[n]) - 1 : p[n][i] \in Int
  PROVE  Numbers(p)
  <1>1. DOMAIN p = Names /\ p = [n \in Names |-> p[n]]
    BY DEF IsWhole
  <1>2. ASSUME NEW n \in Names PROVE p[n] \in [0 .. Product(Shapes[n]) - 1 -> Int]
    <2> DEFINE I == 0 .. Product(Shapes[n]) - 1  t == p[n]
    <2>1. t = [i \in I |-> t[i]] /\ \A i \in I : t[i] \in Int
      BY WholeDomains
    <2> HIDE DEF I, t
    <2>2. t \in [I -> Int]
      BY <2>1
    <2> QED
      BY <2>2 DEF I, t
  <1> QED
    BY <1>1, <1>2 DEF Numbers

LEMMA EntriesAreInts ==
  ASSUME NEW p, Numbers(p), NEW n \in Names, NEW i \in 0 .. Product(Shapes[n]) - 1
  PROVE  p[n][i] \in Int
  <1>1. p[n] \in [0 .. Product(Shapes[n]) - 1 -> Int]
    BY DEF Numbers
  <1> QED
    BY <1>1

\* The inner loop of a miner stays in the integers.
LEMMA TrainingIsNumbers ==
  ASSUME \A x : Wrap(x) \in Int, world = 1, OnRanks(model), OnRanks(model'), GradsInShape(grads),
         DOMAIN adam = Ranks, InnerStep, Numbers(model[0])
  PROVE  Numbers((model')[0])
  <1>1. Ranks = {0} /\ \A n \in Names : LocalSize(n) = Product(Shapes[n])
    <2>1. IsLocal(model[0]) /\ 0 \in Ranks
      BY DEF OnRanks, Ranks
    <2> QED
      BY <2>1, OneRankIsWhole, WholeIsLocal DEF Ranks
  <1>2. IsWhole((model')[0])
    <2>1. IsLocal((model')[0])
      BY <1>1 DEF OnRanks
    <2> QED
      BY <2>1, OneRankIsWhole
  <1>3. CASE Microbatch \/ Reduce
    BY <1>3 DEF Microbatch, Reduce
  <1>4. ASSUME NEW r \in Ranks, StepBucket(r) PROVE Numbers((model')[0])
    <2> DEFINE lr == LrOf(Phase, task.run, progress.step)
               new == [n \in Owned(0) |-> AdamStep(adam[0][n], grads[0][n], lr)]
    <2>1. r = 0 /\ model = [q \in Ranks |-> model[q]]
      BY <1>1 DEF OnRanks
    <2>2. adam' = [adam EXCEPT ![0] = new]
      BY <1>4, <2>1 DEF StepBucket
    <2>3. (adam')[0] = new
      BY <1>1, <2>2
    <2>4. (model')[0] = [n \in Names |-> IF n \in Owned(0) THEN new[n].master ELSE model[0][n]]
      <3>1. model' = [model EXCEPT ![0] = [n \in Names |->
                         IF n \in Owned(0) THEN (adam')[0][n].master ELSE model[0][n]]]
        BY <1>1, <1>4, <2>1 DEF StepBucket
      <3> HIDE DEF new
      <3> QED
        BY <1>1, <2>1, <2>3, <3>1
    <2>5. ASSUME NEW n \in Names, NEW i \in 0 .. Product(Shapes[n]) - 1 PROVE (model')[0][n][i] \in Int
      <3>1. CASE n \in Owned(0)
        <4>1. (model')[0][n] = AdamStep(adam[0][n], grads[0][n], lr).master
          BY <2>4, <3>1
        <4>2. DOMAIN grads[0][n] = 0 .. Product(Shapes[n]) - 1
          BY <1>1, <3>1, NamesAreSorted DEF GradsInShape
        <4>3. AdamStep(adam[0][n], grads[0][n], lr).master \in [DOMAIN grads[0][n] -> Int]
          BY DEF AdamStep
        <4> QED
          BY <4>1, <4>2, <4>3
      <3>2. CASE n \notin Owned(0)
        <4>1. (model')[0][n] = model[0][n]
          BY <2>4, <3>2
        <4> QED
          BY <4>1, EntriesAreInts
      <3> QED
        BY <3>1, <3>2
    <2> QED
      BY <1>2, <2>5, NumbersAre
  <1>5. CASE FinishStep
    <2>1. (model')[0] = [n \in Names |-> IF n \in Shared THEN model[Owner(n)][n]
                                         ELSE IF n \in BiasNames THEN PostStep(0)[n]
                                         ELSE model[0][n]]
      BY <1>1, <1>5 DEF FinishStep
    <2>2. ASSUME NEW n \in Names, NEW i \in 0 .. Product(Shapes[n]) - 1 PROVE (model')[0][n][i] \in Int
      <3>1. CASE n \in Shared
        <4>1. Owner(n) = 0
          BY <1>1, <3>1, OwnersAreRanks
        <4>2. (model')[0][n] = model[0][n]
          BY <2>1, <3>1, <4>1
        <4> QED
          BY <4>2, EntriesAreInts
      <3>2. CASE n \in BiasNames
        <4>1. (model')[0][n] = BalanceBias(model[0][n], StepLoad(0))
          BY <2>1, <3>2, NamesAreSorted DEF PostStep
        <4>2. BalanceBias(model[0][n], StepLoad(0)) \in [Experts -> Int]
          BY DEF BalanceBias
        <4>3. Experts = 0 .. Product(Shapes[n]) - 1
          BY <3>2, InnerLoopAssumption DEF Experts
        <4> QED
          BY <4>1, <4>2, <4>3
      <3>3. CASE n \notin Shared /\ n \notin BiasNames
        <4>1. (model')[0][n] = model[0][n]
          BY <2>1, <3>3
        <4> QED
          BY <4>1, EntriesAreInts
      <3> QED
        BY <3>1, <3>2, <3>3
    <2> QED
      BY <1>2, <2>2, NumbersAre
  <1> QED
    BY <1>3, <1>4, <1>5 DEF InnerStep

-----------------------------------------------------------------------------
(* What is sent. *)

\* The tensors of the program have a number format: what is stored into one is
\* a number, and the conversions of the configuration map numbers to numbers.
NumbersStayNumbers ==
    /\ Numbers(Whole0)
    /\ \A x \in Int : Decay(x) \in Int /\ MomentumOf(x) \in Int
    /\ \A x : Wrap(x) \in Int

\* f is the frame of a payload of integers.
Sent(f) == \E p : IsPayload(p) /\ Means(p) /\ f = Serialize(p)

LEMMA SentIsRead ==
  ASSUME NEW f, Sent(f)
  PROVE  f # NoFrame /\ Readable(f) /\ Means(Deserialize(f))
  <1>1. PICK p : IsPayload(p) /\ Means(p) /\ f = Serialize(p)
    BY DEF Sent
  <1>2. Readable(f) /\ Deserialize(f) = p
    BY <1>1, WrittenIsReadable, WrittenReadsBack
  <1>3. "body" \in DOMAIN f /\ "body" \notin DOMAIN NoFrame
    BY <1>1, Zenon DEF Serialize, NoFrame
  <1> QED
    BY <1>1, <1>2, <1>3

LEMMA WhatIsBuiltIsSent ==
  ASSUME NumbersStayNumbers, NEW from, Numbers(from), NEW to, Numbers(to), NEW residuals, Numbers(residuals),
         NEW uid, NEW w, NEW manifest, NEW counters, NEW tie
  PROVE  Sent(Serialize(PayloadOf(uid, w, manifest, counters, from, to, residuals, tie)))
  <1> DEFINE p == PayloadOf(uid, w, manifest, counters, from, to, residuals, tie)
  <1>1. IsPayload(p) /\ Means(p)
    <2>1. p = PayloadOf(uid, w, manifest, counters, from, to, residuals, tie)
      OBVIOUS
    <2> HIDE DEF p
    <2> QED
      BY <2>1, PayloadIsMeant DEF NumbersStayNumbers
  <1> HIDE DEF p
  <1> QED
    BY <1>1 DEF Sent, p

LEMMA NothingIsNumbers ==
  ASSUME NumbersStayNumbers
  PROVE  Numbers(ZeroTensors)
  <1>1. \A n \in Names : DOMAIN Whole0[n] = 0 .. Product(Shapes[n]) - 1
    BY DEF NumbersStayNumbers, Numbers
  <1>2. ASSUME NEW n \in Names PROVE ZeroTensors[n] \in [0 .. Product(Shapes[n]) - 1 -> Int]
    <2>1. ZeroTensors[n] = [i \in 0 .. Product(Shapes[n]) - 1 |-> 0]
      BY <1>1 DEF ZeroTensors, Zeros
    <2> QED
      BY <2>1
  <1>3. ZeroTensors = [n \in Names |-> ZeroTensors[n]]
    BY DEF ZeroTensors
  <1> QED
    BY <1>2, <1>3 DEF Numbers

LEMMA PeerIsSent ==
  ASSUME NumbersStayNumbers, Manifests, Numbers(lineage[HeadWindow + 1].params)
  PROVE  Sent(PeerFrame)
  <1> DEFINE from == lineage[HeadWindow + 1].params
             counters == RunStateAt(posted, HeadWindow, protocol)
             to == Reference(from, posted, Peer, HeadWindow, counters)
  <1>1. Numbers(to)
    <2>1. SoundManifest(posted) /\ Numbers(from)
      BY DEF Manifests
    <2> HIDE DEF from, counters
    <2> QED
      BY <2>1, ReferenceIsNumbers DEF NumbersStayNumbers
  <1>2. PeerFrame = Serialize(PayloadOf(Peer, HeadWindow, posted, counters, from, to, ZeroTensors, "first"))
    BY EvaluatedIs DEF PeerFrame
  <1>3. Numbers(from)
    OBVIOUS
  <1> HIDE DEF from, to, counters
  <1> QED
    BY <1>1, <1>2, <1>3, NothingIsNumbers, WhatIsBuiltIsSent

NumbersIn(e) == Numbers(e.params) /\ Numbers(e.momentum)

\* The certificate over frames that were sent leaves numbers behind.
LEMMA CertificateIsNumbers ==
  ASSUME NumbersStayNumbers, NEW now, NumbersIn(now), NEW S, IsFiniteSet(S), NEW frames, DOMAIN frames = S,
         \A u \in S : Sent(frames[u])
  PROVE  NumbersIn(CertifiedWith(now, frames))
  <1> DEFINE at == [params |-> now.params, momentum |-> now.momentum]
             payloads == [u \in S |-> Deserialize(frames[u])]
             after == OuterApply(at, payloads)
  <1>1. CertifiedWith(now, frames).params = after.params /\ CertifiedWith(now, frames).momentum = after.momentum
    BY EvaluatedIs DEF CertifiedWith
  <1>2. DOMAIN payloads = S /\ \A u \in S : Means(payloads[u])
    BY SentIsRead
  <1>3. Numbers(at.params) /\ Numbers(at.momentum)
    BY DEF NumbersIn
  <1> HIDE DEF at, payloads
  <1>4. Numbers(after.params) /\ Numbers(after.momentum)
    BY <1>2, <1>3, OuterStepIsNumbers DEF NumbersStayNumbers
  <1> QED
    BY <1>1, <1>4 DEF NumbersIn

-----------------------------------------------------------------------------
\* The agreed parameters, the error feedback and what is in training are of
\* integers, and what was built or published is a payload with one meaning.
NumbersInv ==
    /\ \A i \in 1 .. Len(lineage) : NumbersIn(lineage[i])
    /\ bucket # NoFrame => Sent(bucket)
    /\ pc = "built" => Sent(frame)
    /\ Numbers(ef)
    /\ (pc = "training" /\ role = "miner") => Numbers(model[0])

LEMMA InitIsNumbers ==
  ASSUME NumbersStayNumbers, Init
  PROVE  NumbersInv
  <1>1. lineage = <<Genesis>> /\ bucket = NoFrame /\ pc = "stopped" /\ ef = ZeroTensors
    BY DEF Init
  <1>2. NumbersIn(Genesis)
    BY NothingIsNumbers DEF Genesis, NumbersIn, NumbersStayNumbers
  <1>3. Len(lineage) = 1 /\ lineage[1] = Genesis
    BY <1>1
  <1>4. \A i \in 1 .. Len(lineage) : NumbersIn(lineage[i])
    BY <1>2, <1>3
  <1> QED
    BY <1>1, <1>4, NothingIsNumbers DEF NumbersInv

LEMMA CertifyIsNumbers ==
  ASSUME NumbersStayNumbers, TypeInv, LineageInv, NumbersInv, Certify
  PROVE  \A i \in 1 .. Len(lineage') : NumbersIn((lineage')[i])
  <1> DEFINE now == lineage[HeadWindow + 1]
  <1>1. HeadWindow \in Nat /\ HeadWindow + 1 \in 1 .. Len(lineage) /\ Len(lineage) \in Nat /\ IsList(lineage)
    BY DEF TypeInv, Places, IsList, HeadWindow
  <1>2. NumbersIn(now) /\ IsEntry(now)
    BY <1>1 DEF NumbersInv, LineageInv
  <1>3. \E x : lineage' = Append(lineage, x) /\ NumbersIn(x)
    <2>1. CASE IsVoid(posted, HeadWindow)
      <3> DEFINE x == [now EXCEPT !.cert = NoCertificate, !.mirror = NoMirror]
      <3>1. lineage' = Append(lineage, x)
        BY <2>1 DEF Certify
      <3>2. x.params = now.params /\ x.momentum = now.momentum
        <4>1. now = [params |-> now.params, momentum |-> now.momentum, cert |-> now.cert, mirror |-> now.mirror]
          BY <1>2 DEF IsEntry
        <4> HIDE DEF now
        <4> QED
          BY <4>1, <1>2, VoidEntry
      <3> QED
        BY <1>2, <3>1, <3>2 DEF NumbersIn
    <2>2. CASE ~IsVoid(posted, HeadWindow)
      <3>1. PICK included \in SUBSET {Uid, Peer} :
               LET frames == Evaluated([u \in included |-> IF u = Uid THEN bucket ELSE PeerFrame])
               IN  /\ Uid \in included =>
                        Receivable(bucket) /\ bucket.header.window = HeadWindow
                   /\ Peer \in included => Plannable(posted, HeadWindow, world) /\ ~RootRaises
                   /\ lineage' = Append(lineage, CertifiedWith(now, frames))
        BY <2>2 DEF Certify
      <3> DEFINE frames == [u \in included |-> IF u = Uid THEN bucket ELSE PeerFrame]
      <3>2. /\ Uid \in included => bucket # NoFrame
            /\ lineage' = Append(lineage, CertifiedWith(now, frames))
        BY <3>1, EvaluatedIs DEF Receivable
      <3>3. ASSUME NEW u \in included PROVE Sent(frames[u])
        <4>1. CASE u = Uid
          BY <3>2, <4>1 DEF NumbersInv
        <4>2. CASE u # Uid
          <5>1. Sent(PeerFrame)
            BY <1>2, PeerIsSent DEF TypeInv, NumbersIn
          <5> QED
            BY <4>2, <5>1
        <4> QED
          BY <4>1, <4>2
      <3>4. IsFiniteSet(included) /\ DOMAIN frames = included
        <4>1. IsFiniteSet({Uid, Peer})
          <5>1. IsFiniteSet({Uid}) /\ IsFiniteSet({Peer})
            BY FS_Singleton
          <5>2. IsFiniteSet({Uid} \cup {Peer})
            BY ONLY <5>1, FS_Union
          <5>3. {Uid, Peer} = {Uid} \cup {Peer}
            OBVIOUS
          <5> QED
            BY <5>2, <5>3
        <4> QED
          BY <4>1, FS_Subset
      <3> HIDE DEF frames, now
      <3>5. NumbersIn(CertifiedWith(now, frames))
        BY <1>2, <3>3, <3>4, CertificateIsNumbers
      <3> QED
        BY <3>2, <3>5
    <2> QED
      BY <2>1, <2>2
  <1>4. PICK x : lineage' = Append(lineage, x) /\ NumbersIn(x)
    BY <1>3
  <1>5. /\ Len(lineage') = Len(lineage) + 1 /\ (lineage')[Len(lineage) + 1] = x
        /\ \A i \in 1 .. Len(lineage) : (lineage')[i] = lineage[i]
    BY <1>1, <1>4, ListGrows
  <1>6. \A i \in 1 .. Len(lineage') : i \in 1 .. Len(lineage) \/ i = Len(lineage) + 1
    BY <1>1, <1>5
  <1> QED
    BY <1>4, <1>5, <1>6 DEF NumbersInv

\* What stays in the error feedback: one tensor of it.
LEMMA ResidualIs ==
  ASSUME NumbersStayNumbers, NEW I, NEW a \in [I -> Int], NEW b \in [I -> Int], NEW r \in [I -> Int],
         NEW sent, \A i \in I : sent[i] \in Int
  PROVE  TensorMinus(Feedback(r, TensorMinus(a, b)), sent) \in [I -> Int]
  <1> DEFINE d == TensorMinus(a, b)  s == Feedback(r, d)  left == TensorMinus(s, sent)
  <1>1. d = [i \in I |-> a[i] - b[i]]
    BY DEF TensorMinus
  <1>2. d \in [I -> Int]
    BY <1>1
  <1> HIDE DEF d
  <1>3. s = [i \in I |-> Decay(r[i]) + d[i]]
    BY <1>2 DEF Feedback
  <1>4. \A i \in I : Decay(r[i]) + d[i] \in Int
    BY <1>2 DEF NumbersStayNumbers
  <1>5. s \in [I -> Int]
    <2> HIDE DEF s
    <2> QED
      BY <1>3, <1>4
  <1> HIDE DEF s
  <1>6. left = [i \in I |-> s[i] - sent[i]]
    BY <1>5 DEF TensorMinus
  <1>7. left \in [I -> Int]
    BY <1>5, <1>6
  <1> QED
    BY <1>7 DEF left, s, d

LEMMA BuildIsNumbers ==
  ASSUME NumbersStayNumbers, TypeInv, LineageInv, ReplicaInv, NumbersInv, BuildPayload
  PROVE  Sent(frame') /\ Numbers(ef')
  <1>1. pc = "training" /\ role = "miner" /\ InWindow /\ world = 1
    BY DEF BuildPayload, TypeInv, Places, InWindow
  <1>2. OnRanks(start) /\ OnRanks(model)
    BY <1>1 DEF TypeInv, Tensors
  <1>3. View(start, 0) = start[0] /\ View(model, 0) = model[0]
    BY <1>1, <1>2, ViewOfOneRank
  <1>4. Numbers(model[0]) /\ Numbers(ef)
    BY <1>1 DEF NumbersInv
  <1>5. Numbers(start[0])
    <2> DEFINE p == lineage[window + 1].params
    <2>1. window + 1 \in 1 .. Len(lineage)
      BY DEF TypeInv, Places, IsList, HeadWindow
    <2>2. Numbers(p) /\ IsWhole(p)
      BY <2>1 DEF NumbersInv, NumbersIn, LineageInv, IsEntry
    <2>3. start = [r \in Ranks |-> LocalOf(p, r)] /\ 0 \in Ranks
      BY <1>1 DEF ReplicaInv, Stands, Agreed, Ranks
    <2> HIDE DEF p
    <2>4. start[0] = p
      BY <1>1, <2>2, <2>3, OneSlice
    <2> QED
      BY <2>2, <2>4
  <1>6. PICK tie \in Ties :
           LET payload == PayloadOf(Uid, window, mine, run, start[0], model[0], ef, tie)
           IN  /\ frame' = Serialize(payload)
               /\ ef' = [n \in Names |->
                           IF n \in BiasNames THEN ef[n]
                           ELSE TensorMinus(Feedback(ef[n], TensorMinus(start[0][n], model[0][n])),
                                            Decompress(payload.compressed[n]))]
    BY <1>3, EvaluatedIs DEF BuildPayload
  <1> DEFINE payload == PayloadOf(Uid, window, mine, run, start[0], model[0], ef, tie)
             left(n) == TensorMinus(Feedback(ef[n], TensorMinus(start[0][n], model[0][n])),
                                    Decompress(payload.compressed[n]))
  <1>7. Sent(frame')
    BY <1>4, <1>5, <1>6, WhatIsBuiltIsSent
  <1>8. Means(payload)
    <2>1. payload = PayloadOf(Uid, window, mine, run, start[0], model[0], ef, tie)
      OBVIOUS
    <2> HIDE DEF payload
    <2> QED
      BY <1>4, <1>5, <2>1, PayloadIsMeant DEF NumbersStayNumbers
  <1>9. ef' = [n \in Names |-> IF n \in BiasNames THEN ef[n] ELSE left(n)]
    BY <1>6
  <1> HIDE DEF payload
  <1>10. ASSUME NEW n \in Names \ BiasNames PROVE left(n) \in [0 .. Product(Shapes[n]) - 1 -> Int]
    <2> DEFINE I == 0 .. Product(Shapes[n]) - 1  a == start[0][n]  b == model[0][n]  r == ef[n]
               sent == Decompress(payload.compressed[n])
    <2>1. a \in [I -> Int] /\ b \in [I -> Int] /\ r \in [I -> Int]
      BY <1>4, <1>5 DEF Numbers
    <2>2. \A i \in I : sent[i] \in Int
      BY <1>8 DEF Means, Sends, IntTensor, CompNames
    <2> HIDE DEF I, a, b, r, sent
    <2>3. TensorMinus(Feedback(r, TensorMinus(a, b)), sent) \in [I -> Int]
      BY <2>1, <2>2, ResidualIs
    <2> QED
      BY <2>3 DEF I, a, b, r, sent
  <1> HIDE DEF left
  <1>11. ASSUME NEW n \in Names PROVE (ef')[n] \in [0 .. Product(Shapes[n]) - 1 -> Int]
    <2>1. CASE n \in BiasNames
      <3>1. (ef')[n] = ef[n]
        BY <1>9, <2>1
      <3> QED
        BY <1>4, <3>1 DEF Numbers
    <2>2. CASE n \notin BiasNames
      <3>1. (ef')[n] = left(n)
        BY <1>9, <2>2
      <3> QED
        BY <1>10, <2>2, <3>1
    <2> QED
      BY <2>1, <2>2
  <1>12. ef' = [n \in Names |-> (ef')[n]]
    BY <1>9
  <1>13. Numbers(ef')
    BY <1>11, <1>12 DEF Numbers
  <1> QED
    BY <1>7, <1>13

LEMMA NumbersStep ==
  ASSUME NumbersStayNumbers, TypeInv, TypeInv', LineageInv, ReplicaInv, NumbersInv, [Next]_vars
  PROVE  NumbersInv'
  <1> DEFINE Rows == \A i \in 1 .. Len(lineage) : NumbersIn(lineage[i])
             Bucket == bucket # NoFrame => Sent(bucket)
             Frame == pc = "built" => Sent(frame)
             Trained == (pc = "training" /\ role = "miner") => Numbers(model[0])
  <1>a. Rows /\ Bucket /\ Frame /\ Numbers(ef) /\ Trained
    BY DEF NumbersInv
  <1>b. NumbersInv' <=> Rows' /\ Bucket' /\ Frame' /\ Numbers(ef)' /\ Trained'
    BY DEF NumbersInv
  <1>c. ASSUME UNCHANGED <<lineage, bucket, frame, pc, ef, model, role>> PROVE NumbersInv'
    BY <1>a, <1>b, <1>c
  <1>d. ASSUME UNCHANGED <<lineage, bucket>>, pc' \notin {"built", "training"},
               ef' \in {ef, ZeroTensors}
        PROVE  NumbersInv'
    <2>1. Numbers(ef')
      BY <1>a, <1>d, NothingIsNumbers
    <2>2. Rows' /\ Bucket' /\ Frame' /\ Trained'
      BY <1>a, <1>d
    <2> QED
      BY <1>b, <2>1, <2>2 DEF Numbers
  <1>e. Numbers(ef)' <=> Numbers(ef')
    BY DEF Numbers
  <1> HIDE DEF Rows, Bucket, Frame, Trained
  <1>1. CASE Start \/ Crash \/ LeaveWindow \/ Join \/ Desync \/ Recover \/ Answer
    BY <1>1, <1>d DEF Start, Crash, LeaveWindow, Join, Desync, Recover, Answer, Stop
  <1>2. CASE TrainWindow
    <2>1. /\ UNCHANGED <<lineage, bucket, frame, ef, model, role, world, window>>
          /\ pc = "idle" /\ pc' = "training" /\ role = "miner"
      BY <1>2 DEF TrainWindow, BeginWindow, TypeInv, Places
    <2>2. world = 1
      BY <2>1 DEF TypeInv, Places, InWindow
    <2>3. window + 1 \in 1 .. Len(lineage)
      BY DEF TypeInv, Places, IsList, HeadWindow
    <2>4. Numbers(lineage[window + 1].params) /\ IsWhole(lineage[window + 1].params)
      BY <2>3 DEF NumbersInv, NumbersIn, LineageInv, IsEntry
    <2>5. model[0] = lineage[window + 1].params
      BY <2>1, <2>2, <2>4, StandsAtThem DEF ReplicaInv, Stands
    <2>6. Rows' /\ Bucket' /\ Frame' /\ Trained'
      BY <1>a, <2>1, <2>4, <2>5 DEF Rows, Bucket, Frame, Trained, Numbers
    <2> QED
      BY <1>a, <1>b, <1>e, <2>1, <2>6
  <1>3. CASE Train
    <2>1. pc = "training" /\ InnerStep /\ UNCHANGED <<lineage, bucket, frame, pc, ef, role, world>>
      BY <1>3 DEF Train, minerVars
    <2>2. ASSUME role = "miner" PROVE Numbers((model')[0])
      <3>1. world = 1 /\ OnRanks(model) /\ GradsInShape(grads) /\ DOMAIN adam = Ranks
        BY <2>1, <2>2 DEF TypeInv, Places, Tensors, InWindow, GradsInShape
      <3>2. OnRanks(model')
        <4>1. OnRanks(model)'
          BY DEF TypeInv, Tensors
        <4> QED
          BY <2>1, <4>1 DEF OnRanks, IsLocal, LocalSize, Ranks
      <3>3. Numbers(model[0])
        BY <1>a, <2>1, <2>2 DEF Trained
      <3> QED
        BY <2>1, <3>1, <3>2, <3>3, TrainingIsNumbers DEF NumbersStayNumbers
    <2>3. Rows' /\ Bucket' /\ Frame' /\ Trained'
      BY <1>a, <2>1, <2>2 DEF Rows, Bucket, Frame, Trained, Numbers
    <2> QED
      BY <1>a, <1>b, <1>e, <2>1, <2>3
  <1>4. CASE BuildPayload
    <2>1. Sent(frame') /\ Numbers(ef')
      BY <1>4, BuildIsNumbers
    <2>2. UNCHANGED <<lineage, bucket>> /\ pc' = "built"
      BY <1>4 DEF BuildPayload
    <2>3. Rows' /\ Bucket' /\ Frame' /\ Trained'
      BY <1>a, <2>1, <2>2 DEF Rows, Bucket, Frame, Trained, Sent
    <2> QED
      BY <1>b, <1>e, <2>1, <2>3
  <1>5. ASSUME NEW late \in BOOLEAN, Publish(late) PROVE NumbersInv'
    <2>1. /\ UNCHANGED <<lineage, ef>> /\ pc = "built" /\ pc' = "awaiting" /\ bucket' \in {bucket, frame}
      BY <1>5 DEF Publish
    <2>2. Rows' /\ Bucket' /\ Frame' /\ Trained'
      BY <1>a, <2>1 DEF Rows, Bucket, Frame, Trained
    <2> QED
      BY <1>a, <1>b, <1>e, <2>1, <2>2
  <1>6. CASE Certify
    <2>1. UNCHANGED <<bucket, frame, pc, ef, role, model>>
      BY <1>6 DEF Certify, innerVars
    <2>2. \A i \in 1 .. Len(lineage') : NumbersIn((lineage')[i])
      BY <1>6, CertifyIsNumbers
    <2>3. Rows'
      BY <2>2 DEF Rows, NumbersIn, Numbers
    <2>4. Bucket' /\ Frame' /\ Trained'
      BY <1>a, <2>1 DEF Bucket, Frame, Trained
    <2> QED
      BY <1>a, <1>b, <1>e, <2>1, <2>3, <2>4
  <1>7. CASE Amend \/ Examine
    BY <1>7, <1>c DEF Amend, Examine, innerVars
  <1>8. CASE Attest
    <2>1. UNCHANGED <<lineage, bucket, frame, ef>> /\ role = "attest" /\ pc' = "training" /\ role' = role
      BY <1>8 DEF Attest
    <2>2. Rows' /\ Bucket' /\ Frame' /\ Trained'
      BY <1>a, <2>1 DEF Rows, Bucket, Frame, Trained
    <2> QED
      BY <1>a, <1>b, <1>e, <2>1, <2>2
  <1>9. CASE UNCHANGED vars
    BY <1>9, <1>c DEF vars, minerVars, innerVars
  <1> QED
    BY <1>1, <1>2, <1>3, <1>4, <1>5, <1>6, <1>7, <1>8, <1>9 DEF Next

\* No tensor of the payload that was built has a scale above SCALE_CEIL.
\* Compressing bounds a scale from below only (quantize of compress.py), and
\* validate_structure refuses a larger one.
ScalesFit ==
    pc = "built" =>
        \A n \in CompNames : Deserialize(frame).compressed[n].qparams.scale <= ScaleCeil

LEMMA SentIsReceivable ==
  ASSUME NumbersInv, ScalesFit
  PROVE  FramesReceivable
  <1> SUFFICES ASSUME pc = "built"
               PROVE  Receivable(frame) /\ \A n \in CompNames : PairsMean(Deserialize(frame).compressed[n])
    BY DEF FramesReceivable, PairsMean
  <1> DEFINE p == Deserialize(frame)
  <1>1. frame # NoFrame /\ Readable(frame) /\ Means(p)
    BY SentIsRead DEF NumbersInv
  <1>2. \A n \in CompNames : p.compressed[n].qparams.scale <= ScaleCeil
    BY DEF ScalesFit
  <1> HIDE DEF p
  <1>3. DOMAIN CompShapes = CompNames /\ \A n \in CompNames : CompShapes[n] = Shapes[n]
    BY DEF CompShapes
  <1>4. DOMAIN DenseShapes = BiasNames /\ \A n \in BiasNames : DenseShapes[n] = Shapes[n]
    BY DEF DenseShapes
  <1>5. ValidateStructure(p, CompShapes, DenseShapes)
    <2>1. DOMAIN p.compressed = CompNames /\ DOMAIN p.dense = BiasNames
      BY <1>1 DEF Means
    <2>2. \A n \in CompNames : ValidTensor(p.compressed[n], Shapes[n])
      BY <1>1, <1>2 DEF Means
    <2>3. \A n \in BiasNames : p.dense[n].shape = Shapes[n]
      BY <1>1 DEF Means
    <2> QED
      BY <1>3, <1>4, <2>1, <2>2, <2>3, Zenon DEF ValidateStructure
  <1>6. \A n \in CompNames : PairsMean(p.compressed[n])
    BY <1>1 DEF Means
  <1> QED
    BY <1>1, <1>5, <1>6 DEF Receivable, p

\* The frames a miner builds, for every model, gradient and schedule: what is
\* built reads back, passes the structure check of those who receive it, and
\* means to them what the miner took out of its error feedback
\* (compress.py, payload.py and run_training_phase of window_runner.py).
THEOREM FramesAreReceivable ==
  ASSUME AmendsForward, NumbersStayNumbers
  PROVE  Spec => [](ScalesFit => FramesReceivable)
  <1> DEFINE IInv == TypeInv /\ LineageInv /\ ReplicaInv /\ NumbersInv
  <1>1. Init => IInv
    BY InitIsTyped, InitIsALineage, InitIsAgreed, InitIsNumbers
  <1>2. IInv /\ [Next]_vars => IInv'
    <2> SUFFICES ASSUME IInv, [Next]_vars PROVE IInv'
      OBVIOUS
    <2>1. TypeInv' /\ LineageInv'
      BY TypeInvStep, LineageStep
    <2>2. VoidsUncertified' /\ Stands' /\ SlicesAreTrue'
      BY VoidsStep, StandsStep, SlicesStep DEF ReplicaInv
    <2>3. NumbersInv'
      BY <2>1, NumbersStep
    <2> QED
      BY <2>1, <2>2, <2>3 DEF ReplicaInv
  <1>3. IInv => (ScalesFit => FramesReceivable)
    BY SentIsReceivable
  <1> QED
    BY <1>1, <1>2, <1>3, PTL DEF Spec
=============================================================================
