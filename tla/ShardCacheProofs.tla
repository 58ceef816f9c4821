-------------------------- MODULE ShardCacheProofs --------------------------
(* Three facts of a node's shard caches, for every number of ranks, shards,  *)
(* windows and faults: lists and files have their types, what a kill leaves  *)
(* short on the disk is never used, and, when two windows in a row share no  *)
(* shard, a rank keeps the shards that its running prefetches want. Without  *)
(* is a recursive function: that it keeps what it should is shown for the    *)
(* least position at which it would not.                                     *)
EXTENDS ShardCache, FiniteSetTheorems, TLAPS

(* Of the numbers that break a rule, one is the least.                       *)
LEMMA LeastNatural ==
  ASSUME NEW S, S \subseteq Nat, S # {}
  PROVE  \E m \in S : \A x \in S : m <= x
  <1> DEFINE Less == {p \in Nat \X Nat : p[1] < p[2]}
  <1>1. IsWellFoundedOn(Less, Nat)
    BY NatLessThanWellFounded DEF OpToRel
  <1> HIDE DEF Less
  <1>2. PICK m \in S : \A y \in S : <<y, m>> \notin Less
    BY <1>1, WFMin
  <1>3. \A x \in S : m \in Nat /\ x \in Nat /\ ~(x < m)
    BY <1>2 DEF Less
  <1> QED
    BY <1>3

(* Without keeps the shards it is not told to drop, each once if it was.     *)
LEMMA WithoutKeeps ==
  ASSUME NEW S, NEW q \in Seq(S), NEW gone
  PROVE  /\ Without(q, gone) \in Seq(S)
         /\ ToSet(Without(q, gone)) = ToSet(q) \ gone
         /\ IsInjective(q) => IsInjective(Without(q, gone))
  <1> DEFINE N == Len(q)
             Step(g, i) == IF i = 0 THEN <<>>
                           ELSE IF q[i] \in gone THEN g[i - 1] ELSE Append(g[i - 1], q[i])
             Body(g) == [i \in 0 .. N |-> Step(g, i)]
             kept == CHOOSE g : g = Body(g)
             Built(n) == \E f : \A i \in 0 .. n : f[i] = Step(f, i)
             Unbuilt == {n \in 0 .. N : ~Built(n)}
  <1>1. Without(q, gone) = kept[N]
    BY DEF Without
  <1>2. N \in Nat
    OBVIOUS
  <1>3. Built(0)
    <2>1. \A i \in 0 .. 0 : [x \in {0} |-> <<>>][i] = Step([x \in {0} |-> <<>>], i)
      OBVIOUS
    <2> QED
      BY <2>1
  <1>4. ASSUME NEW n \in Nat, Built(n) PROVE Built(n + 1)
    <2>1. PICK f : \A i \in 0 .. n : f[i] = Step(f, i)
      BY <1>4
    <2> DEFINE h == [i \in 0 .. n + 1 |-> IF i = n + 1 THEN Step(f, n + 1) ELSE f[i]]
    <2>2. \A i \in 0 .. n : h[i] = f[i]
      OBVIOUS
    <2>3. h[n + 1] = Step(f, n + 1)
      OBVIOUS
    <2> HIDE DEF h
    <2>4. ASSUME NEW i \in 0 .. n + 1 PROVE h[i] = Step(h, i)
      <3>1. CASE i = 0
        BY <2>1, <2>2, <3>1
      <3>2. CASE i # 0
        <4>1. i - 1 \in 0 .. n /\ h[i - 1] = f[i - 1]
          BY <2>2, <3>2
        <4>2. Step(h, i) = Step(f, i)
          BY <3>2, <4>1
        <4>3. h[i] = Step(f, i)
          BY <2>1, <2>2, <2>3
        <4> QED
          BY <4>2, <4>3
      <3> QED
        BY <3>1, <3>2
    <2> QED
      BY <2>4
  <1>5. Built(N)
    <2> SUFFICES ASSUME ~Built(N) PROVE FALSE
      OBVIOUS
    <2>1. Unbuilt \subseteq Nat /\ Unbuilt # {}
      BY <1>2
    <2>2. PICK m \in Unbuilt : \A x \in Unbuilt : m <= x
      <3> HIDE DEF Unbuilt
      <3> QED
        BY <2>1, LeastNatural
    <2>3. m \in 0 .. N /\ ~Built(m)
      OBVIOUS
    <2> HIDE DEF Built
    <2>4. m # 0
      BY <1>3, <2>3
    <2>5. m - 1 \in 0 .. N /\ m - 1 \in Nat /\ (m - 1) + 1 = m /\ ~(m <= m - 1)
      BY <1>2, <2>3, <2>4
    <2>6. Built(m - 1)
      BY <2>2, <2>5
    <2> QED
      BY <1>4, <2>3, <2>5, <2>6
  <1>6. \E g : g = Body(g)
    <2>1. PICK f : \A i \in 0 .. N : f[i] = Step(f, i)
      BY <1>5
    <2> DEFINE g == [i \in 0 .. N |-> f[i]]
    <2>2. \A i \in 0 .. N : g[i] = f[i] /\ Step(g, i) = Step(f, i)
      <3>1. \A i \in 0 .. N : i = 0 \/ i - 1 \in 0 .. N
        BY <1>2
      <3>2. \A i \in 0 .. N : g[i] = f[i]
        OBVIOUS
      <3> HIDE DEF g
      <3> QED
        BY <3>1, <3>2
    <2>3. \A i \in 0 .. N : g[i] = Step(g, i)
      BY <2>1, <2>2
    <2>4. g = [i \in 0 .. N |-> Step(g, i)]
      <3>1. g = [i \in 0 .. N |-> g[i]]
        OBVIOUS
      <3> HIDE DEF g, Step
      <3> QED
        BY <2>3, <3>1
    <2> HIDE DEF g
    <2> QED
      BY <2>4
  <1>7. kept = Body(kept)
    <2> HIDE DEF Body
    <2> QED
      BY <1>6
  <1>8. \A i \in 0 .. N : kept[i] = Step(kept, i)
    <2> HIDE DEF kept, Step
    <2> QED
      BY <1>7
  <1> HIDE DEF kept
  (* The first i elements of q are treated. *)
  <1> DEFINE Right(i) == /\ kept[i] \in Seq(S)
                         /\ \A x : x \in ToSet(kept[i]) <=> x \notin gone /\ \E j \in 1 .. i : x = q[j]
                         /\ IsInjective(q) => IsInjective(kept[i])
             Wrong == {i \in 0 .. N : ~Right(i)}
  <1>9. Right(0)
    <2>1. kept[0] = <<>>
      BY <1>2, <1>8
    <2> QED
      BY <2>1 DEF ToSet, IsInjective
  <1>10. ASSUME NEW i \in 1 .. N, Right(i - 1) PROVE Right(i)
    <2>1. kept[i] = IF q[i] \in gone THEN kept[i - 1] ELSE Append(kept[i - 1], q[i])
      BY <1>8
    <2>2. i \in Nat /\ i # 0 /\ q[i] \in S /\ i \in DOMAIN q /\ N \in Nat
      OBVIOUS
    <2>3. \A x : (\E j \in 1 .. i : x = q[j]) <=> (x = q[i] \/ \E j \in 1 .. i - 1 : x = q[j])
      BY <2>2
    <2>4. CASE q[i] \in gone
      <3>1. kept[i] = kept[i - 1]
        BY <2>1, <2>4
      <3> QED
        BY <1>10, <2>3, <2>4, <3>1
    <2>5. CASE q[i] \notin gone
      <3> DEFINE k == kept[i - 1]
      <3>1. k \in Seq(S) /\ kept[i] = Append(k, q[i])
        BY <1>10, <2>1, <2>5
      <3>2. \A x : x \in ToSet(k) <=> x \notin gone /\ \E j \in 1 .. i - 1 : x = q[j]
        BY <1>10
      <3>3. IsInjective(q) => IsInjective(k)
        BY <1>10
      <3> HIDE DEF k
      <3>4. /\ Append(k, q[i]) \in Seq(S) /\ Len(k) \in Nat
            /\ DOMAIN Append(k, q[i]) = 1 .. Len(k) + 1 /\ DOMAIN k = 1 .. Len(k)
            /\ Append(k, q[i])[Len(k) + 1] = q[i]
            /\ \A j \in 1 .. Len(k) : Append(k, q[i])[j] = k[j]
        BY <2>2, <3>1
      <3>5. \A x : x \in ToSet(Append(k, q[i])) <=> x = q[i] \/ x \in ToSet(k)
        BY <3>4 DEF ToSet
      <3>6. \A x : x \in ToSet(kept[i]) <=> x \notin gone /\ \E j \in 1 .. i : x = q[j]
        BY <2>3, <2>5, <3>1, <3>2, <3>5
      <3>7. IsInjective(q) => IsInjective(kept[i])
        <4> SUFFICES ASSUME IsInjective(q) PROVE IsInjective(Append(k, q[i]))
          BY <3>1
        <4>1. \A j \in 1 .. i - 1 : j \in DOMAIN q /\ j # i
          BY <2>2
        <4>2. q[i] \notin ToSet(k)
          BY <2>2, <3>2, <4>1 DEF IsInjective
        <4>3. \A j \in 1 .. Len(k) : k[j] # q[i]
          BY <3>4, <4>2 DEF ToSet
        <4>4. \A a, b \in 1 .. Len(k) : k[a] = k[b] => a = b
          BY <3>3, <3>4 DEF IsInjective
        <4> QED
          BY <3>4, <4>3, <4>4 DEF IsInjective
      <3> QED
        BY <3>1, <3>4, <3>6, <3>7
    <2> QED
      BY <2>4, <2>5
  <1>11. Right(N)
    <2> SUFFICES ASSUME ~Right(N) PROVE FALSE
      OBVIOUS
    <2>1. Wrong \subseteq Nat /\ Wrong # {}
      <3> HIDE DEF Right
      <3> QED
        BY <1>2
    <2>2. PICK m \in Wrong : \A x \in Wrong : m <= x
      <3> HIDE DEF Wrong
      <3> QED
        BY <2>1, LeastNatural
    <2> HIDE DEF Right
    <2>3. m \in 0 .. N /\ ~Right(m)
      OBVIOUS
    <2>4. m # 0
      BY <1>9, <2>3
    <2>5. m \in 1 .. N /\ m - 1 \in 0 .. N /\ ~(m <= m - 1)
      BY <1>2, <2>3, <2>4
    <2>6. Right(m - 1)
      BY <2>2, <2>5
    <2> QED
      BY <1>10, <2>3, <2>5, <2>6
  <1>12. ToSet(q) = {q[j] : j \in 1 .. N}
    BY DEF ToSet
  <1> HIDE DEF N
  <1> QED
    BY <1>1, <1>11, <1>12

(* A shard touched becomes the last of the list, once.                       *)
LEMMA TouchKeeps ==
  ASSUME NEW q \in Seq(Shards), IsInjective(q), NEW s \in Shards
  PROVE  /\ Touch(q, s) \in Seq(Shards) /\ IsInjective(Touch(q, s))
         /\ ToSet(Touch(q, s)) = ToSet(q) \cup {s}
  <1> DEFINE w == Without(q, {s})
             n == Len(w)
  <1>1. w \in Seq(Shards) /\ ToSet(w) = ToSet(q) \ {s} /\ IsInjective(w)
    BY WithoutKeeps
  <1>2. Touch(q, s) = Append(w, s)
    BY DEF Touch
  <1> HIDE DEF w
  <1>3. /\ n \in Nat /\ DOMAIN w = 1 .. n
        /\ DOMAIN Append(w, s) = 1 .. n + 1 /\ Append(w, s)[n + 1] = s
        /\ \A i \in 1 .. n : Append(w, s)[i] = w[i]
    BY <1>1
  <1>4. \A i \in 1 .. n : w[i] # s
    BY <1>1, <1>3 DEF ToSet
  <1> DEFINE t == Append(w, s)
  <1>5. t \in Seq(Shards)
    BY <1>1
  <1> HIDE DEF t, n
  <1>6. ASSUME NEW a \in 1 .. n + 1, NEW b \in 1 .. n + 1, t[a] = t[b]
        PROVE  a = b
    <2>1. CASE a = n + 1 /\ b # n + 1
      BY <2>1, <1>3, <1>4, <1>6 DEF t
    <2>2. CASE b = n + 1 /\ a # n + 1
      BY <2>2, <1>3, <1>4, <1>6 DEF t
    <2>3. CASE a # n + 1 /\ b # n + 1
      <3>1. a \in DOMAIN w /\ b \in DOMAIN w /\ w[a] = w[b]
        BY <2>3, <1>3, <1>6 DEF t
      <3> QED
        BY <3>1, <1>1 DEF IsInjective
    <2> QED
      BY <2>1, <2>2, <2>3
  <1>7. IsInjective(t)
    BY <1>6, <1>3 DEF IsInjective, t
  <1>8. ToSet(t) = {t[i] : i \in 1 .. n + 1}
    BY <1>3 DEF ToSet, t
  <1>9. ToSet(w) = {w[i] : i \in 1 .. n}
    BY <1>3 DEF ToSet
  <1>10. ToSet(t) = ToSet(w) \cup {s}
    <2>1. ASSUME NEW x \in ToSet(t) PROVE x \in ToSet(w) \cup {s}
      <3>1. PICK i \in 1 .. n + 1 : x = t[i]
        BY <2>1, <1>8
      <3> QED
        BY <3>1, <1>3, <1>9 DEF t
    <2>2. ASSUME NEW x \in ToSet(w) PROVE x \in ToSet(t)
      <3>1. PICK i \in 1 .. n : x = w[i]
        BY <2>2, <1>9
      <3>2. i \in 1 .. n + 1 /\ x = t[i]
        BY <3>1, <1>3 DEF t
      <3> QED
        BY <3>2, <1>8
    <2>3. s \in ToSet(t)
      <3>1. n + 1 \in 1 .. n + 1 /\ t[n + 1] = s
        BY <1>3 DEF t
      <3> QED
        BY <3>1, <1>8
    <2> QED
      BY <2>1, <2>2, <2>3
  <1>11. s \in ToSet(q) \/ s \notin ToSet(q)
    OBVIOUS
  <1> QED
    BY <1>1, <1>2, <1>5, <1>7, <1>10 DEF t

(* A scan finds the installed shards in some order, each once.               *)
LEMMA OrdersOfASet ==
  ASSUME NEW found \in SUBSET Shards, NEW q \in SetToSeqs(found)
  PROVE  q \in Seq(Shards) /\ IsInjective(q)
  <1>1. IsFiniteSet(found)
    BY CacheAssumption, FS_Subset DEF CacheAssumption
  <1>2. Cardinality(found) \in Nat
    BY <1>1, FS_CardinalityType
  <1>3. q \in [1 .. Cardinality(found) -> found] /\ IsInjective(q)
    BY DEF SetToSeqs, IsInjective
  <1> QED
    BY <1>2, <1>3

(* The shape the proof needs of the state: no more than the invariant reads. *)
Shape ==
    /\ up \in [Ranks -> BOOLEAN]
    /\ DOMAIN file = Shards /\ DOMAIN tmp = Shards
    /\ DOMAIN job = Ranks /\ DOMAIN thread = Ranks
    /\ \A r \in Ranks : /\ DOMAIN job[r] = Kinds /\ DOMAIN thread[r] = Kinds
                        /\ \A k \in Kinds : DOMAIN thread[r][k] = Shards

(* A process that has not scanned runs no prefetch and no writer thread.     *)
DownIsIdle ==
    \A r \in Ranks : ~up[r] =>
        \A k \in Kinds : /\ job[r][k] = "idle"
                         /\ \A s \in Shards : thread[r][k][s] = "none"

(* Short files of dead writers, installed or not, wait for the first scan.   *)
TornAwaitsScan ==
    \A s \in Shards : file[s] = Torn \/ tmp[s] = Torn => \A r \in Ranks : ~up[r]

IInv == Shape /\ DownIsIdle /\ TornAwaitsScan

(* A writer is never mistaken for the mark of a dead one.                    *)
LEMMA SlotsAreNotTorn == ASSUME NEW r, NEW k, NEW s PROVE <<r, k, s>> # Torn
  <1>1. Len(<<r, k, s>>) = 3 /\ Len(Torn) = 1
    BY DEF Torn
  <1> QED
    BY <1>1

LEMMA MarksDiffer == None # Torn /\ Whole # Torn
  BY DEF None, Whole, Torn

LEMMA InitInvariant == Init => IInv
  <1> SUFFICES ASSUME Init PROVE IInv
    OBVIOUS
  <1>1. Shape
    BY DEF Init, Shape, Idle
  <1>2. DownIsIdle
    BY DEF Init, DownIsIdle, Idle
  <1>3. TornAwaitsScan
    BY DEF Init, TornAwaitsScan
  <1> QED
    BY <1>1, <1>2, <1>3 DEF IInv

(* The first scan removes every tmp file and every file that is not whole.   *)
LEMMA ScanKeeps == ASSUME IInv, NEW r \in Ranks, Scan(r) PROVE IInv'
  <1> USE DEF IInv
  <1>1. PICK q : /\ file' = [s \in Shards |->
                      IF s \in {x \in Shards : file[x] = Whole} \ Victims(q, {})
                      THEN Whole ELSE None]
                 /\ tmp' = [s \in Shards |-> None]
                 /\ up' = [up EXCEPT ![r] = TRUE]
                 /\ UNCHANGED <<job, thread>>
    BY Zenon DEF Scan
  <1>2. Shape'
    BY <1>1 DEF Shape
  <1>3. DownIsIdle'
    BY <1>1 DEF DownIsIdle, Shape
  <1>4. TornAwaitsScan'
    BY <1>1, MarksDiffer DEF TornAwaitsScan
  <1> QED
    BY <1>2, <1>3, <1>4

(* A step of a prefetch needs a running prefetch, or starts one in a rank    *)
(* that is up; it leaves the disk alone, or drops files (Install).           *)
LEMMA PrefetchKeeps ==
  ASSUME IInv, NEW r \in Ranks, NEW k \in Kinds,
         \/ Begin(r, k) \/ Returns(r, k) \/ Raises(r, k)
         \/ \E s \in Shards : TaskStep(r, k, s)
  PROVE  IInv'
  <1> USE DEF IInv
  <1>1. CASE Begin(r, k)
    <2>1. Shape'
      BY <1>1 DEF Begin, Shape
    <2>2. DownIsIdle' /\ TornAwaitsScan'
      BY <1>1 DEF Begin, Shape, DownIsIdle, TornAwaitsScan
    <2> QED
      BY <2>1, <2>2
  <1>2. CASE Returns(r, k) \/ Raises(r, k)
    <2>1. PICK outcome : job' = [job EXCEPT ![r][k] = outcome]
      BY <1>2, Zenon DEF Returns, Raises, End
    <2>2. job[r][k] = "on" /\ UNCHANGED <<up, thread, file, tmp>>
      BY <1>2 DEF Returns, Raises, End
    <2>3. Shape'
      BY <2>1, <2>2 DEF Shape
    <2>4. DownIsIdle' /\ TornAwaitsScan'
      BY <2>1, <2>2 DEF Shape, DownIsIdle, TornAwaitsScan
    <2> QED
      BY <2>3, <2>4
  <1>3. ASSUME NEW s \in Shards, Check(r, k, s) \/ FetchFails(r, k, s)
        PROVE  IInv'
    <2>1. UNCHANGED <<up, job, thread, file, tmp>>
      BY <1>3 DEF Check, FetchFails
    <2> QED
      BY <2>1 DEF Shape, DownIsIdle, TornAwaitsScan
  <1>4. ASSUME NEW s \in Shards, Fetched(r, k, s) PROVE IInv'
    <2>1. /\ job[r][k] = "on" /\ UNCHANGED <<up, job, file, tmp>>
          /\ thread' = [thread EXCEPT ![r][k][s] = "queued"]
      BY <1>4 DEF Fetched, At
    <2>2. Shape'
      BY <2>1 DEF Shape
    <2>3. DownIsIdle' /\ TornAwaitsScan'
      BY <2>1 DEF Shape, DownIsIdle, TornAwaitsScan
    <2> QED
      BY <2>2, <2>3
  <1>5. ASSUME NEW s \in Shards, Install(r, k, s) PROVE IInv'
    <2>1. UNCHANGED <<up, job, thread, tmp>>
      BY <1>5 DEF Install
    <2>2. PICK gone : file' = [x \in Shards |-> IF x \in gone THEN None ELSE file[x]]
      BY <1>5, Zenon DEF Install
    <2> QED
      BY <2>1, <2>2, MarksDiffer DEF Shape, DownIsIdle, TornAwaitsScan
  <1> QED
    BY <1>1, <1>2, <1>3, <1>4, <1>5 DEF TaskStep

(* A writer thread lives in a rank that is up, when nothing torn is left.    *)
LEMMA ThreadKeeps ==
  ASSUME IInv, NEW r \in Ranks, NEW k \in Kinds, NEW s \in Shards,
         ThreadStep(r, k, s)
  PROVE  IInv'
  <1> USE DEF IInv
  <1>1. PICK stage : thread' = [thread EXCEPT ![r][k][s] = stage]
    BY Zenon DEF ThreadStep, Open, Fill, Replace, Thread
  <1>2. thread[r][k][s] # "none" /\ UNCHANGED <<up, job>>
    BY DEF ThreadStep, Open, Fill, Replace, Writing
  <1>3. up[r]
    BY <1>2 DEF DownIsIdle, Shape
  <1>4. \A x \in Shards : file[x] # Torn /\ tmp[x] # Torn
    BY <1>3 DEF TornAwaitsScan
  <1>5. /\ DOMAIN file' = Shards /\ DOMAIN tmp' = Shards
        /\ \A x \in Shards : file'[x] # Torn /\ tmp'[x] # Torn
    <2>1. CASE Open(r, k, s)
      BY <2>1, <1>4, SlotsAreNotTorn DEF Open, Shape
    <2>2. CASE Fill(r, k, s)
      BY <2>2, <1>4, MarksDiffer DEF Fill, Shape
    <2>3. CASE Replace(r, k, s)
      BY <2>3, <1>4, MarksDiffer DEF Replace, Shape
    <2> QED
      BY <2>1, <2>2, <2>3 DEF ThreadStep
  <1>6. Shape'
    BY <1>1, <1>2, <1>5 DEF Shape
  <1>7. DownIsIdle'
    BY <1>1, <1>2, <1>3 DEF DownIsIdle, Shape
  <1>8. TornAwaitsScan'
    BY <1>5 DEF TornAwaitsScan
  <1> QED
    BY <1>6, <1>7, <1>8

LEMMA StepKeeps == IInv /\ [Next]_vars => IInv'
  <1> SUFFICES ASSUME IInv, [Next]_vars PROVE IInv'
    OBVIOUS
  <1> USE DEF IInv
  <1>1. ASSUME NEW r \in Ranks, Scan(r) PROVE IInv'
    BY <1>1, ScanKeeps
  <1>2. ASSUME NEW r \in Ranks, NEW k \in Kinds,
               Begin(r, k) \/ Returns(r, k) \/ Raises(r, k)
        PROVE  IInv'
    BY <1>2, PrefetchKeeps
  <1>3. ASSUME NEW r \in Ranks, NEW k \in Kinds, NEW s \in Shards, TaskStep(r, k, s)
        PROVE  IInv'
    BY <1>3, PrefetchKeeps
  <1>4. ASSUME NEW r \in Ranks, NEW k \in Kinds, NEW s \in Shards, ThreadStep(r, k, s)
        PROVE  IInv'
    BY <1>4, ThreadKeeps
  <1>5. CASE NextWindow
    <2>1. /\ UNCHANGED <<up, thread, file, tmp>>
          /\ job' = [r \in Ranks |-> [k \in Kinds |-> "idle"]]
      BY <1>5 DEF NextWindow
    <2> QED
      BY <2>1 DEF Shape, DownIsIdle, TornAwaitsScan
  <1>6. CASE NodeDown
    <2>1. Shape'
      BY <1>6 DEF NodeDown, Shape, Idle
    <2>2. DownIsIdle' /\ TornAwaitsScan'
      BY <1>6 DEF NodeDown, DownIsIdle, TornAwaitsScan, Idle
    <2> QED
      BY <2>1, <2>2
  <1>7. CASE UNCHANGED vars
    BY <1>7 DEF vars, Shape, DownIsIdle, TornAwaitsScan
  <1> QED
    BY <1>1, <1>2, <1>3, <1>4, <1>5, <1>6, <1>7 DEF Next, Slots

(* The types of the state: what each variable holds, the list of a rank that *)
(* is down being empty, and no shard twice in a list.                        *)
Typed ==
    /\ window \in 1..MaxWindow /\ faults \in 0..MaxFaults
    /\ want \in [Kinds -> SUBSET Shards] /\ pinned \in [Ranks -> SUBSET Shards]
    /\ file \in [Shards -> Bytes] /\ tmp \in [Shards -> Bytes]
    /\ \A r \in Ranks, k \in Kinds :
         /\ job[r][k] \in {"idle", "on", "done", "failed", "spoiled"}
         /\ thread[r][k] \in [Shards -> Threads]

Listed ==
    /\ DOMAIN resident = Ranks
    /\ \A r \in Ranks : /\ resident[r] \in Seq(Shards) /\ IsInjective(resident[r])
                        /\ ~up[r] => resident[r] = <<>>

(* A file in a writer's hands is the shard of that writer, who has it open.  *)
Writers(f) ==
    \A s \in Shards, slot \in Slots :
        f[s] = slot => slot[3] = s /\ thread[slot[1]][slot[2]][s] = "open"
WritersOpen == Writers(file) /\ Writers(tmp)

CacheInv == IInv /\ Typed /\ Listed /\ WritersOpen

(* What two windows in a row want is apart when Disjoint says so, and what a *)
(* running prefetch wants is pinned in its rank.                             *)
Apart == Disjoint => want["now"] \cap want["next"] = {}
PinsHeld ==
    \A r \in Ranks, k \in Kinds : job[r][k] = "on" => want[k] \subseteq pinned[r]

LEMMA MarksAreNotSlots ==
  ASSUME NEW slot \in Slots
  PROVE  slot # None /\ slot # Whole /\ slot # Torn
  <1>1. PICK r \in Ranks, k \in Kinds, s \in Shards : slot = <<r, k, s>>
    BY DEF Slots
  <1>2. Len(<<r, k, s>>) = 3
    OBVIOUS
  <1>3. Len(None) = 1 /\ Len(Whole) = 1 /\ Len(Torn) = 1
    BY DEF None, Whole, Torn
  <1> QED
    BY <1>1, <1>2, <1>3

LEMMA CacheInit == Init => CacheInv /\ Apart /\ PinsHeld
  <1> SUFFICES ASSUME Init PROVE CacheInv /\ Apart /\ PinsHeld
    OBVIOUS
  <1>1. PICK d, e : /\ d \in Draws({}) /\ e \in Draws(d)
                    /\ want = [now |-> d, next |-> e]
    BY Zenon DEF Init
  <1>2. d \in SUBSET Shards /\ e \in SUBSET Shards /\ (Disjoint => e \cap d = {})
    BY <1>1 DEF Draws
  <1>3. /\ \A k \in Kinds : want[k] \in SUBSET Shards
        /\ want["now"] = d /\ want["next"] = e
        /\ want = [k \in Kinds |-> want[k]]
    BY <1>1, <1>2 DEF Kinds
  <1>4. Typed
    <2>1. want \in [Kinds -> SUBSET Shards]
      BY <1>3
    <2>2. window \in 1 .. MaxWindow /\ faults \in 0 .. MaxFaults
      BY CacheAssumption DEF Init, CacheAssumption
    <2>3. pinned \in [Ranks -> SUBSET Shards]
      BY DEF Init
    <2>4. file \in [Shards -> Bytes] /\ tmp \in [Shards -> Bytes]
      BY DEF Init, Bytes
    <2>5. \A r \in Ranks, k \in Kinds :
            job[r][k] = "idle" /\ thread[r][k] = [s \in Shards |-> "none"]
      BY DEF Init, Idle
    <2> QED
      BY <2>1, <2>2, <2>3, <2>4, <2>5 DEF Typed, Threads
  <1>5. Listed
    <2>1. \A r \in Ranks : resident[r] = <<>>
      BY DEF Init
    <2>2. <<>> \in Seq(Shards) /\ IsInjective(<<>>)
      BY DEF IsInjective
    <2>3. DOMAIN resident = Ranks
      BY DEF Init
    <2> QED
      BY <2>1, <2>2, <2>3 DEF Listed
  <1>6. WritersOpen
    BY MarksAreNotSlots DEF Init, WritersOpen, Writers
  <1>7. IInv
    BY InitInvariant
  <1>8. Apart
    BY <1>2, <1>3 DEF Apart
  <1>9. \A r \in Ranks, k \in Kinds : job[r][k] = "idle"
    BY DEF Init
  <1>10. PinsHeld
    BY <1>9 DEF PinsHeld
  <1> QED
    BY <1>4, <1>5, <1>6, <1>7, <1>8, <1>10 DEF CacheInv

(* A scan lists what it finds, in some order, down to the budget.            *)
LEMMA ScanListed ==
  ASSUME CacheInv, NEW r \in Ranks, Scan(r)
  PROVE  Typed' /\ Listed' /\ WritersOpen'
  <1>1. PICK q \in SetToSeqs({s \in Shards : file[s] = Whole}) :
          /\ resident' = [resident EXCEPT ![r] = Without(q, Victims(q, {}))]
          /\ file' = [s \in Shards |->
               IF s \in {x \in Shards : file[x] = Whole} \ Victims(q, {})
               THEN Whole ELSE None]
          /\ tmp' = [s \in Shards |-> None] /\ up' = [up EXCEPT ![r] = TRUE]
          /\ UNCHANGED <<window, want, pinned, job, thread, faults>>
    BY Zenon DEF Scan
  <1> DEFINE w == Without(q, Victims(q, {}))
  <1>2. w \in Seq(Shards) /\ IsInjective(w)
    <2>1. q \in Seq(Shards) /\ IsInjective(q)
      BY OrdersOfASet
    <2> QED
      BY <2>1, WithoutKeeps
  <1>3. \A s \in Shards : file'[s] \in {Whole, None} /\ tmp'[s] = None
    BY <1>1
  <1> HIDE DEF w
  <1>4. resident' = [resident EXCEPT ![r] = w]
    BY <1>1 DEF w
  <1>5. Listed'
    <2>1. DOMAIN resident' = Ranks
      BY <1>4 DEF CacheInv, Listed
    <2>2. ASSUME NEW x \in Ranks
          PROVE  /\ resident'[x] \in Seq(Shards) /\ IsInjective(resident'[x])
                 /\ ~up'[x] => resident'[x] = <<>>
      <3>1. CASE x = r
        <4>1. up'[r] /\ resident'[r] = w
          BY <1>1, <1>4 DEF CacheInv, IInv, Shape, Listed
        <4> QED
          BY <3>1, <4>1, <1>2
      <3>2. CASE x # r
        <4>1. resident'[x] = resident[x] /\ up'[x] = up[x]
          BY <3>2, <1>1, <1>4 DEF CacheInv, IInv, Shape, Listed
        <4> QED
          BY <4>1 DEF CacheInv, Listed
      <3> QED
        BY <3>1, <3>2
    <2> QED
      BY <2>1, <2>2 DEF Listed
  <1>6. Typed'
    <2>1. file' \in [Shards -> Bytes] /\ tmp' \in [Shards -> Bytes]
      BY <1>1 DEF Bytes
    <2> QED
      BY <2>1, <1>1 DEF CacheInv, Typed
  <1>7. WritersOpen'
    BY <1>3, MarksAreNotSlots DEF WritersOpen, Writers
  <1> QED
    BY <1>5, <1>6, <1>7

(* A prefetch begins or ends: it pins and unpins.                            *)
LEMMA PrefetchListed ==
  ASSUME CacheInv, NEW r \in Ranks, NEW k \in Kinds,
         Begin(r, k) \/ Returns(r, k) \/ Raises(r, k)
  PROVE  Typed' /\ Listed' /\ WritersOpen'
  <1>1. UNCHANGED <<window, want, up, resident, thread, file, tmp, faults>>
    BY DEF Begin, Returns, Raises, End
  <1>2. PICK outcome \in {"on", "done", "failed", "spoiled"} :
          job' = [job EXCEPT ![r][k] = outcome]
    BY Zenon DEF Begin, Returns, Raises, End
  <1>3. \/ pinned' = [pinned EXCEPT ![r] = @ \cup want[k]]
        \/ pinned' = [pinned EXCEPT ![r] = @ \ want[k]]
    BY DEF Begin, Returns, Raises, End
  <1>4. pinned' \in [Ranks -> SUBSET Shards]
    BY <1>3 DEF CacheInv, Typed
  <1>5. \A x \in Ranks, y \in Kinds :
          job'[x][y] \in {"idle", "on", "done", "failed", "spoiled"}
    BY <1>2 DEF CacheInv, Typed, IInv, Shape
  <1>6. Typed'
    BY <1>1, <1>4, <1>5 DEF CacheInv, Typed
  <1>7. Listed' /\ WritersOpen'
    BY <1>1 DEF CacheInv, Listed, WritersOpen, Writers
  <1> QED
    BY <1>6, <1>7

(* A task touches a resident shard, or hands its bytes to its writer, or     *)
(* installs what was written and evicts.                                     *)
LEMMA TaskListed ==
  ASSUME CacheInv, NEW r \in Ranks, NEW k \in Kinds, NEW s \in Shards,
         TaskStep(r, k, s)
  PROVE  Typed' /\ Listed' /\ WritersOpen'
  <1>1. job[r][k] = "on" /\ UNCHANGED <<window, want, up, pinned, job, tmp>>
    BY DEF TaskStep, Check, Fetched, FetchFails, Install, At
  <1>2. up[r]
    BY <1>1 DEF CacheInv, IInv, DownIsIdle
  <1>3. resident[r] \in Seq(Shards) /\ IsInjective(resident[r])
    BY DEF CacheInv, Listed
  <1>4. faults' \in 0 .. MaxFaults
    BY CacheAssumption
    DEF TaskStep, Check, Fetched, FetchFails, Install, CacheInv, Typed, CacheAssumption
  <1>5. ASSUME NEW w \in Seq(Shards), IsInjective(w), resident' = [resident EXCEPT ![r] = w]
        PROVE  Listed'
    <2>1. resident'[r] = w /\ \A x \in Ranks : x # r => resident'[x] = resident[x]
      BY <1>5 DEF CacheInv, Listed
    <2>2. DOMAIN resident' = Ranks
      BY <1>5 DEF CacheInv, Listed
    <2>3. ASSUME NEW x \in Ranks
          PROVE  /\ resident'[x] \in Seq(Shards) /\ IsInjective(resident'[x])
                 /\ ~up'[x] => resident'[x] = <<>>
      <3>1. CASE x = r
        BY <3>1, <2>1, <1>1, <1>2, <1>5
      <3>2. CASE x # r
        <4>1. resident'[x] = resident[x]
          BY <3>2, <2>1
        <4> QED
          BY <4>1, <1>1 DEF CacheInv, Listed
      <3> QED
        BY <3>1, <3>2
    <2> QED
      BY <2>2, <2>3 DEF Listed
  <1>6. CASE Check(r, k, s)
    <2>1. UNCHANGED <<thread, file, tmp>>
      BY <1>6 DEF Check
    <2>2. ASSUME UNCHANGED resident PROVE Listed'
      BY <2>2, <1>1 DEF CacheInv, Listed
    <2>3. ASSUME resident' = [resident EXCEPT ![r] = Touch(@, s)] PROVE Listed'
      <3> DEFINE w == Touch(resident[r], s)
      <3>1. w \in Seq(Shards) /\ IsInjective(w)
        BY <1>3, TouchKeeps
      <3>2. resident' = [resident EXCEPT ![r] = w]
        BY <2>3
      <3> HIDE DEF w
      <3> QED
        BY <3>1, <3>2, <1>5
    <2>4. Listed'
      BY <2>2, <2>3, <1>6 DEF Check
    <2>5. Typed' /\ WritersOpen'
      BY <2>1, <1>1, <1>4 DEF CacheInv, Typed, WritersOpen, Writers
    <2> QED
      BY <2>4, <2>5
  <1>7. CASE FetchFails(r, k, s)
    <2>1. UNCHANGED <<resident, thread, file, tmp>>
      BY <1>7 DEF FetchFails
    <2> QED
      BY <2>1, <1>1, <1>4 DEF CacheInv, Typed, Listed, WritersOpen, Writers
  <1>8. CASE Fetched(r, k, s)
    <2>1. /\ UNCHANGED <<resident, file, tmp>> /\ thread[r][k][s] = "none"
          /\ thread' = [thread EXCEPT ![r][k][s] = "queued"]
      BY <1>8 DEF Fetched
    <2>2. \A x \in Ranks, y \in Kinds, z \in Shards :
            thread'[x][y][z] = IF x = r /\ y = k /\ z = s THEN "queued"
                               ELSE thread[x][y][z]
      BY <2>1 DEF CacheInv, IInv, Shape
    <2>3. \A x \in Ranks, y \in Kinds : thread'[x][y] \in [Shards -> Threads]
      BY <2>1 DEF CacheInv, IInv, Shape, Typed, Threads
    <2>4. Typed' /\ Listed'
      BY <2>1, <2>3, <1>1, <1>4 DEF CacheInv, Typed, Listed
    <2>5. WritersOpen'
      <3>1. \A slot \in Slots : slot[1] \in Ranks /\ slot[2] \in Kinds
        BY DEF Slots
      <3> QED
        BY <2>1, <2>2, <3>1, <1>1 DEF CacheInv, WritersOpen, Writers
    <2> QED
      BY <2>4, <2>5
  <1>9. CASE Install(r, k, s)
    <2> DEFINE q == Touch(resident[r], s)
               gone == Victims(q, pinned[r])
               w == Without(q, gone)
    <2>1. w \in Seq(Shards) /\ IsInjective(w)
      <3>1. q \in Seq(Shards) /\ IsInjective(q)
        BY <1>3, TouchKeeps
      <3> HIDE DEF q, gone
      <3> QED
        BY <3>1, WithoutKeeps
    <2>2. /\ resident' = [resident EXCEPT ![r] = w]
          /\ file' = [x \in Shards |-> IF x \in gone THEN None ELSE file[x]]
          /\ UNCHANGED thread
      BY <1>9 DEF Install
    <2> HIDE DEF w, gone, q
    <2>3. Listed'
      BY <2>1, <2>2, <1>5
    <2>4. file' \in [Shards -> Bytes]
      BY <2>2 DEF CacheInv, Typed, Bytes
    <2>5. Typed'
      BY <2>2, <2>4, <1>1, <1>4 DEF CacheInv, Typed
    <2>6. WritersOpen'
      BY <2>2, <1>1, MarksAreNotSlots DEF CacheInv, WritersOpen, Writers
    <2> QED
      BY <2>3, <2>5, <2>6
  <1> QED
    BY <1>6, <1>7, <1>8, <1>9 DEF TaskStep

(* A writer thread opens the tmp file of its shard, fills what it opened     *)
(* wherever it is by then, and renames what is there.                        *)
LEMMA ThreadListed ==
  ASSUME CacheInv, NEW r \in Ranks, NEW k \in Kinds, NEW s \in Shards,
         ThreadStep(r, k, s)
  PROVE  Typed' /\ Listed' /\ WritersOpen'
  <1>1. UNCHANGED <<window, want, up, resident, pinned, job, faults>>
    BY DEF ThreadStep, Open, Fill, Replace, cache
  <1>2. PICK stage \in Threads : thread' = [thread EXCEPT ![r][k][s] = stage]
    BY Zenon DEF ThreadStep, Open, Fill, Replace, Thread, Threads
  <1>3. \A x \in Ranks, y \in Kinds, z \in Shards :
          thread'[x][y][z] = IF x = r /\ y = k /\ z = s THEN stage ELSE thread[x][y][z]
    BY <1>2 DEF CacheInv, IInv, Shape
  <1>4. \A x \in Ranks, y \in Kinds : thread'[x][y] \in [Shards -> Threads]
    BY <1>2 DEF CacheInv, IInv, Shape, Typed
  <1>5. <<r, k, s>> \in Slots
    BY DEF Slots
  <1>6. file \in [Shards -> Bytes] /\ tmp \in [Shards -> Bytes]
    BY DEF CacheInv, Typed
  <1>7. \A slot \in Slots : /\ slot[1] \in Ranks /\ slot[2] \in Kinds /\ slot[3] \in Shards
                            /\ slot = <<slot[1], slot[2], slot[3]>>
    BY DEF Slots
  <1>8. Listed'
    BY <1>1 DEF CacheInv, Listed
  <1>9. ASSUME file' \in [Shards -> Bytes], tmp' \in [Shards -> Bytes] PROVE Typed'
    BY <1>1, <1>4, <1>9 DEF CacheInv, Typed
  <1>10. \A x \in Shards, slot \in Slots :
           slot = file[x] \/ slot = tmp[x] =>
             slot[3] = x /\ thread[slot[1]][slot[2]][x] = "open"
    BY DEF CacheInv, WritersOpen, Writers
  <1>11. CASE Open(r, k, s)
    <2>1. /\ tmp' = [tmp EXCEPT ![s] = <<r, k, s>>] /\ UNCHANGED file
          /\ thread' = [thread EXCEPT ![r][k][s] = "open"]
      BY <1>11 DEF Open, Thread
    <2>2. \A x \in Ranks, y \in Kinds, z \in Shards :
            thread'[x][y][z] = IF x = r /\ y = k /\ z = s THEN "open" ELSE thread[x][y][z]
      BY <2>1 DEF CacheInv, IInv, Shape
    <2>3. tmp' \in [Shards -> Bytes]
      BY <2>1, <1>5, <1>6 DEF Bytes
    <2>4. ASSUME NEW x \in Shards, NEW slot \in Slots, slot = file'[x] \/ slot = tmp'[x]
          PROVE  slot[3] = x /\ thread'[slot[1]][slot[2]][x] = "open"
      <3>1. CASE x = s /\ slot = <<r, k, s>>
        BY <3>1, <2>2
      <3>2. CASE ~(x = s /\ slot = <<r, k, s>>)
        <4>1. slot = file[x] \/ slot = tmp[x]
          BY <3>2, <2>1, <2>4, <1>6
        <4>2. slot[3] = x /\ thread[slot[1]][slot[2]][x] = "open"
          BY <4>1, <1>10
        <4> QED
          BY <4>2, <2>2, <1>7
      <3> QED
        BY <3>1, <3>2
    <2> QED
      BY <1>6, <1>8, <1>9, <2>1, <2>3, <2>4 DEF WritersOpen, Writers
  <1>12. CASE Fill(r, k, s)
    <2>1. /\ tmp' = [tmp EXCEPT ![s] = IF @ = <<r, k, s>> THEN Whole ELSE @]
          /\ file' = [file EXCEPT ![s] = IF @ = <<r, k, s>> THEN Whole ELSE @]
      BY <1>12 DEF Fill
    <2>2. tmp' \in [Shards -> Bytes] /\ file' \in [Shards -> Bytes]
      BY <2>1, <1>6 DEF Bytes
    <2>3. ASSUME NEW x \in Shards, NEW slot \in Slots, slot = file'[x] \/ slot = tmp'[x]
          PROVE  slot[3] = x /\ thread'[slot[1]][slot[2]][x] = "open"
      <3>1. slot = file[x] \/ slot = tmp[x]
        BY <2>1, <2>3, <1>6, MarksAreNotSlots
      <3>2. slot[3] = x /\ thread[slot[1]][slot[2]][x] = "open"
        BY <3>1, <1>10
      <3>3. slot # <<r, k, s>>
        <4>1. CASE x = s
          BY <4>1, <2>1, <2>3, <1>5, <1>6, MarksAreNotSlots
        <4>2. CASE x # s
          BY <4>2, <3>2
        <4> QED
          BY <4>1, <4>2
      <3>4. ~(slot[1] = r /\ slot[2] = k /\ x = s)
        BY <3>2, <3>3, <1>7
      <3> QED
        BY <3>2, <3>4, <1>3, <1>7
    <2> QED
      BY <1>8, <1>9, <2>2, <2>3 DEF WritersOpen, Writers
  <1>13. CASE Replace(r, k, s)
    <2>1. /\ file' = [file EXCEPT ![s] = IF tmp[s] = None THEN @ ELSE tmp[s]]
          /\ tmp' = [tmp EXCEPT ![s] = None]
          /\ thread[r][k][s] = "filled"
      BY <1>13 DEF Replace, Writing
    <2>2. tmp' \in [Shards -> Bytes] /\ file' \in [Shards -> Bytes]
      BY <2>1, <1>6 DEF Bytes
    <2>3. ASSUME NEW x \in Shards, NEW slot \in Slots, slot = file'[x] \/ slot = tmp'[x]
          PROVE  slot[3] = x /\ thread'[slot[1]][slot[2]][x] = "open"
      <3>1. slot = file[x] \/ slot = tmp[x]
        BY <2>1, <2>3, <1>6, MarksAreNotSlots
      <3>2. slot[3] = x /\ thread[slot[1]][slot[2]][x] = "open"
        BY <3>1, <1>10
      <3>3. ~(slot[1] = r /\ slot[2] = k /\ x = s)
        BY <3>2, <2>1
      <3> QED
        BY <3>2, <3>3, <1>3, <1>7
    <2> QED
      BY <1>8, <1>9, <2>2, <2>3 DEF WritersOpen, Writers
  <1> QED
    BY <1>11, <1>12, <1>13 DEF ThreadStep

LEMMA CacheStep == CacheInv /\ [Next]_vars => CacheInv'
  <1> SUFFICES ASSUME CacheInv, [Next]_vars PROVE CacheInv'
    OBVIOUS
  <1>1. IInv'
    BY StepKeeps DEF CacheInv
  <1>2. ASSUME NEW r \in Ranks, Scan(r) PROVE Typed' /\ Listed' /\ WritersOpen'
    BY <1>2, ScanListed
  <1>3. ASSUME NEW r \in Ranks, NEW k \in Kinds,
               Begin(r, k) \/ Returns(r, k) \/ Raises(r, k)
        PROVE  Typed' /\ Listed' /\ WritersOpen'
    BY <1>3, PrefetchListed
  <1>4. ASSUME NEW r \in Ranks, NEW k \in Kinds, NEW s \in Shards, TaskStep(r, k, s)
        PROVE  Typed' /\ Listed' /\ WritersOpen'
    BY <1>4, TaskListed
  <1>5. ASSUME NEW r \in Ranks, NEW k \in Kinds, NEW s \in Shards, ThreadStep(r, k, s)
        PROVE  Typed' /\ Listed' /\ WritersOpen'
    BY <1>5, ThreadListed
  <1>6. CASE NextWindow
    <2>1. /\ UNCHANGED <<up, resident, thread, file, tmp, faults>>
          /\ window < MaxWindow /\ window' = window + 1
          /\ job' = [r \in Ranks |-> [k \in Kinds |-> "idle"]]
          /\ pinned' = [pinned EXCEPT ![Lead] =
                          IF job[Lead]["next"] = "on" THEN @ \ want["next"] ELSE @]
      BY <1>6 DEF NextWindow
    <2>2. PICK d \in Draws(want["next"]) : want' = [now |-> want["next"], next |-> d]
      BY <1>6, Zenon DEF NextWindow
    <2>3. want' \in [Kinds -> SUBSET Shards]
      <3>1. want["next"] \in SUBSET Shards /\ d \in SUBSET Shards
        BY DEF CacheInv, Typed, Kinds, Draws
      <3>2. want' = [k \in Kinds |-> IF k = "now" THEN want["next"] ELSE d]
        BY <2>2 DEF Kinds
      <3> QED
        BY <3>1, <3>2
    <2>4. pinned' \in [Ranks -> SUBSET Shards]
      BY <2>1 DEF CacheInv, Typed
    <2>5. window' \in 1 .. MaxWindow
      BY <2>1, CacheAssumption DEF CacheInv, Typed, CacheAssumption
    <2>6. Typed'
      BY <2>1, <2>3, <2>4, <2>5 DEF CacheInv, Typed
    <2>7. Listed' /\ WritersOpen'
      BY <2>1 DEF CacheInv, Listed, WritersOpen, Writers
    <2> QED
      BY <2>6, <2>7, <1>1 DEF CacheInv
  <1>7. CASE NodeDown
    <2>1. UNCHANGED <<window, want>> /\ faults' \in 0 .. MaxFaults
      BY <1>7, CacheAssumption DEF NodeDown, CacheInv, Typed, CacheAssumption
    <2>2. /\ pinned' \in [Ranks -> SUBSET Shards]
          /\ \A r \in Ranks, k \in Kinds :
               job'[r][k] = "idle" /\ thread'[r][k] = [s \in Shards |-> "none"]
      BY <1>7 DEF NodeDown, Idle
    <2>3. \A s \in Shards : /\ file'[s] \in {None, Whole, Torn}
                            /\ tmp'[s] \in {None, Whole, Torn}
      <3>1. /\ file' = [s \in Shards |-> IF file[s] \in Slots THEN Torn ELSE file[s]]
            /\ tmp' = [s \in Shards |-> IF tmp[s] \in Slots THEN Torn ELSE tmp[s]]
        BY <1>7 DEF NodeDown
      <3>2. file \in [Shards -> Bytes] /\ tmp \in [Shards -> Bytes]
        BY DEF CacheInv, Typed
      <3> QED
        BY <3>1, <3>2 DEF Bytes
    <2>4. file' \in [Shards -> Bytes] /\ tmp' \in [Shards -> Bytes]
      BY <2>3, <1>7 DEF NodeDown, Bytes
    <2>5. Typed'
      BY <2>1, <2>2, <2>4 DEF CacheInv, Typed, Threads
    <2>6. Listed'
      <3>1. <<>> \in Seq(Shards) /\ IsInjective(<<>>)
        BY DEF IsInjective
      <3>2. resident' = [r \in Ranks |-> <<>>]
        BY <1>7 DEF NodeDown
      <3> QED
        BY <3>1, <3>2 DEF Listed
    <2>7. WritersOpen'
      BY <2>3, MarksAreNotSlots DEF WritersOpen, Writers
    <2> QED
      BY <2>5, <2>6, <2>7, <1>1 DEF CacheInv
  <1>8. CASE UNCHANGED vars
    BY <1>8, <1>1 DEF vars, CacheInv, Typed, Listed, WritersOpen, Writers
  <1> QED
    BY <1>1, <1>2, <1>3, <1>4, <1>5, <1>6, <1>7, <1>8 DEF Next, Slots, CacheInv

(* Everything short that a kill left behind is gone before any rank's first  *)
(* prefetch, wherever the kill fell: no reader or cache ever relies on it.   *)
THEOREM TornOnlyUntilScannedHolds == Spec => []TornOnlyUntilScanned
  <1>1. IInv => TornOnlyUntilScanned
    BY DEF IInv, TornAwaitsScan, TornOnlyUntilScanned
  <1> QED
    BY InitInvariant, StepKeeps, <1>1, PTL DEF Spec

(* A rank keeps every shard that a running prefetch of its own wants: the    *)
(* pins of two prefetches never mix, as their shards are apart.              *)
LEMMA PinsStep ==
  ASSUME Disjoint, CacheInv, Apart, PinsHeld, [Next]_vars
  PROVE  Apart' /\ PinsHeld'
  <1>1. /\ want \in [Kinds -> SUBSET Shards] /\ pinned \in [Ranks -> SUBSET Shards]
        /\ want["now"] \cap want["next"] = {}
    BY DEF CacheInv, Typed, Apart
  <1>2. ASSUME UNCHANGED <<want, pinned, job>> PROVE Apart' /\ PinsHeld'
    BY <1>2 DEF Apart, PinsHeld
  <1>3. ASSUME NEW r \in Ranks, NEW k \in Kinds, Begin(r, k) PROVE Apart' /\ PinsHeld'
    <2>1. /\ UNCHANGED want /\ job' = [job EXCEPT ![r][k] = "on"]
          /\ pinned' = [pinned EXCEPT ![r] = @ \cup want[k]]
      BY <1>3 DEF Begin
    <2>2. \A x \in Ranks, y \in Kinds :
            job'[x][y] = IF x = r /\ y = k THEN "on" ELSE job[x][y]
      BY <2>1 DEF CacheInv, IInv, Shape
    <2>3. \A x \in Ranks : pinned[x] \subseteq pinned'[x]
      BY <2>1, <1>1
    <2>4. want[k] \subseteq pinned'[r]
      BY <2>1, <1>1
    <2> QED
      BY <2>1, <2>2, <2>3, <2>4 DEF Apart, PinsHeld
  <1>4. ASSUME NEW r \in Ranks, NEW k \in Kinds, Returns(r, k) \/ Raises(r, k)
        PROVE  Apart' /\ PinsHeld'
    <2>1. UNCHANGED want /\ pinned' = [pinned EXCEPT ![r] = @ \ want[k]]
      BY <1>4 DEF Returns, Raises, End
    <2>2. PICK outcome \in {"done", "failed", "spoiled"} :
            job' = [job EXCEPT ![r][k] = outcome]
      BY <1>4, Zenon DEF Returns, Raises, End
    <2>3. \A x \in Ranks, y \in Kinds :
            job'[x][y] = IF x = r /\ y = k THEN outcome ELSE job[x][y]
      BY <2>2 DEF CacheInv, IInv, Shape
    <2>4. ASSUME NEW x \in Ranks, NEW y \in Kinds, job'[x][y] = "on"
          PROVE  want[y] \subseteq pinned'[x]
      <3>1. ~(x = r /\ y = k) /\ job[x][y] = "on"
        BY <2>2, <2>3, <2>4
      <3>2. want[y] \subseteq pinned[x]
        BY <3>1 DEF PinsHeld
      <3>3. CASE x = r
        <4>1. want[y] \cap want[k] = {}
          BY <3>1, <3>3, <1>1 DEF Kinds
        <4> QED
          BY <4>1, <3>2, <3>3, <2>1, <1>1
      <3>4. CASE x # r
        BY <3>4, <3>2, <2>1, <1>1
      <3> QED
        BY <3>3, <3>4
    <2> QED
      BY <2>1, <2>4 DEF Apart, PinsHeld
  <1>5. CASE NextWindow
    <2>1. PICK d \in Draws(want["next"]) : want' = [now |-> want["next"], next |-> d]
      BY <1>5, Zenon DEF NextWindow
    <2>2. want'["now"] = want["next"] /\ want'["next"] = d /\ d \cap want["next"] = {}
      BY <2>1 DEF Draws
    <2>3. \A r \in Ranks, k \in Kinds : job'[r][k] = "idle"
      BY <1>5 DEF NextWindow
    <2> QED
      BY <2>2, <2>3 DEF Apart, PinsHeld
  <1>6. CASE NodeDown
    <2>1. UNCHANGED want /\ \A r \in Ranks, k \in Kinds : job'[r][k] = "idle"
      BY <1>6 DEF NodeDown
    <2> QED
      BY <2>1 DEF Apart, PinsHeld
  <1>7. ASSUME NEW r \in Ranks, Scan(r) PROVE UNCHANGED <<want, pinned, job>>
    BY <1>7 DEF Scan
  <1>8. ASSUME NEW r, NEW k, NEW s, TaskStep(r, k, s)
        PROVE  UNCHANGED <<want, pinned, job>>
    BY <1>8 DEF TaskStep, Check, Fetched, FetchFails, Install
  <1>9. ASSUME NEW r, NEW k, NEW s, ThreadStep(r, k, s)
        PROVE  UNCHANGED <<want, pinned, job>>
    BY <1>9 DEF ThreadStep, Open, Fill, Replace, cache
  <1>10. CASE UNCHANGED vars
    BY <1>10, <1>2 DEF vars
  <1> QED
    BY <1>2, <1>3, <1>4, <1>5, <1>6, <1>7, <1>8, <1>9, <1>10 DEF Next

(* An eviction passes over the pinned shards.                                *)
LEMMA VictimsAreUnpinned ==
  ASSUME NEW q, NEW pins PROVE Victims(q, pins) \cap pins = {}
  BY DEF Victims, Unpinned

(* What a rank lists, a step leaves listed when a running prefetch of the    *)
(* rank wants it and still runs after the step.                              *)
LEMMA WantedStaysListed ==
  ASSUME CacheInv, PinsHeld, [Next]_vars, NEW r \in Ranks, NEW k \in Kinds,
         job[r][k] = "on", job'[r][k] = "on"
  PROVE  want[k] \cap ToSet(resident[r]) \subseteq ToSet(resident'[r])
  <1>1. up[r] /\ want[k] \subseteq pinned[r] /\ DOMAIN resident = Ranks
    BY DEF CacheInv, IInv, DownIsIdle, PinsHeld, Listed
  <1>2. resident[r] \in Seq(Shards) /\ IsInjective(resident[r])
    BY DEF CacheInv, Listed
  <1>3. ASSUME UNCHANGED resident
        PROVE  want[k] \cap ToSet(resident[r]) \subseteq ToSet(resident'[r])
    <2>1. resident'[r] = resident[r]
      BY <1>3
    <2> QED
      BY <2>1
  <1>4. ASSUME NEW x \in Ranks, NEW w, resident' = [resident EXCEPT ![x] = w], x # r
        PROVE  want[k] \cap ToSet(resident[r]) \subseteq ToSet(resident'[r])
    <2>1. resident'[r] = resident[r]
      BY <1>4, <1>1
    <2> QED
      BY <2>1
  <1>5. ASSUME NEW x \in Ranks, Scan(x)
        PROVE  want[k] \cap ToSet(resident[r]) \subseteq ToSet(resident'[r])
    <2>1. x # r
      BY <1>5, <1>1 DEF Scan
    <2>2. \E w : resident' = [resident EXCEPT ![x] = w]
      BY <1>5, Zenon DEF Scan
    <2> QED
      BY <2>1, <2>2, <1>4
  <1>6. ASSUME NEW x \in Ranks, NEW y, NEW s \in Shards, Check(x, y, s)
        PROVE  want[k] \cap ToSet(resident[r]) \subseteq ToSet(resident'[r])
    <2>1. ASSUME resident' = [resident EXCEPT ![x] = Touch(@, s)], x = r
          PROVE  want[k] \cap ToSet(resident[r]) \subseteq ToSet(resident'[r])
      <3>1. resident'[r] = Touch(resident[r], s)
        BY <2>1, <1>1
      <3> QED
        BY <3>1, <1>2, TouchKeeps
    <2> QED
      BY <2>1, <1>3, <1>4, <1>6 DEF Check
  <1>7. ASSUME NEW x \in Ranks, NEW y, NEW s \in Shards, Install(x, y, s)
        PROVE  want[k] \cap ToSet(resident[r]) \subseteq ToSet(resident'[r])
    <2> DEFINE q == Touch(resident[x], s)
               gone == Victims(q, pinned[x])
               w == Without(q, gone)
    <2>1. resident' = [resident EXCEPT ![x] = w]
      BY <1>7 DEF Install
    <2>2. ASSUME x = r
          PROVE  want[k] \cap ToSet(resident[r]) \subseteq ToSet(resident'[r])
      <3>1. q \in Seq(Shards) /\ ToSet(q) = ToSet(resident[r]) \cup {s}
        BY <2>2, <1>2, TouchKeeps
      <3>2. gone \cap pinned[r] = {}
        BY <2>2, VictimsAreUnpinned
      <3> HIDE DEF q, gone
      <3>3. ToSet(w) = ToSet(q) \ gone
        BY <3>1, WithoutKeeps
      <3> HIDE DEF w
      <3>4. resident'[r] = w
        BY <2>1, <2>2, <1>1
      <3> QED
        BY <3>1, <3>2, <3>3, <3>4, <1>1
    <2> HIDE DEF w
    <2> QED
      BY <2>1, <2>2, <1>4
  <1>8. ASSUME NEW x, NEW y, NEW s, Fetched(x, y, s) \/ FetchFails(x, y, s)
        PROVE  UNCHANGED resident
    BY <1>8 DEF Fetched, FetchFails
  <1>9. ASSUME NEW x, NEW y, NEW s, ThreadStep(x, y, s) PROVE UNCHANGED resident
    BY <1>9 DEF ThreadStep, Open, Fill, Replace, cache
  <1>10. ASSUME NEW x, NEW y, Begin(x, y) \/ Returns(x, y) \/ Raises(x, y)
         PROVE  UNCHANGED resident
    BY <1>10 DEF Begin, Returns, Raises, End
  <1>11. CASE NextWindow
    BY <1>11, <1>3 DEF NextWindow
  <1>12. CASE NodeDown
    <2>1. job'[r][k] = "idle"
      BY <1>12 DEF NodeDown
    <2> QED
      BY <2>1
  <1>13. CASE UNCHANGED vars
    BY <1>13, <1>3 DEF vars
  <1>14. \A slot \in Slots : slot[1] \in Ranks /\ slot[3] \in Shards
    BY DEF Slots
  <1> QED
    BY <1>3, <1>5, <1>6, <1>7, <1>8, <1>9, <1>10, <1>11, <1>12, <1>13, <1>14
    DEF Next, TaskStep

(* For any number of ranks, shards and faults: lists hold each shard once,   *)
(* and a file in a writer's hands is that of an open writer of its shard.    *)
THEOREM TypesHold == Spec => []TypeOK
  <1>1. CacheInv => TypeOK
    <2> SUFFICES ASSUME CacheInv PROVE TypeOK
      OBVIOUS
    <2>1. \A r \in Ranks, k \in Kinds : ~up[r] => job[r][k] = "idle" /\ resident[r] = <<>>
      BY DEF CacheInv, IInv, DownIsIdle, Listed
    <2>2. \A s \in Shards, slot \in Slots :
            slot \in {file[s], tmp[s]} => thread[slot[1]][slot[2]][slot[3]] = "open"
      BY DEF CacheInv, WritersOpen, Writers
    <2>3. up \in [Ranks -> BOOLEAN]
      BY DEF CacheInv, IInv, Shape
    <2> QED
      BY <2>1, <2>2, <2>3 DEF CacheInv, Typed, Listed, TypeOK
  <1> QED
    BY CacheInit, CacheStep, <1>1, PTL DEF Spec

(* When two windows in a row share no shard, no rank ever evicts what a      *)
(* running prefetch of its own wants, however small the budget.              *)
THEOREM PinnedNeverEvictedHolds ==
  ASSUME Disjoint PROVE Spec => PinnedNeverEvicted
  <1> DEFINE Inv == CacheInv /\ Apart /\ PinsHeld
  <1>1. Init => Inv
    BY CacheInit
  <1>2. Inv /\ [Next]_vars => Inv'
    BY CacheStep, PinsStep
  <1>3. Inv /\ [Next]_vars =>
          [\A r \in Ranks, k \in Kinds :
             job[r][k] = "on" /\ job'[r][k] = "on" =>
               want[k] \cap ToSet(resident[r]) \subseteq ToSet(resident'[r])]_vars
    BY WantedStaysListed
  <1> QED
    BY <1>1, <1>2, <1>3, PTL DEF Spec, PinnedNeverEvicted

=============================================================================
