--------------------------- MODULE RollbackProofs ---------------------------
(***************************************************************************)
(* Theorems of Rollback, for any validators, stakes, losses and bounds: a  *)
(* rollback that is pending was carried by distinct voters, a saved vote   *)
(* survives crashes, and the checkpoint to rewind to outlasts the vote.    *)
(***************************************************************************)
EXTENDS Rollback, FiniteSetTheorems, TLAPS

-----------------------------------------------------------------------------
(***************************************************************************)
(* Finite sets.  A family of finite sets has a minimal member: induction   *)
(* without an operator for the induction hypothesis.                       *)
(***************************************************************************)
LEMMA MinimalMember ==
  ASSUME NEW S, IsFiniteSet(S), NEW F \in SUBSET SUBSET S, F # {}
  PROVE  \E A \in F : \A B \in F : B \subseteq A => B = A
<1>1. F \subseteq FiniteSubsetsOf(S)
  BY FS_Subset DEF FiniteSubsetsOf
<1>2. PICK A \in F : \A B \in F : <<B, A>> \notin StrictSubsetOrdering(S)
  BY <1>1, FS_StrictSubsetOrderingWellFounded, WFMin
<1>3. ASSUME NEW B \in F, B \subseteq A, B # A PROVE FALSE
  BY <1>2, <1>3 DEF StrictSubsetOrdering
<1> QED
  BY <1>3

(* The largest element of a finite set of integers *)
LEMMA MaxOf ==
  ASSUME NEW S, S \subseteq Int, IsFiniteSet(S), S # {}
  PROVE  Max(S) \in S /\ \A x \in S : x <= Max(S)
<1> DEFINE Above(x) == {y \in S : y >= x}
<1>1. PICK F : F = {Above(x) : x \in S}
  OBVIOUS
<1>2. PICK A \in F : \A B \in F : B \subseteq A => B = A
  <2>1. F \in SUBSET SUBSET S /\ F # {}
    BY <1>1
  <2>2. IsFiniteSet(S)
    OBVIOUS
  <2> HIDE DEF Above
  <2> QED
    BY ONLY <2>1, <2>2, MinimalMember
<1>3. PICK m \in S : A = Above(m)
  BY <1>1, <1>2
<1>4. ASSUME NEW y \in S PROVE y <= m
  <2>1. ASSUME y > m PROVE FALSE
    <3>1. m \in Int /\ y \in Int /\ \A z \in S : z \in Int
      OBVIOUS
    <3>2. Above(y) \subseteq Above(m) /\ m \in Above(m) /\ m \notin Above(y)
      <4>1. \A z \in S : z >= y => z >= m
        BY <2>1, <3>1
      <4>2. m >= m /\ ~(m >= y)
        BY <2>1, <3>1
      <4> QED
        BY <4>1, <4>2, Zenon
    <3>3. Above(y) \in F
      BY <1>1
    <3> QED
      BY <1>2, <1>3, <3>2, <3>3
  <2> QED
    BY <2>1
<1> QED
  BY <1>4 DEF Max

LEMMA MaxOfTwo ==
  ASSUME NEW a \in Int, NEW b \in Int
  PROVE  Max({a, b}) = IF a >= b THEN a ELSE b
BY DEF Max

LEMMA MinOf ==
  ASSUME NEW S, S \subseteq Int, IsFiniteSet(S), S # {}
  PROVE  Min(S) \in S /\ \A x \in S : Min(S) <= x
<1> DEFINE Below(x) == {y \in S : y <= x}
<1>1. PICK F : F = {Below(x) : x \in S}
  OBVIOUS
<1>2. PICK A \in F : \A B \in F : B \subseteq A => B = A
  <2>1. F \in SUBSET SUBSET S /\ F # {}
    BY <1>1
  <2>2. IsFiniteSet(S)
    OBVIOUS
  <2> HIDE DEF Below
  <2> QED
    BY ONLY <2>1, <2>2, MinimalMember
<1>3. PICK m \in S : A = Below(m)
  BY <1>1, <1>2
<1>4. ASSUME NEW y \in S PROVE m <= y
  <2>1. ASSUME y < m PROVE FALSE
    <3>1. m \in Int /\ y \in Int /\ \A z \in S : z \in Int
      OBVIOUS
    <3>2. Below(y) \subseteq Below(m) /\ m \in Below(m) /\ m \notin Below(y)
      <4>1. \A z \in S : z <= y => z <= m
        BY <2>1, <3>1
      <4>2. m <= m /\ ~(m <= y)
        BY <2>1, <3>1
      <4> QED
        BY <4>1, <4>2, Zenon
    <3>3. Below(y) \in F
      BY <1>1
    <3> QED
      BY <1>2, <1>3, <3>2, <3>3
  <2> QED
    BY <2>1
<1> QED
  BY <1>4 DEF Min

-----------------------------------------------------------------------------
(***************************************************************************)
(* Sums of stakes.  The sum of f over S counts its units, the pairs of an  *)
(* element and a number below its stake.                                   *)
(***************************************************************************)
Units(f, S) == {p \in S \X Nat : p[2] < f[p[1]]}

LEMMA UnitsSplit ==
  ASSUME NEW f, NEW S, NEW x \in S, f[x] \in Nat, IsFiniteSet(Units(f, S \ {x}))
  PROVE  /\ IsFiniteSet(Units(f, S))
         /\ Cardinality(Units(f, S)) = f[x] + Cardinality(Units(f, S \ {x}))
<1> DEFINE own == {x} \X (0 .. f[x] - 1)
<1>1. Units(f, S) = own \cup Units(f, S \ {x})
  <2>1. ASSUME NEW p PROVE p \in own <=> p \in {x} \X Nat /\ p[2] < f[x]
    OBVIOUS
  <2>2. ASSUME NEW p PROVE p \in Units(f, S) <=> p \in own \/ p \in Units(f, S \ {x})
    <3>1. p \in Units(f, S) <=> p \in S \X Nat /\ p[2] < f[p[1]]
      BY DEF Units
    <3>2. p \in Units(f, S \ {x}) <=> p \in (S \ {x}) \X Nat /\ p[2] < f[p[1]]
      BY DEF Units
    <3>3. p \in {x} \X Nat => p[1] = x
      OBVIOUS
    <3>4. p \in S \X Nat <=> p \in {x} \X Nat \/ p \in (S \ {x}) \X Nat
      OBVIOUS
    <3> HIDE DEF own
    <3> QED
      BY <2>1, <3>1, <3>2, <3>3, <3>4
  <2> HIDE DEF own
  <2> QED
    BY <2>2
<1>2. own \cap Units(f, S \ {x}) = {}
  BY DEF Units
<1>3. IsFiniteSet(own) /\ Cardinality(own) = f[x]
  <2>1. IsFiniteSet(0 .. f[x] - 1) /\ Cardinality(0 .. f[x] - 1) = f[x]
    <3>1. \A k \in Nat : IsFiniteSet(0 .. k - 1) /\ Cardinality(0 .. k - 1) = k
      <4> TAKE k \in Nat
      <4>1. 0 \in Int /\ k - 1 \in Int
        OBVIOUS
      <4>2. IsFiniteSet(0 .. k - 1) /\ Cardinality(0 .. k - 1) = IF 0 > k - 1 THEN 0 ELSE k - 1 - 0 + 1
        BY <4>1, FS_Interval
      <4> QED
        BY <4>2
    <3> QED
      BY <3>1
  <2>2. IsFiniteSet({x}) /\ Cardinality({x}) = 1
    BY FS_Singleton
  <2> QED
    BY <2>1, <2>2, FS_Product
<1>4. Cardinality(own \cap Units(f, S \ {x})) = 0
  BY <1>2, FS_EmptySet
<1>5. Cardinality(Units(f, S \ {x})) \in Nat
  BY FS_CardinalityType
<1> HIDE DEF own
<1>6. /\ IsFiniteSet(own \cup Units(f, S \ {x}))
      /\ Cardinality(own \cup Units(f, S \ {x})) =
           Cardinality(own) + Cardinality(Units(f, S \ {x})) - Cardinality(own \cap Units(f, S \ {x}))
  BY <1>3, FS_Union, Zenon
<1> QED
  BY <1>1, <1>3, <1>4, <1>5, <1>6

LEMMA UnitsFinite ==
  ASSUME NEW f, NEW S, IsFiniteSet(S), \A x \in S : f[x] \in Nat
  PROVE  IsFiniteSet(Units(f, S)) /\ Cardinality(Units(f, S)) \in Nat
<1>1. IsFiniteSet(Units(f, S))
  <2> SUFFICES ASSUME ~IsFiniteSet(Units(f, S)) PROVE FALSE
    OBVIOUS
  <2> DEFINE F == {T \in SUBSET S : ~IsFiniteSet(Units(f, T))}
  <2>1. PICK A \in F : \A B \in F : B \subseteq A => B = A
    <3>1. F \in SUBSET SUBSET S /\ F # {}
      OBVIOUS
    <3> HIDE DEF F
    <3> QED
      BY <3>1, MinimalMember
  <2>2. A # {}
    <3>1. Units(f, {}) = {}
      BY DEF Units
    <3> QED
      BY <3>1, FS_EmptySet
  <2>3. PICK x \in A : TRUE
    BY <2>2
  <2>4. IsFiniteSet(Units(f, A \ {x}))
    BY <2>1, <2>3
  <2> QED
    BY <2>1, <2>3, <2>4, UnitsSplit
<1> QED
  BY <1>1, FS_CardinalityType

LEMMA SumCounts ==
  ASSUME NEW f, NEW S, IsFiniteSet(S), \A x \in S : f[x] \in Nat
  PROVE  SumFunctionOnSet(f, S) = Cardinality(Units(f, S))
<1> DEFINE Of(s) == CHOOSE x \in s : TRUE
           Body(g) == [s \in SUBSET S |-> IF s = {} THEN 0 ELSE f[Of(s)] + g[s \ {Of(s)}]]
           iter == CHOOSE g : g = Body(g)
           count == [s \in SUBSET S |-> Cardinality(Units(f, s))]
<1>1. SumFunctionOnSet(f, S) = iter[S]
  BY DEF SumFunctionOnSet, FoldFunctionOnSet, MapThenFoldSet
<1>2. \A s \in SUBSET S : s # {} => Of(s) \in s
  OBVIOUS
<1>3. \A s \in SUBSET S : count[s] = IF s = {} THEN 0 ELSE f[Of(s)] + count[s \ {Of(s)}]
  <2> TAKE s \in SUBSET S
  <2>1. CASE s = {}
    <3>1. Units(f, {}) = {}
      BY DEF Units
    <3> QED
      BY <2>1, <3>1, FS_EmptySet
  <2>2. CASE s # {}
    <3>1. IsFiniteSet(s \ {Of(s)}) /\ (\A x \in s \ {Of(s)} : f[x] \in Nat) /\ s \ {Of(s)} \in SUBSET S
      BY FS_Subset
    <3>2. IsFiniteSet(Units(f, s \ {Of(s)}))
      BY <3>1, UnitsFinite
    <3>3. Of(s) \in s /\ f[Of(s)] \in Nat
      BY <1>2, <2>2
    <3> HIDE DEF Of
    <3>4. Cardinality(Units(f, s)) = f[Of(s)] + Cardinality(Units(f, s \ {Of(s)}))
      BY <3>2, <3>3, UnitsSplit
    <3> QED
      BY <2>2, <3>1, <3>4
  <2> QED
    BY <2>1, <2>2
<1>4. count = Body(count)
  <2> HIDE DEF Of
  <2> QED
    BY <1>3
<1>5. iter = Body(iter)
  <2> HIDE DEF Body
  <2> QED
    BY <1>4
<1>6. \A s \in SUBSET S : iter[s] = count[s]
  <2> SUFFICES ASSUME NEW t \in SUBSET S, iter[t] # count[t] PROVE FALSE
    OBVIOUS
  <2> DEFINE F == {T \in SUBSET S : iter[T] # count[T]}
  <2>1. PICK A \in F : \A B \in F : B \subseteq A => B = A
    <3>1. F \in SUBSET SUBSET S /\ F # {}
      OBVIOUS
    <3> HIDE DEF F
    <3> QED
      BY <3>1, MinimalMember
  <2> HIDE DEF iter, count, Of
  <2>2. iter[A] = IF A = {} THEN 0 ELSE f[Of(A)] + iter[A \ {Of(A)}]
    BY <1>5
  <2>3. count[A] = IF A = {} THEN 0 ELSE f[Of(A)] + count[A \ {Of(A)}]
    BY <1>3
  <2>4. CASE A = {}
    BY <2>1, <2>2, <2>3, <2>4
  <2>5. CASE A # {}
    <3>1. A \ {Of(A)} \in SUBSET S /\ A \ {Of(A)} # A
      BY <1>2, <2>5
    <3>2. iter[A \ {Of(A)}] = count[A \ {Of(A)}]
      BY <2>1, <3>1
    <3> QED
      BY <2>1, <2>2, <2>3, <2>5, <3>2
  <2> QED
    BY <2>4, <2>5
<1> QED
  BY <1>1, <1>6

LEMMA SumEmpty ==
  ASSUME NEW f
  PROVE  SumFunctionOnSet(f, {}) = 0
<1>1. Units(f, {}) = {}
  BY DEF Units
<1>2. IsFiniteSet({}) /\ \A x \in {} : f[x] \in Nat
  BY FS_EmptySet
<1>3. SumFunctionOnSet(f, {}) = Cardinality(Units(f, {}))
  BY <1>2, SumCounts
<1> QED
  BY <1>1, <1>3, FS_EmptySet

LEMMA SumType ==
  ASSUME NEW f, NEW S, IsFiniteSet(S), \A x \in S : f[x] \in Nat
  PROVE  SumFunctionOnSet(f, S) \in Nat
BY SumCounts, UnitsFinite

(* Two functions that agree on a set have the same sum over it. *)
LEMMA SumAgree ==
  ASSUME NEW f, NEW g, NEW S, IsFiniteSet(S), \A x \in S : f[x] \in Nat /\ g[x] = f[x]
  PROVE  SumFunctionOnSet(g, S) = SumFunctionOnSet(f, S)
<1>1. Units(f, S) = Units(g, S)
  BY DEF Units
<1>2. \A x \in S : g[x] \in Nat
  OBVIOUS
<1> QED
  BY <1>1, <1>2, SumCounts

LEMMA SumOfUnion ==
  ASSUME NEW f, NEW S, IsFiniteSet(S), NEW T, IsFiniteSet(T), S \cap T = {},
         \A x \in S \cup T : f[x] \in Nat
  PROVE  SumFunctionOnSet(f, S \cup T) = SumFunctionOnSet(f, S) + SumFunctionOnSet(f, T)
<1>1. /\ IsFiniteSet(S \cup T)
      /\ \A x \in S : f[x] \in Nat
      /\ \A x \in T : f[x] \in Nat
  BY FS_Union
<1>2. Units(f, S \cup T) = Units(f, S) \cup Units(f, T)
  BY DEF Units
<1>3. Units(f, S) \cap Units(f, T) = {}
  BY DEF Units
<1>4. /\ IsFiniteSet(Units(f, S)) /\ Cardinality(Units(f, S)) \in Nat
      /\ IsFiniteSet(Units(f, T)) /\ Cardinality(Units(f, T)) \in Nat
  BY <1>1, UnitsFinite
<1>5. Cardinality(Units(f, S) \cup Units(f, T)) =
        Cardinality(Units(f, S)) + Cardinality(Units(f, T)) - Cardinality(Units(f, S) \cap Units(f, T))
  BY <1>4, FS_Union, Zenon
<1>6. Cardinality(Units(f, S) \cap Units(f, T)) = 0
  BY <1>3, FS_EmptySet
<1>7. /\ SumFunctionOnSet(f, S \cup T) = Cardinality(Units(f, S \cup T))
      /\ SumFunctionOnSet(f, S) = Cardinality(Units(f, S))
      /\ SumFunctionOnSet(f, T) = Cardinality(Units(f, T))
  BY <1>1, SumCounts
<1>8. Cardinality(Units(f, S \cup T)) = Cardinality(Units(f, S)) + Cardinality(Units(f, T)) - 0
  BY <1>2, <1>5, <1>6, Zenon
<1>9. \A i, j \in Nat : i + j - 0 = i + j
  OBVIOUS
<1> QED
  BY <1>4, <1>7, <1>8, <1>9, Zenon

-----------------------------------------------------------------------------
(***************************************************************************)
(* Retention.                                                              *)
(***************************************************************************)

(* Among n * E consecutive integers, at most n are multiples of E. *)
LEMMA FewMultiples ==
  ASSUME NEW E \in Nat \ {0}, NEW n \in Nat, NEW a \in Int, NEW b \in Int, b - a <= n * E,
         NEW T, T \subseteq a + 1 .. b, \A x \in T : x % E = 0
  PROVE  Cardinality(T) <= n
<1> DEFINE f == [x \in T |-> x \div E]
           lo == a \div E
<1>1. \A x \in T : x \in Int /\ a < x /\ x <= b /\ x = E * (x \div E) /\ x \div E \in Int
  <2> TAKE x \in T
  <2>1. x \in Int /\ a < x /\ x <= b /\ x % E = 0
    OBVIOUS
  <2> QED
    BY <2>1
<1>2. lo \in Int /\ E * lo <= a /\ a < E * (lo + 1)
  OBVIOUS
<1>3. \A q \in Int : a < E * q /\ E * q <= b => q \in lo + 1 .. lo + n
  <2> TAKE q \in Int
  <2> HAVE a < E * q /\ E * q <= b
  <2> HIDE DEF lo
  <2>1. q > lo
    <3> SUFFICES ASSUME q <= lo PROVE FALSE
      BY <1>2
    <3>1. E * lo = E * q + E * (lo - q) /\ E * (lo - q) >= 0 /\ E * q \in Int
      BY <1>2
    <3> QED
      BY <3>1, <1>2
  <2>2. q <= lo + n
    <3> SUFFICES ASSUME q >= lo + n + 1 PROVE FALSE
      BY <1>2
    <3>1. E * q >= E * (lo + 1 + n)
      BY <1>2
    <3>2. E * (lo + 1 + n) = E * (lo + 1) + n * E
      BY <1>2
    <3>3. E * (lo + 1 + n) \in Int /\ E * (lo + 1) \in Int /\ n * E \in Int /\ E * q \in Int
      BY <1>2
    <3> QED
      BY <3>1, <3>2, <3>3, <1>2
  <2> QED
    BY <2>1, <2>2, <1>2
<1>4. f \in Injection(T, lo + 1 .. lo + n)
  <2>1. f \in [T -> lo + 1 .. lo + n]
    BY <1>1, <1>3
  <2>2. \A x, y \in T : f[x] = f[y] => x = y
    BY <1>1
  <2> QED
    BY <2>1, <2>2 DEF Injection, IsInjective
<1>5. IsFiniteSet(lo + 1 .. lo + n) /\ Cardinality(lo + 1 .. lo + n) = n
  BY <1>2, FS_Interval
<1>6. Cardinality(T) <= Cardinality(lo + 1 .. lo + n)
  <2> HIDE DEF f, lo
  <2> QED
    BY <1>4, <1>5, FS_Injection
<1> QED
  BY <1>5, <1>6

-----------------------------------------------------------------------------
(***************************************************************************)
(* The machines.                                                           *)
(***************************************************************************)
Open(m) == m.state \in {"voting", "pending"}

(* The voters of a machine are distinct and each counted with a stake it    *)
(* has held; pending means that they carried the vote.                      *)
Backed(m) ==
  /\ \E held \in [m.voters -> Stakes] : m.yes = SumFunction([u \in m.voters |-> held[u][u]])
  /\ m.state = "pending" => \E s \in Stakes : 3 * m.yes > 2 * TotalOf(s)

MachineOk(m) ==
  /\ m \in Machines /\ Backed(m)
  /\ Open(m) => m.target \in Windows /\ m.alert \in Windows /\ m.target < m.alert
  /\ m.state = "pending" =>
       /\ m.activation \in Nat /\ m.target < m.activation
       /\ m.activation <= m.alert + VoteSpan + ActivationDelay

(* An open machine that stands at window w was opened before it, against a  *)
(* checkpoint that no other one separates from the alert.                   *)
Placed(m, w, S) ==
  Open(m) => m.alert < w /\ S # {} /\ \A c \in S : c > m.target => c >= m.alert

ValidatorOk(v) ==
  /\ MachineOk(machine[v]) /\ Placed(machine[v], window[v], ckpts[v])
  /\ disk[v] # None =>
       MachineOk(disk[v].machine) /\ Placed(disk[v].machine, disk[v].window, ckpts[v])
       /\ disk[v].window <= Closed
  /\ disk[v] = None => ckpts[v] = {}
  /\ pc[v] \in {"apply", "post", "exit"} =>
       disk[v] # None /\ disk[v].window = window[v] /\ window[v] >= 1
  /\ pc[v] = "down" => machine[v] = Normal
  /\ window[v] <= Closed
  /\ \A c \in ckpts[v] : c % CheckpointEvery = 0 /\ c < Closed /\ (pc[v] # "down" => c < window[v])

RollbackInv == \A v \in Validators : ValidatorOk(v)

(* What the memory may make of a vote the state file holds as open. *)
Carries(b, m, w) ==
  \/ m.state = "voting" /\ m.alert = b.alert /\ m.target = b.target /\ b.voters \subseteq m.voters
  \/ m.state = "pending" /\ m.target = b.target
  \/ w - 1 > b.alert + VoteSpan

Carried ==
  \A v \in Validators :
    pc[v] \notin {"down", "exit"} /\ disk[v] # None /\ disk[v].machine.state = "voting"
      => Carries(disk[v].machine, machine[v], window[v])

(* The target is on disk until a checkpoint past its last possible          *)
(* activation is.                                                           *)
Retained(m, S) ==
  Open(m) => \/ m.target \in S
             \/ \E c \in S : c > m.alert + VoteSpan + ActivationDelay

TargetsRetained ==
  \A v \in Validators :
    /\ Retained(machine[v], ckpts[v])
    /\ disk[v] # None => Retained(disk[v].machine, ckpts[v])

LEMMA ConstantTypes ==
  /\ VoteSpan \in Nat /\ ActivationDelay \in Nat /\ MaxWindow \in Nat /\ Windows \subseteq Int
  /\ CheckpointEvery \in Nat \ {0} /\ KeepLocal \in Nat \ {0} /\ None \notin Int
BY RollbackAssumption DEF Windows

LEMMA CheckpointsFinite ==
  ASSUME NEW S, S \subseteq Windows
  PROVE  IsFiniteSet(S) /\ S \subseteq Int /\ \A c \in S : c \in Int
<1>1. IsFiniteSet(0 .. MaxWindow)
  BY ConstantTypes, FS_Interval
<1>2. IsFiniteSet(S)
  BY <1>1, FS_Subset DEF Windows
<1> QED
  BY <1>2, ConstantTypes

(* The newest checkpoint is never pruned. *)
LEMMA NewestKept ==
  ASSUME NEW S, S \subseteq Windows, NEW c \in S
  PROVE  \E m \in Prune(S) : m >= c
<1>1. IsFiniteSet(S) /\ S \subseteq Int /\ \A x \in S : x \in Int
  BY CheckpointsFinite
<1>2. Max(S) \in S /\ \A x \in S : x <= Max(S)
  BY <1>1, MaxOf
<1>3. PICK m \in S : \A x \in S : x <= m
  BY <1>2
<1>4. {x \in S : x > m} = {}
  <2>1. \A x \in S : ~(x > m)
    BY <1>1, <1>3
  <2> QED
    BY <2>1
<1>5. Cardinality({x \in S : x > m}) < KeepLocal
  BY <1>4, FS_EmptySet, ConstantTypes
<1>6. m \in Prune(S)
  BY <1>5 DEF Prune
<1> QED
  BY <1>1, <1>3, <1>6

LEMMA CheckpointFacts ==
  ASSUME NEW S, S \subseteq Windows, NEW w \in Windows, NEW T, T = Checkpoint(S, w),
         \A c \in S : c % CheckpointEvery = 0
  PROVE  /\ T \subseteq S \cup {w} /\ T \subseteq Windows
         /\ \A c \in T : c % CheckpointEvery = 0
         /\ S # {} => T # {}
<1>1. T = S \/ (w % CheckpointEvery = 0 /\ T = Prune(S \cup {w}))
  BY DEF Checkpoint
<1>2. CASE T = S
  BY <1>2
<1>3. CASE w % CheckpointEvery = 0 /\ T = Prune(S \cup {w})
  <2>1. T \subseteq S \cup {w}
    BY <1>3 DEF Prune
  <2>2. T # {}
    <3>1. S \cup {w} \subseteq Windows /\ w \in S \cup {w}
      OBVIOUS
    <3> QED
      BY <3>1, <1>3, NewestKept
  <2> QED
    BY <1>3, <2>1, <2>2
<1> QED
  BY <1>1, <1>2, <1>3

(* A checkpoint is dropped only when KeepLocal newer ones are there, and    *)
(* the newest of those is past every window in which a vote opened against  *)
(* the dropped one can activate.                                            *)
RetentionOutlastsVote == VoteSpan + ActivationDelay < (KeepLocal - 1) * CheckpointEvery

LEMMA CheckpointRetains ==
  ASSUME RetentionOutlastsVote,
         NEW S, S \subseteq Windows, NEW w \in Windows, NEW T, T = Checkpoint(S, w),
         \A c \in S : c % CheckpointEvery = 0,
         NEW m, MachineOk(m), Placed(m, w + 1, S), Retained(m, S)
  PROVE  Retained(m, T)
<1> SUFFICES ASSUME Open(m), w % CheckpointEvery = 0, T = Prune(S \cup {w})
             PROVE  Retained(m, T)
  BY DEF Checkpoint, Retained
<1> DEFINE U == S \cup {w}
           b == m.alert + VoteSpan + ActivationDelay
<1>1. /\ m.target \in Windows /\ m.alert \in Windows /\ m.target < m.alert /\ m.alert < w + 1
      /\ \A c \in S : c > m.target => c >= m.alert
  BY DEF MachineOk, Placed
<1>2. /\ U \subseteq Windows /\ IsFiniteSet(U) /\ \A x \in U : x \in Int
      /\ w \in Int /\ m.alert \in Int /\ m.target \in Int /\ b \in Int
  <2>1. U \subseteq Windows
    OBVIOUS
  <2>2. w \in Int /\ m.alert \in Int /\ m.target \in Int
    BY <1>1, ConstantTypes
  <2>3. b \in Int
    BY <2>2, ConstantTypes
  <2> HIDE DEF U, b
  <2> QED
    BY <2>1, <2>2, <2>3, CheckpointsFinite
<1>3. CASE \E c \in U : c > b
  <2>1. PICK c \in U : c > b
    BY <1>3
  <2>2. PICK n \in Prune(U) : n >= c
    BY <1>2, NewestKept
  <2>3. n \in U
    BY <2>2 DEF Prune
  <2>4. n > b
    BY <1>2, <2>1, <2>2, <2>3
  <2> QED
    BY <2>2, <2>4 DEF Retained
<1>4. CASE \A c \in U : ~(c > b)
  <2>1. m.target \in S
    BY <1>4 DEF Retained
  <2> DEFINE newer == {x \in U : x > m.target}
  <2>2. newer \subseteq (m.alert - 1) + 1 .. b
    <3>1. ASSUME NEW x \in U, x > m.target PROVE x \in (m.alert - 1) + 1 .. b
      <4>1. x >= m.alert
        BY <3>1, <1>1, <1>2
      <4>2. x \in Int /\ m.alert \in Int /\ b \in Int /\ ~(x > b)
        BY <1>2, <1>4
      <4> HIDE DEF b
      <4> QED
        BY <4>1, <4>2
    <3> QED
      BY <3>1
  <2>3. \A x \in newer : x % CheckpointEvery = 0
    OBVIOUS
  <2>4. b - (m.alert - 1) <= (KeepLocal - 1) * CheckpointEvery
    <3>1. (KeepLocal - 1) * CheckpointEvery \in Int
      BY ConstantTypes
    <3> QED
      BY <3>1, <1>2, ConstantTypes DEF RetentionOutlastsVote
  <2>5. Cardinality(newer) <= KeepLocal - 1
    <3>1. KeepLocal - 1 \in Nat /\ CheckpointEvery \in Nat \ {0} /\ m.alert - 1 \in Int /\ b \in Int
      BY <1>2, ConstantTypes
    <3> HIDE DEF newer, b
    <3> QED
      BY <3>1, <2>2, <2>3, <2>4, FewMultiples
  <2>6. Cardinality(newer) < KeepLocal
    <3>1. Cardinality(newer) \in Nat
      BY <1>2, FS_Subset, FS_CardinalityType
    <3> QED
      BY <3>1, <2>5, ConstantTypes
  <2>7. m.target \in Prune(U)
    BY <2>1, <2>6 DEF Prune
  <2> QED
    BY <2>7 DEF Retained
<1> QED
  BY <1>3, <1>4

-----------------------------------------------------------------------------
(***************************************************************************)
(* What the operators of the machine keep.                                 *)
(***************************************************************************)
LEMMA StakeTypes ==
  ASSUME NEW s \in Stakes, NEW S \in SUBSET Validators
  PROVE  IsFiniteSet(S) /\ (\A u \in S : s[u] \in Nat) /\ SumFunctionOnSet(s, S) \in Nat
<1>1. IsFiniteSet(S) /\ \A u \in S : s[u] \in Nat
  BY RollbackAssumption, FS_Subset
<1> QED
  BY <1>1, SumType

LEMMA NormalOk ==
  MachineOk(Normal) /\ ~Open(Normal)
<1>1. Normal \in Machines /\ ~Open(Normal) /\ Normal.state # "pending"
  BY DEF Machines, Normal, WindowOrNone, Open
<1>2. ASSUME NEW g, DOMAIN g = {} PROVE SumFunction(g) = 0
  BY <1>2, SumEmpty DEF SumFunction
<1>3. \E held \in [{} -> Stakes] : 0 = SumFunction([u \in {} |-> held[u][u]])
  <2>1. [u \in {} |-> u] \in [{} -> Stakes]
    OBVIOUS
  <2> DEFINE held == [u \in {} |-> u]
  <2>2. SumFunction([u \in {} |-> held[u][u]]) = 0
    BY <1>2
  <2> QED
    BY <2>1, <2>2
<1>4. Backed(Normal)
  BY <1>1, <1>3 DEF Backed, Normal
<1> QED
  BY <1>1, <1>4 DEF MachineOk

LEMMA OnAlertOk ==
  ASSUME NEW m, NEW w \in Windows, NEW t \in Windows, t < w
  PROVE  MachineOk(OnAlert(m, w, t))
<1>1. OnAlert(m, w, t) \in Machines
  <2>1. w \in WindowOrNone /\ t \in WindowOrNone /\ None \in WindowOrNone
    BY ConstantTypes DEF WindowOrNone, Windows
  <2> QED
    BY <2>1 DEF OnAlert, Normal, Machines
<1>2. Backed(OnAlert(m, w, t))
  <2>1. Backed(Normal)
    BY NormalOk DEF MachineOk
  <2> QED
    BY <2>1 DEF OnAlert, Normal, Backed
<1> QED
  BY <1>1, <1>2 DEF MachineOk, OnAlert, Normal

(* A voter that is counted adds the stake it has now; the ones counted      *)
(* before keep the stake they had.                                          *)
LEMMA CountedOk ==
  ASSUME NEW m, m \in Machines, NEW held \in [m.voters -> Stakes], stake \in Stakes,
         m.yes = SumFunction([u \in m.voters |-> held[u][u]]),
         NEW C, C \subseteq Validators \ m.voters
  PROVE  /\ StakeOf(C) \in Nat /\ m.yes + StakeOf(C) \in Nat
         /\ \E now \in [m.voters \cup C -> Stakes] :
              m.yes + StakeOf(C) = SumFunction([u \in m.voters \cup C |-> now[u][u]])
<1> DEFINE V    == m.voters
           old  == [u \in V |-> held[u][u]]
           now  == [u \in V \cup C |-> IF u \in V THEN held[u] ELSE stake]
           new  == [u \in V \cup C |-> now[u][u]]
<1>1. V \subseteq Validators /\ m.yes \in Nat
  BY DEF Machines
<1>2. /\ IsFiniteSet(V) /\ IsFiniteSet(C) /\ V \cap C = {}
      /\ StakeOf(C) \in Nat /\ \A u \in C : stake[u] \in Nat
  BY <1>1, StakeTypes DEF StakeOf
<1>3. \A u \in V : held[u][u] \in Nat
  BY <1>1, RollbackAssumption
<1>4. now \in [V \cup C -> Stakes]
  OBVIOUS
<1>5. \A u \in V : old[u] \in Nat /\ new[u] = old[u]
  BY <1>3
<1>6. \A u \in C : stake[u] \in Nat /\ new[u] = stake[u]
  BY <1>2
<1>7. SumFunctionOnSet(new, V) = SumFunctionOnSet(old, V)
  <2> HIDE DEF new, old, V
  <2> QED
    BY <1>2, <1>5, SumAgree
<1>8. SumFunctionOnSet(new, C) = SumFunctionOnSet(stake, C)
  <2> HIDE DEF new, V
  <2> QED
    BY <1>2, <1>6, SumAgree
<1>9. SumFunctionOnSet(new, V \cup C) = SumFunctionOnSet(new, V) + SumFunctionOnSet(new, C)
  <2>1. \A u \in V \cup C : new[u] \in Nat
    BY <1>5, <1>6
  <2> HIDE DEF new, V
  <2> QED
    BY <2>1, <1>2, SumOfUnion
<1>10. /\ m.yes = SumFunctionOnSet(old, V)
       /\ SumFunction(new) = SumFunctionOnSet(new, V \cup C)
  BY DEF SumFunction
<1>11. m.yes + StakeOf(C) = SumFunction(new)
  BY <1>7, <1>8, <1>9, <1>10 DEF StakeOf
<1>12. StakeOf(C) \in Nat /\ m.yes + StakeOf(C) \in Nat
  BY <1>1, <1>2
<1> QED
  <2> HIDE DEF now
  <2> QED
    BY <1>4, <1>11, <1>12

(* What one window may make of a machine besides closing it. *)
Advanced(m, n) ==
  /\ n.target = m.target /\ n.alert = m.alert /\ m.voters \subseteq n.voters
  /\ n.state = m.state \/ (m.state = "voting" /\ n.state = "pending")

LEMMA AddVotesOk ==
  ASSUME stake \in Stakes, NEW m, MachineOk(m), NEW slots, NEW w \in Windows
  PROVE  MachineOk(AddVotes(m, slots, w)) /\ Advanced(m, AddVotes(m, slots, w))
<1> DEFINE C     == Counted(m, Eligible(m, slots))
           after == [m EXCEPT !.voters = @ \cup C, !.yes = @ + StakeOf(C)]
           tipped == [after EXCEPT !.state = "pending", !.activation = w + ActivationDelay]
<1>1. PICK n : n = AddVotes(m, slots, w)
  OBVIOUS
<1>2. CASE m.state # "voting" \/ w \notin m.alert .. m.alert + VoteSpan
  BY <1>1, <1>2 DEF AddVotes, Advanced
<1>3. CASE m.state = "voting" /\ w \in m.alert .. m.alert + VoteSpan
  <2>1. /\ m \in Machines /\ m.target \in Windows /\ m.alert \in Windows /\ m.target < m.alert
        /\ m.voters \subseteq Validators
    BY <1>3 DEF MachineOk, Open, Machines
  <2>2. C \subseteq Validators \ m.voters
    BY DEF Counted, Eligible
  <2>3. PICK held \in [m.voters -> Stakes] : m.yes = SumFunction([u \in m.voters |-> held[u][u]])
    BY DEF MachineOk, Backed
  <2> HIDE DEF C
  <2>4. /\ m.yes + StakeOf(C) \in Nat
        /\ \E now \in [m.voters \cup C -> Stakes] :
             m.yes + StakeOf(C) = SumFunction([u \in m.voters \cup C |-> now[u][u]])
    BY <2>1, <2>2, <2>3, CountedOk
  <2>5. /\ after \in Machines /\ after.state = "voting" /\ after.target = m.target
        /\ after.alert = m.alert
        /\ after.voters = m.voters \cup C /\ after.yes = m.yes + StakeOf(C)
    BY <1>3, <2>1, <2>2, <2>4 DEF Machines
  <2> HIDE DEF after
  <2>6. Backed(after)
    BY <2>4, <2>5 DEF Backed
  <2>7. CASE n = after
    BY <1>1, <1>3, <2>1, <2>5, <2>6, <2>7 DEF MachineOk, Advanced, Open
  <2>8. CASE n = tipped /\ Super(after.yes)
    <3>1. /\ w + ActivationDelay \in WindowOrNone /\ w + ActivationDelay \in Nat
          /\ m.target < w + ActivationDelay
          /\ w + ActivationDelay <= m.alert + VoteSpan + ActivationDelay
      BY <1>3, <2>1, ConstantTypes DEF WindowOrNone, Windows
    <3>2. /\ n \in Machines /\ n.state = "pending" /\ n.target = m.target /\ n.alert = m.alert
          /\ n.voters = after.voters /\ n.yes = after.yes /\ n.activation = w + ActivationDelay
      BY <2>5, <2>8, <3>1 DEF Machines
    <3>3. Backed(n)
      BY <2>6, <2>8, <3>2 DEF Backed, Super, Total
    <3> QED
      BY <1>1, <1>3, <2>1, <2>5, <3>1, <3>2, <3>3 DEF MachineOk, Advanced, Open
  <2> QED
    BY <1>1, <1>3, <2>7, <2>8 DEF AddVotes, after, C
<1> QED
  BY <1>2, <1>3

-----------------------------------------------------------------------------
(***************************************************************************)
(* One step of the leader: the checkpoint, the machine once the alert was  *)
(* looked at (open), and the machine once votes and clock were (ticked).   *)
(***************************************************************************)
Placing(m, n, w, S) ==
  \/ n = m
  \/ /\ m.state = "normal" /\ n.state = "voting" /\ n.alert = w
     /\ n.target \in S /\ n.target < w /\ \A c \in S : c > n.target => c >= w

LeaderStep(v, local, open, ticked) ==
  LET w == window[v] - 1 IN
  /\ local \subseteq ckpts[v] \cup {w} /\ \A c \in local : c % CheckpointEvery = 0
  /\ ckpts[v] # {} => local # {}
  /\ local = Checkpoint(ckpts[v], w)
  /\ ckpts' = [ckpts EXCEPT ![v] = local]
  /\ Placing(machine[v], open, w, local) /\ MachineOk(open)
  /\ MachineOk(ticked)
  /\ \/ Advanced(open, ticked)
     \/ ticked = Normal /\ open.state = "voting" /\ w > open.alert + VoteSpan
  /\ \/ /\ Activates(ticked, w)
        /\ machine' = [machine EXCEPT ![v] = Normal]
        /\ decision' = [decision EXCEPT ![v] = Decide(ticked)]
        /\ pc' = [pc EXCEPT ![v] = "exit"]
     \/ /\ machine' = [machine EXCEPT ![v] = ticked]
        /\ decision' = [decision EXCEPT ![v] = None]
        /\ pc' = [pc EXCEPT ![v] = "post"]

Slots == [Validators -> {Manifest, NoVote} \cup [target : Windows, cast : Windows]]

(* What holds of the windows of a validator that is past its save. *)
LEMMA WindowFacts ==
  ASSUME TypeOK, NEW v \in Validators, ValidatorOk(v), pc[v] \in {"apply", "post", "exit"}
  PROVE  /\ window[v] \in Nat /\ window[v] - 1 \in Windows /\ window[v] - 1 < Closed
         /\ Closed \in Nat /\ Closed <= MaxWindow + 1
         /\ probe[window[v]] \in Losses \cup {Identity}
         /\ ckpts[v] \subseteq Windows
<1>1. probe \in Seq(Losses \cup {Identity}) /\ Len(probe) <= MaxWindow + 1
  BY DEF TypeOK
<1>2. window[v] \in 0 .. MaxWindow + 1 /\ ckpts[v] \subseteq Windows
  BY DEF TypeOK
<1>3. window[v] >= 1 /\ window[v] <= Len(probe)
  BY DEF ValidatorOk, Closed
<1>4. Len(probe) \in Nat
  BY <1>1
<1>5. window[v] \in 1 .. Len(probe)
  BY <1>2, <1>3, <1>4, ConstantTypes
<1> QED
  BY <1>1, <1>2, <1>3, <1>4, <1>5, ConstantTypes DEF Windows, Closed

LEMMA LeaderSteps ==
  ASSUME TypeOK, NEW v \in Validators, ValidatorOk(v), LeaderProbe(v)
  PROVE  /\ \E local, open, ticked : LeaderStep(v, local, open, ticked)
         /\ slot' \in Slots
<1> DEFINE w       == window[v] - 1
           l       == probe[w + 1]
           applied == l # Identity
           local   == Checkpoint(ckpts[v], w)
           targets == {c \in local : c < w}
           votes   == applied /\ Spikes(spike[v], l) /\ targets # {} /\ machine[v].state = "normal"
           open    == IF votes THEN OnAlert(machine[v], w, Max(targets)) ELSE machine[v]
           voted   == IF votes
                      THEN [slot EXCEPT ![v] = [target |-> open.target, cast |-> w]] ELSE slot
           counted == IF open.target # None THEN AddVotes(open, voted, w) ELSE open
           ticked  == Expire(counted, w)
           activates == Activates(ticked, w)
           after   == IF activates THEN Normal ELSE ticked
<1>1. /\ machine' = [machine EXCEPT ![v] = after]
      /\ decision' = [decision EXCEPT ![v] = IF activates THEN Decide(ticked) ELSE None]
      /\ pc' = [pc EXCEPT ![v] = IF activates THEN "exit" ELSE "post"]
      /\ ckpts' = [ckpts EXCEPT ![v] = local]
      /\ pc[v] = "apply"
  BY DEF LeaderProbe
<1>2. w \in Windows /\ ckpts[v] \subseteq Windows
  BY <1>1, WindowFacts
<1>3. stake \in Stakes /\ MachineOk(machine[v]) /\ \A c \in ckpts[v] : c % CheckpointEvery = 0
  BY DEF TypeOK, ValidatorOk
<1>4. /\ local \subseteq ckpts[v] \cup {w} /\ local \subseteq Windows
      /\ \A c \in local : c % CheckpointEvery = 0
      /\ ckpts[v] # {} => local # {}
  <2>1. PICK T : T = Checkpoint(ckpts[v], w)
    OBVIOUS
  <2> HIDE DEF w
  <2> QED
    BY <1>2, <1>3, <2>1, CheckpointFacts
<1> HIDE DEF local, w, l
<1>5. Placing(machine[v], open, w, local) /\ MachineOk(open)
  <2>1. CASE ~votes
    BY <1>3, <2>1 DEF Placing
  <2>2. CASE votes
    <3>1. targets \subseteq Windows /\ targets # {} /\ machine[v].state = "normal"
      BY <1>4, <2>2
    <3>2. PICK t : t = Max(targets)
      OBVIOUS
    <3>3. t \in targets /\ \A c \in targets : c <= t
      <4>1. IsFiniteSet(targets) /\ targets \subseteq Int
        BY <3>1, CheckpointsFinite
      <4> HIDE DEF targets
      <4> QED
        BY <4>1, <3>1, <3>2, MaxOf
    <3>4. t \in Windows /\ t < w /\ t \in local /\ w \in Int
      BY <1>2, <3>1, <3>3, ConstantTypes
    <3>5. \A c \in local : c \in Int
      BY <1>4, ConstantTypes
    <3>6. \A c \in local : c > t => c >= w
      <4> SUFFICES ASSUME NEW c \in local, c > t, c < w PROVE FALSE
        BY <3>4, <3>5
      <4>1. c \in targets
        OBVIOUS
      <4>2. c <= t
        BY <3>3, <4>1
      <4> QED
        BY <4>2, <3>4, <3>5, ConstantTypes
    <3>7. open = OnAlert(machine[v], w, t)
      BY <2>2, <3>2
    <3>8. open.state = "voting" /\ open.alert = w /\ open.target = t
      BY <3>7 DEF OnAlert, Normal
    <3>9. MachineOk(open)
      BY <3>7, <3>4, <1>2, OnAlertOk
    <3> QED
      BY <3>1, <3>4, <3>6, <3>8, <3>9 DEF Placing
  <2> QED
    BY <2>1, <2>2
<1>9. slot' \in Slots
  <2>1. slot \in Slots /\ (slot' = voted \/ slot' = [voted EXCEPT ![v] = Manifest])
    BY DEF LeaderProbe, TypeOK, Slots, open, local, w, l
  <2>2. voted \in Slots
    <3>1. CASE ~votes
      BY <2>1, <3>1
    <3>2. CASE votes
      <4>1. open.state = "voting"
        BY <3>2 DEF OnAlert, Normal
      <4>2. open.target \in Windows
        BY <1>5, <4>1 DEF MachineOk, Open
      <4> HIDE DEF open
      <4> QED
        BY <2>1, <3>2, <4>2, <1>2 DEF Slots
    <3> QED
      BY <3>1, <3>2
  <2> HIDE DEF voted
  <2> QED
    BY <2>1, <2>2 DEF Slots
<1> HIDE DEF voted, open
<1>6. MachineOk(counted) /\ Advanced(open, counted)
  <2>1. Advanced(open, open)
    BY DEF Advanced
  <2> QED
    BY <1>2, <1>3, <1>5, <2>1, AddVotesOk
<1> HIDE DEF counted
<1>7. /\ MachineOk(ticked)
      /\ \/ Advanced(open, ticked)
         \/ ticked = Normal /\ open.state = "voting" /\ w > open.alert + VoteSpan
  <2>1. CASE ticked = counted
    BY <1>6, <2>1
  <2>2. CASE ticked = Normal /\ counted.state = "voting" /\ w > counted.alert + VoteSpan
    BY <1>6, <2>2, NormalOk DEF Advanced
  <2> QED
    BY <2>1, <2>2 DEF Expire
<1> HIDE DEF ticked
<1>8. LeaderStep(v, local, open, ticked)
  BY <1>1, <1>4, <1>5, <1>7 DEF LeaderStep, w, local
<1> QED
  BY <1>8, <1>9

-----------------------------------------------------------------------------
(***************************************************************************)
(* The invariant.                                                          *)
(***************************************************************************)
LEMMA LastOfType ==
  ASSUME NEW T, NEW s \in Seq(T), NEW n \in Nat \ {0}
  PROVE  LastOf(n, s) \in Seq(T)
<1>1. Len(s) \in Nat
  OBVIOUS
<1>2. CASE Len(s) > n
  <2>1. Len(s) - n + 1 \in 1 .. Len(s)
    BY <1>1, <1>2
  <2> QED
    BY <1>2, <2>1 DEF LastOf
<1>3. CASE ~(Len(s) > n)
  BY <1>1, <1>3 DEF LastOf
<1> QED
  BY <1>2, <1>3

LEMMA DecideOk ==
  ASSUME NEW m, MachineOk(m), m.state = "pending"
  PROVE  /\ Decide(m) \in [target : Windows, first : 1 .. MaxWindow + 1, last : WindowOrNone]
         /\ Decide(m).target = m.target /\ Decide(m).last = m.activation
<1>1. /\ m.target \in Windows /\ m.alert \in Windows /\ m.activation \in Nat
      /\ m.target < m.activation /\ m.activation <= m.alert + VoteSpan + ActivationDelay
  BY DEF MachineOk, Open
<1>2. m.target + 1 \in 1 .. MaxWindow + 1 /\ m.activation \in WindowOrNone
  BY <1>1, ConstantTypes DEF Windows, WindowOrNone
<1>3. VoidLast(m) = m.activation
  <2>1. m.target + 1 \in Int /\ m.activation \in Int /\ m.target + 1 <= m.activation
    <3>1. m.target \in Int
      BY <1>1, ConstantTypes
    <3>2. m.activation \in Int /\ m.target < m.activation
      BY <1>1
    <3> QED
      BY <3>1, <3>2
  <2>2. Max({m.target + 1, m.activation}) = m.activation
    BY <2>1, MaxOfTwo
  <2> QED
    BY <2>2 DEF VoidLast
<1> QED
  BY <1>1, <1>2, <1>3 DEF Decide

LEMMA TypesAtStart ==
  Init => TypeOK
<1> SUFFICES ASSUME Init PROVE TypeOK
  OBVIOUS
<1>1. Normal \in Machines
  BY NormalOk DEF MachineOk
<1>2. << >> \in Seq(Losses) /\ << >> \in Seq(Losses \cup {Identity}) /\ Len(<< >>) = 0
  OBVIOUS
<1>3. /\ 0 \in 0 .. MaxWindow + 1 /\ 0 \in 0 .. MaxMoves /\ 0 \in 0 .. MaxFaults
      /\ 0 <= MaxWindow + 1
  BY RollbackAssumption
<1> QED
  BY <1>1, <1>2, <1>3 DEF Init, TypeOK

(* The three ways a validator's state file is written. *)
LEMMA StateType ==
  ASSUME NEW w \in 0 .. MaxWindow + 1, NEW m \in Machines, NEW p \in Seq(Losses)
  PROVE  [window |-> w, machine |-> m, probes |-> p] \in State
BY DEF State

LEMMA GoDownTypes ==
  ASSUME TypeOK, NEW v \in Validators, GoDown(v)
  PROVE  /\ pc' \in [Validators -> {"idle", "apply", "post", "exit", "down"}]
         /\ window' \in [Validators -> 0 .. MaxWindow + 1]
         /\ leads' \in [Validators -> BOOLEAN]
         /\ machine' \in [Validators -> Machines]
         /\ spike' \in [Validators -> Seq(Losses)] /\ probes' \in [Validators -> Seq(Losses)]
         /\ slotLent' \in BOOLEAN
         /\ decision' \in [Validators -> {None} \cup [target : Windows, first : 1 .. MaxWindow + 1,
                                                      last : WindowOrNone]]
<1>1. Normal \in Machines /\ << >> \in Seq(Losses) /\ 0 \in 0 .. MaxWindow + 1
  BY NormalOk, ConstantTypes DEF MachineOk
<1> QED
  BY <1>1 DEF GoDown, TypeOK

LEMMA TypesKept ==
  TypeOK /\ RollbackInv /\ [Next]_vars => TypeOK'
<1> SUFFICES ASSUME TypeOK, RollbackInv, [Next]_vars PROVE TypeOK'
  OBVIOUS
<1> USE DEF chainVars, memory
<1>1. /\ Closed \in Nat /\ Closed = Len(probe) /\ Closed <= MaxWindow + 1
      /\ \A v \in Validators : ckpts[v] \subseteq Windows /\ window[v] \in 0 .. MaxWindow + 1
      /\ MaxMoves \in Nat /\ MaxFaults \in Nat /\ Baseline \in Nat \ {0}
  BY RollbackAssumption DEF TypeOK, Closed
<1>2. CASE Tick
  <2>1. PICK l \in Losses \cup {Identity} : probe' = Append(probe, l)
    BY <1>2 DEF Tick
  <2>2. probe' \in Seq(Losses \cup {Identity}) /\ Len(probe') = Closed + 1
    BY <1>1, <2>1 DEF TypeOK
  <2>3. Len(probe') <= MaxWindow + 1
    BY <1>1, <1>2, <2>2, ConstantTypes DEF Tick
  <2> QED
    BY <1>2, <2>2, <2>3 DEF Tick, TypeOK
<1>3. CASE StakeMoves
  <2>1. moves' \in 0 .. MaxMoves
    BY <1>1, <1>3 DEF StakeMoves, TypeOK
  <2> QED
    BY <1>3, <2>1 DEF StakeMoves, TypeOK
<1>4. ASSUME NEW v \in Validators, ProcessWindow(v) PROVE TypeOK'
  <2>1. window[v] + 1 \in 0 .. MaxWindow + 1 /\ window[v] + 1 \in Int
    BY <1>1, <1>4, ConstantTypes DEF ProcessWindow
  <2>2. window' = [window EXCEPT ![v] = window[v] + 1]
    BY <1>4 DEF ProcessWindow
  <2>3. window' \in [Validators -> 0 .. MaxWindow + 1]
    BY <2>1, <2>2 DEF TypeOK
  <2>4. certified' \in 0 .. MaxWindow + 1
    <3>1. certified \in 0 .. MaxWindow + 1 /\ certified \in Int
      BY ConstantTypes DEF TypeOK
    <3>2. Max({certified, window[v] + 1}) \in {certified, window[v] + 1}
      BY <2>1, <3>1, MaxOfTwo
    <3> QED
      BY <1>4, <2>1, <3>1, <3>2 DEF ProcessWindow
  <2>5. disk' \in [Validators -> State \cup {None}]
    <3>1. machine[v] \in Machines /\ probes[v] \in Seq(Losses)
      BY DEF TypeOK
    <3>2. [window |-> window[v] + 1, machine |-> machine[v], probes |-> probes[v]] \in State
      BY <2>1, <3>1, StateType
    <3>3. disk' = [disk EXCEPT ![v] = [window |-> window[v] + 1, machine |-> machine[v],
                                       probes |-> probes[v]]]
      BY <1>4, <2>2 DEF ProcessWindow, SaveState, TypeOK
    <3> QED
      BY <3>2, <3>3 DEF TypeOK
  <2>6. leads' \in [Validators -> BOOLEAN]
    BY <1>4 DEF ProcessWindow, TypeOK, IsLeader
  <2>7. pc' \in [Validators -> {"idle", "apply", "post", "exit", "down"}]
    BY <1>4 DEF ProcessWindow, TypeOK
  <2> QED
    BY <1>4, <2>3, <2>4, <2>5, <2>6, <2>7 DEF ProcessWindow, TypeOK
<1>5. ASSUME NEW v \in Validators, FollowerProbe(v) PROVE TypeOK'
  <2> DEFINE l == probe[window[v]]
  <2>1. l \in Losses \cup {Identity}
    BY <1>5, WindowFacts DEF RollbackInv, FollowerProbe
  <2>2. probes' \in [Validators -> Seq(Losses)]
    <3>1. CASE l = Identity
      BY <1>5, <3>1 DEF FollowerProbe, TypeOK
    <3>2. CASE l # Identity
      <4>1. Append(probes[v], l) \in Seq(Losses) /\ Baseline + 4 \in Nat \ {0}
        BY <1>1, <2>1, <3>2 DEF TypeOK
      <4>2. LastOf(Baseline + 4, Append(probes[v], l)) \in Seq(Losses)
        BY <4>1, LastOfType
      <4> QED
        BY <1>5, <3>2, <4>2 DEF FollowerProbe, TypeOK
    <3> QED
      BY <3>1, <3>2
  <2> QED
    BY <1>5, <2>2 DEF FollowerProbe, TypeOK
<1>6. ASSUME NEW v \in Validators, LeaderProbe(v) PROVE TypeOK'
  <2>1. ValidatorOk(v) /\ pc[v] = "apply"
    BY <1>6 DEF RollbackInv, LeaderProbe
  <2>2. window[v] \in Nat /\ window[v] - 1 \in Windows /\ probe[window[v]] \in Losses \cup {Identity}
    BY <2>1, WindowFacts
  <2>3. PICK local, open, ticked : LeaderStep(v, local, open, ticked)
    BY <1>6, <2>1, LeaderSteps
  <2>4. slot' \in Slots
    BY <1>6, <2>1, LeaderSteps
  <2>5. local \subseteq Windows /\ ckpts' \in [Validators -> SUBSET Windows]
    BY <1>1, <2>2, <2>3 DEF LeaderStep, TypeOK
  <2>6. machine' \in [Validators -> Machines]
    BY <2>3, NormalOk DEF LeaderStep, MachineOk, TypeOK
  <2>7. decision' \in [Validators -> {None} \cup [target : Windows, first : 1 .. MaxWindow + 1,
                                                  last : WindowOrNone]]
    <3>1. ticked.state = "pending" =>
            Decide(ticked) \in [target : Windows, first : 1 .. MaxWindow + 1, last : WindowOrNone]
      BY <2>3, DecideOk DEF LeaderStep
    <3> DEFINE decisions == {None} \cup [target : Windows, first : 1 .. MaxWindow + 1, last : WindowOrNone]
    <3>2. decision \in [Validators -> decisions]
      BY DEF TypeOK
    <3>3. \E d \in decisions : decision' = [decision EXCEPT ![v] = d]
      <4>1. None \in decisions /\ (ticked.state = "pending" => Decide(ticked) \in decisions)
        BY <3>1
      <4> HIDE DEF decisions
      <4> QED
        BY <2>3, <4>1 DEF LeaderStep, Activates
    <3> HIDE DEF decisions
    <3>4. decision' \in [Validators -> decisions]
      BY <3>2, <3>3
    <3> QED
      BY <3>4 DEF decisions
  <2>8. pc' \in [Validators -> {"idle", "apply", "post", "exit", "down"}]
    BY <2>3 DEF LeaderStep, TypeOK
  <2> DEFINE w == window[v] - 1
             l == probe[w + 1]
  <2>9. l \in Losses \cup {Identity}
    BY <2>2
  <2>10. /\ probes' = IF l # Identity
                      THEN [probes EXCEPT ![v] = LastOf(Baseline + 4, Append(@, l))] ELSE probes
         /\ spike' = IF l # Identity
                     THEN [spike EXCEPT ![v] = LastOf(Baseline, Append(@, l))] ELSE spike
         /\ slotLent' \in BOOLEAN
         /\ faults' \in {faults, faults + 1} /\ faults' <= MaxFaults
         /\ UNCHANGED <<chainVars, window, leads, disk>>
    BY <1>6 DEF LeaderProbe
  <2> HIDE DEF w, l
  <2>11. probes' \in [Validators -> Seq(Losses)] /\ spike' \in [Validators -> Seq(Losses)]
    <3>1. CASE l = Identity
      BY <2>10, <3>1 DEF TypeOK
    <3>2. CASE l # Identity
      <4>1. /\ Append(probes[v], l) \in Seq(Losses) /\ Append(spike[v], l) \in Seq(Losses)
            /\ Baseline + 4 \in Nat \ {0}
        BY <1>1, <2>9, <3>2 DEF TypeOK
      <4>2. /\ LastOf(Baseline + 4, Append(probes[v], l)) \in Seq(Losses)
            /\ LastOf(Baseline, Append(spike[v], l)) \in Seq(Losses)
        BY <1>1, <4>1, LastOfType
      <4> QED
        BY <2>10, <3>2, <4>2 DEF TypeOK
    <3> QED
      BY <3>1, <3>2
  <2>12. faults' \in 0 .. MaxFaults
    BY <1>1, <2>10 DEF TypeOK
  <2> QED
    BY <2>4, <2>5, <2>6, <2>7, <2>8, <2>10, <2>11, <2>12 DEF TypeOK, Slots
<1>7. ASSUME NEW v \in Validators, FinishWindow(v) PROVE TypeOK'
  <2>1. window[v] \in 0 .. MaxWindow + 1 /\ machine[v] \in Machines /\ probes[v] \in Seq(Losses)
    BY DEF TypeOK
  <2>2. [window |-> window[v], machine |-> machine[v], probes |-> probes[v]] \in State
    BY <2>1, StateType
  <2> QED
    BY <1>7, <2>2 DEF FinishWindow, SaveState, TypeOK
<1>8. ASSUME NEW v \in Validators, SkipAhead(v) PROVE TypeOK'
  <2>1. Closed - 1 \in 0 .. MaxWindow + 1
    <3>1. Closed - 1 - window[v] >= FarBehind /\ FarBehind \in Nat
      BY <1>8, RollbackAssumption DEF SkipAhead
    <3> QED
      BY <3>1, <1>1, ConstantTypes
  <2> QED
    BY <1>8, <2>1 DEF SkipAhead, TypeOK
<1>9. ASSUME NEW v \in Validators, ExitForRollback(v) PROVE TypeOK'
  <2>1. window[v] \in 0 .. MaxWindow + 1 /\ machine[v] \in Machines /\ probes[v] \in Seq(Losses)
    BY DEF TypeOK
  <2>2. [window |-> window[v], machine |-> machine[v], probes |-> probes[v]] \in State
    BY <2>1, StateType
  <2>3. disk' \in [Validators -> State \cup {None}]
    BY <1>9, <2>2 DEF ExitForRollback, TypeOK
  <2> QED
    BY <1>9, <2>3, GoDownTypes DEF ExitForRollback, TypeOK
<1>10. ASSUME NEW v \in Validators, Crash(v) PROVE TypeOK'
  <2>1. faults' \in 0 .. MaxFaults
    BY <1>1, <1>10 DEF Crash, TypeOK
  <2> QED
    BY <1>10, <2>1, GoDownTypes DEF Crash, TypeOK
<1>11. ASSUME NEW v \in Validators, Restart(v) PROVE TypeOK'
  <2> DEFINE state == disk[v]
  <2>1. state \in State \cup {None}
    BY DEF TypeOK
  <2>2. state # None => /\ state.window \in 0 .. MaxWindow + 1 /\ state.machine \in Machines
                        /\ state.probes \in Seq(Losses)
    BY <2>1 DEF State
  <2>3. window' \in [Validators -> 0 .. MaxWindow + 1]
    <3>1. CASE state = None \/ ckpts[v] = {}
      BY <1>11, <3>1, ConstantTypes DEF Restart, TypeOK
    <3>2. CASE state # None /\ ckpts[v] # {}
      <4>1. ckpts[v] \subseteq Windows
        BY <1>1
      <4>2. Max(ckpts[v]) \in ckpts[v]
        BY <3>2, <4>1, CheckpointsFinite, MaxOf
      <4>3. Max(ckpts[v]) + 1 \in 0 .. MaxWindow + 1 /\ Max(ckpts[v]) + 1 \in Int /\ state.window \in Int
        BY <2>2, <3>2, <4>1, <4>2, ConstantTypes DEF Windows
      <4>4. Max({state.window, Max(ckpts[v]) + 1}) \in 0 .. MaxWindow + 1
        BY <2>2, <3>2, <4>3, MaxOfTwo
      <4> QED
        BY <1>11, <3>2, <4>4 DEF Restart, TypeOK
    <3> QED
      BY <3>1, <3>2
  <2>4. machine' \in [Validators -> Machines] /\ probes' \in [Validators -> Seq(Losses)]
    BY <1>11, <2>2 DEF Restart, TypeOK
  <2>5. spike' \in [Validators -> Seq(Losses)]
    <3>1. state # None => LastOf(Baseline, state.probes) \in Seq(Losses)
      BY <1>1, <2>2, LastOfType
    <3> QED
      BY <1>11, <3>1 DEF Restart, TypeOK
  <2> QED
    BY <1>11, <2>3, <2>4, <2>5 DEF Restart, TypeOK
<1>12. CASE UNCHANGED vars
  BY <1>12 DEF vars, TypeOK
<1> QED
  BY <1>2, <1>3, <1>4, <1>5, <1>6, <1>7, <1>8, <1>9, <1>10, <1>11, <1>12 DEF Next

LEMMA InvAtStart ==
  Init => RollbackInv
<1> SUFFICES ASSUME Init, NEW v \in Validators PROVE ValidatorOk(v)
  BY DEF RollbackInv
<1>1. machine[v] = Normal /\ disk[v] = None /\ ckpts[v] = {} /\ pc[v] = "idle" /\ window[v] = 0
      /\ Closed = 0
  BY DEF Init, Closed
<1> QED
  BY <1>1, NormalOk DEF ValidatorOk, Placed

(* A validator that the step does not touch stays as it is. *)
Same(u) ==
  /\ machine'[u] = machine[u] /\ window'[u] = window[u] /\ ckpts'[u] = ckpts[u]
  /\ disk'[u] = disk[u] /\ pc'[u] = pc[u]

StepOf(v) ==
  \/ ProcessWindow(v) \/ FollowerProbe(v) \/ LeaderProbe(v) \/ FinishWindow(v)
  \/ SkipAhead(v) \/ ExitForRollback(v) \/ Crash(v) \/ Restart(v)

LEMMA OthersSame ==
  ASSUME TypeOK, NEW v \in Validators, NEW u \in Validators, u # v, StepOf(v)
  PROVE  Same(u) /\ decision'[u] = decision[u]
<1> USE DEF chainVars, memory
<1>1. CASE ProcessWindow(v) \/ FinishWindow(v)
  BY <1>1 DEF ProcessWindow, FinishWindow, SaveState, Same, TypeOK
<1>2. CASE FollowerProbe(v)
  BY <1>2 DEF FollowerProbe, Same, TypeOK
<1>3. CASE LeaderProbe(v)
  BY <1>3 DEF LeaderProbe, Same, TypeOK
<1>4. CASE SkipAhead(v) \/ Restart(v)
  BY <1>4 DEF SkipAhead, Restart, Same, TypeOK
<1>5. CASE ExitForRollback(v) \/ Crash(v)
  BY <1>5 DEF ExitForRollback, Crash, GoDown, Same, TypeOK
<1> QED
  BY <1>1, <1>2, <1>3, <1>4, <1>5 DEF StepOf

LEMMA Untouched ==
  ASSUME TypeOK, TypeOK', NEW u \in Validators, ValidatorOk(u), Same(u), Closed' >= Closed
  PROVE  ValidatorOk(u)'
<1>1. /\ Closed \in Int /\ Closed' \in Int /\ window[u] \in Int
      /\ disk[u] # None => disk[u].window \in Int
      /\ \A c \in ckpts[u] : c \in Int
  BY ConstantTypes DEF TypeOK, State, Closed, Windows
<1> HIDE DEF Closed
<1>2. MachineOk(machine[u])' /\ Placed(machine[u], window[u], ckpts[u])'
  BY DEF Same, ValidatorOk
<1>3. ASSUME disk'[u] # None
      PROVE  (MachineOk(disk[u].machine) /\ Placed(disk[u].machine, disk[u].window, ckpts[u])
              /\ disk[u].window <= Closed)'
  BY <1>1, <1>3 DEF Same, ValidatorOk
<1>4. (window[u] <= Closed)' /\ (\A c \in ckpts[u] : c < Closed)'
  BY <1>1 DEF Same, ValidatorOk
<1> QED
  BY <1>2, <1>3, <1>4 DEF Same, ValidatorOk

LEMMA PlacedAfterCheckpoint ==
  ASSUME NEW m, MachineOk(m), NEW w \in Windows, NEW S, S \subseteq Windows, Placed(m, w + 1, S),
         NEW T, T \subseteq S \cup {w}, S # {} => T # {}
  PROVE  Placed(m, w + 1, T)
<1> SUFFICES ASSUME Open(m) PROVE Placed(m, w + 1, T)
  BY DEF Placed
<1>1. /\ m.alert \in Windows /\ m.alert < w + 1 /\ T # {}
      /\ \A c \in S : c > m.target => c >= m.alert
  BY DEF Placed, MachineOk
<1>2. w \in Int /\ m.alert \in Int
  BY <1>1, ConstantTypes
<1>3. w >= m.alert
  BY <1>1, <1>2
<1> QED
  BY <1>1, <1>3 DEF Placed

(* What the leader's step makes of the machine stands before the window too. *)
LEMMA LeaderPlaced ==
  ASSUME NEW v \in Validators, ValidatorOk(v), window[v] - 1 \in Windows, window[v] \in Nat,
         ckpts[v] \subseteq Windows,
         NEW local, NEW open, NEW ticked, LeaderStep(v, local, open, ticked)
  PROVE  /\ Placed(open, window[v], local) /\ Placed(ticked, window[v], local)
         /\ \A m : MachineOk(m) /\ Placed(m, window[v], ckpts[v]) => Placed(m, window[v], local)
<1> DEFINE w == window[v] - 1
<1>1. /\ w \in Windows /\ w \in Int /\ window[v] = w + 1
      /\ local \subseteq ckpts[v] \cup {w} /\ (ckpts[v] # {} => local # {})
  BY DEF LeaderStep
<1>2. ASSUME NEW m, MachineOk(m), Placed(m, window[v], ckpts[v]) PROVE Placed(m, window[v], local)
  <2> HIDE DEF w
  <2>1. Placed(m, w + 1, ckpts[v])
    BY <1>1, <1>2
  <2>2. Placed(m, w + 1, local)
    BY <1>1, <1>2, <2>1, PlacedAfterCheckpoint
  <2> QED
    BY <1>1, <2>2
<1>3. Placed(open, window[v], local)
  <2>1. CASE open = machine[v]
    BY <1>2, <2>1 DEF ValidatorOk
  <2>2. CASE open.alert = w /\ open.target \in local /\ \A c \in local : c > open.target => c >= w
    <3>1. w < window[v]
      BY <1>1
    <3> QED
      BY <2>2, <3>1 DEF Placed
  <2> QED
    BY <2>1, <2>2 DEF LeaderStep, Placing
<1>4. Placed(ticked, window[v], local)
  <2>1. CASE Advanced(open, ticked)
    BY <1>3, <2>1 DEF Advanced, Placed, Open
  <2>2. CASE ticked = Normal
    BY <2>2, NormalOk DEF Placed
  <2> QED
    BY <2>1, <2>2 DEF LeaderStep
<1> QED
  BY <1>2, <1>3, <1>4

LEMMA LeaderKeepsInv ==
  ASSUME TypeOK, TypeOK', NEW v \in Validators, ValidatorOk(v), LeaderProbe(v)
  PROVE  ValidatorOk(v)'
<1> DEFINE w == window[v] - 1
<1>1. /\ pc[v] = "apply" /\ window' = window /\ disk' = disk /\ Closed' = Closed
  BY DEF LeaderProbe, chainVars, Closed
<1>2. /\ window[v] \in Nat /\ w \in Windows /\ w < Closed /\ Closed \in Nat /\ ckpts[v] \subseteq Windows
      /\ w < window[v] /\ window[v] <= Closed
      /\ disk[v] # None /\ disk[v].window = window[v] /\ window[v] >= 1
  BY <1>1, WindowFacts DEF ValidatorOk
<1>3. PICK local, open, ticked : LeaderStep(v, local, open, ticked)
  BY LeaderSteps
<1>4. /\ ckpts'[v] = local /\ local \subseteq ckpts[v] \cup {w}
      /\ \A c \in local : c % CheckpointEvery = 0
      /\ machine'[v] = Normal \/ machine'[v] = ticked
      /\ pc'[v] \in {"exit", "post"} /\ MachineOk(ticked)
  BY <1>3 DEF LeaderStep, TypeOK
<1>5. /\ Placed(ticked, window[v], local)
      /\ \A m : MachineOk(m) /\ Placed(m, window[v], ckpts[v]) => Placed(m, window[v], local)
  BY <1>2, <1>3, LeaderPlaced
<1> HIDE DEF w
<1>6. MachineOk(machine[v])' /\ Placed(machine[v], window[v], ckpts[v])'
  BY <1>1, <1>4, <1>5, NormalOk DEF Placed
<1>7. (MachineOk(disk[v].machine) /\ Placed(disk[v].machine, disk[v].window, ckpts[v])
       /\ disk[v].window <= Closed)'
  BY <1>1, <1>2, <1>4, <1>5 DEF ValidatorOk
<1>8. (\A c \in ckpts[v] : c % CheckpointEvery = 0 /\ c < Closed /\ c < window[v])'
  <2>1. \A c \in ckpts[v] : c < Closed /\ c < window[v]
    BY <1>1 DEF ValidatorOk
  <2> QED
    BY <1>1, <1>2, <1>4, <2>1
<1> QED
  BY <1>1, <1>2, <1>4, <1>6, <1>7, <1>8 DEF ValidatorOk

LEMMA RestartKeepsInv ==
  ASSUME TypeOK, TypeOK', NEW v \in Validators, ValidatorOk(v), Restart(v)
  PROVE  ValidatorOk(v)'
<1>1. /\ pc[v] = "down" /\ pc'[v] = "idle" /\ machine[v] = Normal
      /\ disk' = disk /\ ckpts' = ckpts /\ Closed' = Closed
      /\ machine'[v] = IF disk[v] = None THEN Normal ELSE disk[v].machine
      /\ window'[v] = IF disk[v] = None \/ ckpts[v] = {} THEN 0
                      ELSE Max({disk[v].window, Max(ckpts[v]) + 1})
  BY DEF Restart, TypeOK, chainVars, Closed, ValidatorOk
<1>2. /\ Closed \in Nat /\ ckpts[v] \subseteq Windows /\ \A c \in ckpts[v] : c \in Int
      /\ \A c \in ckpts[v] : c % CheckpointEvery = 0 /\ c < Closed
      /\ disk[v] # None => /\ disk[v].window \in Int /\ disk[v].window <= Closed
                           /\ MachineOk(disk[v].machine)
                           /\ Placed(disk[v].machine, disk[v].window, ckpts[v])
      /\ disk[v] = None => ckpts[v] = {}
  <2>1. Closed \in Nat /\ ckpts[v] \subseteq Windows /\ disk[v] \in State \cup {None}
    BY DEF TypeOK, Closed
  <2>2. disk[v] # None => disk[v].window \in Int
    BY <2>1, ConstantTypes DEF State
  <2>3. \A c \in ckpts[v] : c \in Int
    BY <2>1, ConstantTypes
  <2> QED
    BY <2>1, <2>2, <2>3 DEF ValidatorOk
<1>3. CASE disk[v] = None
  BY <1>1, <1>2, <1>3, NormalOk DEF ValidatorOk, Placed
<1>4. CASE disk[v] # None /\ ckpts[v] = {}
  BY <1>1, <1>2, <1>4 DEF ValidatorOk, Placed
<1>5. CASE disk[v] # None /\ ckpts[v] # {}
  <2>1. Max(ckpts[v]) \in ckpts[v] /\ \A c \in ckpts[v] : c <= Max(ckpts[v])
    BY <1>2, <1>5, CheckpointsFinite, MaxOf
  <2>2. /\ Max(ckpts[v]) \in Int /\ Max(ckpts[v]) + 1 \in Int /\ Max(ckpts[v]) + 1 <= Closed
        /\ \A c \in ckpts[v] : c < Max(ckpts[v]) + 1
    BY <1>2, <2>1
  <2>3. /\ window'[v] \in Int /\ window'[v] <= Closed
        /\ window'[v] >= disk[v].window /\ window'[v] >= Max(ckpts[v]) + 1
    BY <1>1, <1>2, <1>5, <2>2, MaxOfTwo
  <2>4. \A c \in ckpts[v] : c < window'[v]
    BY <1>2, <2>2, <2>3
  <2>5. Placed(disk[v].machine, window'[v], ckpts[v])
    <3> SUFFICES ASSUME Open(disk[v].machine) PROVE disk[v].machine.alert < window'[v]
      BY <1>2, <1>5 DEF Placed
    <3>1. disk[v].machine.alert < disk[v].window /\ disk[v].machine.alert \in Int
      BY <1>2, <1>5, ConstantTypes DEF Placed, MachineOk
    <3> QED
      BY <3>1, <1>2, <1>5, <2>3
  <2> QED
    BY <1>1, <1>2, <1>5, <2>3, <2>4, <2>5 DEF ValidatorOk
<1> QED
  BY <1>3, <1>4, <1>5

LEMMA InvKept ==
  TypeOK /\ TypeOK' /\ RollbackInv /\ [Next]_vars => RollbackInv'
<1> SUFFICES ASSUME TypeOK, TypeOK', RollbackInv, [Next]_vars, NEW u \in Validators
             PROVE  ValidatorOk(u)'
  BY DEF RollbackInv
<1> USE DEF chainVars, memory
<1>1. /\ ValidatorOk(u) /\ Closed \in Nat
      /\ \A v \in Validators : window[v] \in Int
  BY ConstantTypes DEF RollbackInv, TypeOK, Closed
<1>2. CASE Tick
  <2>1. Closed' = Closed + 1
    BY <1>2 DEF Tick, Closed, TypeOK
  <2> QED
    BY <1>1, <1>2, <2>1, Untouched DEF Tick, Same
<1>3. CASE StakeMoves \/ UNCHANGED vars
  BY <1>1, <1>3, Untouched DEF StakeMoves, Same, Closed, vars
<1>4. ASSUME NEW v \in Validators, StepOf(v)
      PROVE  ValidatorOk(u)'
  <2>0. Closed' = Closed /\ ValidatorOk(v)
    BY <1>4 DEF StepOf, ProcessWindow, FollowerProbe, LeaderProbe, FinishWindow, SkipAhead,
                ExitForRollback, Crash, Restart, Closed, RollbackInv
  <2>1. CASE u # v
    <3>1. Same(u)
      BY <1>4, <2>1, OthersSame
    <3> QED
      BY <1>1, <2>0, <3>1, Untouched
  <2>2. CASE u = v /\ (ProcessWindow(v) \/ FinishWindow(v))
    <3>1. /\ machine' = machine /\ ckpts' = ckpts
          /\ \/ window'[v] = window[v] + 1 /\ window[v] < Closed /\ pc[v] = "idle" /\ pc'[v] = "apply"
             \/ window'[v] = window[v] /\ pc[v] = "post" /\ pc'[v] = "idle"
          /\ disk'[v] = [window |-> window'[v], machine |-> machine[v], probes |-> probes[v]]
      <4>1. CASE ProcessWindow(v)
        BY <4>1 DEF ProcessWindow, SaveState, TypeOK
      <4>2. CASE FinishWindow(v)
        BY <4>2 DEF FinishWindow, SaveState, TypeOK
      <4> QED
        BY <2>2, <4>1, <4>2
    <3>2. disk'[v].window = window'[v] /\ disk'[v].machine = machine[v] /\ disk'[v] # None
      <4>1. machine[v] \in Machines /\ probes[v] \in Seq(Losses)
        BY DEF TypeOK
      <4>2. window'[v] \in 0 .. MaxWindow + 1
        BY DEF TypeOK
      <4>3. [window |-> window'[v], machine |-> machine[v], probes |-> probes[v]] # None
        BY <4>1, <4>2, StateType, NoFileAssumption
      <4> QED
        BY <3>1, <4>3
    <3>3. window'[v] >= window[v] /\ window'[v] <= Closed /\ window[v] \in Nat /\ window'[v] \in Nat
      <4>1. window[v] \in Nat /\ window[v] <= Closed
        BY <2>0, ConstantTypes DEF TypeOK, ValidatorOk
      <4> QED
        BY <1>1, <3>1, <4>1
    <3>4. pc'[v] = "apply" => window'[v] >= 1
      BY <3>1, <3>3
    <3>5. Placed(machine[v], window'[v], ckpts[v])
      <4>1. Open(machine[v]) => machine[v].alert \in Int /\ machine[v].alert < window[v]
        BY <2>0, ConstantTypes DEF ValidatorOk, MachineOk, Placed
      <4> QED
        BY <2>0, <3>3, <4>1 DEF ValidatorOk, Placed
    <3>6. \A c \in ckpts[v] : c % CheckpointEvery = 0 /\ c < Closed /\ c < window'[v]
      <4>1. \A c \in ckpts[v] : c \in Int /\ c % CheckpointEvery = 0 /\ c < Closed /\ c < window[v]
        BY <2>0, <3>1, ConstantTypes DEF ValidatorOk, TypeOK
      <4> QED
        BY <3>3, <4>1
    <3> QED
      BY <2>0, <2>2, <3>1, <3>2, <3>3, <3>4, <3>5, <3>6 DEF ValidatorOk
  <2>3. CASE u = v /\ FollowerProbe(v)
    <3>1. /\ machine' = machine /\ window' = window /\ ckpts' = ckpts /\ disk' = disk
          /\ pc[v] = "apply" /\ pc'[v] = "post"
      BY <2>3 DEF FollowerProbe, TypeOK
    <3> QED
      BY <2>0, <2>3, <3>1 DEF ValidatorOk
  <2>4. CASE u = v /\ LeaderProbe(v)
    BY <2>0, <2>4, LeaderKeepsInv
  <2>5. CASE u = v /\ SkipAhead(v)
    <3>1. /\ machine' = machine /\ ckpts' = ckpts /\ disk' = disk
          /\ pc[v] = "idle" /\ pc'[v] = "idle" /\ window'[v] = Closed - 1
          /\ Closed - 1 - window[v] >= FarBehind
      BY <2>5 DEF SkipAhead, TypeOK
    <3>2. window'[v] > window[v] /\ window'[v] <= Closed /\ window'[v] \in Int
      BY <1>1, <3>1, RollbackAssumption
    <3>3. Placed(machine[v], window'[v], ckpts[v])
      <4>1. Open(machine[v]) => machine[v].alert \in Int /\ machine[v].alert < window[v]
        BY <2>0, ConstantTypes DEF ValidatorOk, MachineOk, Placed
      <4> QED
        BY <1>1, <2>0, <3>2, <4>1 DEF ValidatorOk, Placed
    <3>4. \A c \in ckpts[v] : c % CheckpointEvery = 0 /\ c < Closed /\ c < window'[v]
      <4>1. \A c \in ckpts[v] : c \in Int /\ c % CheckpointEvery = 0 /\ c < Closed /\ c < window[v]
        BY <2>0, <3>1, ConstantTypes DEF ValidatorOk, TypeOK
      <4> QED
        BY <1>1, <3>2, <4>1
    <3> QED
      BY <2>0, <2>5, <3>1, <3>2, <3>3, <3>4 DEF ValidatorOk
  <2>6. CASE u = v /\ Crash(v)
    <3>1. /\ machine'[v] = Normal /\ window'[v] = 0 /\ ckpts' = ckpts /\ disk' = disk
          /\ pc'[v] = "down"
      BY <2>6 DEF Crash, GoDown, TypeOK
    <3> QED
      BY <1>1, <2>0, <2>6, <3>1, NormalOk DEF ValidatorOk, Placed
  <2>7. CASE u = v /\ ExitForRollback(v)
    <3>1. /\ machine'[v] = Normal /\ window'[v] = 0 /\ ckpts' = ckpts
          /\ pc[v] = "exit" /\ pc'[v] = "down"
          /\ disk'[v] = [window |-> window[v], machine |-> machine[v], probes |-> probes[v]]
      BY <2>7 DEF ExitForRollback, GoDown, TypeOK
    <3>2. disk'[v].window = window[v] /\ disk'[v].machine = machine[v] /\ disk'[v] # None
      <4>1. window[v] \in 0 .. MaxWindow + 1 /\ machine[v] \in Machines /\ probes[v] \in Seq(Losses)
        BY DEF TypeOK
      <4>2. [window |-> window[v], machine |-> machine[v], probes |-> probes[v]] # None
        BY <4>1, StateType, NoFileAssumption
      <4> QED
        BY <3>1, <4>2
    <3> QED
      BY <1>1, <2>0, <2>7, <3>1, <3>2, NormalOk DEF ValidatorOk, Placed
  <2>8. CASE u = v /\ Restart(v)
    BY <2>0, <2>8, RestartKeepsInv
  <2> QED
    BY <1>4, <2>1, <2>2, <2>3, <2>4, <2>5, <2>6, <2>7, <2>8 DEF StepOf
<1> QED
  BY <1>2, <1>3, <1>4 DEF Next, StepOf

-----------------------------------------------------------------------------
(***************************************************************************)
(* A vote in the state file.                                               *)
(***************************************************************************)
LEMMA CarriesLater ==
  ASSUME NEW b, b.alert \in Int, NEW m, NEW w \in Int, NEW x \in Int, x >= w, Carries(b, m, w)
  PROVE  Carries(b, m, x)
<1>1. w - 1 > b.alert + VoteSpan => x - 1 > b.alert + VoteSpan
  BY ConstantTypes
<1> QED
  BY <1>1 DEF Carries

(* What the leader's step makes of a vote the file holds as open, unless    *)
(* the process is about to exit.                                            *)
LEMMA LeaderCarries ==
  ASSUME NEW v \in Validators, MachineOk(machine[v]),
         NEW local, NEW open, NEW ticked, LeaderStep(v, local, open, ticked),
         NEW b, Carries(b, machine[v], window[v])
  PROVE  Carries(b, ticked, window[v])
<1>1. CASE machine[v].state = "voting" /\ machine[v].alert = b.alert /\ machine[v].target = b.target
           /\ b.voters \subseteq machine[v].voters
  <2>1. open = machine[v]
    BY <1>1 DEF LeaderStep, Placing
  <2> QED
    BY <1>1, <2>1 DEF LeaderStep, Advanced, Carries
<1>2. CASE machine[v].state = "pending" /\ machine[v].target = b.target
  BY <1>2 DEF LeaderStep, Placing, Advanced, Carries
<1>3. CASE window[v] - 1 > b.alert + VoteSpan
  BY <1>3 DEF Carries
<1> QED
  BY <1>1, <1>2, <1>3 DEF Carries

CarriedBy(v) ==
  pc[v] \notin {"down", "exit"} /\ disk[v] # None /\ disk[v].machine.state = "voting"
    => Carries(disk[v].machine, machine[v], window[v])

SavedVoteSurvives(v) ==
  disk[v] # None /\ disk[v].machine.state = "voting" =>
    LET before == disk[v].machine
        after  == disk'[v].machine
    IN  \/ after.state = "voting" /\ after.alert = before.alert
             /\ before.voters \subseteq after.voters
        \/ after.state = "pending" /\ after.target = before.target
        \/ disk'[v].window - 1 > before.alert + VoteSpan
        \/ pc[v] = "exit"

LEMMA VoteKept ==
  ASSUME TypeOK, RollbackInv, Carried, [Next]_vars, NEW u \in Validators
  PROVE  CarriedBy(u)' /\ SavedVoteSurvives(u)
<1> USE DEF chainVars, memory
<1>1. /\ CarriedBy(u) /\ ValidatorOk(u) /\ Closed \in Nat /\ window[u] \in Int
      /\ disk[u] # None /\ disk[u].machine.state = "voting" => disk[u].machine.alert \in Int
  <2>1. disk[u] # None /\ disk[u].machine.state = "voting" => disk[u].machine.alert \in Int
    BY ConstantTypes DEF RollbackInv, ValidatorOk, MachineOk, Open
  <2> QED
    BY <2>1, ConstantTypes DEF Carried, CarriedBy, RollbackInv, TypeOK, Closed
<1>2. ASSUME disk'[u] = disk[u], machine'[u] = machine[u], window'[u] = window[u], pc'[u] = pc[u]
      PROVE  CarriedBy(u)' /\ SavedVoteSurvives(u)
  BY <1>1, <1>2 DEF CarriedBy, SavedVoteSurvives
<1>3. CASE Tick \/ StakeMoves \/ UNCHANGED vars
  BY <1>2, <1>3 DEF Tick, StakeMoves, vars
<1>4. ASSUME NEW v \in Validators, StepOf(v)
      PROVE  CarriedBy(u)' /\ SavedVoteSurvives(u)
  <2>1. CASE u # v
    <3>1. Same(u)
      BY <1>4, <2>1, OthersSame
    <3> QED
      BY <1>2, <3>1 DEF Same
  <2>2. CASE u = v /\ (ProcessWindow(v) \/ FinishWindow(v))
    <3>1. /\ machine' = machine /\ pc[v] \in {"idle", "post"}
          /\ window'[v] = window[v] + 1 \/ window'[v] = window[v]
          /\ disk'[v] = [window |-> window'[v], machine |-> machine[v], probes |-> probes[v]]
      <4>1. CASE ProcessWindow(v)
        BY <4>1 DEF ProcessWindow, SaveState, TypeOK
      <4>2. CASE FinishWindow(v)
        BY <4>2 DEF FinishWindow, SaveState, TypeOK
      <4> QED
        BY <2>2, <4>1, <4>2
    <3>2. window'[v] \in Int /\ window'[v] >= window[v]
      BY <1>1, <2>2, <3>1
    <3>3. disk'[v].window = window'[v] /\ disk'[v].machine = machine[v]
      BY <3>1
    <3>4. CarriedBy(v)'
      BY <3>1, <3>3 DEF CarriedBy, Carries
    <3>5. ASSUME disk[v] # None, disk[v].machine.state = "voting"
          PROVE  Carries(disk[v].machine, machine[v], window'[v])
      BY <1>1, <2>2, <3>1, <3>2, <3>5, CarriesLater DEF CarriedBy
    <3> QED
      BY <2>2, <3>3, <3>4, <3>5 DEF SavedVoteSurvives, Carries
  <2>3. CASE u = v /\ FollowerProbe(v)
    <3>1. /\ machine' = machine /\ window' = window /\ disk' = disk
          /\ pc[v] = "apply"
      BY <2>3 DEF FollowerProbe
    <3> QED
      BY <1>1, <2>3, <3>1 DEF CarriedBy, SavedVoteSurvives
  <2>4. CASE u = v /\ LeaderProbe(v)
    <3>1. disk' = disk /\ window' = window /\ pc[v] = "apply"
      BY <2>4 DEF LeaderProbe
    <3>2. PICK local, open, ticked : LeaderStep(v, local, open, ticked)
      BY <1>1, <2>4, LeaderSteps
    <3>3. pc'[v] = "exit" \/ machine'[v] = ticked
      BY <3>2 DEF LeaderStep, TypeOK
    <3>4. CarriedBy(v)'
      <4> SUFFICES ASSUME pc'[v] # "exit", disk[v] # None, disk[v].machine.state = "voting"
                   PROVE  Carries(disk[v].machine, machine'[v], window[v])
        BY <3>1 DEF CarriedBy
      <4>1. Carries(disk[v].machine, machine[v], window[v])
        BY <1>1, <2>4, <3>1 DEF CarriedBy
      <4>2. MachineOk(machine[v])
        BY <1>1, <2>4 DEF ValidatorOk
      <4> QED
        BY <3>2, <3>3, <4>1, <4>2, LeaderCarries
    <3> QED
      BY <2>4, <3>1, <3>4 DEF SavedVoteSurvives
  <2>5. CASE u = v /\ SkipAhead(v)
    <3>1. /\ machine' = machine /\ disk' = disk /\ pc[v] = "idle" /\ window'[v] = Closed - 1
          /\ Closed - 1 - window[v] >= FarBehind
      BY <2>5 DEF SkipAhead, TypeOK
    <3>2. window'[v] \in Int /\ window'[v] >= window[v]
      BY <1>1, <2>5, <3>1, RollbackAssumption
    <3> QED
      BY <1>1, <2>5, <3>1, <3>2, CarriesLater DEF CarriedBy, SavedVoteSurvives
  <2>6. CASE u = v /\ Crash(v)
    <3>1. disk' = disk /\ pc'[v] = "down"
      BY <2>6 DEF Crash, GoDown, TypeOK
    <3> QED
      BY <2>6, <3>1 DEF CarriedBy, SavedVoteSurvives
  <2>7. CASE u = v /\ ExitForRollback(v)
    <3>1. pc[v] = "exit" /\ pc'[v] = "down"
      BY <2>7 DEF ExitForRollback, GoDown, TypeOK
    <3> QED
      BY <2>7, <3>1 DEF CarriedBy, SavedVoteSurvives
  <2>8. CASE u = v /\ Restart(v)
    <3>1. disk' = disk /\ (disk[v] # None => machine'[v] = disk[v].machine)
      BY <2>8 DEF Restart, TypeOK
    <3> QED
      BY <2>8, <3>1 DEF CarriedBy, SavedVoteSurvives, Carries
  <2> QED
    BY <1>4, <2>1, <2>2, <2>3, <2>4, <2>5, <2>6, <2>7, <2>8 DEF StepOf
<1> QED
  BY <1>3, <1>4 DEF Next, StepOf

-----------------------------------------------------------------------------
(***************************************************************************)
(* The checkpoint to rewind to.                                            *)
(***************************************************************************)
LEMMA TargetKept ==
  ASSUME RetentionOutlastsVote, TypeOK, RollbackInv, TargetsRetained, RewindTargetOnDisk,
         [Next]_vars, NEW u \in Validators
  PROVE  /\ Retained(machine[u], ckpts[u])'
         /\ (disk[u] # None => Retained(disk[u].machine, ckpts[u]))'
         /\ (pc[u] = "exit" /\ decision[u].last = window[u] - 1 => decision[u].target \in ckpts[u])'
<1> USE DEF chainVars, memory
<1> DEFINE Kept(v) ==
      /\ Retained(machine[v], ckpts[v])'
      /\ (disk[v] # None => Retained(disk[v].machine, ckpts[v]))'
      /\ (pc[v] = "exit" /\ decision[v].last = window[v] - 1 => decision[v].target \in ckpts[v])'
<1>1. \A v \in Validators :
        /\ Retained(machine[v], ckpts[v])
        /\ disk[v] # None => Retained(disk[v].machine, ckpts[v])
        /\ pc[v] = "exit" /\ decision[v].last = window[v] - 1 => decision[v].target \in ckpts[v]
        /\ ValidatorOk(v)
  BY DEF TargetsRetained, RewindTargetOnDisk, RollbackInv
<1>2. ASSUME Same(u), decision'[u] = decision[u] PROVE Kept(u)
  BY <1>1, <1>2 DEF Same
<1>3. CASE Tick \/ StakeMoves \/ UNCHANGED vars
  BY <1>2, <1>3 DEF Tick, StakeMoves, vars, Same
<1>4. ASSUME NEW v \in Validators, StepOf(v)
      PROVE  Kept(u)
  <2>1. CASE u # v
    <3>1. Same(u) /\ decision'[u] = decision[u]
      BY <1>4, <2>1, OthersSame
    <3> QED
      BY <1>2, <3>1
  <2>2. CASE ProcessWindow(v) \/ FinishWindow(v)
    <3>1. /\ machine' = machine /\ ckpts' = ckpts /\ pc'[v] \in {"apply", "idle"}
          /\ disk'[v].machine = machine[v]
      <4>1. CASE ProcessWindow(v)
        BY <4>1 DEF ProcessWindow, SaveState, TypeOK
      <4>2. CASE FinishWindow(v)
        BY <4>2 DEF FinishWindow, SaveState, TypeOK
      <4> QED
        BY <2>2, <4>1, <4>2
    <3>2. Kept(v)
      BY <1>1, <3>1
    <3> QED
      BY <2>1, <3>2
  <2>3. CASE FollowerProbe(v) \/ SkipAhead(v)
    <3>1. machine' = machine /\ ckpts' = ckpts /\ disk' = disk /\ pc'[v] # "exit"
      BY <2>3 DEF FollowerProbe, SkipAhead, TypeOK
    <3>2. Kept(v)
      BY <1>1, <3>1
    <3> QED
      BY <2>1, <3>2
  <2>4. CASE ExitForRollback(v) \/ Crash(v)
    <3>1. /\ machine'[v] = Normal /\ ckpts' = ckpts /\ pc'[v] = "down"
          /\ disk'[v] = disk[v] \/ disk'[v].machine = machine[v]
      BY <2>4 DEF ExitForRollback, Crash, GoDown, TypeOK
    <3>2. Kept(v)
      BY <1>1, <3>1, NormalOk DEF Retained
    <3> QED
      BY <2>1, <3>2
  <2>5. CASE Restart(v)
    <3>1. /\ ckpts' = ckpts /\ disk' = disk /\ pc'[v] = "idle"
          /\ machine'[v] = IF disk[v] = None THEN machine[v] ELSE disk[v].machine
      BY <2>5 DEF Restart, TypeOK
    <3>2. Kept(v)
      BY <1>1, <3>1
    <3> QED
      BY <2>1, <3>2
  <2>6. CASE LeaderProbe(v)
    <3> DEFINE w == window[v] - 1
    <3>1. /\ pc[v] = "apply" /\ window' = window /\ disk' = disk /\ ValidatorOk(v)
      BY <1>1, <2>6 DEF LeaderProbe
    <3>2. /\ window[v] \in Nat /\ w \in Windows /\ w + 1 = window[v] /\ ckpts[v] \subseteq Windows
          /\ disk[v] # None /\ disk[v].window = window[v]
          /\ \A c \in ckpts[v] : c \in Int /\ c < window[v]
      <4>1. /\ window[v] \in Nat /\ w \in Windows /\ ckpts[v] \subseteq Windows
            /\ disk[v] # None /\ disk[v].window = window[v]
        BY <3>1, WindowFacts DEF ValidatorOk
      <4>2. \A c \in ckpts[v] : c < window[v]
        BY <3>1 DEF ValidatorOk
      <4>3. \A c \in ckpts[v] : c \in Int
        BY <4>1, ConstantTypes
      <4>4. w + 1 = window[v]
        BY <4>1
      <4> QED
        BY <4>1, <4>2, <4>3, <4>4
    <3>3. PICK local, open, ticked : LeaderStep(v, local, open, ticked)
      BY <2>6, <3>1, LeaderSteps
    <3>4. /\ ckpts'[v] = local /\ local = Checkpoint(ckpts[v], w)
          /\ machine'[v] = Normal \/ machine'[v] = ticked
          /\ MachineOk(ticked) /\ MachineOk(machine[v]) /\ MachineOk(disk[v].machine)
          /\ Placed(machine[v], w + 1, ckpts[v]) /\ Placed(disk[v].machine, w + 1, ckpts[v])
          /\ \A c \in ckpts[v] : c % CheckpointEvery = 0
      BY <3>1, <3>2, <3>3 DEF LeaderStep, TypeOK, ValidatorOk
    <3> HIDE DEF w
    <3>5. ASSUME NEW m, MachineOk(m), Placed(m, w + 1, ckpts[v]), Retained(m, ckpts[v])
          PROVE  Retained(m, local)
      BY <3>2, <3>4, <3>5, CheckpointRetains
    <3>6. Retained(disk[v].machine, local)
      BY <1>1, <3>2, <3>4, <3>5
    <3>7. Retained(open, local)
      <4>1. CASE open = machine[v]
        BY <1>1, <3>4, <3>5, <4>1
      <4>2. CASE open.target \in local
        BY <4>2 DEF Retained
      <4> QED
        BY <3>3, <4>1, <4>2 DEF LeaderStep, Placing
    <3>8. Retained(ticked, local)
      <4>1. CASE Advanced(open, ticked)
        BY <3>7, <4>1 DEF Advanced, Retained, Open
      <4>2. CASE ticked = Normal
        BY <4>2, NormalOk DEF Retained
      <4> QED
        BY <3>3, <4>1, <4>2 DEF LeaderStep
    <3>9. (pc[v] = "exit" /\ decision[v].last = window[v] - 1 => decision[v].target \in ckpts[v])'
      <4> SUFFICES ASSUME pc'[v] = "exit", decision'[v].last = w PROVE decision'[v].target \in local
        BY <3>1, <3>4 DEF w
      <4>1. ticked.state = "pending" /\ decision'[v] = Decide(ticked)
        BY <3>3 DEF LeaderStep, Activates, TypeOK
      <4>2. decision'[v].target = ticked.target /\ ticked.activation = w
        BY <3>4, <4>1, DecideOk
      <4>3. w <= ticked.alert + VoteSpan + ActivationDelay
        BY <3>4, <4>1, <4>2 DEF MachineOk
      <4>4. \A c \in local : c \in Int /\ c <= w
        <5>1. local \subseteq ckpts[v] \cup {w} /\ w \in Int
          BY <3>2, <3>3, ConstantTypes DEF LeaderStep, w
        <5> QED
          BY <3>2, <5>1
      <4>5. ticked.alert \in Int /\ w \in Int
        BY <3>2, <3>4, <4>1, ConstantTypes DEF MachineOk, Open
      <4>6. ~ \E c \in local : c > ticked.alert + VoteSpan + ActivationDelay
        BY <4>3, <4>4, <4>5, ConstantTypes
      <4> QED
        BY <3>8, <4>1, <4>2, <4>6 DEF Retained, Open
    <3>10. Kept(v)
      BY <3>1, <3>4, <3>6, <3>8, <3>9, NormalOk DEF Retained
    <3> QED
      BY <2>1, <3>10
  <2> QED
    BY <1>4, <2>1, <2>2, <2>3, <2>4, <2>5, <2>6 DEF StepOf
<1> QED
  BY <1>3, <1>4 DEF Next, StepOf

-----------------------------------------------------------------------------
(***************************************************************************)
(* The theorems.                                                           *)
(***************************************************************************)
LEMMA Invariant ==
  Spec => [](TypeOK /\ RollbackInv)
<1>1. Init => TypeOK /\ RollbackInv
  BY TypesAtStart, InvAtStart
<1>2. TypeOK /\ RollbackInv /\ [Next]_vars => (TypeOK /\ RollbackInv)'
  BY TypesKept, InvKept
<1> QED
  BY <1>1, <1>2, PTL DEF Spec

(* Type correctness of the rollback. *)
THEOREM TypesHold ==
  Spec => []TypeOK
BY Invariant, PTL

(* Whoever leads, whatever stake moves between two ingests of one slot and  *)
(* whatever process dies in between: a pending rollback was carried by      *)
(* distinct voters with stakes they have held (RollbackStateMachine).       *)
THEOREM PendingRollbacksAreBacked ==
  Spec => []PendingBacked
<1>1. RollbackInv => PendingBacked
  <2> SUFFICES ASSUME RollbackInv, NEW v \in Validators, machine[v].state = "pending"
               PROVE  \E held \in [machine[v].voters -> Stakes], s \in Stakes :
                        3 * SumFunction([u \in machine[v].voters |-> held[u][u]]) > 2 * TotalOf(s)
    BY DEF PendingBacked
  <2>1. Backed(machine[v])
    BY DEF RollbackInv, ValidatorOk, MachineOk
  <2> QED
    BY <2>1 DEF Backed
<1> QED
  BY <1>1, Invariant, PTL

(* A vote in the state file survives crashes, restarts, skipped windows and *)
(* followers' windows until it is carried, expires or has exited the process.*)
THEOREM SavedVotesSurvive ==
  Spec => OpenVotesSurvive
<1>1. Init => Carried
  BY DEF Init, Carried
<1>2. TypeOK /\ RollbackInv /\ Carried /\ [Next]_vars => Carried'
  BY VoteKept DEF Carried, CarriedBy
<1>3. TypeOK /\ RollbackInv /\ Carried /\ [Next]_vars => \A v \in Validators : SavedVoteSurvives(v)
  BY VoteKept
<1>4. Spec => []Carried
  BY <1>1, <1>2, Invariant, PTL DEF Spec
<1>5. Spec => [][\A v \in Validators : SavedVoteSurvives(v)]_vars
  BY <1>3, <1>4, Invariant, PTL DEF Spec
<1> QED
  BY <1>5 DEF OpenVotesSurvive, SavedVoteSurvives

(* Retention outlasts the vote if fewer windows than KeepLocal - 1          *)
(* checkpoints span lie between an alert and its last activation: with the  *)
(* defaults, 2 + 1 < (2 - 1) * 10.                                          *)
THEOREM RewindTargetsAreOnDisk ==
  ASSUME RetentionOutlastsVote
  PROVE  Spec => []RewindTargetOnDisk
<1>1. Init => TargetsRetained /\ RewindTargetOnDisk
  BY NormalOk DEF Init, TargetsRetained, RewindTargetOnDisk, Retained
<1>2. TypeOK /\ RollbackInv /\ TargetsRetained /\ RewindTargetOnDisk /\ [Next]_vars
        => TargetsRetained' /\ RewindTargetOnDisk'
  BY TargetKept DEF TargetsRetained, RewindTargetOnDisk
<1> QED
  BY <1>1, <1>2, Invariant, PTL DEF Spec
=============================================================================
