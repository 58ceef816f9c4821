-------------------------- MODULE SanctionsProofs --------------------------
(***************************************************************************)
(* A validator that has sentenced a miner does not pay it while the        *)
(* sentence runs, and never takes a sentence back: for every set of        *)
(* miners, every finding of every window, every span, cadence and number   *)
(* of crashes.  The argument: what the validator remembers covers what its *)
(* state file says whenever it runs (Covers), what it remembers of a       *)
(* sentence it also enforces (OnRecord), and weights are handed out in the *)
(* window they were scored for.  A window evaluated by a validator that    *)
(* has a checkpoint is behind every resume point after it (FoldInv), so it *)
(* counts once.  Scores, averages, sentences and u16 weights keep their    *)
(* ranges (TypeInv), which takes the folds that compute them: each exists, *)
(* and stays where its steps stay.                                         *)
(***************************************************************************)
EXTENDS Sanctions, FiniteSetTheorems, SequenceTheorems, NaturalsInduction, TLAPS

Fields == {"window", "top", "since", "ema", "rated", "missing", "naughtyUntil",
           "records", "scored"}

\* No more of a ledger's types than the argument reads.
Shape(v) ==
    /\ DOMAIN v = Fields
    /\ v.window \in Int
    /\ v.naughtyUntil \in [Miners -> Int]
    /\ \A r \in v.records : r.uid \in Miners /\ r.until \in Int

\* A sentence on record is enforced to its end.
OnRecord(v) == \A r \in v.records : r.until <= v.naughtyUntil[r.uid]

\* v knows of every sentence d knows of.
Covers(v, d) ==
    /\ d.records \subseteq v.records
    /\ \A m \in Miners : d.naughtyUntil[m] <= v.naughtyUntil[m]

IInv ==
    /\ head \in Int
    /\ Shape(val) /\ Shape(disk) /\ OnRecord(val) /\ OnRecord(disk)
    /\ pc # "down" => Covers(val, disk)
    /\ pc # "ingest" => DOMAIN work.weights = {}
    /\ SentenceServed

-----------------------------------------------------------------------------
\* The longer of two spans.
LEMMA MaxOfTwo ==
    ASSUME NEW a \in Int, NEW b \in Int
    PROVE  Max({a, b}) \in Int /\ a <= Max({a, b}) /\ b <= Max({a, b})
  <1>1. \E x \in {a, b} : \A y \in {a, b} : x >= y
    OBVIOUS
  <1>2. Max({a, b}) \in {a, b} /\ \A y \in {a, b} : Max({a, b}) >= y
    BY <1>1 DEF Max
  <1> QED
    BY <1>2

\* A sentence joins the ledger and takes nothing from it.
LEMMA SentenceAdds ==
    ASSUME NEW v, Shape(v), OnRecord(v), NEW S \in SUBSET Miners, NEW w \in Int, NEW reason
    PROVE  LET s == Sentence(v, S, w, reason)
           IN  Shape(s) /\ OnRecord(s) /\ Covers(s, v) /\ s.window = v.window
  <1> DEFINE s == Sentence(v, S, w, reason)
             new == {[uid |-> m, window |-> w, reason |-> reason, until |-> w + Span] : m \in S}
  <1>1. w + Span \in Int
    BY NumbersOK
  <1>2. /\ DOMAIN s = Fields /\ s.window = v.window
        /\ s.naughtyUntil = [m \in Miners |-> IF m \in S THEN Max({v.naughtyUntil[m], w + Span})
                                              ELSE v.naughtyUntil[m]]
        /\ s.records = v.records \union new
    BY DEF Sentence, Shape, Fields
  <1>3. \A m \in Miners : /\ s.naughtyUntil[m] \in Int
                          /\ v.naughtyUntil[m] <= s.naughtyUntil[m]
                          /\ m \in S => w + Span <= s.naughtyUntil[m]
    <2> TAKE m \in Miners
    <2>1. v.naughtyUntil[m] \in Int
      BY DEF Shape
    <2>2. s.naughtyUntil[m] = IF m \in S THEN Max({v.naughtyUntil[m], w + Span})
                              ELSE v.naughtyUntil[m]
      BY <1>2
    <2>3. LET x == Max({v.naughtyUntil[m], w + Span})
          IN  x \in Int /\ v.naughtyUntil[m] <= x /\ w + Span <= x
      BY <1>1, <2>1, MaxOfTwo
    <2> HIDE DEF s
    <2> QED
      BY <2>1, <2>2, <2>3
  <1>4. s.naughtyUntil \in [Miners -> Int]
    BY <1>2, <1>3
  <1>5. \A r \in new : r.uid \in S /\ r.until = w + Span
    OBVIOUS
  <1>6. Shape(s)
    BY <1>1, <1>2, <1>4, <1>5 DEF Shape
  <1>7. OnRecord(s)
    <2> SUFFICES ASSUME NEW r \in s.records PROVE r.until <= s.naughtyUntil[r.uid]
      BY DEF OnRecord
    <2>1. CASE r \in v.records
      <3>1. r.uid \in Miners /\ r.until \in Int /\ r.until <= v.naughtyUntil[r.uid]
        BY <2>1 DEF Shape, OnRecord
      <3>2. v.naughtyUntil[r.uid] \in Int
        BY <3>1 DEF Shape
      <3> QED
        BY <3>1, <3>2, <1>3
    <2>2. CASE r \in new
      BY <2>2, <1>3, <1>5
    <2> QED
      BY <1>2, <2>1, <2>2
  <1>8. Covers(s, v)
    BY <1>2, <1>3 DEF Covers
  <1> QED
    BY <1>2, <1>6, <1>7, <1>8

\* Two ledgers that agree on sentences and resume points pass for each other.
LEMMA SameSentences ==
    ASSUME NEW v, NEW x, Shape(v), DOMAIN x = Fields, x.window \in Int,
           x.records = v.records, x.naughtyUntil = v.naughtyUntil
    PROVE  /\ Shape(x) /\ (OnRecord(v) => OnRecord(x))
           /\ \A d : Covers(v, d) <=> Covers(x, d)
  BY DEF Shape, OnRecord, Covers

\* What one validator knows of another, a third that knows the first knows too.
LEMMA CoversTransitive ==
    ASSUME NEW a, NEW b, NEW c, Shape(a), Shape(b), Shape(c), Covers(a, b), Covers(b, c)
    PROVE  Covers(a, c)
  BY DEF Covers, Shape

\* Weights go to positive scores only.
LEMMA PaidArePositive ==
    ASSUME NEW score PROVE DOMAIN Weights(score) \subseteq {m \in DOMAIN score : score[m] > 0}
  BY DEF Weights, Ranked

LEMMA InitInvariant == Init => IInv
  <1> SUFFICES ASSUME Init PROVE IInv
    OBVIOUS
  <1>1. Shape(Fresh) /\ OnRecord(Fresh) /\ Covers(Fresh, Fresh) /\ Fresh.records = {}
    BY DEF Fresh, Shape, OnRecord, Covers, Fields
  <1>2. DOMAIN work.weights = {} /\ head \in Int
    BY DEF Init, NoWork
  <1> QED
    BY <1>1, <1>2 DEF Init, IInv, SentenceServed

\* A window's events and its evaluation only add sentences; the resume point is
\* saved with them.
LEMMA ProcessKeeps ==
    ASSUME IInv, Process
    PROVE  IInv' /\ Covers(disk', disk)
  <1> USE DEF IInv
  <1>1. PICK f : LET judged == Sentence(Evaluated(Ledgered(val, f), f),
                                        {m \in Miners : f[m].copy.naughty}, val.window, "overlap")
                 IN  /\ disk' = SavedAt(judged)
                     /\ val' = [disk' EXCEPT !.window = val.window + 1,
                                             !.scored = @ \union Valid(f)]
    BY Zenon DEF Process
  <1> DEFINE before == Evaluated(Ledgered(val, f), f)
             judged == Sentence(before, {m \in Miners : f[m].copy.naughty}, val.window, "overlap")
  <1>2. /\ DOMAIN before = Fields /\ before.window = val.window
        /\ before.records = val.records /\ before.naughtyUntil = val.naughtyUntil
    BY DEF Evaluated, Ledgered, Shape, Fields
  <1>3. Shape(before) /\ OnRecord(before) /\ Covers(before, disk)
    <2>1. pc # "down"
      BY DEF Process
    <2> QED
      BY <1>2, <2>1, SameSentences DEF Shape
  <1>4. Shape(judged) /\ OnRecord(judged) /\ Covers(judged, before) /\ judged.window = val.window
    <2>1. val.window \in Int
      BY DEF Shape
    <2> QED
      BY <1>2, <1>3, <2>1, SentenceAdds
  <1>5. Covers(judged, disk)
    BY <1>3, <1>4, CoversTransitive
  <1>6. /\ DOMAIN disk' = Fields /\ disk'.window = val.window + 1
        /\ disk'.records = judged.records /\ disk'.naughtyUntil = judged.naughtyUntil
    BY <1>1, <1>4 DEF SavedAt, Shape, Fields
  <1>7. /\ DOMAIN val' = Fields /\ val'.window = val.window + 1
        /\ val'.records = judged.records /\ val'.naughtyUntil = judged.naughtyUntil
    BY <1>1, <1>6 DEF Fields
  <1>8. val.window + 1 \in Int
    BY DEF Shape
  <1>9. /\ Shape(disk)' /\ OnRecord(disk)' /\ Shape(val)' /\ OnRecord(val)'
        /\ Covers(disk', disk)
    BY <1>4, <1>5, <1>6, <1>7, <1>8, SameSentences
  <1>10. Covers(val, disk)'
    <2> HIDE DEF judged
    <2>1. \A m \in Miners : judged.naughtyUntil[m] \in Int
      BY <1>4 DEF Shape
    <2>2. Covers(val', disk')
      BY <1>6, <1>7, <2>1 DEF Covers
    <2> QED
      BY <2>2
  <1>11. DOMAIN work'.weights = {} /\ UNCHANGED head
    BY DEF Process, NoWork
  <1> QED
    BY <1>9, <1>10, <1>11 DEF SentenceServed

\* Nobody inside a sentence has a positive score, so nobody is paid.
LEMMA ScoreKeeps ==
    ASSUME IInv, Score
    PROVE  IInv' /\ UNCHANGED disk
  <1> USE DEF IInv
  <1> DEFINE w == val.window - 1
  <1>1. /\ val' = [val EXCEPT !.since = NextSince(@)]
        /\ UNCHANGED <<head, disk>> /\ pc = "score" /\ pc' = "ingest"
    BY DEF Score
  <1>2. /\ DOMAIN val' = Fields /\ val'.window = val.window
        /\ val'.records = val.records /\ val'.naughtyUntil = val.naughtyUntil
    BY <1>1 DEF Shape, Fields
  <1>3. Shape(val)' /\ OnRecord(val)' /\ Covers(val', disk) /\ Shape(disk)' /\ OnRecord(disk)'
    <2>1. val.window \in Int /\ Covers(val, disk)
      BY <1>1 DEF Shape
    <2> QED
      BY <1>1, <1>2, <2>1, SameSentences
  <1> DEFINE finalOf(skill, slices) ==
                [m \in val.scored |->
                    Apply(val, m, FinalScore(Ordinal(skill, m), val.ema[m].value,
                                             Sync(slices, m)), w)]
  <1>4. PICK skill \in [val.rated -> Skills], slices \in [work.valid -> Slices] :
          \E weights \in IF val.since + 1 >= Cadence
                          THEN Submitted(finalOf(skill, slices)) ELSE {<<>>} :
              work' = [NoWork EXCEPT !.weights = weights,
                          !.positive = {m \in val.scored : finalOf(skill, slices)[m] > 0}]
    BY Zenon DEF Score
  <1> DEFINE final == finalOf(skill, slices)
  <1>5. ASSUME NEW m \in DOMAIN work'.weights PROVE ~IsNaughty(val, m, w)
    <2>1. work'.weights \in Submitted(final) \union {<<>>}
      <3> HIDE DEF finalOf
      <3>1. PICK weights \in Submitted(final) \union {<<>>} :
              work' = [NoWork EXCEPT !.weights = weights,
                          !.positive = {x \in val.scored : final[x] > 0}]
        BY <1>4
      <3> QED
        BY <3>1 DEF NoWork
    <2>2. work'.weights = Weights(final)
      BY <1>5, <2>1 DEF Submitted
    <2>3. m \in val.scored /\ final[m] > 0
      BY <1>5, <2>2, PaidArePositive
    <2> QED
      BY <2>3 DEF Apply
  <1>6. SentenceServed'
    <2> SUFFICES ASSUME NEW r \in val'.records \union disk'.records,
                        r.uid \in DOMAIN work'.weights
                 PROVE  ~(r.window < val'.window - 1 /\ val'.window - 1 < r.until)
      BY DEF SentenceServed
    <2>1. r \in val.records
      BY <1>1, <1>2 DEF Covers
    <2>2. r.until <= val.naughtyUntil[r.uid] /\ r.until \in Int /\ r.uid \in Miners
      BY <2>1 DEF OnRecord, Shape
    <2>3. ~(val.window - 1 < val.naughtyUntil[r.uid])
      BY <1>5 DEF IsNaughty
    <2> QED
      BY <1>2, <2>2, <2>3 DEF Shape
  <1> QED
    BY <1>1, <1>3, <1>6

\* Convictions join the ledger, and are saved at once.
LEMMA IngestKeeps ==
    ASSUME IInv, Ingest
    PROVE  IInv' /\ Covers(disk', disk)
  <1> USE DEF IInv
  <1>1. PICK guilty \in SUBSET Miners : val' = Sentence(val, guilty, val.window - 1, "audit")
    BY DEF Ingest
  <1>2. UNCHANGED head /\ disk' = val' /\ pc = "ingest" /\ pc' = "idle" /\ work' = NoWork
    BY DEF Ingest
  <1>3. val.window - 1 \in Int
    BY DEF Shape
  <1>4. Shape(val)' /\ OnRecord(val)' /\ Covers(val', val)
    BY <1>1, <1>3, SentenceAdds
  <1>5. Covers(val', disk)
    BY <1>2, <1>4, CoversTransitive
  <1>6. Covers(val', val')
    BY <1>4 DEF Covers, Shape
  <1>7. DOMAIN work'.weights = {}
    BY <1>2 DEF NoWork
  <1> QED
    BY <1>2, <1>4, <1>5, <1>6, <1>7 DEF SentenceServed

\* What goes down comes back with what the file says.
LEMMA RestartKeeps ==
    ASSUME IInv, Restart
    PROVE  IInv' /\ UNCHANGED disk
  <1> USE DEF IInv
  <1>1. val' \in {Loaded, [Loaded EXCEPT !.window = 0]} /\ UNCHANGED <<head, work, disk>>
        /\ pc = "down" /\ pc' = "idle"
    BY DEF Restart
  <1>2. /\ DOMAIN Loaded = Fields /\ Loaded.window = disk.window
        /\ Loaded.records = disk.records /\ Loaded.naughtyUntil = disk.naughtyUntil
    BY DEF Loaded, LedgerLoaded, BookLoaded, EmaLoaded, Fresh, Fields
  <1>3. /\ DOMAIN val' = Fields /\ val'.window \in Int
        /\ val'.records = disk.records /\ val'.naughtyUntil = disk.naughtyUntil
    BY <1>1, <1>2 DEF Shape, Fields
  <1>4. Shape(val)' /\ OnRecord(val)'
    BY <1>3, SameSentences
  <1>5. Covers(val', disk)
    BY <1>3 DEF Covers, Shape
  <1> QED
    BY <1>1, <1>4, <1>5 DEF SentenceServed

LEMMA StepKeeps ==
    IInv /\ [Next]_vars => IInv' /\ Covers(disk', disk)
  <1> SUFFICES ASSUME IInv, [Next]_vars PROVE IInv' /\ Covers(disk', disk)
    OBVIOUS
  <1>1. Covers(disk, disk)
    BY DEF IInv, Covers, Shape
  <1>2. CASE Process
    BY <1>2, ProcessKeeps
  <1>3. CASE Score
    BY <1>1, <1>3, ScoreKeeps
  <1>4. CASE Ingest
    BY <1>4, IngestKeeps
  <1>5. CASE Restart
    BY <1>1, <1>5, RestartKeeps
  <1>6. CASE SkipAhead
    <2>1. /\ val' = [val EXCEPT !.window = head - 1] /\ UNCHANGED <<disk, pc, work>>
          /\ pc = "idle" /\ head - 1 - val.window >= SkipAfter
      BY <1>6 DEF SkipAhead, FarBehind
    <2>2. /\ DOMAIN val' = Fields /\ val'.window \in Int /\ head' \in Int
          /\ val'.records = val.records /\ val'.naughtyUntil = val.naughtyUntil
      BY <1>6, <2>1 DEF SkipAhead, IInv, Shape, Fields
    <2>3. Shape(val)' /\ OnRecord(val)' /\ Covers(val', disk)
      BY <2>1, <2>2, SameSentences DEF IInv
    <2>4. SentenceServed'
      BY <2>1 DEF IInv, SentenceServed
    <2> QED
      BY <1>1, <2>1, <2>2, <2>3, <2>4 DEF IInv
  <1>7. CASE BucketOutage \/ Crash
    <2>1. val' = Fresh /\ work' = NoWork /\ UNCHANGED <<head, disk>> /\ pc' = "down"
      BY <1>7 DEF BucketOutage, Crash
    <2>2. Shape(Fresh) /\ OnRecord(Fresh) /\ DOMAIN NoWork.weights = {}
      BY DEF Fresh, Shape, OnRecord, Fields, NoWork
    <2> QED
      BY <1>1, <2>1, <2>2 DEF IInv, SentenceServed
  <1>9. CASE Stop
    <2>1. /\ disk' = val /\ val' = Fresh /\ UNCHANGED <<head, work>>
          /\ pc = "idle" /\ pc' = "down"
      BY <1>9 DEF Stop
    <2>2. Shape(Fresh) /\ OnRecord(Fresh)
      BY DEF Fresh, Shape, OnRecord, Fields
    <2>3. Covers(disk', disk) /\ DOMAIN work'.weights = {}
      BY <2>1 DEF IInv
    <2> QED
      BY <2>1, <2>2, <2>3 DEF IInv, SentenceServed
  <1>10. CASE SkipVoid
    <2>1. val' = [val EXCEPT !.window = @ + 1] /\ UNCHANGED <<head, disk, pc, work>> /\ pc = "idle"
      BY <1>10 DEF SkipVoid
    <2>2. /\ DOMAIN val' = Fields /\ val'.window \in Int
          /\ val'.records = val.records /\ val'.naughtyUntil = val.naughtyUntil
      BY <2>1 DEF IInv, Shape, Fields
    <2>3. Shape(val)' /\ OnRecord(val)' /\ Covers(val', disk)
      BY <2>1, <2>2, SameSentences DEF IInv
    <2>4. SentenceServed'
      BY <2>1 DEF IInv, SentenceServed
    <2> QED
      BY <1>1, <2>1, <2>2, <2>3, <2>4 DEF IInv
  <1>8. CASE CloseWindow \/ UNCHANGED vars
    <2>1. UNCHANGED <<val, pc, work, disk>> /\ head' \in Int
      BY <1>8 DEF CloseWindow, vars, IInv
    <2> QED
      BY <1>1, <2>1 DEF IInv, SentenceServed
  <1> QED
    BY <1>2, <1>3, <1>4, <1>5, <1>6, <1>7, <1>8, <1>9, <1>10 DEF Next

-----------------------------------------------------------------------------
\* While a sentence runs, its miner is not paid, whatever was forgotten and
\* read again in between (SlashLedger.apply, ValidatorState).
THEOREM SentenceServedHolds == Spec => []SentenceServed
  <1>1. IInv => SentenceServed
    BY DEF IInv
  <1> QED
    BY <1>1, InitInvariant, StepKeeps, PTL DEF Spec

\* No step takes a sentence out of the state file or shortens one there.
THEOREM SentencesKeptHolds == Spec => SentencesKept
  <1>1. IInv /\ [Next]_vars =>
            [/\ disk.records \subseteq disk'.records
             /\ \A m \in Miners : disk.naughtyUntil[m] <= disk'.naughtyUntil[m]]_vars
    BY StepKeeps DEF Covers
  <1> QED
    BY <1>1, InitInvariant, StepKeeps, PTL DEF Spec, SentencesKept

-----------------------------------------------------------------------------
\* Every window that counts in v's EMA is behind w.
Before(v, w) == \A m \in Miners : \A x \in v.ema[m].counted : x < w

EmaShape(v) == DOMAIN v.ema = Miners /\ \A m \in Miners : v.ema[m].counted \subseteq Int

NoneCounted(v) == \A m \in Miners : v.ema[m].counted = {}

\* What counts is behind the resume point, in memory and on disk, and nothing
\* counts while a restart would go back to window 0.
FoldInv ==
    /\ EmaShape(val) /\ EmaShape(disk)
    /\ Before(disk, disk.window)
    /\ pc # "down" => Before(val, val.window)
    /\ ~ckpt => NoneCounted(disk) /\ NoneCounted(val)

LEMMA FreshFolds == EmaShape(Fresh) /\ Before(Fresh, Fresh.window) /\ NoneCounted(Fresh)
  BY DEF EmaShape, Before, NoneCounted, Fresh, Unseen

LEMMA InitFolds == Init => FoldInv
  BY FreshFolds DEF Init, FoldInv

\* A sentence leaves the resume point and the EMA alone.
LEMMA SentenceFoldsNothing ==
    ASSUME NEW v, Shape(v), NEW S, NEW w, NEW reason
    PROVE  LET s == Sentence(v, S, w, reason)
           IN  DOMAIN s = Fields /\ s.window = v.window /\ s.ema = v.ema
  BY DEF Sentence, Shape, Fields

\* The window that is folded is the one the resume point leaves behind.
LEMMA ProcessFolds == ASSUME IInv, FoldInv, Process PROVE FoldInv'
  <1> USE DEF IInv
  <1>1. PICK f : LET judged == Sentence(Evaluated(Ledgered(val, f), f),
                                        {m \in Miners : f[m].copy.naughty}, val.window, "overlap")
                 IN  /\ disk' = SavedAt(judged)
                     /\ val' = [disk' EXCEPT !.window = val.window + 1,
                                             !.scored = @ \union Valid(f)]
    BY Zenon DEF Process
  <1> DEFINE before == Evaluated(Ledgered(val, f), f)
             judged == Sentence(before, {m \in Miners : f[m].copy.naughty}, val.window, "overlap")
  <1>2. /\ DOMAIN before = Fields /\ before.window = val.window
        /\ before.records = val.records /\ before.naughtyUntil = val.naughtyUntil
        /\ DOMAIN before.ema = Miners
        /\ \A m \in Miners : before.ema[m].counted \subseteq
                                val.ema[m].counted \union IF ckpt THEN {val.window} ELSE {}
    BY DEF Evaluated, Ledgered, Shape, Fields
  <1>3. Shape(before)
    BY <1>2 DEF Shape
  <1>4. DOMAIN judged = Fields /\ judged.window = val.window /\ judged.ema = before.ema
    <2> HIDE DEF before
    <2> QED
      BY <1>2, <1>3, SentenceFoldsNothing
  <1>5. DOMAIN disk' = Fields /\ disk'.window = val.window + 1 /\ disk'.ema = before.ema
    <2> HIDE DEF before, judged
    <2>1. disk' = SavedAt(judged)
      BY <1>1 DEF before, judged
    <2> QED
      BY <1>4, <2>1 DEF SavedAt, Fields
  <1>6. val'.window = val.window + 1 /\ val'.ema = before.ema
    <2> HIDE DEF before
    <2> QED
      BY <1>1, <1>5 DEF Fields
  <1> HIDE DEF before, judged
  <1>7. val.window \in Int
    BY DEF Shape
  <1>8. EmaShape(val)' /\ EmaShape(disk)'
    BY <1>2, <1>5, <1>6, <1>7 DEF FoldInv, EmaShape
  <1>9. pc = "idle" /\ pc' = "score" /\ UNCHANGED ckpt
    BY DEF Process
  <1>10. Before(disk, disk.window)' /\ Before(val, val.window)'
    <2>1. \A m \in Miners : \A x \in val.ema[m].counted : x < val.window + 1
      BY <1>7, <1>9 DEF FoldInv, Before, EmaShape
    <2>2. \A m \in Miners : \A x \in before.ema[m].counted : x < val.window + 1
      BY <1>2, <1>7, <2>1
    <2> QED
      BY <1>5, <1>6, <2>2 DEF Before
  <1>11. ~ckpt => NoneCounted(disk)' /\ NoneCounted(val)'
    BY <1>2, <1>5, <1>6 DEF FoldInv, NoneCounted
  <1> QED
    BY <1>8, <1>9, <1>10, <1>11 DEF FoldInv

LEMMA IngestFolds == ASSUME IInv, FoldInv, Ingest PROVE FoldInv'
  <1>1. PICK guilty \in SUBSET Miners : val' = Sentence(val, guilty, val.window - 1, "audit")
    BY DEF Ingest
  <1>2. UNCHANGED <<ckpt>> /\ disk' = val' /\ pc = "ingest" /\ pc' = "idle"
    BY DEF Ingest
  <1>3. val'.window = val.window /\ val'.ema = val.ema
    BY <1>1, SentenceFoldsNothing DEF IInv
  <1> QED
    BY <1>2, <1>3 DEF FoldInv, EmaShape, Before, NoneCounted

\* Who has no checkpoint starts over, and nothing of what it folded counts.
LEMMA RestartFolds == ASSUME IInv, FoldInv, Restart PROVE FoldInv'
  <1>1. /\ pc' = "idle" /\ UNCHANGED <<ckpt, disk>>
        /\ val' = IF ckpt THEN Loaded ELSE [Loaded EXCEPT !.window = 0]
    BY DEF Restart
  <1>2. DOMAIN Loaded = Fields /\ Loaded.window = disk.window /\ Loaded.ema = disk.ema
    BY DEF Loaded, LedgerLoaded, BookLoaded, EmaLoaded, Fresh, Fields
  <1>3. val'.ema = disk.ema /\ (ckpt => val'.window = disk.window)
    BY <1>1, <1>2 DEF Fields
  <1>4. EmaShape(val)' /\ EmaShape(disk)' /\ (~ckpt => NoneCounted(val)' /\ NoneCounted(disk)')
    BY <1>1, <1>3 DEF FoldInv, EmaShape, NoneCounted
  <1>5. Before(disk, disk.window)' /\ Before(val, val.window)'
    BY <1>1, <1>3, <1>4 DEF FoldInv, Before, NoneCounted
  <1> QED
    BY <1>1, <1>4, <1>5 DEF FoldInv

LEMMA StepFolds == IInv /\ FoldInv /\ [Next]_vars => FoldInv'
  <1> SUFFICES ASSUME IInv, FoldInv, [Next]_vars PROVE FoldInv'
    OBVIOUS
  <1>1. CASE Process
    BY <1>1, ProcessFolds
  <1>2. CASE Score
    <2>1. /\ val' = [val EXCEPT !.since = NextSince(@)] /\ UNCHANGED disk
          /\ pc = "score" /\ pc' = "ingest" /\ (ckpt => ckpt')
      BY <1>2 DEF Score, Checkpointed
    <2>2. val'.window = val.window /\ val'.ema = val.ema
      BY <2>1 DEF IInv, Shape, Fields
    <2> QED
      BY <2>1, <2>2 DEF FoldInv, EmaShape, Before, NoneCounted
  <1>3. CASE Ingest
    BY <1>3, IngestFolds
  <1>4. CASE Restart
    BY <1>4, RestartFolds
  <1>5. CASE SkipAhead \/ SkipVoid
    <2>1. PICK x \in Int : x > val.window /\ val' = [val EXCEPT !.window = x]
      <3>1. val.window \in Int /\ head \in Int /\ SkipAfter \in Nat \ {0}
        BY NumbersOK DEF IInv, Shape
      <3>2. CASE SkipAhead
        <4>1. val' = [val EXCEPT !.window = head - 1] /\ head - 1 > val.window
          BY <3>1, <3>2 DEF SkipAhead, FarBehind
        <4> QED
          BY <3>1, <4>1
      <3>3. CASE SkipVoid
        <4>1. val' = [val EXCEPT !.window = val.window + 1] /\ val.window + 1 > val.window
          BY <3>1, <3>3 DEF SkipVoid
        <4> QED
          BY <3>1, <4>1
      <3> QED
        BY <1>5, <3>2, <3>3
    <2>2. val'.ema = val.ema /\ val'.window > val.window /\ val'.window \in Int /\ val.window \in Int
      BY <2>1 DEF IInv, Shape, Fields
    <2>3. UNCHANGED <<ckpt, disk, pc>> /\ pc = "idle"
      BY <1>5 DEF SkipAhead, SkipVoid
    <2>4. Before(val, val.window)'
      BY <2>2, <2>3 DEF FoldInv, Before, EmaShape
    <2> QED
      BY <2>2, <2>3, <2>4 DEF FoldInv, EmaShape, NoneCounted
  <1>6. CASE BucketOutage \/ Crash
    <2>1. val' = Fresh /\ UNCHANGED <<ckpt, disk>> /\ pc' = "down"
      BY <1>6 DEF BucketOutage, Crash
    <2> QED
      BY <2>1, FreshFolds DEF FoldInv, EmaShape, Before, NoneCounted
  <1>7. CASE Stop
    <2>1. val' = Fresh /\ disk' = val /\ UNCHANGED ckpt /\ pc = "idle" /\ pc' = "down"
      BY <1>7 DEF Stop
    <2> QED
      BY <2>1, FreshFolds DEF FoldInv, EmaShape, Before, NoneCounted
  <1>8. CASE CloseWindow \/ UNCHANGED vars
    BY <1>8 DEF CloseWindow, vars, FoldInv, EmaShape, Before, NoneCounted
  <1> QED
    BY <1>1, <1>2, <1>3, <1>4, <1>5, <1>6, <1>7, <1>8 DEF Next

\* Once a validator has a checkpoint of its own, each window it evaluates counts
\* once in a miner's EMA, wherever it crashes between the evaluation, the two
\* saves of a window and the next checkpoint, and whatever it skips
\* (ValidatorApp.run, process_window, ValidatorState).
THEOREM FoldedOnceHolds == Spec => []FoldedOnce
  <1>1. IInv /\ FoldInv => FoldedOnce
    BY DEF IInv, Shape, FoldInv, FoldedOnce, Before
  <1> QED
    BY <1>1, InitInvariant, StepKeeps, InitFolds, StepFolds, PTL DEF Spec

-----------------------------------------------------------------------------
(***************************************************************************)
(* Folds of sequences (FoldLeft).  One that takes a step for every index   *)
(* exists (FoldExists), and stays where its steps stay (FoldStays).  The   *)
(* argument is a least counterexample (LeastNatural).                      *)
(***************************************************************************)
LEMMA LeastNatural ==
    ASSUME NEW S, S \subseteq Nat, S # {}
    PROVE  \E m \in S : \A x \in S : m <= x
  <1> DEFINE Less == {p \in Nat \X Nat : p[1] < p[2]}
  <1>1. IsWellFoundedOn(Less, Nat)
    BY NatLessThanWellFounded DEF OpToRel
  <1> HIDE DEF Less
  <1>2. PICK m \in S : \A y \in S : <<y, m>> \notin Less
    BY <1>1, WFMin
  <1>3. \A x \in S : m \in Nat /\ x \in Nat /\ ~(x < m)
    BY <1>2 DEF Less
  <1> QED
    BY <1>3

\* Of some numbers up to N one is the last.
LEMMA LastOf ==
    ASSUME NEW N \in Nat, NEW S, S \subseteq 1 .. N, S # {}
    PROVE  Max(S) \in S /\ \A x \in S : x <= Max(S)
  <1> DEFINE R == {k \in Nat : N - k \in S}
  <1>1. R # {}
    <2>1. PICK x \in S : TRUE
      OBVIOUS
    <2>2. N - x \in Nat /\ N - (N - x) = x
      OBVIOUS
    <2> QED
      BY <2>1, <2>2
  <1>2. PICK m \in R : \A y \in R : m <= y
    <2> HIDE DEF R
    <2>1. R \subseteq Nat
      BY DEF R
    <2> QED
      BY <1>1, <2>1, LeastNatural
  <1>3. N - m \in S /\ m \in Nat
    BY <1>2
  <1>4. \A x \in S : N - m >= x
    <2> TAKE x \in S
    <2>1. x \in 1 .. N
      OBVIOUS
    <2>2. N - x \in Nat /\ N - (N - x) = x
      BY <2>1
    <2>3. m <= N - x
      BY <1>2, <2>2
    <2> QED
      BY <1>3, <2>1, <2>3
  <1>5. Max(S) \in S /\ \A x \in S : Max(S) >= x
    BY <1>3, <1>4 DEF Max
  <1>6. \A x \in S : x \in Int
    OBVIOUS
  <1> QED
    BY <1>5, <1>6

LEMMA TopIsMax ==
    ASSUME NEW k \in Nat, NEW s, s \subseteq 1 .. k, k \in s
    PROVE  Max(s) = k
  <1>1. Max(s) \in s /\ k <= Max(s)
    BY LastOf
  <1>2. Max(s) \in 1 .. k
    BY <1>1
  <1> QED
    BY <1>1, <1>2

\* A fold of the indices 1 .. n from their last: by equation, and by a function
\* of the index and the value so far.
FoldsBy(h, n, base, step) ==
    \A s \in SUBSET (1 .. n) :
        h[s] = IF s = {} THEN base ELSE step[<<Max(s), h[s \ {Max(s)}]>>]

\* Such a fold exists.
LEMMA FoldExists ==
    ASSUME NEW n \in Nat, NEW X, NEW base \in X, NEW step,
           \A i \in 1 .. n : \A x \in X : step[<<i, x>>] \in X
    PROVE  \E h \in [SUBSET (1 .. n) -> X] : FoldsBy(h, n, base, step)
  <1> DEFINE Good(k) == \E h \in [SUBSET (1 .. k) -> X] : FoldsBy(h, k, base, step)
             Bad == {k \in 0 .. n : ~Good(k)}
  <1>1. n \in 0 .. n
    OBVIOUS
  <1>2. SUFFICES ASSUME Bad # {} PROVE FALSE
    BY <1>1
  <1>3. PICK k \in Bad : \A y \in Bad : ~(y < k)
    <2>1. Bad \subseteq Nat
      OBVIOUS
    <2> HIDE DEF Bad
    <2>2. PICK k \in Bad : \A y \in Bad : k <= y
      BY <1>2, <2>1, LeastNatural
    <2> QED
      BY <2>1, <2>2
  <1>4. k # 0
    <2> DEFINE h == [s \in SUBSET (1 .. 0) |-> base]
    <2>1. 1 .. 0 = {} /\ SUBSET (1 .. 0) = {{}}
      OBVIOUS
    <2>2. h \in [SUBSET (1 .. 0) -> X] /\ FoldsBy(h, 0, base, step)
      BY <2>1 DEF FoldsBy
    <2>3. Good(0)
      BY <2>2
    <2> QED
      BY <2>3
  <1>5. k - 1 \in 0 .. n /\ Good(k - 1)
    <2>1. k \in 0 .. n /\ k - 1 \in 0 .. n /\ k - 1 < k
      BY <1>3, <1>4
    <2>2. k - 1 \notin Bad
      BY <1>3, <2>1
    <2> HIDE DEF Good
    <2> QED
      BY <2>1, <2>2
  <1>6. PICK g \in [SUBSET (1 .. k - 1) -> X] : FoldsBy(g, k - 1, base, step)
    BY <1>5
  <1> DEFINE h == [s \in SUBSET (1 .. k) |-> IF k \in s THEN step[<<k, g[s \ {k}]>>] ELSE g[s]]
  <1>7. ASSUME NEW s \in SUBSET (1 .. k)
        PROVE  /\ s \ {k} \in SUBSET (1 .. k - 1) /\ (k \notin s => s \in SUBSET (1 .. k - 1))
               /\ (k \in s => Max(s) = k)
    <2>1. k \in Nat
      BY <1>3
    <2>2. ASSUME k \in s PROVE Max(s) = k
      BY <2>1, <2>2, TopIsMax
    <2> QED
      BY <2>1, <2>2
  <1>8. h \in [SUBSET (1 .. k) -> X]
    BY <1>3, <1>7
  <1>9. ASSUME NEW s \in SUBSET (1 .. k)
        PROVE  h[s] = IF s = {} THEN base ELSE step[<<Max(s), h[s \ {Max(s)}]>>]
    <2>1. CASE k \in s
      <3>1. h[s] = step[<<k, g[s \ {k}]>>] /\ Max(s) = k
        BY <2>1, <1>7
      <3>2. h[s \ {k}] = g[s \ {k}]
        BY <1>7
      <3> QED
        BY <2>1, <3>1, <3>2
    <2>2. CASE k \notin s
      <3>1. s \in SUBSET (1 .. k - 1) /\ h[s] = g[s]
        BY <2>2, <1>7
      <3>2. h[s \ {Max(s)}] = g[s \ {Max(s)}]
        BY <2>2, <3>1
      <3> QED
        BY <3>1, <3>2, <1>6 DEF FoldsBy
    <2> QED
      BY <2>1, <2>2
  <1>10. Good(k)
    <2> HIDE DEF h
    <2> QED
      BY <1>8, <1>9 DEF FoldsBy
  <1> QED
    BY <1>3, <1>10

\* What folds by steps within X stays in X.
LEMMA FoldStays ==
    ASSUME NEW n \in Nat, NEW X, NEW base \in X, NEW step, NEW g,
           \A i \in 1 .. n : \A x \in X : step[<<i, x>>] \in X,
           \A s \in SUBSET (1 .. n) :
               /\ s = {} => g[s] = base
               /\ s # {} /\ g[s \ {Max(s)}] \in X => g[s] = step[<<Max(s), g[s \ {Max(s)}]>>]
    PROVE  \A s \in SUBSET (1 .. n) : g[s] \in X
  <1> DEFINE Bad == {k \in 0 .. n : \E s \in SUBSET (1 .. k) : g[s] \notin X}
  <1>1. n \in 0 .. n
    OBVIOUS
  <1>2. SUFFICES ASSUME Bad # {} PROVE FALSE
    BY <1>1
  <1>3. PICK k \in Bad : \A y \in Bad : ~(y < k)
    <2>1. Bad \subseteq Nat
      OBVIOUS
    <2> HIDE DEF Bad
    <2>2. PICK k \in Bad : \A y \in Bad : k <= y
      BY <1>2, <2>1, LeastNatural
    <2> QED
      BY <2>1, <2>2
  <1>4. PICK s \in SUBSET (1 .. k) : g[s] \notin X
    BY <1>3
  <1>5. s \in SUBSET (1 .. n) /\ k \in 0 .. n
    BY <1>3, <1>4
  <1>6. s # {}
    BY <1>4, <1>5
  <1>7. Max(s) \in s /\ \A x \in s : x <= Max(s)
    BY <1>5, <1>6, LastOf
  <1>8. Max(s) \in 1 .. k /\ s \ {Max(s)} \in SUBSET (1 .. Max(s) - 1)
    <2>1. Max(s) \in 1 .. k
      BY <1>4, <1>7
    <2>2. ASSUME NEW x \in s, x # Max(s) PROVE x \in 1 .. Max(s) - 1
      <3>1. x \in Nat /\ x >= 1 /\ x <= Max(s) /\ Max(s) \in Nat
        BY <1>4, <1>7, <2>1
      <3> QED
        BY <2>2, <3>1
    <2> QED
      BY <2>1, <2>2
  <1>9. Max(s) - 1 \in 0 .. n /\ Max(s) - 1 < k
    BY <1>5, <1>8
  <1>10. g[s \ {Max(s)}] \in X
    <2>1. Max(s) - 1 \notin Bad
      BY <1>3, <1>9
    <2> QED
      BY <2>1, <1>8, <1>9
  <1>11. g[s] = step[<<Max(s), g[s \ {Max(s)}]>>] /\ Max(s) \in 1 .. n
    BY <1>5, <1>6, <1>7, <1>10
  <1> QED
    BY <1>4, <1>10, <1>11

-----------------------------------------------------------------------------
(***************************************************************************)
(* The range of a window's scores: multipliers, the ladder and its u16     *)
(* rounding.                                                               *)
(***************************************************************************)
\* The list of a finite set.
LEMMA ListOfSet ==
    ASSUME NEW S, IsFiniteSet(S)
    PROVE  SetToSeq(S) \in [1 .. Cardinality(S) -> S] /\ Cardinality(S) \in Nat
  <1>1. Cardinality(S) \in Nat /\ ExistsBijection(1 .. Cardinality(S), S)
    BY FS_NatBijection, FS_CardinalityType
  <1>2. PICK f : f \in Bijection(1 .. Cardinality(S), S)
    BY <1>1 DEF ExistsBijection
  <1>3. f \in [1 .. Cardinality(S) -> S] /\ \A a, b \in 1 .. Cardinality(S) : f[a] = f[b] => a = b
    BY <1>2 DEF Bijection, Injection, IsInjective
  <1>4. IsInjective(f)
    BY <1>3 DEF IsInjective
  <1>5. \E g \in [1 .. Cardinality(S) -> S] : IsInjective(g)
    BY <1>3, <1>4
  <1>6. SetToSeq(S) \in [1 .. Cardinality(S) -> S]
    BY <1>5 DEF SetToSeq
  <1> QED
    BY <1>1, <1>6

Parts == 0 .. Whole

\* A part of a part is a part of the whole.
LEMMA PartOfPart ==
    ASSUME NEW x \in Parts, NEW y \in Parts
    PROVE  (x * y) \div Whole \in Parts
  <1>1. x * y \in Nat /\ x * y <= 32 * 32
    <2>1. x \in 0 .. 32 /\ y \in 0 .. 32
      BY DEF Parts, Whole
    <2>2. x * y <= 32 * y /\ x * y >= 0
      BY <2>1, SMTT(20)
    <2> QED
      BY <2>1, <2>2
  <1>2. \A z \in Nat : z <= 32 * 32 => z \div 32 \in 0 .. 32
    BY SMTT(20)
  <1> QED
    BY <1>1, <1>2 DEF Parts, Whole

LEMMA SeverityIsPart ==
    ASSUME NEW overlap PROVE Severity(overlap).mult \in Parts
  <1>1. Whole \in Nat /\ 0 \in Parts /\ Whole \div 2 \in Parts /\ Whole \in Parts
    BY DEF Parts, Whole
  <1>2. Severity(overlap) \in {[mult |-> 0, naughty |-> TRUE], [mult |-> 0, naughty |-> FALSE],
                    [mult |-> Whole \div 2, naughty |-> FALSE], [mult |-> Whole, naughty |-> FALSE]}
    <2> DEFINE a == Reaches(overlap, 6)  b == Reaches(overlap, 5)  c == Reaches(overlap, 4)
    <2>1. a \in BOOLEAN /\ b \in BOOLEAN /\ c \in BOOLEAN
      BY DEF Reaches
    <2>2. Severity(overlap) = CASE a -> [mult |-> 0, naughty |-> TRUE]
      [] b /\ ~a -> [mult |-> 0, naughty |-> FALSE]
      [] c /\ ~b -> [mult |-> Whole \div 2, naughty |-> FALSE]
      [] ~c -> [mult |-> Whole, naughty |-> FALSE]
      BY DEF Severity
    <2> HIDE DEF a, b, c
    <2> QED
      BY <2>1, <2>2
  <1> QED
    BY <1>1, <1>2

\* Whatever the payloads, the product of a miner's multipliers is a part.
LEMMA CopiesArePart ==
    ASSUME NEW payload, NEW at, NEW m, m \in DOMAIN payload, DOMAIN payload \subseteq Miners
    PROVE  Sanctioned(payload, at)[m].mult \in Parts
  <1> DEFINE U == DOMAIN payload
             blamed == {p \in U \X U : p[1] < p[2] /\ Offender(p[1], p[2], at) = m}
             M(p) == Severity(PairOverlap(payload[p[1]], payload[p[2]])).mult
             q == SetToSeq(blamed)
             n == Cardinality(blamed)
             body(g) == [s \in SUBSET DOMAIN q |->
                            IF s = {} THEN Whole
                            ELSE (g[s \ {Max(s)}] * M(q[Max(s)])) \div Whole]
             iter == CHOOSE g : g = body(g)
             step == [y \in (1 .. n) \X Parts |-> (y[2] * M(q[y[1]])) \div Whole]
  <1>1. Sanctioned(payload, at)[m].mult = iter[DOMAIN q]
    BY DEF Sanctioned, FoldLeft, MapThenFoldSet
  <1>2. n \in Nat /\ DOMAIN q = 1 .. n
    <2>1. IsFiniteSet(U \X U)
      BY ScoringNumbersOK, FS_Subset, FS_Product
    <2>2. IsFiniteSet(blamed)
      BY <2>1, FS_Subset
    <2> HIDE DEF blamed
    <2>3. q \in [1 .. n -> blamed] /\ n \in Nat
      BY <2>2, ListOfSet
    <2> QED
      BY <2>3
  <1>3. \A p : M(p) \in Parts
    BY SeverityIsPart
  <1> HIDE DEF M, q, n
  <1>4. \A i \in 1 .. n : \A x \in Parts :
            step[<<i, x>>] = (x * M(q[i])) \div Whole /\ step[<<i, x>>] \in Parts
    BY <1>3, PartOfPart
  <1> HIDE DEF step
  <1>5. Whole \in Parts
    BY DEF Parts, Whole
  <1>6. PICK h \in [SUBSET (1 .. n) -> Parts] : FoldsBy(h, n, Whole, step)
    BY <1>2, <1>4, <1>5, FoldExists
  <1>7. h = body(h)
    <2>1. ASSUME NEW s \in SUBSET (1 .. n)
          PROVE  h[s] = IF s = {} THEN Whole ELSE (h[s \ {Max(s)}] * M(q[Max(s)])) \div Whole
      <3>1. CASE s = {}
        BY <3>1, <1>6 DEF FoldsBy
      <3>2. CASE s # {}
        <4>1. Max(s) \in 1 .. n
          BY <1>2, <3>2, LastOf
        <4>2. h[s \ {Max(s)}] \in Parts
          BY <1>6
        <4>3. h[s] = step[<<Max(s), h[s \ {Max(s)}]>>]
          BY <3>2, <1>6 DEF FoldsBy
        <4> QED
          BY <3>2, <4>1, <4>2, <4>3, <1>4
      <3> QED
        BY <3>1, <3>2
    <2> QED
      BY <1>2, <1>6, <2>1
  <1>8. iter = body(iter)
    <2> HIDE DEF body
    <2> QED
      BY <1>7
  <1> HIDE DEF iter
  <1>9. ASSUME NEW s \in SUBSET (1 .. n)
        PROVE  /\ s = {} => iter[s] = Whole
               /\ s # {} /\ iter[s \ {Max(s)}] \in Parts => iter[s] = step[<<Max(s), iter[s \ {Max(s)}]>>]
    <2>1. iter[s] = IF s = {} THEN Whole ELSE (iter[s \ {Max(s)}] * M(q[Max(s)])) \div Whole
      BY <1>2, <1>8
    <2>2. s # {} => Max(s) \in 1 .. n
      BY <1>2, LastOf
    <2> QED
      BY <2>1, <2>2, <1>4
  <1>10. \A s \in SUBSET (1 .. n) : iter[s] \in Parts
    BY <1>2, <1>4, <1>5, <1>9, FoldStays
  <1> QED
    BY <1>1, <1>2, <1>10

\* A sum of naturals, the last not zero, is not zero.
LEMMA TotalIsPositive ==
    ASSUME NEW n \in Nat \ {0}, NEW p \in [1 .. n -> Nat], p[n] > 0
    PROVE  Total(p) \in Nat \ {0}
  <1> DEFINE body(g) == [s \in SUBSET DOMAIN p |->
                            IF s = {} THEN 0 ELSE g[s \ {Max(s)}] + p[Max(s)]]
             iter == CHOOSE g : g = body(g)
             step == [y \in (1 .. n) \X Nat |-> y[2] + p[y[1]]]
  <1>1. Total(p) = iter[DOMAIN p]
    BY DEF Total, FoldLeft, MapThenFoldSet
  <1>2. DOMAIN p = 1 .. n /\ n \in Nat
    OBVIOUS
  <1>3. \A i \in 1 .. n : \A x \in Nat :
            step[<<i, x>>] = x + p[i] /\ step[<<i, x>>] \in Nat
    OBVIOUS
  <1> HIDE DEF step
  <1>4. PICK h \in [SUBSET (1 .. n) -> Nat] : FoldsBy(h, n, 0, step)
    BY <1>2, <1>3, FoldExists
  <1>5. h = body(h)
    <2>1. ASSUME NEW s \in SUBSET (1 .. n)
          PROVE  h[s] = IF s = {} THEN 0 ELSE h[s \ {Max(s)}] + p[Max(s)]
      <3>1. CASE s = {}
        BY <3>1, <1>4 DEF FoldsBy
      <3>2. CASE s # {}
        <4>1. Max(s) \in 1 .. n
          BY <1>2, <3>2, LastOf
        <4>2. h[s \ {Max(s)}] \in Nat
          BY <1>4
        <4>3. h[s] = step[<<Max(s), h[s \ {Max(s)}]>>]
          BY <3>2, <1>4 DEF FoldsBy
        <4> QED
          BY <3>2, <4>1, <4>2, <4>3, <1>3
      <3> QED
        BY <3>1, <3>2
    <2> QED
      BY <1>2, <1>4, <2>1
  <1>6. iter = body(iter)
    <2> HIDE DEF body
    <2> QED
      BY <1>5
  <1> HIDE DEF iter
  <1>7. ASSUME NEW s \in SUBSET (1 .. n)
        PROVE  iter[s] = IF s = {} THEN 0 ELSE iter[s \ {Max(s)}] + p[Max(s)]
    BY <1>2, <1>6
  <1>8. ASSUME NEW s \in SUBSET (1 .. n)
        PROVE  /\ s = {} => iter[s] = 0
               /\ s # {} /\ iter[s \ {Max(s)}] \in Nat => iter[s] = step[<<Max(s), iter[s \ {Max(s)}]>>]
    <2>1. s # {} => Max(s) \in 1 .. n
      BY <1>2, LastOf
    <2> QED
      BY <2>1, <1>3, <1>7
  <1>9. \A s \in SUBSET (1 .. n) : iter[s] \in Nat
    <2>1. 0 \in Nat /\ \A i \in 1 .. n : \A x \in Nat : step[<<i, x>>] \in Nat
      BY <1>3
    <2> HIDE DEF body
    <2> QED
      BY <1>2, <1>8, <2>1, FoldStays
  <1>10. iter[1 .. n] = iter[(1 .. n) \ {n}] + p[n]
    <2>1. Max(1 .. n) = n /\ 1 .. n # {}
      BY TopIsMax
    <2> QED
      BY <1>7, <2>1
  <1>11. iter[(1 .. n) \ {n}] \in Nat /\ p[n] \in Nat \ {0}
    BY <1>9
  <1> HIDE DEF body
  <1> QED
    BY <1>1, <1>2, <1>10, <1>11

\* The reserve profile falls from its first weight, and none is zero.
LEMMA GeometricFalls ==
    ASSUME NEW n \in Nat
    PROVE  /\ Geometric(n) \in [1 .. n -> Nat \ {0}]
           /\ \A i \in 1 .. n : Geometric(n)[i] <= Geometric(n)[1]
  <1> DEFINE body(g) == [k \in 0 .. n |-> IF k = 0 THEN 1 ELSE DecayInverse * g[k - 1]]
             power == CHOOSE g : g = body(g)
             step == [y \in (1 .. n) \X Nat |-> DecayInverse * y[2]]
  <1>1. Geometric(n) = [i \in 1 .. n |-> power[n - i]]
    BY DEF Geometric
  <1>2. DecayInverse \in Nat \ {0}
    BY ScoringNumbersOK
  <1>3. \A i \in 1 .. n : \A x \in Nat :
            step[<<i, x>>] = DecayInverse * x /\ step[<<i, x>>] \in Nat
    BY <1>2
  <1> HIDE DEF step
  <1>4. PICK h \in [SUBSET (1 .. n) -> Nat] : FoldsBy(h, n, 1, step)
    BY <1>3, FoldExists
  <1> DEFINE p == [k \in 0 .. n |-> h[1 .. k]]
  <1>5. p = body(p)
    <2>1. ASSUME NEW k \in 0 .. n
          PROVE  p[k] = IF k = 0 THEN 1 ELSE DecayInverse * p[k - 1]
      <3>1. CASE k = 0
        <4>1. 1 .. k = {}
          BY <3>1
        <4> QED
          BY <3>1, <4>1, <1>4 DEF FoldsBy
      <3>2. CASE k # 0
        <4>1. Max(1 .. k) = k /\ k \in 1 .. n /\ 1 .. k # {}
          BY <3>2, TopIsMax
        <4>2. (1 .. k) \ {k} = 1 .. k - 1 /\ 1 .. k \in SUBSET (1 .. n)
              /\ 1 .. k - 1 \in SUBSET (1 .. n) /\ k - 1 \in 0 .. n
          BY <4>1
        <4>3. h[1 .. k] = step[<<k, h[1 .. k - 1]>>]
          BY <4>1, <4>2, <1>4 DEF FoldsBy
        <4>4. h[1 .. k - 1] \in Nat
          BY <4>2, <1>4
        <4> QED
          BY <3>2, <4>1, <4>2, <4>3, <4>4, <1>3
      <3> QED
        BY <3>1, <3>2
    <2> QED
      BY <2>1
  <1>6. power = body(power)
    <2> HIDE DEF body, p
    <2> QED
      BY <1>5
  <1> HIDE DEF power
  <1>7. \A k \in 0 .. n : power[k] = IF k = 0 THEN 1 ELSE DecayInverse * power[k - 1]
    BY <1>6
  <1> DEFINE Good(k) == \A j \in 0 .. k : power[j] \in Nat \ {0} /\ power[j] <= power[k]
             Bad == {k \in 0 .. n : ~Good(k)}
  <1>8. Bad = {}
    <2> SUFFICES ASSUME Bad # {} PROVE FALSE
      OBVIOUS
    <2>1. PICK k \in Bad : \A y \in Bad : k <= y
      <3>1. Bad \subseteq Nat
        OBVIOUS
      <3> HIDE DEF Bad
      <3> QED
        BY <3>1, LeastNatural
    <2>2. k # 0
      <3>1. Good(0)
        BY <1>7
      <3> QED
        BY <2>1, <3>1
    <2>3. k \in 1 .. n /\ k - 1 \in 0 .. n /\ Good(k - 1)
      <3>1. k \in 1 .. n /\ k - 1 \in 0 .. n /\ ~(k <= k - 1)
        BY <2>1, <2>2
      <3>2. k - 1 \notin Bad
        BY <2>1, <3>1
      <3> HIDE DEF Good
      <3> QED
        BY <3>1, <3>2
    <2>4. power[k] = DecayInverse * power[k - 1] /\ power[k - 1] \in Nat \ {0}
      BY <2>3, <1>7
    <2>5. power[k] \in Nat \ {0} /\ power[k - 1] <= power[k]
      <3>1. \A x, y \in Nat \ {0} : x * y \in Nat \ {0} /\ y <= x * y
        BY SMTT(20)
      <3> QED
        BY <1>2, <2>4, <3>1
    <2>6. Good(k)
      <3>1. \A j \in 0 .. k : j = k \/ j \in 0 .. k - 1
        BY <2>3
      <3>2. \A j \in 0 .. k - 1 : power[j] \in Nat \ {0} /\ power[j] <= power[k - 1]
        BY <2>3
      <3>3. ASSUME NEW j \in 0 .. k PROVE power[j] \in Nat \ {0} /\ power[j] <= power[k]
        BY <2>4, <2>5, <3>1, <3>2
      <3> QED
        BY <3>3
    <2> HIDE DEF Good
    <2> QED
      BY <2>1, <2>6
  <1>9. \A i \in 1 .. n : n - i \in 0 .. n - 1 /\ n - 1 \in 0 .. n
    OBVIOUS
  <1>10. \A i \in 1 .. n : power[n - i] \in Nat \ {0} /\ power[n - i] <= power[n - 1]
    <2> TAKE i \in 1 .. n
    <2>1. Good(n - 1)
      <3>1. n - 1 \in 0 .. n
        BY <1>9
      <3> HIDE DEF Good
      <3> QED
        BY <3>1, <1>8
    <2> QED
      BY <1>9, <2>1
  <1> QED
    BY <1>1, <1>10

\* The ramp falls from its first weight, and none is zero.
LEMMA RampFalls ==
    ASSUME NEW n \in Nat
    PROVE  /\ Ramp(n) \in [1 .. n -> Nat \ {0}]
           /\ \A i, j \in 1 .. n : i <= j => Ramp(n)[j] <= Ramp(n)[i]
  <1>1. TopRatio \in Nat \ {0}
    BY ScoringNumbersOK
  <1>2. CASE n = 1
    BY <1>2 DEF Ramp
  <1>3. CASE n # 1
    <2>1. Ramp(n) = [i \in 1 .. n |-> TopRatio * (n - 1) - (TopRatio - 1) * (i - 1)]
      BY <1>3 DEF Ramp
    <2>2. \A a, x, y \in Nat : x <= y => a * x \in Nat /\ a * y \in Nat /\ a * x <= a * y
      BY SMTT(20)
    <2>3. ASSUME NEW i \in 1 .. n, NEW j \in 1 .. n, i <= j
          PROVE  Ramp(n)[j] <= Ramp(n)[i] /\ Ramp(n)[j] \in Nat \ {0}
      <3> DEFINE a == TopRatio - 1
      <3>1. a \in Nat /\ i - 1 \in Nat /\ j - 1 \in Nat /\ n - 1 \in Nat /\ i - 1 <= j - 1 /\ j - 1 <= n - 1
        <4>1. a \in Nat
          BY <1>1
        <4>2. i \in Nat /\ j \in Nat /\ 1 <= i /\ i <= j /\ j <= n
          BY <2>3
        <4> QED
          BY <4>1, <4>2
      <3>2. a * (i - 1) <= a * (j - 1) /\ a * (j - 1) <= a * (n - 1)
            /\ a * (i - 1) \in Nat /\ a * (j - 1) \in Nat /\ a * (n - 1) \in Nat
        <4> HIDE DEF a
        <4> QED
          BY <3>1, <2>2
      <3>3. TopRatio * (n - 1) = a * (n - 1) + (n - 1)
        <4>1. \A x, y \in Int : x * y = (x - 1) * y + y
          BY SMTT(20)
        <4> QED
          BY <1>1, <4>1
      <3>4. n - 1 > 0
        BY <1>3
      <3> HIDE DEF a
      <3>5. Ramp(n)[i] = TopRatio * (n - 1) - a * (i - 1) /\ Ramp(n)[j] = TopRatio * (n - 1) - a * (j - 1)
        BY <2>1 DEF a
      <3> QED
        BY <3>1, <3>2, <3>3, <3>4, <3>5
    <2>4. \A i \in 1 .. n : Ramp(n)[i] \in Nat \ {0}
      BY <2>3
    <2> QED
      BY <2>1, <2>3, <2>4
  <1> QED
    BY <1>2, <1>3

\* s begins with its largest weight, which is not zero.
Falls(s) ==
    /\ s \in Seq(Nat) /\ 1 \in DOMAIN s /\ s[1] > 0
    /\ \A i \in DOMAIN s : s[i] <= s[1]

\* A function of 1 .. g as a sequence that falls.
LEMMA FallsAsFunction ==
    ASSUME NEW g \in Nat \ {0}, NEW f, f = [i \in 1 .. g |-> f[i]],
           \A i \in 1 .. g : f[i] \in Nat /\ f[i] <= f[1], f[1] > 0
    PROVE  Falls(f)
  <1>1. f \in [1 .. g -> Nat]
    OBVIOUS
  <1>2. f \in Seq(Nat)
    BY <1>1
  <1> QED
    BY <1>1, <1>2 DEF Falls

\* What comes after stays below the first.
LEMMA FallsOn ==
    ASSUME NEW s, Falls(s), NEW t \in Seq(Nat), \A i \in DOMAIN t : t[i] <= s[1]
    PROVE  Falls(s \o t)
  <1> DEFINE c == s \o t
  <1>1. /\ s \in Seq(Nat) /\ Len(s) \in Nat /\ Len(t) \in Nat /\ Len(s) >= 1
        /\ DOMAIN s = 1 .. Len(s) /\ DOMAIN t = 1 .. Len(t)
    BY DEF Falls
  <1>2. /\ c \in Seq(Nat) /\ DOMAIN c = 1 .. Len(s) + Len(t)
        /\ \A i \in 1 .. Len(s) + Len(t) : c[i] = IF i <= Len(s) THEN s[i] ELSE t[i - Len(s)]
    BY <1>1
  <1> HIDE DEF c
  <1>3. c[1] = s[1] /\ 1 \in DOMAIN c
    BY <1>1, <1>2
  <1>4. ASSUME NEW i \in DOMAIN c PROVE c[i] <= c[1]
    <2>1. CASE i <= Len(s)
      BY <1>1, <1>2, <1>3, <2>1 DEF Falls
    <2>2. CASE ~(i <= Len(s))
      <3>1. i \in 1 .. Len(s) + Len(t)
        BY <1>2
      <3>2. i - Len(s) \in 1 .. Len(t)
        BY <1>1, <2>2, <3>1
      <3>3. i - Len(s) \in DOMAIN t /\ c[i] = t[i - Len(s)]
        BY <1>1, <1>2, <2>2, <3>1, <3>2
      <3> QED
        BY <1>3, <3>3
    <2> QED
      BY <2>1, <2>2
  <1>5. Falls(c)
    BY <1>2, <1>3, <1>4 DEF Falls
  <1> QED
    BY <1>5 DEF c

\* Larger factors make larger products.
LEMMA Products ==
    /\ \A x, y \in Nat : x * y \in Nat
    /\ \A x, y \in Nat \ {0} : x * y \in Nat \ {0}
    /\ \A x, y, z \in Nat : x <= y => x * z <= y * z /\ z * x <= z * y
    /\ \A x, y, z \in Nat : x <= y /\ z > 0 => x <= y * z
  <1>1. \A x, y \in Nat : x * y \in Nat
    BY SMTT(20)
  <1>2. \A x, y \in Nat \ {0} : x * y \in Nat \ {0}
    BY SMTT(20)
  <1>3. \A x, y, z \in Nat : x <= y => x * z <= y * z /\ z * x <= z * y
    BY SMTT(20)
  <1>4. \A x, y, z \in Nat : x <= y /\ z > 0 => x <= y * z
    BY SMTT(20)
  <1> QED
    BY <1>1, <1>2, <1>3, <1>4

\* The gather weights fall from the first, and the reserve weights stay below
\* it, scaled down or not.
LEMMA LadderFalls ==
    ASSUME NEW n \in Nat \ {0}
    PROVE  Falls(LadderOf(n))
  <1> DEFINE g == IF n < GatherCount THEN n ELSE GatherCount
             r == IF n - g < ReserveCount THEN n - g ELSE ReserveCount
             gather == [i \in 1 .. g |-> GatherShare * Ramp(g)[i] * Total(Geometric(r))]
             reserve == [i \in 1 .. r |-> ReserveShare * Geometric(r)[i] * Total(Ramp(g))]
             floor == gather[g]
             top == reserve[1] * DecayInverse
  <1>1. LadderOf(n) = IF r = 0 THEN [i \in 1 .. g |-> GatherShare * Ramp(g)[i]]
        ELSE IF reserve[1] <= floor THEN gather \o reserve
        ELSE [i \in 1 .. g |-> gather[i] * top] \o [i \in 1 .. r |-> reserve[i] * floor]
    BY DEF LadderOf
  <1>2. g \in Nat \ {0} /\ r \in Nat /\ GatherShare \in Nat \ {0} /\ ReserveShare \in Nat
        /\ DecayInverse \in Nat \ {0}
    BY ScoringNumbersOK
  <1> HIDE DEF g, r
  <1>3. /\ Ramp(g) \in [1 .. g -> Nat \ {0}] /\ \A i \in 1 .. g : Ramp(g)[i] <= Ramp(g)[1] /\ Ramp(g)[g] <= Ramp(g)[i]
        /\ 1 \in 1 .. g /\ g \in 1 .. g
    BY <1>2, RampFalls
  <1>4. Geometric(r) \in [1 .. r -> Nat \ {0}] /\ \A i \in 1 .. r : Geometric(r)[i] <= Geometric(r)[1]
    BY <1>2, GeometricFalls
  <1>5. CASE r = 0
    <2> DEFINE f == [i \in 1 .. g |-> GatherShare * Ramp(g)[i]]
    <2>1. \A i \in 1 .. g : f[i] \in Nat \ {0} /\ f[i] <= f[1]
      <3> TAKE i \in 1 .. g
      <3>1. f[i] = GatherShare * Ramp(g)[i] /\ f[1] = GatherShare * Ramp(g)[1]
        BY <1>3
      <3>2. Ramp(g)[i] \in Nat \ {0} /\ Ramp(g)[1] \in Nat \ {0} /\ Ramp(g)[i] <= Ramp(g)[1]
        BY <1>3
      <3> HIDE DEF f
      <3> QED
        BY <1>2, <3>1, <3>2, Products
    <2>2. Falls(f)
      <3>1. f = [i \in 1 .. g |-> f[i]] /\ f[1] > 0
        BY <1>3, <2>1
      <3> HIDE DEF f
      <3> QED
        BY <1>2, <2>1, <3>1, FallsAsFunction
    <2> QED
      BY <1>1, <1>5, <2>2
  <1>6. CASE r # 0
    <2> DEFINE G == Total(Geometric(r))
               R == Total(Ramp(g))
    <2>1. G \in Nat \ {0} /\ R \in Nat \ {0}
      <3>1. Geometric(r) \in [1 .. r -> Nat] /\ Geometric(r)[r] > 0 /\ r \in Nat \ {0}
        BY <1>2, <1>4, <1>6
      <3>2. Ramp(g) \in [1 .. g -> Nat] /\ Ramp(g)[g] > 0
        BY <1>3
      <3> QED
        BY <1>2, <3>1, <3>2, TotalIsPositive
    <2> HIDE DEF G, R
    <2>2. \A i \in 1 .. g : gather[i] \in Nat \ {0} /\ gather[i] <= gather[1] /\ gather[g] <= gather[1]
      <3>1. ASSUME NEW i \in 1 .. g PROVE gather[i] \in Nat \ {0} /\ gather[i] <= gather[1]
        <4>1. gather[i] = GatherShare * Ramp(g)[i] * G /\ gather[1] = GatherShare * Ramp(g)[1] * G
          BY <1>3 DEF G
        <4>2. Ramp(g)[i] \in Nat \ {0} /\ Ramp(g)[1] \in Nat \ {0} /\ Ramp(g)[i] <= Ramp(g)[1]
          BY <1>3
        <4>3. /\ GatherShare * Ramp(g)[i] \in Nat \ {0} /\ GatherShare * Ramp(g)[1] \in Nat \ {0}
              /\ GatherShare * Ramp(g)[i] <= GatherShare * Ramp(g)[1]
          BY <1>2, <4>2, Products
        <4> HIDE DEF gather
        <4> QED
          BY <2>1, <4>1, <4>3, Products
      <3> HIDE DEF gather
      <3> QED
        BY <1>3, <3>1
    <2>3. \A i \in 1 .. r : reserve[i] \in Nat /\ reserve[i] <= reserve[1] /\ reserve[1] \in Nat
      <3>1. ASSUME NEW i \in 1 .. r PROVE reserve[i] \in Nat /\ reserve[1] \in Nat /\ reserve[i] <= reserve[1]
        <4>1. 1 \in 1 .. r
          BY <1>2, <1>6
        <4>2. reserve[i] = ReserveShare * Geometric(r)[i] * R /\ reserve[1] = ReserveShare * Geometric(r)[1] * R
          BY <4>1 DEF R
        <4>3. Geometric(r)[i] \in Nat /\ Geometric(r)[1] \in Nat /\ Geometric(r)[i] <= Geometric(r)[1]
          BY <1>4, <4>1
        <4>4. /\ ReserveShare * Geometric(r)[i] \in Nat /\ ReserveShare * Geometric(r)[1] \in Nat
              /\ ReserveShare * Geometric(r)[i] <= ReserveShare * Geometric(r)[1]
          BY <1>2, <4>3, Products
        <4> HIDE DEF reserve
        <4> QED
          BY <2>1, <4>2, <4>4, Products
      <3> HIDE DEF reserve
      <3> QED
        BY <3>1
    <2>4. gather = [i \in 1 .. g |-> gather[i]] /\ reserve = [i \in 1 .. r |-> reserve[i]] /\ 1 \in 1 .. r
      BY <1>2, <1>6
    <2> HIDE DEF gather, reserve, floor, top
    <2>5. floor \in Nat \ {0} /\ floor <= gather[1] /\ gather[1] \in Nat \ {0}
      BY <1>3, <2>2 DEF floor
    <2>6. CASE reserve[1] <= floor
      <3>1. Falls(gather)
        <4>1. gather[1] > 0 /\ \A i \in 1 .. g : gather[i] \in Nat /\ gather[i] <= gather[1]
          BY <2>2, <2>5
        <4> QED
          BY <1>2, <2>4, <4>1, FallsAsFunction
      <3>2. reserve \in Seq(Nat)
        <4>1. reserve \in [1 .. r -> Nat]
          BY <2>3, <2>4
        <4> QED
          BY <1>2, <4>1
      <3>3. \A i \in DOMAIN reserve : reserve[i] <= gather[1]
        <4>1. DOMAIN reserve = 1 .. r
          BY <2>4
        <4> QED
          BY <2>3, <2>5, <2>6, <4>1
      <3>4. Falls(gather \o reserve)
        BY <3>1, <3>2, <3>3, FallsOn
      <3> QED
        BY <1>1, <1>6, <2>6, <3>4
    <2>7. CASE ~(reserve[1] <= floor)
      <3> DEFINE a == [i \in 1 .. g |-> gather[i] * top]
                 b == [i \in 1 .. r |-> reserve[i] * floor]
      <3>1. reserve[1] \in Nat \ {0} /\ top \in Nat \ {0} /\ reserve[1] <= top
        <4>1. reserve[1] \in Nat \ {0}
          BY <2>3, <2>4, <2>5, <2>7
        <4> QED
          BY <1>2, <4>1, Products DEF top
      <3>2. \A i \in 1 .. g : a[i] \in Nat \ {0} /\ a[i] <= a[1]
        <4> TAKE i \in 1 .. g
        <4>1. a[i] = gather[i] * top /\ a[1] = gather[1] * top
          BY <1>3
        <4>2. gather[i] \in Nat \ {0} /\ gather[i] <= gather[1]
          BY <2>2
        <4> HIDE DEF a
        <4> QED
          BY <2>5, <3>1, <4>1, <4>2, Products
      <3>3. \A i \in 1 .. r : b[i] \in Nat /\ b[i] <= a[1]
        <4> TAKE i \in 1 .. r
        <4>1. b[i] = reserve[i] * floor /\ a[1] = gather[1] * top
          BY <1>3
        <4>2. reserve[i] \in Nat /\ reserve[i] <= reserve[1]
          BY <2>3
        <4>3. reserve[i] <= top
          BY <3>1, <4>2
        <4>4. reserve[i] * floor <= top * floor /\ top * floor <= top * gather[1]
              /\ reserve[i] * floor \in Nat /\ top * floor \in Nat /\ top * gather[1] \in Nat
          BY <2>5, <3>1, <4>2, <4>3, Products
        <4>5. top * gather[1] = gather[1] * top
          BY <2>5, <3>1, SMTT(20)
        <4> HIDE DEF a, b
        <4> QED
          BY <4>1, <4>4, <4>5
      <3>4. Falls(a)
        <4>1. a = [i \in 1 .. g |-> a[i]] /\ a[1] > 0
          BY <1>3, <3>2
        <4> HIDE DEF a
        <4> QED
          BY <1>2, <3>2, <4>1, FallsAsFunction
      <3>5. b \in Seq(Nat) /\ DOMAIN b = 1 .. r
        <4>1. b \in [1 .. r -> Nat]
          <5>1. \A i \in 1 .. r : b[i] \in Nat
            BY <3>3
          <5>2. b = [i \in 1 .. r |-> b[i]]
            OBVIOUS
          <5> HIDE DEF b
          <5> QED
            BY <5>1, <5>2
        <4> HIDE DEF b
        <4> QED
          BY <1>2, <4>1
      <3>6. LadderOf(n) = a \o b
        BY <1>1, <1>6, <2>7 DEF floor, top
      <3> HIDE DEF a, b
      <3> QED
        BY <3>3, <3>4, <3>5, <3>6, FallsOn
    <2> QED
      BY <2>6, <2>7
  <1> QED
    BY <1>5, <1>6

\* Rounding the share of the largest: never above 65535.
LEMMA RoundedFits ==
    ASSUME NEW x \in Nat, NEW den \in Nat \ {0}, x <= den
    PROVE  Rounded(x * U16Max, den) \in 0 .. U16Max
  <1> DEFINE y == x * U16Max
             q == y \div den
             d == y % den
  <1>1. y \in Nat /\ y <= den * U16Max
    BY SMTT(20) DEF U16Max
  <1> HIDE DEF y
  <1>2. q \in Nat /\ d \in 0 .. den - 1 /\ y = den * q + d
    BY <1>1, SMTT(20)
  <1> HIDE DEF q, d
  <1>3. q <= U16Max /\ (q = U16Max => d = 0)
    <2>1. ASSUME q >= U16Max + 1 PROVE FALSE
      <3>1. den * q >= den * (U16Max + 1)
        BY <1>2, <2>1, Products DEF U16Max
      <3>2. den * (U16Max + 1) = den * U16Max + den /\ den * q \in Nat /\ den * U16Max \in Nat
        BY <1>2, Products, SMTT(20) DEF U16Max
      <3> QED
        BY <1>1, <1>2, <3>1, <3>2 DEF U16Max
    <2>2. q = U16Max => d = 0
      BY <1>1, <1>2, SMTT(20) DEF U16Max
    <2> QED
      BY <1>2, <2>1, <2>2 DEF U16Max
  <1>4. Rounded(x * U16Max, den) = IF 2 * d > den \/ (2 * d = den /\ q % 2 = 1) THEN q + 1 ELSE q
    BY DEF Rounded, y, q, d
  <1>5. Rounded(x * U16Max, den) \in {q, q + 1} /\ (Rounded(x * U16Max, den) # q => 2 * d >= den)
    <2>1. 2 * d \in Nat
      BY <1>2
    <2> HIDE DEF q
    <2> QED
      BY <1>4, <2>1
  <1> DEFINE z == Rounded(x * U16Max, den)
  <1>6. z = q \/ (z = q + 1 /\ q # U16Max)
    <2>1. z # q => z = q + 1 /\ 2 * d >= den
      BY <1>5
    <2>2. 2 * d >= den => d # 0
      BY <1>2
    <2> HIDE DEF z
    <2> QED
      BY <1>3, <2>1, <2>2
  <1> HIDE DEF z
  <1>7. z \in 0 .. U16Max
    <2>1. U16Max \in Nat /\ q \in Nat /\ q <= U16Max
      BY <1>2, <1>3 DEF U16Max
    <2>2. z = q => z \in 0 .. U16Max
      BY <2>1
    <2>3. q # U16Max => q + 1 \in 0 .. U16Max
      BY <2>1
    <2> QED
      BY <1>6, <2>2, <2>3
  <1> QED
    BY <1>7 DEF z

\* Every weight is a u16, and goes to a positive score.
LEMMA WeightsFit ==
    ASSUME NEW score, DOMAIN score \subseteq Miners
    PROVE  \A m \in DOMAIN Weights(score) :
               m \in Ranked(score) /\ Weights(score)[m] \in 1 .. U16Max
  <1> SUFFICES ASSUME NEW m \in DOMAIN Weights(score)
               PROVE  m \in Ranked(score) /\ Weights(score)[m] \in 1 .. U16Max
    OBVIOUS
  <1> DEFINE n == Cardinality(Ranked(score))
             ladder == RankWeights[n]
  <1>1. /\ m \in Ranked(score) /\ Rank(score, m) \in DOMAIN ladder
        /\ ladder[Rank(score, m)] > 0 /\ Weights(score)[m] = ladder[Rank(score, m)]
    BY DEF Weights
  <1>2. n \in 1 .. Cardinality(Miners)
    <2>1. Ranked(score) \subseteq Miners /\ IsFiniteSet(Miners) /\ m \in Ranked(score)
      BY <1>1, ScoringNumbersOK DEF Ranked
    <2>2. IsFiniteSet(Ranked(score)) /\ n <= Cardinality(Miners)
      BY <2>1, FS_Subset
    <2>3. n \in Nat /\ n # 0 /\ Cardinality(Miners) \in Nat
      BY <2>1, <2>2, FS_CardinalityType, FS_EmptySet
    <2> QED
      BY <2>2, <2>3
  <1>3. ladder = U16(LadderOf(n)) /\ Falls(LadderOf(n))
    <2>1. n \in Nat \ {0}
      BY <1>2
    <2> HIDE DEF n
    <2> QED
      BY <1>2, <2>1, LadderFalls DEF RankWeights
  <1> HIDE DEF n
  <1>4. ASSUME NEW i \in DOMAIN ladder PROVE ladder[i] \in 0 .. U16Max
    <2> DEFINE L == LadderOf(n)
    <2>1. ladder = [j \in DOMAIN L |-> Rounded(L[j] * U16Max, L[1])]
      BY <1>3 DEF U16
    <2>2. i \in DOMAIN L /\ L[i] \in Nat /\ L[1] \in Nat \ {0} /\ L[i] <= L[1]
      <3> HIDE DEF L
      <3>1. i \in DOMAIN L
        BY <1>4, <2>1
      <3>2. Falls(L)
        BY <1>3 DEF L
      <3> HIDE DEF ladder
      <3> QED
        BY <3>1, <3>2 DEF Falls
    <2> HIDE DEF L, ladder
    <2> QED
      BY <2>1, <2>2, RoundedFits
  <1> HIDE DEF ladder
  <1> QED
    BY <1>1, <1>4

-----------------------------------------------------------------------------
(***************************************************************************)
(* The types.                                                              *)
(***************************************************************************)
\* The types, with what the bounds rest on: a validator never passes the head,
\* and within a window it has left the one before behind.
TypeInv ==
    /\ TypeOK
    /\ val.window <= head
    /\ pc \in {"score", "ingest"} => val.window >= 1
    /\ work = [mult |-> work.mult, valid |-> work.valid, positive |-> work.positive,
               weights |-> work.weights]

LEMMA Bounds ==
    /\ MaxWindow \in Nat /\ Span \in Nat /\ Cadence \in Nat \ {0} /\ Unit \in Nat \ {0}
    /\ AlphaInverse \in Nat \ {0} /\ Whole = 32 /\ Deadline \in Nat
  BY NumbersOK, ScoringNumbersOK DEF Whole

LEMMA FreshIsTyped == Fresh \in Memory
  <1>1. Unseen \in [value : -Unit .. Unit, counted : SUBSET (0 .. MaxWindow - 1)]
    BY Bounds DEF Unseen
  <1>2. /\ 0 \in 0 .. MaxWindow /\ 0 \in 0 .. Cadence - 1 /\ 0 \in 0 .. 3
        /\ -1 \in -1 .. MaxWindow + Span
    BY Bounds
  <1> QED
    BY <1>1, <1>2 DEF Fresh, Memory

LEMMA MemoryFields ==
    ASSUME NEW v \in Memory
    PROVE  /\ DOMAIN v = Fields
           /\ v.window \in 0 .. MaxWindow /\ v.top \in 0 .. MaxWindow /\ v.since \in 0 .. Cadence - 1
           /\ v.ema \in [Miners -> [value : -Unit .. Unit, counted : SUBSET (0 .. MaxWindow - 1)]]
           /\ v.rated \subseteq Miners /\ v.missing \in [Miners -> 0 .. 3]
           /\ v.naughtyUntil \in [Miners -> -1 .. MaxWindow + Span]
           /\ v.records \subseteq Records /\ v.scored \subseteq Miners
  BY DEF Memory, Fields

\* A record of these fields is what is made of them.
LEMMA FieldsMakeMemory ==
    ASSUME NEW v,
           v = [window |-> v.window, top |-> v.top, since |-> v.since, ema |-> v.ema,
                rated |-> v.rated, missing |-> v.missing, naughtyUntil |-> v.naughtyUntil,
                records |-> v.records, scored |-> v.scored],
           v.window \in 0 .. MaxWindow, v.top \in 0 .. MaxWindow, v.since \in 0 .. Cadence - 1,
           v.ema \in [Miners -> [value : -Unit .. Unit, counted : SUBSET (0 .. MaxWindow - 1)]],
           v.rated \subseteq Miners, v.missing \in [Miners -> 0 .. 3],
           v.naughtyUntil \in [Miners -> -1 .. MaxWindow + Span],
           v.records \subseteq Records, v.scored \subseteq Miners
    PROVE  v \in Memory
  BY DEF Memory

\* One field at a time.
LEMMA WithField ==
    ASSUME NEW v \in Memory
    PROVE  /\ \A x \in 0 .. MaxWindow : [v EXCEPT !.window = x] \in Memory
           /\ \A x \in 0 .. MaxWindow : [v EXCEPT !.top = x] \in Memory
           /\ \A x \in 0 .. Cadence - 1 : [v EXCEPT !.since = x] \in Memory
           /\ \A x \in [Miners -> [value : -Unit .. Unit, counted : SUBSET (0 .. MaxWindow - 1)]] :
                  [v EXCEPT !.ema = x] \in Memory
           /\ \A x \in SUBSET Miners : [v EXCEPT !.rated = x] \in Memory
           /\ \A x \in [Miners -> 0 .. 3] : [v EXCEPT !.missing = x] \in Memory
           /\ \A x \in [Miners -> -1 .. MaxWindow + Span] : [v EXCEPT !.naughtyUntil = x] \in Memory
           /\ \A x \in SUBSET Records : [v EXCEPT !.records = x] \in Memory
           /\ \A x \in SUBSET Miners : [v EXCEPT !.scored = x] \in Memory
  <1>1. \A x \in 0 .. MaxWindow : [v EXCEPT !.window = x] \in Memory
    BY DEF Memory
  <1>2. \A x \in 0 .. MaxWindow : [v EXCEPT !.top = x] \in Memory
    BY DEF Memory
  <1>3. \A x \in 0 .. Cadence - 1 : [v EXCEPT !.since = x] \in Memory
    BY DEF Memory
  <1>4. \A x \in [Miners -> [value : -Unit .. Unit, counted : SUBSET (0 .. MaxWindow - 1)]] :
            [v EXCEPT !.ema = x] \in Memory
    BY DEF Memory
  <1>5. \A x \in SUBSET Miners : [v EXCEPT !.rated = x] \in Memory
    BY DEF Memory
  <1>6. \A x \in [Miners -> 0 .. 3] : [v EXCEPT !.missing = x] \in Memory
    BY DEF Memory
  <1>7. \A x \in [Miners -> -1 .. MaxWindow + Span] : [v EXCEPT !.naughtyUntil = x] \in Memory
    BY DEF Memory
  <1>8. \A x \in SUBSET Records : [v EXCEPT !.records = x] \in Memory
    BY DEF Memory
  <1>9. \A x \in SUBSET Miners : [v EXCEPT !.scored = x] \in Memory
    BY DEF Memory
  <1> QED
    BY <1>1, <1>2, <1>3, <1>4, <1>5, <1>6, <1>7, <1>8, <1>9

\* A sentence of a window that was trained ends within a span of the last one.
LEMMA SentenceIsTyped ==
    ASSUME NEW v \in Memory, NEW S \in SUBSET Miners, NEW w \in 0 .. MaxWindow,
           NEW reason \in {"overlap", "audit"}
    PROVE  Sentence(v, S, w, reason) \in Memory /\ Sentence(v, S, w, reason).window = v.window
  <1> DEFINE until == [m \in Miners |-> IF m \in S THEN Max({v.naughtyUntil[m], w + Span})
                                        ELSE v.naughtyUntil[m]]
             all == v.records \union {[uid |-> m, window |-> w, reason |-> reason,
                                       until |-> w + Span] : m \in S}
             x == [v EXCEPT !.naughtyUntil = until]
  <1>1. Sentence(v, S, w, reason) = [x EXCEPT !.records = all]
    BY MemoryFields DEF Sentence, Fields
  <1>2. until \in [Miners -> -1 .. MaxWindow + Span]
    <2>1. ASSUME NEW m \in Miners
          PROVE  Max({v.naughtyUntil[m], w + Span}) \in -1 .. MaxWindow + Span
      <3>1. v.naughtyUntil[m] \in -1 .. MaxWindow + Span /\ w + Span \in -1 .. MaxWindow + Span
        BY MemoryFields, Bounds
      <3>2. \A a, b \in Int : Max({a, b}) \in {a, b}
        <4> TAKE a \in Int, b \in Int
        <4>1. \E y \in {a, b} : \A z \in {a, b} : y >= z
          OBVIOUS
        <4> QED
          BY <4>1 DEF Max
      <3> QED
        BY <3>1, <3>2
    <2>2. ASSUME NEW m \in Miners PROVE v.naughtyUntil[m] \in -1 .. MaxWindow + Span
      BY MemoryFields
    <2> QED
      BY <2>1, <2>2
  <1>3. all \subseteq Records
    <2>1. w \in Nat /\ w + Span \in Nat
      BY Bounds
    <2>2. \A m \in S : [uid |-> m, window |-> w, reason |-> reason, until |-> w + Span] \in Records
      BY <2>1 DEF Records
    <2> QED
      BY <2>2, MemoryFields
  <1> HIDE DEF until, all
  <1>4. x \in Memory /\ x.window = v.window
    BY <1>2, WithField, MemoryFields DEF Fields
  <1> HIDE DEF x
  <1>5. [x EXCEPT !.records = all] \in Memory /\ [x EXCEPT !.records = all].window = x.window
    BY <1>3, <1>4, WithField, MemoryFields DEF Fields
  <1> QED
    BY <1>1, <1>4, <1>5

\* What a window may show of a miner.
LEMMA FindingsAreTyped ==
    ASSUME NEW f \in Findings, NEW m \in Miners
    PROVE  /\ f[m].gate \in Gates /\ f[m].copy.mult \in Parts
           /\ f[m].indicator \in {-1, 0, 1}
  <1>1. PICK r \in [Miners -> Gates] : \E o \in OverlapOutcomes[ValidIn(r)], i \in [ValidIn(r) -> Indicators] :
            f = [x \in Miners |->
                [gate |-> r[x],
                 copy |-> IF x \in ValidIn(r) THEN o[x] ELSE [mult |-> Whole, naughty |-> FALSE],
                 indicator |-> IF x \in ValidIn(r) THEN i[x] ELSE 0]]
    BY DEF Findings
  <1>2. PICK o \in OverlapOutcomes[ValidIn(r)], i \in [ValidIn(r) -> Indicators] :
            f = [x \in Miners |->
                [gate |-> r[x],
                 copy |-> IF x \in ValidIn(r) THEN o[x] ELSE [mult |-> Whole, naughty |-> FALSE],
                 indicator |-> IF x \in ValidIn(r) THEN i[x] ELSE 0]]
    BY <1>1
  <1>3. /\ f[m].gate = r[m]
        /\ f[m].copy = IF m \in ValidIn(r) THEN o[m] ELSE [mult |-> Whole, naughty |-> FALSE]
        /\ f[m].indicator = IF m \in ValidIn(r) THEN i[m] ELSE 0
    BY <1>2
  <1>4. Whole \in Parts
    BY DEF Parts, Whole
  <1>5. m \in ValidIn(r) => o[m].mult \in Parts
    <2> SUFFICES ASSUME m \in ValidIn(r) PROVE o[m].mult \in Parts
      OBVIOUS
    <2>1. ValidIn(r) \subseteq Miners
      BY DEF ValidIn
    <2> DEFINE U == ValidIn(r)
    <2>2. o \in {Sanctioned(payload, at) : payload \in [U -> Uploads], at \in [U -> {0, 1}]}
      <3> HIDE DEF U
      <3>1. U \in SUBSET Miners
        BY <2>1 DEF U
      <3>2. OverlapOutcomes[U] = {Sanctioned(payload, at) : payload \in [U -> Uploads], at \in [U -> {0, 1}]}
        BY <3>1 DEF OverlapOutcomes
      <3>3. o \in OverlapOutcomes[U]
        BY <1>2 DEF U
      <3> QED
        BY <3>2, <3>3
    <2> HIDE DEF U
    <2>3. PICK payload \in [U -> Uploads], at \in [U -> {0, 1}] : o = Sanctioned(payload, at)
      BY <2>2
    <2>4. DOMAIN payload = U /\ m \in U /\ U \subseteq Miners
      BY <2>1 DEF U
    <2> QED
      BY <2>3, <2>4, CopiesArePart
  <1>6. Indicators \subseteq {-1, 1}
    BY DEF Indicators, BinaryIndicator
  <1>7. m \in ValidIn(r) => i[m] \in {-1, 1}
    BY <1>2, <1>6
  <1> QED
    BY <1>3, <1>4, <1>5, <1>7

\* The moving average of indicators stays between them.
LEMMA FoldStaysBetween ==
    ASSUME NEW e \in -Unit .. Unit, NEW i \in {-1, 0, 1}
    PROVE  Fold(e, i) \in -Unit .. Unit
  <1> DEFINE A == AlphaInverse
             y == (A - 1) * e + Unit * i
  <1>1. A \in Nat \ {0} /\ Unit \in Nat \ {0} /\ e \in Int /\ -Unit <= e /\ e <= Unit
    BY Bounds
  <1> HIDE DEF A
  <1>2. \A x \in Nat : \A a, b \in Int : a <= b => x * a \in Int /\ x * b \in Int /\ x * a <= x * b
    BY SMTT(20)
  <1>3. Unit * i \in Int /\ -Unit <= Unit * i /\ Unit * i <= Unit
    BY <1>1
  <1>4. (A - 1) * e \in Int /\ (A - 1) * (-Unit) <= (A - 1) * e /\ (A - 1) * e <= (A - 1) * Unit
        /\ (A - 1) * Unit \in Int /\ (A - 1) * (-Unit) \in Int
    <2>1. A - 1 \in Nat /\ -Unit \in Int /\ Unit \in Int
      BY <1>1
    <2> QED
      BY <1>1, <1>2, <2>1
  <1>5. \A x, u \in Int : (x - 1) * u + u = x * u /\ (x - 1) * (-u) - u = x * (-u)
    BY SMTT(20)
  <1>6. y \in Int /\ A * (-Unit) <= y /\ y <= A * Unit
    <2>1. (A - 1) * Unit + Unit = A * Unit /\ (A - 1) * (-Unit) - Unit = A * (-Unit)
      BY <1>1, <1>5
    <2>2. A * Unit \in Int /\ A * (-Unit) \in Int
      BY <1>1, <1>2
    <2> QED
      BY <1>1, <1>3, <1>4, <2>1, <2>2
  <1> HIDE DEF y
  <1> DEFINE q == y \div A
             d == y % A
  <1>7. q \in Int /\ d \in 0 .. A - 1 /\ y = A * q + d
    BY <1>1, <1>6, SMTT(20)
  <1> HIDE DEF q, d
  <1>8. q <= Unit
    <2> SUFFICES ASSUME q >= Unit + 1 PROVE FALSE
      BY <1>1, <1>7
    <2>1. A * (Unit + 1) <= A * q /\ A * (Unit + 1) \in Int /\ A * q \in Int
      BY <1>1, <1>2, <1>7
    <2>2. A * (Unit + 1) = A * Unit + A
      BY <1>1, SMTT(20)
    <2>3. A * Unit \in Int
      BY <1>1, <1>2
    <2> QED
      BY <1>1, <1>6, <1>7, <2>1, <2>2, <2>3
  <1>9. -Unit <= q
    <2> SUFFICES ASSUME q <= -Unit - 1 PROVE FALSE
      BY <1>1, <1>7
    <2>1. A * q <= A * (-Unit - 1) /\ A * (-Unit - 1) \in Int /\ A * q \in Int
      BY <1>1, <1>2, <1>7
    <2>2. A * (-Unit - 1) = A * (-Unit) - A
      BY <1>1, SMTT(20)
    <2>3. A * (-Unit) \in Int
      BY <1>1, <1>2
    <2> QED
      BY <1>1, <1>6, <1>7, <2>1, <2>2, <2>3
  <1>10. Fold(e, i) = q
    BY DEF Fold, q, y, A
  <1> QED
    BY <1>1, <1>7, <1>8, <1>9, <1>10

\* Escalators climb to the third step at most.
LEMMA GradientIsStep ==
    ASSUME NEW k \in 0 .. 3 PROVE MissingGradient(k) \in 1 .. 3
  <1>1. \A a, b \in Int : Max({a, b}) = Max({a, b}) /\ Min({a, b}) \in {a, b} /\ Min({a, b}) <= b
    <2> TAKE a \in Int, b \in Int
    <2>1. \E y \in {a, b} : \A z \in {a, b} : y <= z
      OBVIOUS
    <2>2. Min({a, b}) \in {a, b} /\ \A z \in {a, b} : Min({a, b}) <= z
      BY <2>1 DEF Min
    <2> QED
      BY <2>2
  <1>2. Min({k + 1, 3}) \in {k + 1, 3} /\ Min({k + 1, 3}) <= 3
    BY <1>1
  <1> QED
    BY <1>2 DEF MissingGradient

LEMMA GateIsPart ==
    ASSUME NEW v \in Memory, NEW m \in Miners, NEW gate \in Gates
    PROVE  GateMultiplier(v, m, gate) \in Parts
  <1>1. MissingGradient(v.missing[m]) \in 1 .. 3
    BY MemoryFields, GradientIsStep
  <1>2. MissingLadder[MissingGradient(v.missing[m])] \in {24, 16, 0}
    BY <1>1 DEF MissingLadder
  <1> DEFINE x == MissingLadder[MissingGradient(v.missing[m])]
  <1>3. GateMultiplier(v, m, gate) \in {x, 0, 24, 32}
    <2>1. GateMultiplier(v, m, gate) =
            CASE gate = "missing" -> x
              [] gate = "invalid" -> 0
              [] gate = "behind"  -> 24
              [] gate \in {"valid", "none"} -> 32
      BY DEF GateMultiplier, InvalidPayload, SyncBehind, Whole
    <2> HIDE DEF x
    <2> QED
      BY <2>1 DEF Gates
  <1> QED
    BY <1>2, <1>3 DEF Parts, Whole

\* A window's multipliers are parts of a whole.
LEMMA MultipliersAreParts ==
    ASSUME NEW v \in Memory, NEW f \in Findings, NEW held \in Held(v)
    PROVE  Multipliers(v, f, held) \in [Miners -> 0 .. Whole]
  <1> DEFINE g(m) == GateMultiplier(v, m, f[m].gate)
             c(m) == f[m].copy.mult
  <1>1. ASSUME NEW m \in Miners
        PROVE  (g(m) * c(m) * held[m]) \div (Whole * Whole) \in 0 .. Whole
    <2>1. g(m) \in Parts /\ c(m) \in Parts
      BY FindingsAreTyped, GateIsPart
    <2>2. held[m] \in {0, 32}
      BY DEF Held, Whole
    <2> HIDE DEF g, c
    <2>3. g(m) \in 0 .. 32 /\ c(m) \in 0 .. 32
      BY <2>1 DEF Parts, Whole
    <2>4. g(m) * c(m) \in 0 .. 1024
      <3>1. \A x, y \in Nat : x * y \in Nat
        BY SMTT(20)
      <3>2. \A x, y, z \in Nat : x <= z => x * y <= z * y
        BY SMTT(20)
      <3>3. g(m) * c(m) \in Nat /\ g(m) * c(m) <= 32 * c(m)
        BY <2>3, <3>1, <3>2
      <3> QED
        BY <2>3, <3>3
    <2> DEFINE p == g(m) * c(m)
    <2>5. p \in 0 .. 1024
      BY <2>4
    <2> HIDE DEF p
    <2>6. p * held[m] \in Nat /\ p * held[m] <= 32768
      <3>1. CASE held[m] = 0
        BY <2>5, <3>1
      <3>2. CASE held[m] = 32
        <4>1. p * 32 \in Nat /\ p * 32 <= 32768
          BY <2>5
        <4> QED
          BY <3>2, <4>1
      <3> QED
        BY <2>2, <3>1, <3>2
    <2> DEFINE z == p * held[m]
    <2>7. z \div 1024 \in 0 .. 32
      <3>1. \A x \in Nat : x <= 32768 => x \div 1024 \in 0 .. 32
        BY SMTT(20)
      <3> HIDE DEF z
      <3>2. z \in Nat /\ z <= 32768
        BY <2>6 DEF z
      <3> QED
        BY <3>1, <3>2
    <2>8. Whole * Whole = 1024 /\ Whole = 32
      BY DEF Whole
    <2>9. z = g(m) * c(m) * held[m]
      BY DEF p
    <2> HIDE DEF z
    <2> QED
      BY <2>7, <2>8, <2>9
  <1> HIDE DEF g, c
  <1>2. Multipliers(v, f, held) = [m \in Miners |-> (g(m) * c(m) * held[m]) \div (Whole * Whole)]
    BY DEF Multipliers, g, c
  <1> QED
    BY <1>1, <1>2

\* The ledger and the evaluation of a window keep their types.
LEMMA JudgedIsTyped ==
    ASSUME NEW v \in Memory, NEW f \in Findings, v.window \in 0 .. MaxWindow - 1
    PROVE  /\ Evaluated(Ledgered(v, f), f) \in Memory
           /\ Evaluated(Ledgered(v, f), f).window = v.window
  <1> DEFINE missing == [m \in Miners |->
                            IF f[m].gate = "missing" THEN MissingGradient(v.missing[m])
                            ELSE IF m \in Valid(f) THEN 0 ELSE v.missing[m]]
             l == [v EXCEPT !.missing = missing]
             ema(x) == [m \in Miners |->
                          IF m \in Valid(f)
                          THEN [value |-> Fold(x.ema[m].value, f[m].indicator),
                                counted |-> x.ema[m].counted \union
                                                IF ckpt THEN {x.window} ELSE {}]
                          ELSE x.ema[m]]
  <1>1. missing \in [Miners -> 0 .. 3]
    <2>1. ASSUME NEW m \in Miners
          PROVE  MissingGradient(v.missing[m]) \in 0 .. 3 /\ v.missing[m] \in 0 .. 3 /\ 0 \in 0 .. 3
      <3>1. v.missing[m] \in 0 .. 3
        BY MemoryFields
      <3>2. MissingGradient(v.missing[m]) \in 1 .. 3
        BY <3>1, GradientIsStep
      <3> QED
        BY <3>1, <3>2
    <2> QED
      BY <2>1
  <1>2. Ledgered(v, f) = l
    BY MemoryFields DEF Ledgered, Fields
  <1> HIDE DEF missing
  <1>3. l \in Memory /\ l.window = v.window
    BY <1>1, WithField, MemoryFields DEF Fields
  <1> HIDE DEF l
  <1>4. ema(l) \in [Miners -> [value : -Unit .. Unit, counted : SUBSET (0 .. MaxWindow - 1)]]
    <2>1. ASSUME NEW m \in Miners
          PROVE  /\ [value |-> Fold(l.ema[m].value, f[m].indicator),
                     counted |-> l.ema[m].counted \union IF ckpt THEN {l.window} ELSE {}] \in
                        [value : -Unit .. Unit, counted : SUBSET (0 .. MaxWindow - 1)]
                 /\ l.ema[m] \in [value : -Unit .. Unit, counted : SUBSET (0 .. MaxWindow - 1)]
      <3>1. l.ema[m] \in [value : -Unit .. Unit, counted : SUBSET (0 .. MaxWindow - 1)]
        BY <1>3, MemoryFields
      <3>2. Fold(l.ema[m].value, f[m].indicator) \in -Unit .. Unit
        BY <3>1, FindingsAreTyped, FoldStaysBetween
      <3>3. l.window \in 0 .. MaxWindow - 1
        BY <1>3, Bounds
      <3> QED
        BY <3>1, <3>2, <3>3
    <2> QED
      BY <2>1
  <1> DEFINE rated == Rated(l.rated, Valid(f))
             y == [l EXCEPT !.ema = ema(l)]
  <1>5. rated \in SUBSET Miners
    BY <1>3, MemoryFields DEF Rated, Valid
  <1>6. Evaluated(l, f) = [y EXCEPT !.rated = rated]
    BY <1>3, MemoryFields DEF Evaluated, Fields
  <1> HIDE DEF ema, rated
  <1>7. y \in Memory /\ y.window = l.window
    BY <1>3, <1>4, WithField, MemoryFields DEF Fields
  <1> HIDE DEF y
  <1>8. [y EXCEPT !.rated = rated] \in Memory /\ [y EXCEPT !.rated = rated].window = y.window
    BY <1>5, <1>7, WithField, MemoryFields DEF Fields
  <1> QED
    BY <1>2, <1>3, <1>6, <1>7, <1>8

LEMMA ProcessIsTyped == ASSUME TypeInv, Process PROVE TypeInv'
  <1> DEFINE w == val.window
  <1>1. PICK f \in Findings, held \in Held(val) :
            LET judged == Sentence(Evaluated(Ledgered(val, f), f),
                                   {m \in Miners : f[m].copy.naughty}, w, "overlap")
            IN  /\ disk' = SavedAt(judged)
                /\ val' = [disk' EXCEPT !.window = w + 1, !.scored = @ \union Valid(f)]
                /\ work' = [NoWork EXCEPT !.mult = Multipliers(val, f, held), !.valid = Valid(f)]
    BY Zenon DEF Process
  <1> DEFINE before == Evaluated(Ledgered(val, f), f)
             judged == Sentence(before, {m \in Miners : f[m].copy.naughty}, w, "overlap")
  <1>2. pc = "idle" /\ w < head /\ pc' = "score" /\ UNCHANGED <<ckpt, head, lastDue, faults>>
    BY DEF Process
  <1>3. /\ val \in Memory /\ head \in 0 .. MaxWindow /\ MaxWindow \in Nat
        /\ w \in 0 .. MaxWindow - 1 /\ w + 1 \in 0 .. MaxWindow /\ w + 1 <= head /\ w + 1 >= 1
    <2>1. val \in Memory /\ head \in 0 .. MaxWindow /\ MaxWindow \in Nat
      BY Bounds DEF TypeInv, TypeOK
    <2>2. w \in 0 .. MaxWindow
      BY <2>1, MemoryFields
    <2> QED
      BY <1>2, <2>1, <2>2
  <1>4. before \in Memory /\ before.window = w
    BY <1>3, JudgedIsTyped
  <1> HIDE DEF before
  <1>5. judged \in Memory /\ judged.window = w
    <2>1. {m \in Miners : f[m].copy.naughty} \in SUBSET Miners /\ w \in 0 .. MaxWindow
      BY <1>3
    <2> QED
      BY <1>4, <2>1, SentenceIsTyped
  <1>6. disk' = SavedAt(judged) /\ val' = [disk' EXCEPT !.window = w + 1, !.scored = @ \union Valid(f)]
        /\ work' = [NoWork EXCEPT !.mult = Multipliers(val, f, held), !.valid = Valid(f)]
    BY <1>1 DEF before
  <1> HIDE DEF judged
  <1>7. disk' \in Memory /\ disk'.window = w + 1
    <2> DEFINE top == Max({judged.top, judged.window + 1})
               x == [judged EXCEPT !.window = w + 1]
    <2>1. top \in 0 .. MaxWindow
      <3>1. judged.top \in 0 .. MaxWindow /\ judged.window + 1 \in 0 .. MaxWindow
        BY <1>3, <1>5, MemoryFields
      <3>2. \A a, b \in Int : Max({a, b}) \in {a, b}
        <4> TAKE a \in Int, b \in Int
        <4>1. \E y \in {a, b} : \A z \in {a, b} : y >= z
          OBVIOUS
        <4> QED
          BY <4>1 DEF Max
      <3> QED
        BY <3>1, <3>2
    <2>2. disk' = [x EXCEPT !.top = top]
      BY <1>5, <1>6, MemoryFields DEF SavedAt, Fields
    <2> HIDE DEF top
    <2>3. x \in Memory /\ x.window = w + 1
      BY <1>3, <1>5, WithField, MemoryFields DEF Fields
    <2> HIDE DEF x
    <2>4. [x EXCEPT !.top = top] \in Memory /\ [x EXCEPT !.top = top].window = x.window
      BY <2>1, <2>3, WithField, MemoryFields DEF Fields
    <2> QED
      BY <2>2, <2>3, <2>4
  <1>8. val' \in Memory /\ val'.window = w + 1
    <2> DEFINE x == [disk' EXCEPT !.window = w + 1]
               scored == disk'.scored \union Valid(f)
    <2>1. val' = [x EXCEPT !.scored = scored]
      BY <1>6, <1>7, MemoryFields DEF Fields
    <2>2. scored \in SUBSET Miners
      BY <1>7, MemoryFields DEF Valid
    <2>3. x \in Memory /\ x.window = w + 1
      BY <1>3, <1>7, WithField, MemoryFields DEF Fields
    <2> HIDE DEF x, scored
    <2>4. [x EXCEPT !.scored = scored] \in Memory /\ [x EXCEPT !.scored = scored].window = x.window
      BY <2>2, <2>3, WithField, MemoryFields DEF Fields
    <2> QED
      BY <2>1, <2>3, <2>4
  <1>9. /\ work' = [mult |-> Multipliers(val, f, held), valid |-> Valid(f), positive |-> {}, weights |-> <<>>]
    BY <1>6 DEF NoWork
  <1>10. Multipliers(val, f, held) \in [Miners -> 0 .. Whole] /\ Valid(f) \subseteq Miners
    BY <1>3, MultipliersAreParts DEF Valid
  <1>11. /\ work'.mult \in [Miners -> 0 .. Whole] /\ work'.valid \subseteq Miners
         /\ work'.positive \subseteq Miners /\ DOMAIN work'.weights = {}
         /\ work' = [mult |-> work'.mult, valid |-> work'.valid, positive |-> work'.positive,
                     weights |-> work'.weights]
    BY <1>9, <1>10
  <1>12. disk'.window <= head' /\ val'.window <= head' /\ val'.window >= 1
    BY <1>2, <1>3, <1>7, <1>8
  <1> HIDE DEF w
  <1>13. TypeOK'
    BY <1>2, <1>7, <1>8, <1>11, <1>12 DEF TypeInv, TypeOK
  <1> QED
    BY <1>11, <1>12, <1>13 DEF TypeInv

LEMMA ScoreIsTyped == ASSUME TypeInv, Score PROVE TypeInv'
  <1>1. PICK skill \in [val.rated -> Skills], slices \in [work.valid -> Slices] :
             LET final == [m \in val.scored |->
                     Apply(val, m, FinalScore(Ordinal(skill, m), val.ema[m].value,
                                              Sync(slices, m)), val.window - 1)]
             IN  \E weights \in IF val.since + 1 >= Cadence THEN Submitted(final) ELSE {<<>>} :
                    work' = [NoWork EXCEPT !.weights = weights,
                                !.positive = {m \in val.scored : final[m] > 0}]
    BY Zenon DEF Score
  <1> DEFINE final == [m \in val.scored |->
                     Apply(val, m, FinalScore(Ordinal(skill, m), val.ema[m].value,
                                              Sync(slices, m)), val.window - 1)]
  <1>2. PICK weights \in IF val.since + 1 >= Cadence THEN Submitted(final) ELSE {<<>>} :
            work' = [NoWork EXCEPT !.weights = weights, !.positive = {m \in val.scored : final[m] > 0}]
    BY <1>1
  <1>3. /\ val' = [val EXCEPT !.since = NextSince(@)] /\ pc = "score" /\ pc' = "ingest" /\ ckpt' \in BOOLEAN
        /\ lastDue' \in {val.window - 1, lastDue} /\ UNCHANGED <<head, disk, faults>>
    BY DEF Score, Checkpointed, TypeInv, TypeOK
  <1>4. val \in Memory /\ val.window \in 0 .. MaxWindow /\ val.window >= 1 /\ val.window <= head
        /\ head \in 0 .. MaxWindow /\ lastDue \in -1 .. MaxWindow - 1 /\ val.since \in 0 .. Cadence - 1
        /\ val.scored \subseteq Miners
    BY <1>3, MemoryFields DEF TypeInv, TypeOK
  <1>5. val' \in Memory /\ val'.window = val.window
    <2>1. NextSince(val.since) \in 0 .. Cadence - 1
      BY <1>4, Bounds DEF NextSince
    <2>2. val' = [val EXCEPT !.since = NextSince(val.since)]
      BY <1>3, <1>4, MemoryFields DEF Fields
    <2> QED
      BY <1>4, <2>1, <2>2, WithField, MemoryFields DEF Fields
  <1>6. lastDue' \in -1 .. MaxWindow - 1
    <2>1. val.window - 1 \in -1 .. MaxWindow - 1
      BY <1>4, Bounds
    <2> QED
      BY <1>3, <1>4, <2>1
  <1>7. DOMAIN final = val.scored /\ DOMAIN final \subseteq Miners
    BY <1>4
  <1> HIDE DEF final
  <1>8. \A m \in DOMAIN weights : m \in Ranked(final) /\ weights[m] \in 1 .. U16Max
    <2>1. weights = <<>> \/ weights = Weights(final)
      BY <1>2 DEF Submitted
    <2> QED
      BY <1>7, <2>1, WeightsFit
  <1>9. work' = [mult |-> [m \in Miners |-> Whole], valid |-> {},
                 positive |-> {m \in val.scored : final[m] > 0}, weights |-> weights]
    BY <1>2 DEF NoWork
  <1>10. /\ work'.mult \in [Miners -> 0 .. Whole] /\ work'.valid \subseteq Miners
         /\ work'.positive \subseteq Miners
         /\ \A m \in DOMAIN work'.weights : m \in work'.positive /\ work'.weights[m] \in 1 .. U16Max
         /\ work' = [mult |-> work'.mult, valid |-> work'.valid, positive |-> work'.positive,
                     weights |-> work'.weights]
    <2>1. Whole \in 0 .. Whole
      BY DEF Whole
    <2>2. Ranked(final) = {m \in val.scored : final[m] > 0}
      BY <1>7 DEF Ranked
    <2> QED
      BY <1>4, <1>8, <1>9, <2>1, <2>2
  <1>11. TypeOK'
    BY <1>3, <1>5, <1>6, <1>10 DEF TypeInv, TypeOK
  <1> QED
    BY <1>3, <1>4, <1>5, <1>10, <1>11 DEF TypeInv

LEMMA NoWorkIsTyped ==
    /\ NoWork.mult \in [Miners -> 0 .. Whole] /\ NoWork.valid \subseteq Miners
    /\ NoWork.positive \subseteq Miners /\ DOMAIN NoWork.weights = {}
    /\ NoWork = [mult |-> NoWork.mult, valid |-> NoWork.valid, positive |-> NoWork.positive,
                 weights |-> NoWork.weights]
  <1>1. Whole \in 0 .. Whole
    BY DEF Whole
  <1> QED
    BY <1>1 DEF NoWork

LEMMA IngestIsTyped == ASSUME TypeInv, Ingest PROVE TypeInv'
  <1>1. PICK guilty \in SUBSET Miners : val' = Sentence(val, guilty, val.window - 1, "audit")
    BY DEF Ingest
  <1>2. /\ disk' = val' /\ pc = "ingest" /\ pc' = "idle" /\ work' = NoWork
        /\ UNCHANGED <<ckpt, head, lastDue, faults>>
    BY DEF Ingest
  <1>3. val \in Memory /\ val.window - 1 \in 0 .. MaxWindow /\ val.window <= head
    <2>1. val \in Memory /\ val.window \in 0 .. MaxWindow /\ val.window >= 1 /\ val.window <= head
      BY <1>2, MemoryFields DEF TypeInv, TypeOK
    <2> QED
      BY <2>1, Bounds
  <1>4. val' \in Memory /\ val'.window = val.window
    BY <1>1, <1>3, SentenceIsTyped
  <1>5. val'.window <= head' /\ disk'.window <= head'
    BY <1>2, <1>3, <1>4
  <1>6. TypeOK'
    BY <1>2, <1>4, <1>5, NoWorkIsTyped DEF TypeInv, TypeOK
  <1> QED
    BY <1>2, <1>5, <1>6, NoWorkIsTyped DEF TypeInv

\* A restart resumes with what the file says, or with window 0.
LEMMA RestartIsTyped == ASSUME TypeInv, Restart PROVE TypeInv'
  <1>1. /\ pc = "down" /\ pc' = "idle" /\ UNCHANGED <<ckpt, head, work, disk, lastDue, faults>>
        /\ val' \in {Loaded, [Loaded EXCEPT !.window = 0]}
    BY DEF Restart
  <1>2. disk \in Memory /\ disk.window <= head /\ head \in 0 .. MaxWindow
    BY DEF TypeInv, TypeOK
  <1>3. Loaded = disk
    <2>1. disk = [window |-> disk.window, top |-> disk.top, since |-> disk.since, ema |-> disk.ema,
                  rated |-> disk.rated, missing |-> disk.missing, naughtyUntil |-> disk.naughtyUntil,
                  records |-> disk.records, scored |-> disk.scored]
      BY <1>2 DEF Memory
    <2> QED
      BY <2>1 DEF Loaded, LedgerLoaded, BookLoaded, EmaLoaded, Fresh
  <1>4. 0 \in 0 .. MaxWindow /\ 0 <= head
    BY <1>2, Bounds
  <1>5. [Loaded EXCEPT !.window = 0] \in Memory /\ [Loaded EXCEPT !.window = 0].window = 0
    BY <1>2, <1>3, <1>4, WithField, MemoryFields DEF Fields
  <1>6. val' \in Memory /\ val'.window <= head
    BY <1>1, <1>2, <1>3, <1>4, <1>5
  <1>7. TypeOK'
    BY <1>1, <1>6 DEF TypeInv, TypeOK
  <1> QED
    BY <1>1, <1>6, <1>7 DEF TypeInv

LEMMA SkipIsTyped == ASSUME TypeInv, SkipAhead PROVE TypeInv'
  <1>1. /\ pc = "idle" /\ head - 1 - val.window >= SkipAfter
        /\ val' = [val EXCEPT !.window = head - 1]
        /\ UNCHANGED <<ckpt, head, pc, work, disk, lastDue, faults>>
    BY DEF SkipAhead, FarBehind
  <1>2. val \in Memory /\ head \in 0 .. MaxWindow /\ val.window \in 0 .. MaxWindow
        /\ SkipAfter \in Nat \ {0} /\ MaxWindow \in Nat
    BY MemoryFields, NumbersOK DEF TypeInv, TypeOK
  <1>3. head - 1 \in 0 .. MaxWindow /\ head - 1 <= head
    BY <1>1, <1>2
  <1>4. val' \in Memory /\ val'.window = head - 1
    BY <1>1, <1>2, <1>3, WithField, MemoryFields DEF Fields
  <1>5. TypeOK'
    BY <1>1, <1>4 DEF TypeInv, TypeOK
  <1> QED
    BY <1>1, <1>3, <1>4, <1>5 DEF TypeInv

LEMMA VoidIsTyped == ASSUME TypeInv, SkipVoid PROVE TypeInv'
  <1>1. /\ pc = "idle" /\ val.window < head /\ val' = [val EXCEPT !.window = @ + 1]
        /\ UNCHANGED <<ckpt, head, pc, work, disk, lastDue, faults>>
    BY DEF SkipVoid
  <1>2. val \in Memory /\ head \in 0 .. MaxWindow /\ val.window \in 0 .. MaxWindow /\ MaxWindow \in Nat
    BY MemoryFields, NumbersOK DEF TypeInv, TypeOK
  <1>3. val.window + 1 \in 0 .. MaxWindow /\ val.window + 1 <= head
    BY <1>1, <1>2
  <1>4. val' = [val EXCEPT !.window = val.window + 1]
    BY <1>1
  <1>5. val' \in Memory /\ val'.window = val.window + 1
    BY <1>2, <1>3, <1>4, WithField, MemoryFields DEF Fields
  <1>6. TypeOK'
    BY <1>1, <1>5 DEF TypeInv, TypeOK
  <1> QED
    BY <1>1, <1>3, <1>5, <1>6 DEF TypeInv

\* A stop saves what the validator stands at, which is not ahead of the chain.
LEMMA StopIsTyped == ASSUME TypeInv, Stop PROVE TypeInv'
  <1>1. /\ disk' = val /\ pc' = "down" /\ val' = Fresh /\ faults < MaxFaults /\ faults' = faults + 1
        /\ UNCHANGED <<ckpt, head, work, lastDue>>
    BY DEF Stop
  <1>2. faults \in 0 .. MaxFaults /\ MaxFaults \in Nat /\ head \in 0 .. MaxWindow /\ MaxWindow \in Nat
    BY NumbersOK DEF TypeInv, TypeOK
  <1>3. faults' \in 0 .. MaxFaults
    BY <1>1, <1>2
  <1>4. Fresh.window = 0 /\ 0 <= head
    BY <1>2 DEF Fresh
  <1>5. TypeOK'
    BY <1>1, <1>3, FreshIsTyped DEF TypeInv, TypeOK
  <1> QED
    BY <1>1, <1>4, <1>5 DEF TypeInv

LEMMA FaultIsTyped == ASSUME TypeInv, BucketOutage \/ Crash PROVE TypeInv'
  <1>1. /\ pc' = "down" /\ val' = Fresh /\ work' = NoWork
        /\ faults < MaxFaults /\ faults' = faults + 1
        /\ UNCHANGED <<ckpt, head, disk, lastDue>>
    BY DEF BucketOutage, Crash
  <1>2. faults \in 0 .. MaxFaults /\ MaxFaults \in Nat /\ head \in 0 .. MaxWindow /\ MaxWindow \in Nat
    BY NumbersOK DEF TypeInv, TypeOK
  <1>3. faults' \in 0 .. MaxFaults
    BY <1>1, <1>2
  <1>4. Fresh.window = 0 /\ 0 <= head
    BY <1>2 DEF Fresh
  <1>5. TypeOK'
    BY <1>1, <1>3, FreshIsTyped, NoWorkIsTyped DEF TypeInv, TypeOK
  <1> QED
    BY <1>1, <1>4, <1>5, NoWorkIsTyped DEF TypeInv

LEMMA TypesStep == TypeInv /\ [Next]_vars => TypeInv'
  <1> SUFFICES ASSUME TypeInv, [Next]_vars PROVE TypeInv'
    OBVIOUS
  <1>1. CASE CloseWindow
    <2>1. head < MaxWindow /\ head' = head + 1
          /\ UNCHANGED <<ckpt, val, pc, work, disk, lastDue, faults>>
      BY <1>1 DEF CloseWindow
    <2>2. head \in 0 .. MaxWindow /\ MaxWindow \in Nat /\ val.window \in 0 .. MaxWindow
          /\ disk.window \in 0 .. MaxWindow /\ val.window <= head /\ disk.window <= head
      BY Bounds, MemoryFields DEF TypeInv, TypeOK
    <2>3. head' \in 0 .. MaxWindow /\ val.window <= head' /\ disk.window <= head'
      BY <2>1, <2>2
    <2>4. TypeOK'
      BY <2>1, <2>3 DEF TypeInv, TypeOK
    <2> QED
      BY <2>1, <2>3, <2>4 DEF TypeInv
  <1>2. CASE Process
    BY <1>2, ProcessIsTyped
  <1>3. CASE Score
    BY <1>3, ScoreIsTyped
  <1>4. CASE Ingest
    BY <1>4, IngestIsTyped
  <1>5. CASE SkipAhead
    BY <1>5, SkipIsTyped
  <1>6. CASE BucketOutage \/ Crash
    BY <1>6, FaultIsTyped
  <1>7. CASE Restart
    BY <1>7, RestartIsTyped
  <1>8. CASE UNCHANGED vars
    BY <1>8 DEF vars, TypeInv, TypeOK
  <1>9. CASE SkipVoid
    BY <1>9, VoidIsTyped
  <1>10. CASE Stop
    BY <1>10, StopIsTyped
  <1> QED
    BY <1>1, <1>2, <1>3, <1>4, <1>5, <1>6, <1>7, <1>8, <1>9, <1>10 DEF Next

\* For every finding, whatever crashes and skips: multipliers are parts of a
\* whole, averages stay between their indicators, every sentence ends within a
\* span of the last window, and every weight submitted is a positive u16 that
\* goes to a positive score (compute_weights, normalize_weights_u16).
THEOREM TypesHold == Spec => []TypeOK
  <1>1. Init => TypeInv
    <2> SUFFICES ASSUME Init PROVE TypeInv
      OBVIOUS
    <2>1. Fresh.window = 0
      BY DEF Fresh
    <2>2. 0 \in 0 .. MaxWindow /\ -1 \in -1 .. MaxWindow - 1 /\ 0 \in 0 .. MaxFaults
      BY NumbersOK
    <2>3. TypeOK
      <3>1. /\ ckpt = FALSE /\ head = 0 /\ val = Fresh /\ disk = Fresh
            /\ pc = "idle" /\ work = NoWork /\ lastDue = -1 /\ faults = 0
        BY DEF Init
      <3>2. val \in Memory /\ disk \in Memory /\ disk.window <= head
        BY <2>1, <3>1, FreshIsTyped
      <3> QED
        BY <2>2, <3>1, <3>2, NoWorkIsTyped DEF TypeOK
    <2> QED
      BY <2>1, <2>3, NoWorkIsTyped DEF Init, TypeInv
  <1>2. TypeInv => TypeOK
    BY DEF TypeInv
  <1> QED
    BY <1>1, <1>2, TypesStep, PTL DEF Spec
=============================================================================
