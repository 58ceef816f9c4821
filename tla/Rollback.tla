------------------------------ MODULE Rollback ------------------------------
(***************************************************************************)
(* The loss-spike rollback: each validator's detector and vote machine     *)
(* (subnet/core/rollback.py), the leader duty that drives them and commits *)
(* votes into the one commitment slot of each uid (validator/leader.py),   *)
(* and what the state file keeps of them (validator/app.py).               *)
(*                                                                         *)
(* Replicas are in lockstep (WindowProtocol), so a window has one probe    *)
(* loss, the same for every validator; losses are small integers.          *)
(***************************************************************************)
EXTENDS Integers, Sequences, FiniteSets, FiniteSetsExt

CONSTANTS
  Validators,       \* uids
  Owner,            \* OWNER_UID, whose slot holds the ManifestCommit
  Stakes,           \* the stakes the validators may hold
  OtherStake,       \* the stake of everyone else, none of whom leads
  Losses,           \* probe losses
  Threshold,        \* rollback.spike_threshold_nats
  Baseline,         \* rollback.spike_baseline_windows
  VoteSpan,         \* rollback.vote_window_span
  ActivationDelay,  \* rollback.activation_delay_windows
  CheckpointEvery,  \* window.checkpoint_every_windows
  KeepLocal,        \* Checkpointer.keep_local
  FarBehind,        \* backlog at which a follower skips ahead
  MaxWindow,        \* bound: windows the chain reaches
  MaxIdle,          \* bound: windows whose outer step is the identity
  MaxMoves,         \* bound: changes of stake
  MaxFaults,        \* bound: crashes and failed chain calls
  Identity,         \* the probe of a window whose outer step was the identity
  Manifest,         \* the slot holds the ManifestCommit
  NoVote,           \* the slot holds neither
  None              \* no state file, no decision, no target

ASSUME RollbackAssumption ==
  /\ Validators \subseteq Nat /\ IsFiniteSet(Validators) /\ Owner \in Validators
  /\ Stakes \subseteq [Validators -> Nat] /\ OtherStake \in Nat
  /\ Losses \subseteq Int /\ Threshold \in Nat
  /\ Baseline \in Nat \ {0} /\ VoteSpan \in Nat /\ ActivationDelay \in Nat
  /\ CheckpointEvery \in Nat \ {0} /\ KeepLocal \in Nat \ {0} /\ FarBehind \in Nat \ {0}
  /\ MaxWindow \in Nat /\ MaxIdle \in Nat /\ MaxMoves \in Nat /\ MaxFaults \in Nat
  /\ Identity \notin Losses
  /\ None \notin Int

Windows == 0 .. MaxWindow

VARIABLES
  probe,      \* probe[w + 1]: the probe loss of window w, or Identity
  certified,  \* windows below it have a certificate
  stake,      \* the stakes now
  moves,
  slot,       \* slot[v]: Manifest, NoVote or a VoteCommit
  pc,         \* where process_window is
  window,     \* self.window
  leads,      \* is_leader, as read at step (b)
  machine,    \* the RollbackStateMachine
  spike,      \* the SpikeDetector's losses
  probes,     \* self.probe_losses
  slotLent,   \* leader._owner_slot_holds_vote
  decision,   \* the RollbackDecision observe_probe_loss returned
  ckpts,      \* windows of the local checkpoints
  disk,       \* the state file, or None
  faults

chainVars == <<probe, certified, stake, moves>>
memory    == <<window, leads, machine, spike, probes, slotLent, decision>>
vars == <<chainVars, slot, pc, memory, ckpts, disk, faults>>

Closed == Len(probe)   \* windows below it have ended, and so have their gates

Normal == [state |-> "normal", alert |-> None, target |-> None, activation |-> None,
           voters |-> {}, yes |-> 0]

-----------------------------------------------------------------------------
(* Stakes *)

TotalOf(s) == OtherStake + SumFunctionOnSet(s, Validators)
Total == TotalOf(stake)
Super(yes) == 3 * yes > 2 * Total

(* resolve_leader_uid: the highest stake, ties to the lowest uid; each one   *)
(* for itself when nobody has any.                                          *)
IsLeader(v) ==
  \/ \A u \in Validators : stake[u] = 0
  \/ \A u \in Validators : stake[u] < stake[v] \/ (stake[u] = stake[v] /\ v <= u)

-----------------------------------------------------------------------------
(* SpikeDetector *)

LastOf(n, s) == SubSeq(s, IF Len(s) > n THEN Len(s) - n + 1 ELSE 1, Len(s))

(* Twice statistics.median: the two middle elements, or twice the middle one *)
TwiceMedian(s) ==
  LET Low(x)  == 2 * Cardinality({i \in DOMAIN s : s[i] <= x}) >= Len(s)
      High(x) == 2 * Cardinality({i \in DOMAIN s : s[i] >= x}) >= Len(s)
      elements == {s[i] : i \in DOMAIN s}
  IN  Min({x \in elements : Low(x)}) + Max({x \in elements : High(x)})

Spikes(baseline, loss) ==
  Len(baseline) >= Baseline /\ 2 * loss - TwiceMedian(baseline) > 2 * Threshold

-----------------------------------------------------------------------------
(* RollbackStateMachine: each operator takes the machine to the next one.   *)

OnAlert(m, w, target) ==
  [Normal EXCEPT !.state = "voting", !.alert = w, !.target = target]

(* add_vote for each uid in ascending order, at window w: a vote is counted *)
(* while the machine is voting, once per voter; the one that tips the       *)
(* supermajority is the last.                                               *)
Eligible(m, slots) ==
  {u \in Validators : /\ slots[u] \notin {Manifest, NoVote}
                      /\ slots[u].target = m.target
                      /\ u \notin m.voters /\ stake[u] > 0}
StakeOf(S) == SumFunctionOnSet(stake, S)

(* The votes of E that are still counted: those before the tipping one, and it. *)
Counted(m, E) ==
  {u \in E : LET before == {x \in E : x < u}
             IN  before = {} \/ ~Super(m.yes + StakeOf(before))}

(* Faulty variant: a voter is counted again in each window. *)
AddVotesTwice(m, slots, w) ==
  LET E == Eligible([m EXCEPT !.voters = {}], slots)
      counted == Counted(m, E)
      after == [m EXCEPT !.voters = @ \cup counted, !.yes = @ + StakeOf(counted)]
  IN
  IF m.state # "voting" \/ w \notin m.alert .. m.alert + VoteSpan THEN m
  ELSE IF counted # {} /\ Super(after.yes)
       THEN [after EXCEPT !.state = "pending", !.activation = w + ActivationDelay]
       ELSE after

AddVotes(m, slots, w) ==
  LET counted == Counted(m, Eligible(m, slots))
      after == [m EXCEPT !.voters = @ \cup counted, !.yes = @ + StakeOf(counted)]
  IN
  IF m.state # "voting" \/ w \notin m.alert .. m.alert + VoteSpan THEN m
  ELSE IF counted # {} /\ Super(after.yes)
       THEN [after EXCEPT !.state = "pending", !.activation = w + ActivationDelay]
       ELSE after

(* tick: an unresolved vote expires *)
Expire(m, w) ==
  IF m.state = "voting" /\ w > m.alert + VoteSpan THEN Normal ELSE m

Activates(m, w) == m.state = "pending" /\ w >= m.activation
VoidLast(m) == Max({m.target + 1, m.activation})

(* Faulty variant: the range begins at the checkpoint that is kept. *)
DecideFromTarget(m) == [target |-> m.target, first |-> m.target, last |-> VoidLast(m)]
Decide(m) == [target |-> m.target, first |-> m.target + 1, last |-> VoidLast(m)]

-----------------------------------------------------------------------------
(* Faulty variant: retention off by one *)
PruneOneMore(S) == {w \in S : Cardinality({x \in S : x > w}) < KeepLocal - 1}

(* Checkpointer.prune_local: the newest KeepLocal stay *)
Prune(S) == {w \in S : Cardinality({x \in S : x > w}) < KeepLocal}

-----------------------------------------------------------------------------
Init ==
  /\ probe = << >> /\ certified = 0
  /\ stake \in Stakes /\ moves = 0
  /\ slot = [v \in Validators |-> IF v = Owner THEN Manifest ELSE NoVote]
  /\ pc = [v \in Validators |-> "idle"]
  /\ window = [v \in Validators |-> 0]
  /\ leads = [v \in Validators |-> FALSE]
  /\ machine = [v \in Validators |-> Normal]
  /\ spike = [v \in Validators |-> << >>]
  /\ probes = [v \in Validators |-> << >>]
  /\ slotLent = FALSE
  /\ decision = [v \in Validators |-> None]
  /\ ckpts = [v \in Validators |-> {}]
  /\ disk = [v \in Validators |-> None]
  /\ faults = 0

(* The next window closes; what its outer step does to the loss is open. *)
Tick ==
  /\ Closed <= MaxWindow
  /\ \E l \in Losses \cup {Identity} : probe' = Append(probe, l)
  /\ Cardinality({i \in DOMAIN probe' : probe'[i] = Identity}) <= MaxIdle
  /\ UNCHANGED <<certified, stake, moves, slot, pc, memory, ckpts, disk, faults>>

StakeMoves ==
  /\ moves < MaxMoves /\ moves' = moves + 1
  /\ stake' \in Stakes \ {stake}
  /\ UNCHANGED <<probe, certified, slot, pc, memory, ckpts, disk, faults>>

-----------------------------------------------------------------------------
(* process_window, as far as the rollback sees it                           *)

SaveState(v) ==
  disk' = [disk EXCEPT ![v] = [window |-> window'[v], machine |-> machine'[v],
                               probes |-> probes'[v]]]

(* (a) to (e): the leader certifies, the resume window is saved *)
ProcessWindow(v) ==
  /\ pc[v] = "idle" /\ window[v] < Closed
  /\ IsLeader(v) \/ Closed - 1 - window[v] < FarBehind
  /\ leads' = [leads EXCEPT ![v] = IsLeader(v)]
  /\ certified' = IF IsLeader(v) THEN Max({certified, window[v] + 1}) ELSE certified
  /\ window' = [window EXCEPT ![v] = @ + 1]
  /\ UNCHANGED <<machine, probes>>
  /\ SaveState(v)
  /\ pc' = [pc EXCEPT ![v] = "apply"]
  /\ UNCHANGED <<probe, stake, moves, slot, spike, slotLent, decision, ckpts, faults>>

(* (g) for a follower: the probe is recorded, and nothing else *)
FollowerProbe(v) ==
  LET l == probe[window[v]] IN
  /\ pc[v] = "apply" /\ ~leads[v] /\ window[v] <= certified
  /\ probes' = IF l = Identity THEN probes
               ELSE [probes EXCEPT ![v] = LastOf(Baseline + 4, Append(@, l))]
  /\ pc' = [pc EXCEPT ![v] = "post"]
  /\ UNCHANGED <<chainVars, slot, window, leads, machine, spike, slotLent, decision, ckpts>>
  /\ UNCHANGED <<disk, faults>>

(* maybe_checkpoint *)
Checkpoint(S, w) == IF w % CheckpointEvery = 0 THEN Prune(S \cup {w}) ELSE S

(* (g) for the leader: checkpoint, then observe_probe_loss, in one          *)
(* synchronous call: the detector, the vote, the votes in the slots, the    *)
(* clock, the activation, and the owner's slot given back: best-effort, so  *)
(* the chain call may fail and is then repeated in the next window.         *)
LeaderProbe(v) ==
  LET w       == window[v] - 1
      l       == probe[w + 1]
      applied == l # Identity
      local   == Checkpoint(ckpts[v], w)
      targets == {c \in local : c < w}
      votes   == applied /\ Spikes(spike[v], l) /\ targets # {} /\ machine[v].state = "normal"
      open    == IF votes THEN OnAlert(machine[v], w, Max(targets)) ELSE machine[v]
      voted   == IF votes
                 THEN [slot EXCEPT ![v] = [target |-> open.target, cast |-> w]] ELSE slot
      counted == IF open.target # None THEN AddVotes(open, voted, w) ELSE open
      ticked  == Expire(counted, w)
      activates == Activates(ticked, w)
      after   == IF activates THEN Normal ELSE ticked
      lent    == slotLent \/ (votes /\ v = Owner)
      restores == v = Owner /\ lent /\ after.state = "normal"
  IN
  /\ pc[v] = "apply" /\ leads[v]
  /\ \E returns \in {restores, FALSE} :
       /\ slot' = IF returns THEN [voted EXCEPT ![v] = Manifest] ELSE voted
       /\ slotLent' = (lent /\ ~returns)
       /\ faults' = IF returns = restores THEN faults ELSE faults + 1
  /\ faults' <= MaxFaults
  /\ ckpts' = [ckpts EXCEPT ![v] = local]
  /\ probes' = IF applied
               THEN [probes EXCEPT ![v] = LastOf(Baseline + 4, Append(@, l))] ELSE probes
  /\ spike' = IF applied THEN [spike EXCEPT ![v] = LastOf(Baseline, Append(@, l))] ELSE spike
  /\ machine' = [machine EXCEPT ![v] = after]
  /\ decision' = [decision EXCEPT ![v] = IF activates THEN Decide(ticked) ELSE None]
  /\ pc' = [pc EXCEPT ![v] = IF activates THEN "exit" ELSE "post"]
  /\ UNCHANGED <<chainVars, window, leads, disk>>

(* (h) to (j): the state is saved again *)
FinishWindow(v) ==
  /\ pc[v] = "post"
  /\ UNCHANGED memory
  /\ SaveState(v)
  /\ pc' = [pc EXCEPT ![v] = "idle"]
  /\ UNCHANGED <<chainVars, slot, ckpts, faults>>

(* A follower that is far behind does not process its backlog. *)
SkipAhead(v) ==
  /\ pc[v] = "idle" /\ ~IsLeader(v)
  /\ Closed - 1 - window[v] >= FarBehind /\ Closed - 1 <= certified
  /\ window' = [window EXCEPT ![v] = Closed - 1]
  /\ UNCHANGED <<chainVars, slot, pc, leads, machine, spike, probes, slotLent, decision, ckpts>>
  /\ UNCHANGED <<disk, faults>>

-----------------------------------------------------------------------------
GoDown(v) ==
  /\ pc' = [pc EXCEPT ![v] = "down"]
  /\ window' = [window EXCEPT ![v] = 0]
  /\ leads' = [leads EXCEPT ![v] = FALSE]
  /\ machine' = [machine EXCEPT ![v] = Normal]
  /\ spike' = [spike EXCEPT ![v] = << >>]
  /\ probes' = [probes EXCEPT ![v] = << >>]
  /\ slotLent' = (slotLent /\ v # Owner)
  /\ decision' = [decision EXCEPT ![v] = None]

(* The activated rollback: the state is saved and the process exits. *)
ExitForRollback(v) ==
  /\ pc[v] = "exit"
  /\ disk' = [disk EXCEPT ![v] = [window |-> window[v], machine |-> machine[v],
                                  probes |-> probes[v]]]
  /\ GoDown(v)
  /\ UNCHANGED <<chainVars, slot, ckpts, faults>>

Crash(v) ==
  /\ pc[v] # "down"
  /\ faults < MaxFaults /\ faults' = faults + 1
  /\ GoDown(v)
  /\ UNCHANGED <<chainVars, slot, ckpts, disk>>

(* bootstrap: "no manifest committed by owner uid 0" *)
CanBootstrap == slot[Owner] = Manifest

(* Faulty variant: the vote machine is not part of the state file. *)
RestartForgetting(v) ==
  LET state == disk[v] IN
  /\ pc[v] = "down" /\ CanBootstrap
  /\ probes' = IF state = None THEN probes ELSE [probes EXCEPT ![v] = state.probes]
  /\ spike' = IF state = None THEN spike ELSE [spike EXCEPT ![v] = LastOf(Baseline, state.probes)]
  /\ window' = [window EXCEPT ![v] =
       IF state = None \/ ckpts[v] = {} THEN 0 ELSE Max({state.window, Max(ckpts[v]) + 1})]
  /\ pc' = [pc EXCEPT ![v] = "idle"]
  /\ UNCHANGED <<chainVars, slot, leads, machine, slotLent, decision, ckpts, disk, faults>>

(* ValidatorState.load, and the newest local checkpoint *)
Restart(v) ==
  LET state == disk[v] IN
  /\ pc[v] = "down" /\ CanBootstrap
  /\ machine' = IF state = None THEN machine ELSE [machine EXCEPT ![v] = state.machine]
  /\ probes' = IF state = None THEN probes ELSE [probes EXCEPT ![v] = state.probes]
  /\ spike' = IF state = None THEN spike ELSE [spike EXCEPT ![v] = LastOf(Baseline, state.probes)]
  /\ window' = [window EXCEPT ![v] =
       IF state = None \/ ckpts[v] = {} THEN 0 ELSE Max({state.window, Max(ckpts[v]) + 1})]
  /\ pc' = [pc EXCEPT ![v] = "idle"]
  /\ UNCHANGED <<chainVars, slot, leads, slotLent, decision, ckpts, disk, faults>>

-----------------------------------------------------------------------------
Next ==
  \/ Tick \/ StakeMoves
  \/ \E v \in Validators :
       \/ ProcessWindow(v) \/ FollowerProbe(v) \/ LeaderProbe(v) \/ FinishWindow(v)
       \/ SkipAhead(v) \/ ExitForRollback(v) \/ Crash(v) \/ Restart(v)

Spec == Init /\ [][Next]_vars
-----------------------------------------------------------------------------
(***************************************************************************)
(* Properties                                                              *)
(***************************************************************************)

WindowOrNone == 0 .. MaxWindow + VoteSpan + ActivationDelay \cup {None}
Machines ==
  [state : {"normal", "voting", "pending"}, alert : WindowOrNone, target : WindowOrNone,
   activation : WindowOrNone, voters : SUBSET Validators, yes : Nat]
State == [window : 0 .. MaxWindow + 1, machine : Machines, probes : Seq(Losses)]

ASSUME NoFileAssumption == None \notin State

(* The types of the variables. *)
TypeOK ==
  /\ probe \in Seq(Losses \cup {Identity}) /\ Len(probe) <= MaxWindow + 1
  /\ certified \in 0 .. MaxWindow + 1
  /\ stake \in Stakes /\ moves \in 0 .. MaxMoves
  /\ slot \in [Validators -> {Manifest, NoVote} \cup [target : Windows, cast : Windows]]
  /\ pc \in [Validators -> {"idle", "apply", "post", "exit", "down"}]
  /\ window \in [Validators -> 0 .. MaxWindow + 1]
  /\ leads \in [Validators -> BOOLEAN]
  /\ machine \in [Validators -> Machines]
  /\ spike \in [Validators -> Seq(Losses)] /\ probes \in [Validators -> Seq(Losses)]
  /\ slotLent \in BOOLEAN
  /\ decision \in [Validators -> {None} \cup [target : Windows, first : 1 .. MaxWindow + 1,
                                              last : WindowOrNone]]
  /\ ckpts \in [Validators -> SUBSET Windows]
  /\ disk \in [Validators -> State \cup {None}]
  /\ faults \in 0 .. MaxFaults

(* A rollback is pending only if distinct validators voted for it that held, *)
(* each at some time, stakes which make a supermajority of the total of some *)
(* time: no voter is counted twice, whatever window, restart or change of    *)
(* stake lies between two ingests of one slot (RollbackStateMachine.add_vote).*)
PendingBacked ==
  \A v \in Validators : machine[v].state = "pending" =>
    \E held \in [machine[v].voters -> Stakes], s \in Stakes :
      3 * SumFunction([u \in machine[v].voters |-> held[u][u]]) > 2 * TotalOf(s)

(* A vote that reached the state file stays open until it is carried, its   *)
(* span is over or it was activated, whatever crashes in between.           *)
OpenVotesSurvive ==
  [][\A v \in Validators :
       disk[v] # None /\ disk[v].machine.state = "voting" =>
         LET before == disk[v].machine
             after  == disk'[v].machine
         IN  \/ after.state = "voting" /\ after.alert = before.alert
                  /\ before.voters \subseteq after.voters
             \/ after.state = "pending" /\ after.target = before.target
             \/ disk'[v].window - 1 > before.alert + VoteSpan
             \/ pc[v] = "exit"]_vars

(* A rollback that activates in its activation window finds the checkpoint  *)
(* it rewinds to: retention outlasts the vote (maybe_checkpoint saves, and  *)
(* prunes, before the same window's probe is observed).                     *)
RewindTargetOnDisk ==
  \A v \in Validators :
    pc[v] = "exit" /\ decision[v].last = window[v] - 1 => decision[v].target \in ckpts[v]

(* While the owner is down, its slot holds the ManifestCommit: otherwise no *)
(* node can bootstrap, the owner included, and nobody ever gives the slot   *)
(* back (leader.py, observe_probe_loss: "so a rollback never locks the      *)
(* fleet out").                                                             *)
OwnerCanReturn == pc[Owner] = "down" => slot[Owner] = Manifest

(* A vote a machine has counted was cast for the alert the machine is open  *)
(* for (class docstring: "yes-votes for the fixed target cast within        *)
(* vote_window_span windows of the alert").                                 *)
VotesFresh ==
  \A v, u \in Validators :
    u \in machine[v].voters /\ slot[u] \notin {Manifest, NoVote}
      => slot[u].cast >= machine[v].alert
=============================================================================
