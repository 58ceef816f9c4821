---------------------------- MODULE Attestation ----------------------------
(***************************************************************************)
(* The attestation of a node (fleet/attestation): a verifier issues a      *)
(* challenge from the hash of the head block, the node trains a toy window *)
(* from it with the ordinary inner loop and answers with the root of its   *)
(* parameters, and the verifier judges the root and the time it took.  A   *)
(* verifier may issue again while the node still works on what it was      *)
(* asked before.  Hashes of a block are the parameter DigestOf.            *)
(***************************************************************************)
EXTENDS InnerLoop

CONSTANTS
    DigestOf(_),    \* block -> [id, seed]
    SeedOf(_, _),   \* id, seed -> the run seed of the synthetic dataset
    InitModel(_),   \* seed -> the parameters of a fresh model
    AttestSteps, AttestWorld, AttestShards,
    Deadline, LastBlock, LastTick   \* seconds allowed; bounds on blocks and time

VARIABLE exam   \* [clock, asked, held, answer, verdict]

\* make_challenge and challenge_run_config: the inner steps are pinned on top
\* of the configuration, here as the first entry of the phase table.
MakeChallenge(block, now) ==
    [id |-> DigestOf(block).id, seed |-> DigestOf(block).seed, steps |-> AttestSteps,
     block |-> block, issued |-> now]

NoChallenge == [id |-> 0, block |-> 0]
NoAnswer    == [id |-> 0]

AttestManifest(c) ==
    [phases |-> <<[start |-> 0, over |-> [data |-> "attest", steps |-> c.steps], restart |-> FALSE]>>,
     voids |-> {}, salt |-> SeedOf(c.id, c.seed), amendments |-> <<>>]

AttestPhase(c) == ResolvePhase(AttestManifest(c), 0)

\* write_attestation_shards: as many sequences as the full node reads, however
\* many ranks there are, in equal shards.
AttestDataset(phase) ==
    [shards |-> AttestShards, seqLen |-> phase.seqLen,
     perShard |-> Ceil(SequencesPerWindow(phase, AttestWorld), AttestShards)]

ASSUME AttestationAssumption ==
    /\ "attest" \in DOMAIN Datasets
    /\ AttestSteps \in Nat \ {0} /\ LastTick \in Nat
    /\ \A b \in 1 .. LastBlock :
         LET phase == AttestPhase(MakeChallenge(b, 0))
         IN  Datasets["attest"] = AttestDataset(phase)

ExamInit ==
    exam = [clock |-> 0, asked |-> NoChallenge, held |-> NoChallenge, answer |-> NoAnswer,
            verdict |-> "none"]

\* Verifier.issue, from the head of the chain.
Issue ==
    /\ \E block \in exam.asked.block + 1 .. LastBlock :
         exam' = [exam EXCEPT !.asked = MakeChallenge(block, exam.clock), !.verdict = "none"]

\* The node reads the challenge it will answer.
Hold == exam.asked # NoChallenge /\ exam' = [exam EXCEPT !.held = exam.asked]

\* AttestationResponse, which arrives at the verifier's clock.
Respond(root) ==
    exam' = [exam EXCEPT !.answer = [id |-> exam.held.id, root |-> root, received |-> exam.clock],
                         !.verdict = "none"]

\* derive_expected: the same path, run by the verifier.
ExpectedRoot(c) == Reference(InitModel(c.seed), AttestManifest(c), 0, 0,
                             [step |-> 0, inner |-> 0, tokens |-> 0])

InTime(c, received) == received >= c.issued /\ received - c.issued <= Deadline

\* judge: every problem counts.
Judge ==
    /\ exam.answer # NoAnswer /\ exam.verdict = "none"
    /\ exam' = [exam EXCEPT !.verdict =
                  IF /\ exam.answer.id = exam.asked.id
                     /\ InTime(exam.asked, exam.answer.received)
                     /\ exam.answer.root = ExpectedRoot(exam.asked)
                  THEN "ok" ELSE "rejected"]

Tick == exam.clock < LastTick /\ exam' = [exam EXCEPT !.clock = @ + 1]
=============================================================================
