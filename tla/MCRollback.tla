----------------------------- MODULE MCRollback -----------------------------
(***************************************************************************)
(* Small instances of Rollback for TLC: validators 0 (the owner) and 1.    *)
(***************************************************************************)
EXTENDS Rollback

StakeOf01(a, b) == [v \in {0, 1} |-> IF v = 0 THEN a ELSE b]

(* Of a total of 11 with OtherStake = 2: the owner leads with enough stake  *)
(* to carry a vote alone, or 1 leads and needs the owner's vote.            *)
MovingStakes == {StakeOf01(8, 1), StakeOf01(4, 5)}
StrongOwner  == {StakeOf01(8, 1)}
=============================================================================
