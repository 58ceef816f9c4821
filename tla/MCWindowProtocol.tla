-------------------------- MODULE MCWindowProtocol --------------------------
(***************************************************************************)
(* Small instances of WindowProtocol for TLC.                              *)
(***************************************************************************)
EXTENDS WindowProtocol, TLC

MinerSymmetry == Permutations(Miners)
=============================================================================
