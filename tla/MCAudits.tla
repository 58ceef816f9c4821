----------------------------- MODULE MCAudits ------------------------------
(* Small instances of Audits: one miner that cheats and one that does not.  *)
EXTENDS Audits

\* Every position is sampled in every window (AuditConfig.probability = 1).
AllSampled == [w \in Windows |-> 1 .. Cardinality(Miners)]
=============================================================================
