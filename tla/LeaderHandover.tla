--------------------------- MODULE LeaderHandover ---------------------------
(***************************************************************************)
(* WindowProtocol when stake moves: every node resolves the leader anew,   *)
(* window by window, as the validator with the highest stake               *)
(* (resolve_leader_uid), and reads certificates and mirrors from the       *)
(* bucket of that validator alone.                                         *)
(***************************************************************************)
EXTENDS WindowProtocol

CONSTANT MaxHandovers  \* bound: changes of the highest stake

VARIABLE handovers

hvars == <<vars, handovers>>

InitH == Init /\ handovers = 0

StakeMoves ==
  /\ handovers < MaxHandovers /\ handovers' = handovers + 1
  /\ leader' \in Validators \ {leader}
  /\ UNCHANGED <<head, gateOpen, slot, bucketVars, diskVars, procVars, faults>>

NextH == (Next /\ UNCHANGED handovers) \/ StakeMoves

SpecH == InitH /\ [][NextH]_hvars
-----------------------------------------------------------------------------
(* Whoever led when, there is one certificate per window (leader.py:        *)
(* "liveness degrades one window, never forks").                            *)
NoForkedCertificates ==
  \A w \in Windows, u, v \in Validators :
    certs[u][w] # NoCert /\ certs[v][w] # NoCert => certs[u][w] = certs[v][w]
=============================================================================
