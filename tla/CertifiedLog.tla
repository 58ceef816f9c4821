---------------------------- MODULE CertifiedLog ----------------------------
(***************************************************************************)
(* What the window protocol promises, with no chain, gate, bucket, leader  *)
(* or checkpoint in sight: there is one published log of parameter states. *)
(* The log only grows.  A replica that is up holds an entry of the log and *)
(* moves one entry at a time; a replica that failed comes back at any      *)
(* entry.                                                                  *)
(***************************************************************************)
EXTENDS Naturals, Sequences

CONSTANTS Replicas, InitTheta

VARIABLES
  log,      \* the parameter states the leader has published, theta_init first
  replica,  \* replica[n]: the parameters replica n holds
  up        \* up[n]: is replica n running?

logVars == <<log, replica, up>>

LogInit ==
  /\ log = << InitTheta >>
  /\ replica = [n \in Replicas |-> InitTheta]
  /\ up = [n \in Replicas |-> TRUE]

(* The leader certifies the next window. *)
Publish ==
  /\ UNCHANGED <<replica, up>>
  /\ log' = Append(log, log'[Len(log')])

(* A replica applies the outer step of the entry it holds, and no other. *)
Advance(n) ==
  /\ up[n]
  /\ \E k \in 1 .. Len(log) - 1 :
       replica[n] = log[k] /\ replica' = [replica EXCEPT ![n] = log[k + 1]]
  /\ UNCHANGED <<log, up>>

Fail(n) ==
  /\ up[n]
  /\ up' = [up EXCEPT ![n] = FALSE]
  /\ replica' = [replica EXCEPT ![n] = InitTheta]
  /\ UNCHANGED log

(* From a checkpoint, of its own or downloaded *)
Rejoin(n) ==
  /\ ~up[n]
  /\ up' = [up EXCEPT ![n] = TRUE]
  /\ \E k \in 1 .. Len(log) : replica' = [replica EXCEPT ![n] = log[k]]
  /\ UNCHANGED log

LogNext == Publish \/ \E n \in Replicas : Advance(n) \/ Fail(n) \/ Rejoin(n)

LogSpec == LogInit /\ [][LogNext]_logVars
=============================================================================
