---------------------------- MODULE MCSanctions -----------------------------
(* Small instances of Sanctions: two miners, told apart by their uids.      *)
EXTENDS Sanctions

\* Two chunks of five indices.  The first two share six tenths, the last has a
\* shape of its own.
Chunks(from1, from2) == [w \in {"w"} |-> <<from1 .. from1 + 4, from2 .. from2 + 4>>]
MCUploads == {Chunks(0, 0), Chunks(2, 2), [w \in {"w"} |-> <<0 .. 4>>]}

\* The first miner may do anything, the second uploads well.
MCReadings == [m \in Miners |-> IF m = 1 THEN Gates ELSE {"valid"}]
=============================================================================
