---------------------------- MODULE MCDMTimeouts ----------------------------
(* Instances of DMTimeouts for TLC. *)
EXTENDS DMTimeouts, TLC

CONSTANTS s1, s2, b1, b2

TwoServers == [b \in Blocks |-> IF b = b1 THEN s1 ELSE s2]

Symmetry == Permutations(Clients) \cup Permutations(Data \ {Zero})
=============================================================================
