---------------------------- MODULE MCDMRestart ----------------------------
(* Instances of DMRestart for TLC. *)
EXTENDS DMRestart, TLC

CONSTANTS s1, b1

OneServer == [b \in Blocks |-> s1]

Symmetry == Permutations(Clients) \cup Permutations(Data \ {Zero})
=============================================================================
