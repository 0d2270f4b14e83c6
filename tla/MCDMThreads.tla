---------------------------- MODULE MCDMThreads ----------------------------
(* Instances of DMThreads for TLC. *)
EXTENDS DMThreads, TLC

CONSTANTS s1, b1

OneServer == [b \in Blocks |-> s1]

Symmetry == Permutations(Clients) \cup Permutations(Data \ {Zero})
=============================================================================
