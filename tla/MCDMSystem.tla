----------------------------- MODULE MCDMSystem -----------------------------
(* Instances of DMSystem, and of its refinement in DMMemory, for TLC. *)
EXTENDS DMMemory, TLC

CONSTANTS s1, s2, b1, b2

\* All blocks on one server; one block on each of two servers.
OneServer == [b \in Blocks |-> s1]
TwoServers == [b \in Blocks |-> IF b = b1 THEN s1 ELSE s2]

\* Clients are interchangeable, and so are the contents other than Zero.
Symmetry == Permutations(Clients) \cup Permutations(Data \ {Zero})
=============================================================================
