-------------------------- MODULE MCMessageTables --------------------------
(* Instances of MessageTables for TLC. *)
EXTENDS MessageTables

\* A part of the eight types, in the order of message.cpp.
SomeTypes == <<"WRITE", "WAIT", "ACK", "NACK", "UNDEF">>

Symmetry == Permutations(Threads)
=============================================================================
