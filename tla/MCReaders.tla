----------------------------- MODULE MCReaders -----------------------------
(* Instances of Readers for TLC. *)
EXTENDS Readers

Programs == {Reader1, Reader2}
SharedBlocks == {"text", "size", "spaces", "words"}
=============================================================================
