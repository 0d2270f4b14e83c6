-------------------------- MODULE MCConfiguration --------------------------
(* Instances of Configuration for TLC. *)
EXTENDS Configuration

CONSTANTS s1, s2, s3
ThreeIds == <<s1, s2, s3>>
=============================================================================
