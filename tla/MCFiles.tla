------------------------------ MODULE MCFiles ------------------------------
(* Files with two files and two sockets, five descriptors.                 *)
EXTENDS Files, TLC

CONSTANTS f1, f2, s1, s2

MCSymmetry == Permutations({f1, f2}) \cup Permutations({s1, s2})
=============================================================================
