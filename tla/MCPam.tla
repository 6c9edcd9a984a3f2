------------------------------- MODULE MCPam -------------------------------
(* Pam with two contexts and two handles. *)
EXTENDS Pam

CONSTANTS o1, o2, h1, h2

MCSymmetry == Permutations({o1, o2}) \cup Permutations({h1, h2})
=============================================================================
