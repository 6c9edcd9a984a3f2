------------------------------- MODULE MCHei -------------------------------
(* Hei with three device objects and three handles. *)
EXTENDS Hei, TLC

CONSTANTS o1, o2, o3, h1, h2, h3

MCSymmetry == Permutations({o1, o2, o3}) \cup Permutations({h1, h2, h3})
=============================================================================
