---------------------------- MODULE MCX11Server ----------------------------
(* X11Server with two objects, three X servers and three attempts.         *)
EXTENDS X11Server, TLC

CONSTANTS s1, s2, x1, x2, x3

MCSymmetry == Permutations({s1, s2}) \cup Permutations({x1, x2, x3})
=============================================================================
