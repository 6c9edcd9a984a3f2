----------------------------- MODULE MCRedirect ----------------------------
(* Redirect with two objects, two children and twelve descriptors: room    *)
(* for one child and the pipes of the next.                                *)
EXTENDS Redirect

CONSTANTS o1, o2, c1, c2

MCRedirs == {{}, {"cin"}, {"cout"}, {"cout", "cin"}, Streams}

MCSymmetry == Permutations({o1, o2}) \cup Permutations({c1, c2})
=============================================================================
