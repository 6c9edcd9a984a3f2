----------------------------- MODULE MCProcess -----------------------------
(* Process with two objects and two children. *)
EXTENDS Process, TLC

CONSTANTS o1, o2, p1, p2

MCSymmetry == Permutations({o1, o2}) \cup Permutations({p1, p2})
(* The sentinel of exit_code, and a value that does not fit the status. *)
MCReturns == {-1, 256}
=============================================================================
