------------------------------ MODULE Filebuf ------------------------------
(***************************************************************************)
(* app::filebuf where the library is LLVM's (process/filebuf.hpp): the     *)
(* C stream for a file descriptor.  An open mode is a set of flags; access *)
(* is how the descriptor was opened.                                       *)
(***************************************************************************)
EXTENDS Naturals, FiniteSets

Flags == {"in", "out", "app", "trunc", "ate", "binary"}
Accesses == {"read", "write", "both"}

(* get_mode without its "b", "none" for nullptr. *)
get_mode(mode) ==
  LET m == mode \ {"ate", "binary"} IN
  CASE m \in {{"out"}, {"out", "trunc"}} -> "w"
    [] m \in {{"out", "app"}, {"app"}} -> "a"
    [] m = {"in"} -> "r"
    [] m = {"in", "out"} -> "r+"
    [] m = {"in", "out", "trunc"} -> "w+"
    [] m \in {{"in", "out", "app"}, {"in", "app"}} -> "a+"
    [] OTHER -> "none"

(* fdopen, external: it refuses what the descriptor cannot do, and never   *)
(* truncates.                                                              *)
Needs(md) == (IF md \in {"r", "r+", "w+", "a+"} THEN {"read"} ELSE {})
               \cup (IF md # "r" THEN {"write"} ELSE {})
Allows(access) == IF access = "both" THEN {"read", "write"} ELSE {access}

(* open(fd, mode): what it returns, and whether there is a stream.         *)
open(access, mode) ==
  [returned |-> get_mode(mode) # "none",
   file |-> get_mode(mode) # "none" /\ Needs(get_mode(mode)) \subseteq Allows(access)]
=============================================================================
