----------------------------- MODULE ExitStatus ----------------------------
(***************************************************************************)
(* this_process::execute (process/process.cpp): the exit_code of a shell   *)
(* command, decoded from the status word of system(3).  The status word is *)
(* that of waitpid: the signal in the low seven bits (0 for an exit, 127   *)
(* for a stop), the core flag above them, then eight bits of exit status.  *)
(***************************************************************************)
EXTENDS Integers

(* How a command can end.  system() reports a shell that could not be      *)
(* started as a command that exited with 127.                              *)
Endings ==
  [kind : {"exit"}, n : 0 .. 255] \cup [kind : {"signal", "core"}, n : 1 .. 64]
    \cup [kind : {"no_child", "no_shell"}, n : {0}]

system(e) ==
  CASE e.kind = "exit"     -> e.n * 256
    [] e.kind = "signal"   -> e.n
    [] e.kind = "core"     -> e.n + 128
    [] e.kind = "no_child" -> -1
    [] e.kind = "no_shell" -> 127 * 256

WIFEXITED(status) == status % 128 = 0
WEXITSTATUS(status) == (status \div 256) % 256
WTERMSIG(status) == status % 128
WIFSIGNALED(status) == WTERMSIG(status) \notin {0, 127}

Throws == [kind |-> "throws", n |-> 0]

execute(status) ==
  IF status \in {-1, 127} THEN Throws
  ELSE IF WIFEXITED(status) THEN [kind |-> "exit", n |-> WEXITSTATUS(status)]
  ELSE IF WIFSIGNALED(status) THEN [kind |-> "term", n |-> WTERMSIG(status)]
  ELSE [kind |-> "none", n |-> 0]
=============================================================================
