------------------------------ MODULE Environ ------------------------------
(***************************************************************************)
(* Arguments and environments as arrays of C strings (environ.cpp and      *)
(* arguments.cpp under process).  A text is a sequence of characters; the  *)
(* character "nul" ends a C string.  An environment is a function from     *)
(* names to values.                                                        *)
(***************************************************************************)
EXTENDS Integers, Sequences, FiniteSets, SequencesExt

Equals == "="
Throws == <<"throws">>

(* The first '=', or 0. *)
find_first_of(x) == SelectInSeq(x, LAMBDA c : c = Equals)

(* strdup(x.data()): the string ends at the first NUL it contains. *)
strdup(x) ==
  LET k == SelectInSeq(x, LAMBDA c : c = "nul") IN IF k = 0 THEN x ELSE SubSeq(x, 1, k - 1)

arguments_to_charpp(args) == [i \in DOMAIN args |-> strdup(args[i])]
arguments_to_charpp_prepend(prepend, args) == <<strdup(prepend)>> \o arguments_to_charpp(args)

(* A std::map is walked in the order of its names; which one it is does    *)
(* not matter here.                                                        *)
to_charpp(e) ==
  [i \in 1 .. Cardinality(DOMAIN e) |->
     LET name == SetToSeq(DOMAIN e)[i] IN strdup(name \o <<Equals>> \o e[name])]

(* Mutant: the value replaces one that is there. *)
insertOver(e, name, value) ==
  [n \in DOMAIN e \cup {name} |-> IF n = name THEN value ELSE e[n]]

(* environ::insert: a name that is there keeps its value. *)
insert(e, name, value) ==
  [n \in DOMAIN e \cup {name} |-> IF n \in DOMAIN e THEN e[n] ELSE value]

(* What has no '=' is left out. *)
from_charpp(args) ==
  FoldLeft(LAMBDA e, x :
             LET pos == find_first_of(x) IN
             IF pos = 0 THEN e
             ELSE insert(e, SubSeq(x, 1, pos - 1), SubSeq(x, pos + 1, Len(x))),
           [n \in {} |-> <<>>], args)

(* this_environ::name and value of one entry of ::environ: without an '='  *)
(* the name is erased from npos on, and the value is all of it.            *)
name(x) == IF find_first_of(x) = 0 THEN Throws ELSE SubSeq(x, 1, find_first_of(x) - 1)
value(x) == SubSeq(x, find_first_of(x) + 1, Len(x))

(* getenv: the first entry of that name.  It finds nothing under no name,  *)
(* and compares the name with what is in front of the '=' behind it.       *)
getenv(envp, n) ==
  SelectInSeq(envp, LAMBDA x : n # <<>> /\ Len(x) > Len(n) /\ SubSeq(x, 1, Len(n)) = n
                               /\ x[Len(n) + 1] = Equals)

(* What getenv has to say of a C string.                                   *)
looked_up(envp, n) ==
  LET k == getenv(envp, n)
  IN  [found |-> k # 0, value |-> IF k = 0 THEN <<>> ELSE SubSeq(envp[k], Len(n) + 2, Len(envp[k]))]

(* this_environ::get, with what it stores in *found, and count: getenv is  *)
(* given name.data(), the name up to its first NUL.                        *)
get(envp, n) == looked_up(envp, strdup(n))
this_count(envp, n) == IF getenv(envp, strdup(n)) # 0 THEN 1 ELSE 0

(* setenv and unsetenv: no name may be empty or have an '='.  One replaces *)
(* the first entry of that name or adds one, the other removes them all.   *)
named(n) == n # <<>> /\ find_first_of(n) = 0
setenv(envp, n, v, over) ==
  LET k == getenv(envp, n)
      entry == n \o <<Equals>> \o v
  IN  IF k = 0 THEN Append(envp, entry) ELSE IF over THEN [envp EXCEPT ![k] = entry] ELSE envp
unsetenv(envp, n) ==
  FoldLeft(LAMBDA kept, x : IF getenv(<<x>>, n) = 0 THEN Append(kept, x) ELSE kept, <<>>, envp)

(* this_environ::insert and erase; what they throw leaves envp as it is.   *)
this_insert(envp, n, v, over) ==
  IF named(strdup(n)) THEN [threw |-> FALSE, envp |-> setenv(envp, strdup(n), strdup(v), over)]
  ELSE [threw |-> TRUE, envp |-> envp]
this_erase(envp, n) ==
  IF named(strdup(n)) THEN [threw |-> FALSE, envp |-> unsetenv(envp, strdup(n))]
  ELSE [threw |-> TRUE, envp |-> envp]
=============================================================================
