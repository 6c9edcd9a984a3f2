------------------------------ MODULE Optional -----------------------------
(***************************************************************************)
(* optional (optional.hpp): a value and a flag.  A value that was never    *)
(* initialised is whatever was there ("junk"), for a type without a        *)
(* constructor; no operation but operator* may show it.                    *)
(***************************************************************************)
EXTENDS Sequences, SequencesExt

Fresh == [value |-> "junk", none |-> TRUE]

copy(x, v) == [value |-> v, none |-> FALSE]
clear(x) == [value |-> "0", none |-> TRUE]   \* value_type()

(* Assigning a temporary exchanges it with the value. *)
swap_value(x, v) == [value |-> v, none |-> FALSE]

(* Moving from an optional copies its flag: it is not none afterwards.     *)
(* (A std::string that has been moved from is empty.)                      *)
moved(v) == IF v = "junk" THEN v ELSE "moved"

equal(x, y) == (x.none /\ y.none) \/ (~x.none /\ ~y.none /\ x.value = y.value)

(* What a program can do with the two optionals of s. *)
OptionalSteps ==
  [op : {"copy", "swap_value"}, on : 1 .. 2, v : {"1", "2"}]
    \cup [op : {"clear", "assign", "move", "swap"}, on : 1 .. 2, v : {"1"}]

Run(s, step) ==
  LET x == step.on  y == 3 - step.on IN
  CASE step.op = "copy" -> [s EXCEPT ![x] = copy(@, step.v)]
    [] step.op = "swap_value" -> [s EXCEPT ![x] = swap_value(@, step.v)]
    [] step.op = "clear" -> [s EXCEPT ![x] = clear(@)]
    [] step.op = "assign" -> [s EXCEPT ![x] = s[y]]
    [] step.op = "move" -> [s EXCEPT ![x] = s[y], ![y].value = moved(@)]
    [] step.op = "swap" -> [s EXCEPT ![x] = s[y], ![y] = s[x]]

Ran(steps) == FoldLeft(Run, <<Fresh, Fresh>>, steps)

----------------------------------------------------------------------------
(* Reference: what was stored in each of the two last, or "none".          *)
Stored(s, step) ==
  LET x == step.on  y == 3 - step.on IN
  CASE step.op \in {"copy", "swap_value"} -> [s EXCEPT ![x] = step.v]
    [] step.op = "clear" -> [s EXCEPT ![x] = "none"]
    [] step.op = "assign" -> [s EXCEPT ![x] = s[y]]
    [] step.op = "move" -> [s EXCEPT ![x] = s[y], ![y] = IF @ = "none" THEN @ ELSE "moved"]
    [] step.op = "swap" -> <<s[2], s[1]>>

StoredLast(steps) == FoldLeft(Stored, <<"none", "none">>, steps)
Shown(x) == IF x.none THEN "none" ELSE x.value
=============================================================================
