------------------------------- MODULE Tern --------------------------------
(***************************************************************************)
(* tern (tern.hpp): a truth value that may be uncertain, with overloads of *)
(* the logical operators for terns, bools and the constant `uncertain`.    *)
(* An operand is a record of its static type and its value.                *)
(***************************************************************************)

EXTENDS Naturals, TLC

false_value == "false"
true_value == "true"
uncertain_value == "uncertain"
Values == {false_value, true_value, uncertain_value}

(* What a caller can write: a tern, a bool or the constant uncertain.      *)
Operands ==
  [type : {"tern"}, value : Values]
    \cup [type : {"bool"}, value : {false_value, true_value}]
    \cup [type : {"uncertain_t"}, value : {uncertain_value}]

tern(v) == [type |-> "tern", value |-> v]

(* The operand is a tern: a bool and the constant `uncertain` (an enum, of *)
(* value 0) have the built-in operator, which makes !uncertain true.       *)
Not(x) ==
  CASE x.value = false_value -> tern(true_value)
    [] x.value = true_value  -> tern(false_value)
    [] OTHER                 -> tern(uncertain_value)

(* Mutant: the overload for `uncertain` does not look at its operand. *)
AndConstantUncertain(x, y) ==
  IF "uncertain_t" \in {x.type, y.type} THEN tern(uncertain_value)
  ELSE IF x.value = true_value THEN tern(y.value)
  ELSE IF false_value \in {x.value, y.value} THEN tern(false_value) ELSE tern(uncertain_value)

(* One disjunct for each overload of operator&&: one operand is a tern.    *)
And(x, y) ==
  CASE x.type = "tern" /\ y.type = "tern" ->
         IF x.value = true_value THEN y
         ELSE IF x.value = false_value \/ y.value = false_value
              THEN tern(false_value) ELSE tern(uncertain_value)
    [] y.type = "bool" -> IF y.value = true_value THEN x ELSE tern(false_value)
    [] x.type = "bool" -> IF x.value = true_value THEN y ELSE tern(false_value)
    [] "uncertain_t" \in {x.type, y.type} ->
         IF false_value \in {x.value, y.value} THEN tern(false_value) ELSE tern(uncertain_value)

Or(x, y) ==
  CASE x.type = "tern" /\ y.type = "tern" ->
         IF x.value = false_value THEN y
         ELSE IF x.value = true_value \/ y.value = true_value
              THEN tern(true_value) ELSE tern(uncertain_value)
    [] y.type = "bool" -> IF y.value = true_value THEN tern(true_value) ELSE x
    [] x.type = "bool" -> IF x.value = true_value THEN tern(true_value) ELSE y
    [] "uncertain_t" \in {x.type, y.type} ->
         IF true_value \in {x.value, y.value} THEN tern(true_value) ELSE tern(uncertain_value)

----------------------------------------------------------------------------
(* Reference: the strong logic of Kleene, in which false < uncertain <     *)
(* true, conjunction is the minimum and disjunction the maximum.           *)
Rank(v) == CASE v = false_value -> 0 [] v = uncertain_value -> 1 [] v = true_value -> 2

Least(v, w) == IF Rank(v) <= Rank(w) THEN v ELSE w
Greatest(v, w) == IF Rank(v) <= Rank(w) THEN w ELSE v
=============================================================================
