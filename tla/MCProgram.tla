----------------------------- MODULE MCProgram -----------------------------
(* HEI inputs of three bytes, at the start of the memory and further on;   *)
(* an option of each kind; root and two users; filters that overlap and    *)
(* one that does not.                                                      *)
EXTENDS Program

MCInputs == 1 .. 24
MCOffsets == {0, 3}

MCOpts == << [names |-> {"short"}, need |-> "no", vector |-> FALSE, number |-> FALSE],
             [names |-> {"short", "long"}, need |-> "yes", vector |-> TRUE, number |-> TRUE],
             [names |-> {"long"}, need |-> "maybe", vector |-> FALSE, number |-> FALSE] >>

MCGid == [u \in {0, 1, 2} |-> u + 10]
MCFilters == {{1}, {1, 2}, {3}}
=============================================================================
