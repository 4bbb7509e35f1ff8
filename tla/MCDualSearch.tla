---------------------------- MODULE MCDualSearch ----------------------------
(***************************************************************************)
(* DualSearch with two workers and two programs that render differently    *)
(* beside different rows of the other frame, so that a score depends on    *)
(* both members of a pair.                                                 *)
(***************************************************************************)
EXTENDS DualSearch

MCAlone ==
    [p \in {"p", "q"} |->
        IF p = "p" THEN [rows |-> "r", cost |-> 2] ELSE [rows |-> "s", cost |-> 1]]

MCPaired ==
    [p \in {"p", "q"} |-> [r \in {"r", "s", "t"} |->
        IF p = "p"
        THEN IF r = "s" THEN [rows |-> "t", cost |-> 1] ELSE [rows |-> "r", cost |-> 3]
        ELSE IF r = "r" THEN [rows |-> "s", cost |-> 2]
             ELSE IF r = "s" THEN [rows |-> "s", cost |-> 3] ELSE [rows |-> "s", cost |-> 0]]]

MCDrifts == {0, 1}

=============================================================================
