---------------------------- MODULE MCIslandSearch ----------------------------
(***************************************************************************)
(* IslandSearch with two workers and four programs.  The editor may change *)
(* the objective once, to one that ranks the programs differently and      *)
(* makes the best of them look worse than it was.                          *)
(***************************************************************************)
EXTENDS IslandSearch

MCCost ==
    [g \in 0 .. 1 |->
        [p \in {"a", "b", "c"} |->
            IF g = 0 THEN CASE p = "a" -> 2 [] p = "b" -> 1 [] OTHER -> 0
            ELSE CASE p = "a" -> 1 [] p = "b" -> 2 [] OTHER -> 3]]

MCDrifts == {0, 1}

=============================================================================
