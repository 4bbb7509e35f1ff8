----------------------------- MODULE PublishedBest -----------------------------
(***************************************************************************)
(* What the search promises about its published best, without workers,     *)
(* locks or snapshots: within one objective the cost only falls, every     *)
(* change of it carries a new version, and only a retarget, which changes  *)
(* the objective and is versioned too, may raise it.                       *)
(***************************************************************************)
EXTENDS Integers

VARIABLES
    cost,       \* the published best score
    version,    \* how many publications there have been
    objective   \* how many times the objective has changed

bestVars == <<cost, version, objective>>

Init ==
    /\ cost \in Nat
    /\ version = 0
    /\ objective = 0

Improve ==
    /\ cost' \in Nat
    /\ cost' < cost
    /\ version' = version + 1
    /\ UNCHANGED objective

Retarget ==
    /\ cost' \in Nat
    /\ version' = version + 1
    /\ objective' = objective + 1

Next == Improve \/ Retarget

Spec == Init /\ [][Next]_bestVars

=============================================================================
