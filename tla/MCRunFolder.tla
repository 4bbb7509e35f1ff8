----------------------------- MODULE MCRunFolder -----------------------------
(* Two contents of each picture; the layer is scored or not; a hash tells      *)
(* layers apart, as in legacy mode.                                            *)
EXTENDS RunFolder, TLC

MCScoreOn == [p \in Params |-> "on"]

MCHash == [p \in Params |-> [l \in Layers |-> l]]

Programs == Permutations(Progs)

=============================================================================
