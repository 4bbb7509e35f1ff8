--------------------------- MODULE MCLateAcceptance ---------------------------
(* LateAcceptance on a ring of three slots, five costs and two drifts. *)
EXTENDS LateAcceptance

MCDrifts == {0, 1}

=============================================================================
