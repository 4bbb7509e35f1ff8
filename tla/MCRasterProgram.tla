-------------------------- MODULE MCRasterProgram --------------------------
(* Pictures small enough to mutate at random and tall enough for a change of *)
(* character set; in each, the lines where limits differ.                    *)
EXTENDS RasterProgram, TLC

Pic(mode, wide, height, init, colors) ==
    [mode |-> mode, wide |-> wide, height |-> height, init |-> init, colors |-> colors]

Few  == <<14, 0>>
Many == <<14, 0, 14, 0, 0, 14, 14, 0>>

MCMaxEdits ==
       (Pic("E", FALSE, 2, "low color", Few) :> 3)
    @@ (Pic("E", FALSE, 2, "random", Many) :> 1)
    @@ (Pic("E", FALSE, 2, "smart", Few) :> 2)
    @@ (Pic("E", FALSE, 2, "smart", Many) :> 1)
    @@ (Pic("E", TRUE, 2, "smart", Many) :> 1)
    @@ (Pic("ANTIC4", TRUE, 8, "empty", Few) :> 3)
    @@ (Pic("ANTIC4", FALSE, 32, "empty", Few) :> 2)

MCPictures == DOMAIN MCMaxEdits

MCEdited == [p \in MCPictures |-> IF p.height = 32 THEN {24} ELSE {0, 1}]

ASSUME SlotsAssumption ==
    /\ \A mode \in {"E", "ANTIC4"}, wide \in BOOLEAN, y \in 0..239 :
         LET s == Schedule(mode, wide, y, 240)
         IN  /\ s.limit + s.suffix = Len(s.slots) /\ s.limit % 2 = 0
             /\ \A n \in 1..(Len(s.slots) - 1) : s.slots[n] < s.slots[n + 1]

=============================================================================
