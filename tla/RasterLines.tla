---------------------------- MODULE RasterLines ----------------------------
(***************************************************************************)
(* Raster programs: the kernel that changes colour and player registers    *)
(* while a line is displayed.  A line is a sequence of instructions and a  *)
(* cached count of their cycles; how many cycles a line has is a matter of *)
(* what ANTIC leaves to the processor, and the kernel never waits for it:  *)
(* a line's instructions, filler and suffix take every slot of the line.   *)
(***************************************************************************)
EXTENDS Integers, SequencesExt

Regs  == {"A", "X", "Y"}
Bytes == 0..255

Playfield == {"COLOR0", "COLOR1", "COLOR2", "COLBAK"}
Colors    == {"COLPM0", "COLPM1", "COLPM2", "COLPM3"}
Positions == {"HPOSP0", "HPOSP1", "HPOSP2", "HPOSP3"}
Targets   == Playfield \cup Colors \cup Positions \cup {"COLOR3"}

\* In ANTIC 4 the players stay where they are; in mode E there is no COLOR3.
Writable(mode) ==
    IF mode = "ANTIC4" THEN Targets \ Positions ELSE Targets \ {"COLOR3"}

Load(r, v)  == [op |-> "load", reg |-> r, value |-> v]
Store(r, t) == [op |-> "store", reg |-> r, target |-> t]
Nop         == [op |-> "nop"]

Instructions == [op : {"load"}, reg : Regs, value : Bytes]
                  \cup [op : {"store"}, reg : Regs, target : Targets] \cup {Nop}

Cost(i) == IF i.op = "store" THEN 4 ELSE 2

\* Of a sequence of instructions: every one takes 2 cycles, a store 2 more.
Cycles(ins) == 2 * (Len(ins) + Cardinality({n \in DOMAIN ins : ins[n].op = "store"}))

\* The cycle of its line at which the n-th instruction starts.
StartCycle(ins, n) ==
    2 * (n - 1 + Cardinality({m \in 1..(n - 1) : ins[m].op = "store"}))

LineOf(ins) == [ins |-> ins, cycles |-> Cycles(ins)]

-----------------------------------------------------------------------------
(* What ANTIC leaves.  slots: the cycles of the line the processor gets;     *)
(* start: the cycle displayed at the left edge.                              *)

Run(a, b)      == [i \in 1..(b - a + 1) |-> a + i - 1]
Every(d, a, b) == [i \in 1..((b - a) \div d + 1) |-> a + d * (i - 1)]
Before         == Run(-8, -1)

ENormal == [start |-> 24, limit |-> 54, suffix |-> 3, transition |-> FALSE,
    slots |-> Run(7, 19) \o <<21>> \o Every(4, 23, 59) \o Every(2, 61, 99) \o Run(100, 112)]
EWide == [start |-> 22, limit |-> 46, suffix |-> 4, transition |-> FALSE,
    slots |-> Run(7, 11) \o Every(2, 13, 23) \o Every(4, 27, 59) \o Every(2, 61, 105)
              \o Run(106, 112)]
NormalLms == [start |-> 24, limit |-> 20, suffix |-> 5, transition |-> FALSE,
    slots |-> Before \o Run(8, 17) \o <<19>> \o Run(100, 105)]
NormalBadline == [start |-> 24, limit |-> 22, suffix |-> 5, transition |-> FALSE,
    slots |-> Before \o Run(6, 17) \o <<19>> \o Run(100, 105)]
NormalContinuation == [start |-> 24, limit |-> 56, suffix |-> 4, transition |-> FALSE,
    slots |-> Before \o <<1>> \o Run(6, 20) \o <<22>> \o Every(4, 24, 60)
              \o Every(2, 62, 100) \o Run(101, 105)]
WideLms == [start |-> 22, limit |-> 6, suffix |-> 5, transition |-> FALSE,
    slots |-> Before \o <<8, 9, 11>>]
WideBadline == [start |-> 22, limit |-> 8, suffix |-> 5, transition |-> FALSE,
    slots |-> Before \o <<6, 7, 8, 9, 11>>]
WideContinuation == [start |-> 22, limit |-> 48, suffix |-> 5, transition |-> FALSE,
    slots |-> Before \o <<1>> \o Run(6, 12) \o Every(2, 14, 24) \o Every(4, 28, 60)
              \o Every(2, 62, 104)]
WideAfterBadline == [WideContinuation EXCEPT !.suffix = 4, !.slots = Tail(@)]

\* The last line of a character set changes CHBASE for the next one.
Transition(y, height) == y + 1 < height /\ y % 24 = 23

\* GetRasterLineSchedule.
Schedule(mode, wide, y, height) ==
    IF mode = "E" THEN IF wide THEN EWide ELSE ENormal
    ELSE IF y = 0 THEN IF wide THEN WideLms ELSE NormalLms
    ELSE IF y % 8 = 0 THEN IF wide THEN WideBadline ELSE NormalBadline
    ELSE IF wide /\ y % 8 = 1 THEN WideAfterBadline
    ELSE LET s == IF wide THEN WideContinuation ELSE NormalContinuation
         IN  IF ~Transition(y, height) THEN s
             ELSE [s EXCEPT !.transition = TRUE,
                            !.limit = IF wide THEN 44 ELSE 50,
                            !.suffix = IF wide THEN 9 ELSE 10]

Height(p)     == Cardinality(DOMAIN p.lines)
ScheduleOf(p, y) == Schedule(p.mode, p.wide, y, Height(p))
Limit(p, y)   == ScheduleOf(p, y).limit
VisibleWidth(wide)  == IF wide THEN 168 ELSE 160
VisibleColumns(wide) == IF wide THEN 42 ELSE 40
SpriteStart(wide)   == IF wide THEN 44 ELSE 48

\* Pixels from the left edge of the slot that follows c others.
Offset(s, c) == (s.slots[c + 1] - s.start) * 2

\* Where the effect of an instruction starting at c is displayed: in ANTIC 4
\* a store's comes with its last cycle; mode E's table has that built in.
Completion(p, s, i, c) == Offset(s, IF p.mode = "ANTIC4" THEN c + Cost(i) - 1 ELSE c)

-----------------------------------------------------------------------------
(* Validation.                                                               *)

ValidLine(line, limit, mode) ==
    /\ line.cycles = Cycles(line.ins)
    /\ line.cycles \in 0..limit
    /\ \A n \in DOMAIN line.ins :
         line.ins[n].op = "store" => line.ins[n].target \in Writable(mode)

ValidPicture(p) ==
    /\ \A y \in DOMAIN p.lines : ValidLine(p.lines[y], Limit(p, y), p.mode)
    /\ p.mode = "ANTIC4" => Height(p) % 8 = 0
    /\ p.attributes \subseteq
         IF p.mode = "ANTIC4"
         THEN (0..(Height(p) \div 8 - 1)) \X (0..(VisibleColumns(p.wide) - 1)) ELSE {}

-----------------------------------------------------------------------------
(* Execution.                                                                *)

\* What register r holds after the first n instructions of a line.
Held(ins, n, r, cpu) ==
    LET loads == {m \in 1..n : ins[m].op = "load" /\ ins[m].reg = r}
    IN  IF loads = {} THEN cpu[r] ELSE ins[Max(loads)].value

After(ins, n, cpu) == [r \in Regs |-> Held(ins, n, r, cpu)]

\* The writes of the first n instructions.
Writes(ins, n, cpu) ==
    {[start |-> StartCycle(ins, m), target |-> ins[m].target,
      value |-> Held(ins, m, ins[m].reg, cpu)] :
        m \in {m \in 1..n : ins[m].op = "store"}}

\* How many instructions of a line the evaluator executes: it stops 16 pixels
\* past the right edge.
Executed(p, y) ==
    LET ins == p.lines[y].ins
    IN  Cardinality({n \in DOMAIN ins :
            Completion(p, ScheduleOf(p, y), ins[n], StartCycle(ins, n))
                < VisibleWidth(p.wide) + 15})

Zero == [r \in Regs |-> 0]

\* The page of the character set that line y selects for the next one.
Charset(y) == 128 + 4 * (y \div 24 + 1)

\* The registers when line y starts: the fixed end of a transition line uses A.
EntryCpu(p) ==
    LET entry[y \in 0..Height(p)] ==
          IF y = 0 THEN Zero
          ELSE LET out == After(p.lines[y - 1].ins, Executed(p, y - 1), entry[y - 1])
               IN  IF ScheduleOf(p, y - 1).transition
                   THEN [out EXCEPT !["A"] = Charset(y - 1)] ELSE out
    IN  entry

\* What the evaluator sees line y write.
EvaluatedWrites(p, y, cpu) == Writes(p.lines[y].ins, Executed(p, y), cpu)

-----------------------------------------------------------------------------
(* OptimizeRasterProgram: a load whose value no store uses, because the next *)
(* use of the register is another load, becomes a NOP.                       *)

FirstUse_mutant(ins, from, r, otherwise) ==
    LET uses == {m \in from..Len(ins) : ins[m].op = "load" /\ ins[m].reg = r}
    IN  IF uses = {} THEN otherwise ELSE ins[Min(uses)].op

FirstUse(ins, from, r, otherwise) ==
    LET uses == {m \in from..Len(ins) : ins[m].op # "nop" /\ ins[m].reg = r}
    IN  IF uses = {} THEN otherwise ELSE ins[Min(uses)].op

Optimized(p) ==
    LET h == Height(p)
        next[y \in 0..h] ==       \* the next use of each register, from line y on
          [r \in Regs |-> IF y = h THEN "none"
                          ELSE FirstUse(p.lines[y].ins, 1, r, next[y + 1][r])]
        Dead(y, n) ==
          LET ins == p.lines[y].ins
          IN  /\ ins[n].op = "load"
              /\ FirstUse(ins, n + 1, ins[n].reg, next[y + 1][ins[n].reg]) = "load"
    IN  [p EXCEPT !.lines = [y \in DOMAIN p.lines |->
            [p.lines[y] EXCEPT !.ins = [n \in DOMAIN p.lines[y].ins |->
                IF Dead(y, n) THEN Nop ELSE p.lines[y].ins[n]]]]]

=============================================================================
