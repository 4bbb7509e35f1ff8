--------------------------- MODULE RasterProgram ---------------------------
(***************************************************************************)
(* The program of a picture, from its creation to the kernel that is       *)
(* assembled: the initializers, every mutation, the structured pass before *)
(* and after the search, and what is saved, read back and displayed.       *)
(*                                                                         *)
(* A step of the search is one MutateOnce, one memory mutation or one      *)
(* attribute toggle.  A candidate is the outcome of several, on lines near *)
(* each other; a rejected one is undone, so that every program the search  *)
(* holds is reached by some of these steps.                                *)
(***************************************************************************)
EXTENDS StructuredSolver, RasterKernel

CONSTANTS
    Pictures,           \* what is converted: mode, wide, height, initializer, and
                        \* the colours its rows offer, in some order
    Values,             \* the bytes a changed load may get
    SampleTargets,      \* the targets that mutations of the runs choose among
    MaxEdits, Edited    \* bounds, for each picture: changes, and lines mutated

ASSUME PicturesAssumption ==
    /\ Pictures \subseteq [mode : {"E", "ANTIC4"}, wide : BOOLEAN, height : Nat \ {0},
                           init : {"empty", "low color", "random", "smart"},
                           colors : Seq(Bytes) \ {<<>>}]
    /\ \A picture \in Pictures :
         picture.mode = "ANTIC4" => picture.init = "empty" /\ picture.height % 8 = 0
ASSUME SamplesAssumption ==
    Values \subseteq Bytes /\ SampleTargets \subseteq Targets
ASSUME EditsAssumption ==
    /\ MaxEdits \in [Pictures -> Nat]
    /\ DOMAIN Edited = Pictures
    /\ \A picture \in Pictures : Edited[picture] \subseteq 0..(picture.height - 1)

VARIABLES
    picture,            \* what is converted
    pic,                \* the program: mode, wide, lines, mem, attributes
    phase,              \* structured initializer, search, structured finalizer
    row,                \* the line a structured pass is at
    edits               \* changes so far

vars == <<picture, pic, phase, row, edits>>

Lines == DOMAIN pic.lines
Line(y) == pic.lines[y]
LastRow == Height(pic) - 1

TargetsHere == Writable(pic.mode) \cap SampleTargets

-----------------------------------------------------------------------------
(* The initializers.                                                         *)

\* The first of some registers get the picture's colours.
Memory(targets) ==
    [t \in Targets |->
        LET places == {n \in DOMAIN targets \cap DOMAIN picture.colors : targets[n] = t}
        IN  IF places = {} THEN 0 ELSE picture.colors[Min(places)]]

EmptyLine == LineOf(<<Nop>>)

Names == <<"COLOR0", "COLOR1", "COLOR2", "COLBAK", "COLPM0", "COLPM1", "COLPM2", "COLPM3",
           "HPOSP0", "HPOSP1", "HPOSP2", "HPOSP3", "COLOR3">>

\* A load and a store for each colour, from A, X and Y in turn: a colour
\* register, or on odd lines, after four, the position of a player.
SmartLine(y) ==
    LET limit  == Schedule(picture.mode, picture.wide, y, picture.height).limit
        pairs  == Min({8, limit \div 6, Len(picture.colors)})
        player(k) == k > 4 /\ y % 2 = 1
    IN  LineOf([n \in 1..(2 * pairs) |->
            LET k == (n + 1) \div 2
                r == Sources[((k - 1) % 3) + 1]
            IN  IF n % 2 = 0 THEN Store(r, Names[IF player(k) THEN k + 4 ELSE k])
                ELSE Load(r, IF player(k) THEN SpriteStart(picture.wide) ELSE picture.colors[k])])

\* Four pairs; the fourth uses A again.
RandomLine ==
    LineOf([n \in 1..8 |->
        LET k == (n + 1) \div 2
            r == Sources[((k - 1) % 3) + 1]
        IN  IF n % 2 = 0 THEN Store(r, Names[k])
            ELSE Load(r, picture.colors[((k - 1) % Len(picture.colors)) + 1])])

InitialLine(y) == CASE picture.init = "smart"  -> SmartLine(y)
                    [] picture.init = "random" -> RandomLine
                    [] OTHER                   -> EmptyLine

InitialMemory ==
    CASE picture.mode = "ANTIC4" -> Memory(<<"COLOR0", "COLOR1", "COLOR2", "COLBAK", "COLOR3">>)
      [] picture.init = "low color" -> Memory(SubSeq(Names, 1, 4))
      [] picture.init = "random" ->      \* the four players, at the left edge
            [t \in Targets |-> IF t \in Colors THEN picture.colors[1]
                               ELSE IF t \in Positions THEN SpriteStart(picture.wide) ELSE 0]
      [] OTHER -> [t \in Targets |-> 0]

Init ==
    /\ picture \in Pictures
    /\ pic = [mode |-> picture.mode, wide |-> picture.wide, attributes |-> {},
              mem |-> InitialMemory,
              lines |-> [y \in 0..(picture.height - 1) |-> InitialLine(y)]]
    /\ phase = "initializer" /\ row = 0 /\ edits = 0

-----------------------------------------------------------------------------
(* The search.  Each kind of mutation can be drawn by itself, so that the    *)
(* fall-through of one that does not apply to the next kind adds nothing.    *)

CanEdit(y) ==
    phase = "search" /\ edits < MaxEdits[picture] /\ y \in Edited[picture]

Edit(lines) ==
    /\ pic' = [pic EXCEPT !.lines = lines]
    /\ edits' = edits + 1
    /\ UNCHANGED <<picture, phase, row>>

EditLine(y, ins, cycles) == Edit([pic.lines EXCEPT ![y] = [ins |-> ins, cycles |-> cycles]])

CopyFromNext(y) ==
    /\ CanEdit(y) /\ y < LastRow
    /\ Line(y + 1).cycles <= Limit(pic, y)
    /\ Edit([pic.lines EXCEPT ![y] = Line(y + 1)])

\* The previous line takes one more instruction, if its own limit allows.
FitsPrev_mutant(y, i) == Line(y - 1).cycles + Cost(i) <= Limit(pic, y)

FitsPrev(y, i) == Line(y - 1).cycles + Cost(i) <= Limit(pic, y - 1)

\* The instruction stays where it is, too.
PushBackToPrev(y) ==
    /\ CanEdit(y) /\ y > 0
    /\ \E n \in DOMAIN Line(y).ins :
         LET i == Line(y).ins[n]
         IN  /\ FitsPrev(y, i)
             /\ EditLine(y - 1, Append(Line(y - 1).ins, i), Line(y - 1).cycles + Cost(i))

SwapWithPrev(y) ==
    /\ CanEdit(y) /\ y > 0
    /\ Line(y).cycles <= Limit(pic, y - 1) /\ Line(y - 1).cycles <= Limit(pic, y)
    /\ Edit([pic.lines EXCEPT ![y] = Line(y - 1), ![y - 1] = Line(y)])

\* Before one of the instructions, never after the last.  A new load gets a
\* colour of the picture.
AddInstruction(y) ==
    /\ CanEdit(y)
    /\ \E n \in DOMAIN Line(y).ins,
          i \in {Store(r, t) : r \in Regs, t \in TargetsHere}
                 \cup {Load(r, v) : r \in Regs, v \in Palette} \cup {Nop} :
         /\ Line(y).cycles + Cost(i) <= Limit(pic, y)
         /\ EditLine(y, InsertAt(Line(y).ins, n, i), Line(y).cycles + Cost(i))

Removable_mutant(y, n) == TRUE

\* Never the only one.
Removable(y, n) == Line(y).cycles > 4 /\ Line(y).cycles - Cost(Line(y).ins[n]) > 0

RemoveInstruction(y) ==
    /\ CanEdit(y)
    /\ \E n \in DOMAIN Line(y).ins :
         /\ Removable(y, n)
         /\ EditLine(y, RemoveAt(Line(y).ins, n), Line(y).cycles - Cost(Line(y).ins[n]))

SwapInstruction(y) ==
    /\ CanEdit(y) /\ Len(Line(y).ins) > 2
    /\ \E m, n \in DOMAIN Line(y).ins :
         /\ m < n
         /\ EditLine(y, [Line(y).ins EXCEPT ![m] = Line(y).ins[n], ![n] = Line(y).ins[m]],
                     Line(y).cycles)

\* The target of a load, and the value of a store, mean nothing.
ChangeTarget(y) ==
    /\ CanEdit(y)
    /\ \E n \in DOMAIN Line(y).ins, t \in TargetsHere :
         /\ Line(y).ins[n].op = "store"
         /\ EditLine(y, [Line(y).ins EXCEPT ![n].target = t], Line(y).cycles)

\* To a colour, or 1 or 16 more or less: odd values, which are no colours, are
\* reached.
ChangeValue(y) ==
    /\ CanEdit(y)
    /\ \E n \in DOMAIN Line(y).ins, v \in Values :
         /\ Line(y).ins[n].op = "load"
         /\ EditLine(y, [Line(y).ins EXCEPT ![n].value = v], Line(y).cycles)

\* COLBAK starts as it is: the line it is displayed on sets it.  COLOR3 is
\* there in ANTIC 4 only, and the players' positions change even there.
ChangeMemory ==
    /\ phase = "search" /\ edits < MaxEdits[picture]
    /\ \E t \in SampleTargets \ {"COLBAK"}, d \in {1, -1, 16, -16} :
         /\ t = "COLOR3" => pic.mode = "ANTIC4"
         /\ pic' = [pic EXCEPT !.mem[t] = (@ + d) % 256]
    /\ edits' = edits + 1
    /\ UNCHANGED <<picture, phase, row>>

\* A character takes its fourth colour from COLOR3 instead of COLOR2.
ToggleAttribute ==
    /\ phase = "search" /\ edits < MaxEdits[picture] /\ pic.mode = "ANTIC4"
    /\ \E cell \in {0, Height(pic) \div 8 - 1} \X {0, VisibleColumns(pic.wide) - 1} :
         pic' = [pic EXCEPT !.attributes = IF cell \in @ THEN @ \ {cell} ELSE @ \cup {cell}]
    /\ edits' = edits + 1
    /\ UNCHANGED <<picture, phase, row>>

-----------------------------------------------------------------------------
(* The structured passes: before the search and after it, if asked for, line *)
(* by line, each keeping a rebuilt line that the evaluator scores strictly   *)
(* better.  A line that writes the same at the same cycles scores the same.  *)

InPass == phase \in {"initializer", "finalizer"}

Rebuild(p, y, ins) == [p EXCEPT !.lines[y] = LineOf(ins)]

StructureRow ==
    /\ InPass /\ pic.mode = "E" /\ row <= LastRow
    /\ LET entry == ReplayedCpu(pic)
           better(ins) == Writes(ins, Len(ins), entry[row])
                            # Writes(Line(row).ins, Len(Line(row).ins), entry[row])
       IN  \/ \E ins \in SourceWindow(pic, row, entry[row], entry[row + 1]) :
                /\ ValidPicture(Rebuild(pic, row, ins)) /\ better(ins)
                /\ pic' = Rebuild(pic, row, ins)
                /\ edits < MaxEdits[picture] /\ edits' = edits + 1
           \/ UNCHANGED <<pic, edits>>
    /\ row' = row + 1
    /\ UNCHANGED <<picture, phase>>

\* There is no pass unless it is asked for, and none in ANTIC 4.
EndPass ==
    /\ InPass /\ row \in {0, LastRow + 1}
    /\ phase' = IF phase = "initializer" THEN "search" ELSE "finished"
    /\ row' = 0
    /\ UNCHANGED <<picture, pic, edits>>

EndSearch ==
    /\ phase = "search"
    /\ phase' = "finalizer"
    /\ UNCHANGED <<picture, pic, row, edits>>

\* Any mutation may be the next one, whatever the weights it is drawn by.
SelectMutation(y) ==
    \/ CopyFromNext(y) \/ PushBackToPrev(y) \/ SwapWithPrev(y)
    \/ AddInstruction(y) \/ RemoveInstruction(y) \/ SwapInstruction(y)
    \/ ChangeTarget(y) \/ ChangeValue(y)

Next ==
    \/ \E y \in Lines : SelectMutation(y)
    \/ ChangeMemory \/ ToggleAttribute
    \/ StructureRow \/ EndPass \/ EndSearch

Spec == Init /\ [][Next]_vars

-----------------------------------------------------------------------------
(* Properties.                                                               *)

TypeOK ==
    /\ picture \in Pictures /\ phase \in {"initializer", "search", "finalizer", "finished"}
    /\ row \in 0..picture.height /\ edits \in 0..MaxEdits[picture]
    /\ pic.mode = picture.mode /\ pic.wide = picture.wide
    /\ pic.mem \in [Targets -> Bytes]
    /\ DOMAIN pic.lines = 0..(picture.height - 1)
    /\ \A y \in Lines :
         Len(Line(y).ins) > 0 /\ \A n \in DOMAIN Line(y).ins : Line(y).ins[n] \in Instructions

\* Whatever a line takes from its neighbours, whose limits differ, and whatever
\* the solver builds with the table of another mode, a program passes
\* validation after every mutation (the assertion that ends
\* MutateRasterProgram), its cached cycles are even, so that filler can
\* complete them, and no line is empty: the reader of mode E would take it and
\* the next one for one line.
ProgramsLegal ==
    TypeOK /\ ValidPicture(pic) /\ \A y \in Lines : Line(y).cycles % 2 = 0

\* Every line of the kernel that is assembled, dead loads removed, takes
\* exactly the cycles ANTIC leaves for it: it never synchronizes, and one cycle
\* would shift the rest of the frame (SaveRasterProgram).  And it writes what
\* the evaluator saw the program write, at the same cycles: nothing is cut off
\* at the right edge, no load was removed that a store of a later line needed,
\* and the change of character set takes A from both alike.
KernelKeepsTime ==
    LET kernel    == Optimized(pic)
        runs      == KernelCpu(kernel)
        evaluated == EntryCpu(pic)
    IN  \A y \in Lines :
          /\ Time(LineText(kernel, y)) = Len(ScheduleOf(pic, y).slots)
          /\ KernelWrites(kernel, y, runs[y]) = EvaluatedWrites(pic, y, evaluated[y])

\* Resuming from a saved program gives the program: every line, its cached
\* cycles, and every register's initial value (LoadRasterProgram, LoadRegInits).
SavesRestore ==
    LET file == Saved(pic)
        read == Read(file)
    IN  /\ Complete(read, file)
        /\ LoadedLines(read) = pic.lines /\ LoadedMemory(file) = pic.mem

\* A line the structured solver replaces leaves the registers as the other one
\* did, moves no player or missile write and delays no playfield write
\* (the rules of StructuredSolver.h), whatever it recolours; no other line
\* changes.
Kept(old, new, cpu) ==
    LET was == Requested(old, cpu)
        is  == Requested(new, cpu)
    IN  /\ After(new, Len(new), cpu) = After(old, Len(old), cpu)
        /\ DOMAIN is = DOMAIN was
        /\ \A n \in DOMAIN was :
             /\ is[n].target = was[n].target
             /\ IF was[n].target \in Playfield THEN is[n].start <= was[n].start
                ELSE is[n] = was[n]

SolverKeepsContract ==
    [][InPass => \A y \in Lines :
         IF y # row THEN pic'.lines[y] = Line(y)
         ELSE Kept(Line(y).ins, pic'.lines[y].ins, EntryCpu(pic)[y])]_vars

=============================================================================
