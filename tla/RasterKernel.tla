---------------------------- MODULE RasterKernel ----------------------------
(***************************************************************************)
(* The text of a raster program: what is saved, assembled into the kernel  *)
(* and read back.  Every line of text has its cycles; the end of a raster  *)
(* line spends those the optimizer may not use, and marks it for the       *)
(* reader.                                                                 *)
(***************************************************************************)
EXTENDS RasterLines

Text(what, cycles) == [what |-> what, cycles |-> cycles, ins |-> Nop, charset |-> 0]

InsText(i) == [Text("instruction", Cost(i)) EXCEPT !.ins = i]

\* NOPs, one for every two cycles below the limit by the cached count, taken
\* together.
Filler(line, limit) ==
    IF line.cycles >= limit THEN <<>>
    ELSE <<Text("filler", 2 * ((limit - line.cycles + 1) \div 2))>>

\* zero page: 3 cycles; absolute: 4.
LineEnd(s, y, mode) ==
    IF mode = "E"
    THEN IF s.suffix = 3 THEN <<Text("cmp byt2", 3)>>
         ELSE <<Text("bit $ffff, mode E end", 4)>>
    ELSE IF s.transition
    THEN <<Text("chbase begin", 0),
           IF s.suffix = 9 THEN Text("bit byt2", 3) ELSE Text("bit $ffff", 4),
           [Text("lda charset", 2) EXCEPT !.charset = y \div 24 + 1],
           Text("sta CHBASE", 4), Text("chbase end", 0)>>
    ELSE IF s.suffix = 5
    THEN <<Text("bit byt2, ANTIC 4 end", 3), Text("nop, ANTIC 4 end", 2)>>
    ELSE <<Text("bit $ffff, ANTIC 4 end", 4)>>

LineText(p, y) ==
    LET line == p.lines[y]
        s    == ScheduleOf(p, y)
    IN  <<Text("line", 0)>> \o [n \in DOMAIN line.ins |-> InsText(line.ins[n])]
            \o Filler(line, s.limit) \o LineEnd(s, y, p.mode)

\* SaveRasterProgram: the registers' initial values, and the text of each line.
Saved(p) ==
    [mode |-> p.mode, wide |-> p.wide,
     inits |-> [t \in IF p.mode = "E" THEN Targets \ {"COLOR3"} ELSE Targets |-> p.mem[t]],
     text |-> [n \in 1..Height(p) |-> LineText(p, n - 1)]]

-----------------------------------------------------------------------------
(* The kernel.                                                               *)

Time(text) ==
    LET time[n \in 0..Len(text)] == IF n = 0 THEN 0 ELSE time[n - 1] + text[n].cycles
    IN  time[Len(text)]

Code(text) ==
    LET code[n \in 0..Len(text)] ==
          IF n = 0 THEN <<>>
          ELSE IF text[n].what = "instruction" THEN Append(code[n - 1], text[n].ins)
          ELSE code[n - 1]
    IN  code[Len(text)]

\* The registers when each line starts: the kernel runs all the text of a line.
KernelCpu(p) ==
    LET cpu[y \in 0..Height(p)] ==
          IF y = 0 THEN Zero
          ELSE LET text == LineText(p, y - 1)
                   out  == After(Code(text), Len(Code(text)), cpu[y - 1])
                   sets == {n \in DOMAIN text : text[n].what = "lda charset"}
               IN  IF sets = {} THEN out
                   ELSE [out EXCEPT !["A"] = 128 + 4 * text[Max(sets)].charset]
    IN  cpu

KernelWrites(p, y, cpu) == LET code == Code(LineText(p, y)) IN Writes(code, Len(code), cpu)

-----------------------------------------------------------------------------
(* Reading it back.                                                          *)

\* LoadRasterProgram, one line of text: the lines read, the instructions of the
\* line being read, the fixed block, and where the reader is: between lines, in
\* a line, in its block, or past an error.
Reading == [at |-> "between", lines |-> <<>>, ins |-> <<>>, block |-> <<>>, blocks |-> {}]

EndLine(s) == [s EXCEPT !.lines = Append(@, LineOf(s.ins)), !.ins = <<>>, !.at = "between"]

ExpectedBlock(y, wide) == <<[what |-> IF wide THEN "bit byt2" ELSE "bit $ffff", charset |-> 0],
                            [what |-> "lda charset", charset |-> y \div 24 + 1],
                            [what |-> "sta CHBASE", charset |-> 0]>>

LineEnds == {"bit byt2, ANTIC 4 end", "nop, ANTIC 4 end", "bit $ffff, ANTIC 4 end",
             "bit $ffff, mode E end"}

\* A fixed block begins in a line; nothing else between lines means anything.
ReadBetween(s, t) ==
    CASE t.what = "line" -> [s EXCEPT !.at = "line"]
      [] t.what \in {"chbase begin", "chbase end"} -> [s EXCEPT !.at = "error"]
      [] OTHER -> s

ReadInLine(s, t, mode) ==
    CASE t.what = "instruction" -> [s EXCEPT !.ins = Append(@, t.ins)]
      [] t.what \in LineEnds -> EndLine(s)
      [] t.what = "cmp byt2" -> IF s.ins = <<>> THEN s ELSE EndLine(s)
      [] t.what = "chbase begin" ->
            [s EXCEPT !.at = IF mode = "ANTIC4" THEN "block" ELSE "error", !.block = <<>>]
      [] t.what \in {"chbase end", "lda charset", "sta CHBASE"} -> [s EXCEPT !.at = "error"]
      [] OTHER -> s

ReadInBlock(s, t, wide) ==
    LET y == Len(s.lines)
    IN  CASE t.what = "chbase begin" -> [s EXCEPT !.at = "error"]
          [] t.what = "chbase end" ->
                IF y % 24 = 23 /\ s.block = ExpectedBlock(y, wide)
                THEN [EndLine(s) EXCEPT !.blocks = @ \cup {y}]
                ELSE [s EXCEPT !.at = "error"]
          [] OTHER -> [s EXCEPT !.block = Append(@, [what |-> t.what, charset |-> t.charset])]

ReadText(s, t, mode, wide) ==
    CASE s.at = "between" -> ReadBetween(s, t)
      [] s.at = "line"    -> ReadInLine(s, t, mode)
      [] s.at = "block"   -> ReadInBlock(s, t, wide)
      [] s.at = "error"   -> s

\* Reading ends with the first error.
ReadAll(s, text, mode, wide) ==
    LET read[n \in 0..Len(text)] ==
          IF n = 0 THEN s ELSE ReadText(read[n - 1], text[n], mode, wide)
    IN  IF s.at = "error" THEN s ELSE read[Len(text)]

Read(file) ==
    LET read[n \in 0..Len(file.text)] ==
          IF n = 0 THEN Reading
          ELSE ReadAll(read[n - 1], file.text[n], file.mode, file.wide)
    IN  read[Len(file.text)]

\* What resuming accepts: every change of character set is there and no other.
Complete(s, file) ==
    /\ s.at \notin {"error", "block"}
    /\ file.mode = "ANTIC4" =>
         s.blocks = {y \in 0..(Len(s.lines) - 1) : Transition(y, Len(s.lines))}

LoadedLines(s) == [y \in 0..(Len(s.lines) - 1) |-> s.lines[y + 1]]

LoadedMemory(file) ==
    [t \in Targets |-> IF t \in DOMAIN file.inits THEN file.inits[t] ELSE 0]

=============================================================================
