-------------------------- MODULE StructuredSolver --------------------------
(***************************************************************************)
(* The structured solver: it takes the writes of a line, not its           *)
(* instructions, and builds the line anew, a playfield write no later than *)
(* it was, a player or missile write exactly when it was, with what each   *)
(* playfield write stores free to change, and with the registers left as   *)
(* the following lines expect them.                                        *)
(***************************************************************************)
EXTENDS RasterLines

CONSTANT Palette        \* the colours it may try: even bytes
ASSUME PaletteAssumption == \A v \in Palette : v \in Bytes /\ v % 2 = 0

\* raster_program_cycle_limit: that of mode E in normal width, whatever the mode.
BuilderLimit == 54

Sources == <<"A", "X", "Y">>

\* Where builder b, the line so far and the registers, can put the store of
\* write w from register r: a line is filled with NOPs, so two cycles apart.
\* A playfield write goes where its effect is not displayed later than asked:
\* offsets grow with the cycle, so not at a later cycle.
Starts(b, r, w) ==
    LET first == b.cycles + IF b.cpu[r] = w.value THEN 0 ELSE 2
    IN  {c \in first..Min({w.start, BuilderLimit - 4}) :
            (c - first) % 2 = 0 /\ (w.target \in Playfield \/ c = w.start)}

CanPlace(b, w) == \E r \in Regs : Starts(b, r, w) # {}

\* As late as possible; of the registers that can, the first.
Place(b, w) ==
    LET starts == [r \in Regs |-> Starts(b, r, w)]
        at   == Max(UNION Range(starts))
        from == Sources[Min({k \in 1..3 : at \in starts[Sources[k]]})]
        load == IF b.cpu[from] = w.value THEN <<>> ELSE <<Load(from, w.value)>>
        gap  == (at - b.cycles) \div 2 - Len(load)
    IN  [ins |-> b.ins \o [i \in 1..gap |-> Nop] \o load \o <<Store(from, w.target)>>,
         cycles |-> at + 4, cpu |-> [b.cpu EXCEPT ![from] = w.value]]

\* The lines, at most one, that do the writes in their order.
Built(writes, cpu) ==
    LET build[n \in 0..Len(writes)] ==
          IF n = 0 THEN {[ins |-> <<>>, cycles |-> 0, cpu |-> cpu]}
          ELSE {Place(b, writes[n]) : b \in {b \in build[n - 1] : CanPlace(b, writes[n])}}
    IN  build[Len(writes)]

Restored_mutant(b, required) ==
    LET Reload(r) == IF b.cpu[r] = required[r] THEN <<>> ELSE <<Load(r, required[r])>>
    IN  b.ins \o Reload("A") \o Reload("X")

\* AppendCpuStateRestoration: the registers as they are to be left.
Restored(b, required) ==
    LET Reload(r) == IF b.cpu[r] = required[r] THEN <<>> ELSE <<Load(r, required[r])>>
    IN  b.ins \o Reload("A") \o Reload("X") \o Reload("Y")

RebuiltLines(writes, cpu, required) ==
    {ins \in {Restored(b, required) : b \in Built(writes, cpu)} :
        Cycles(ins) <= BuilderLimit}

\* The writes of a line, in order.
Requested(ins, cpu) ==
    LET stores == {m \in DOMAIN ins : ins[m].op = "store"}
        Nth(n) == CHOOSE m \in stores : Cardinality({l \in stores : l <= m}) = n
        Write(m) == [target |-> ins[m].target, start |-> StartCycle(ins, m),
                     value |-> Held(ins, m, ins[m].reg, cpu)]
    IN  [n \in 1..Cardinality(stores) |-> Write(Nth(n))]

\* The registers when each line starts, as ReplayCpuLoads finds them: from the
\* loads alone.
ReplayedCpu(p) ==
    LET cpu[y \in 0..Height(p)] ==
          IF y = 0 THEN Zero
          ELSE After(p.lines[y - 1].ins, Len(p.lines[y - 1].ins), cpu[y - 1])
    IN  cpu

\* StructuredInstructionEffectPixel, in the table of mode E in normal width.
EffectPixel(start) == Offset(ENormal, start) + 1

\* ExtractStructuredSourceWindow of one line: the candidates for line y of p,
\* to leave the registers as `required'.  There is none unless the
\* line can be rebuilt with the values it has, and all its playfield writes are
\* displayed.  Then each of these may take another colour; which of the lines
\* the beam finds depends on the error tables, and any of them is in this set.
\* With an odd value, which no palette entry has, it reads past its table: the
\* cost is arbitrary, and the set the same.
SourceWindow(p, y, cpu, required) ==
    LET asked  == Requested(p.lines[y].ins, cpu)
        free   == {n \in DOMAIN asked : asked[n].target \in Playfield}
        colours == {f \in [free -> Palette \cup {asked[n].value : n \in free}] :
                      \A n \in free : f[n] \in Palette \cup {asked[n].value}}
        recoloured(f) == [n \in DOMAIN asked |->
                            IF n \in free THEN [asked[n] EXCEPT !.value = f[n]] ELSE asked[n]]
    IN  IF \/ RebuiltLines(asked, cpu, required) = {}
           \/ \E n \in free : EffectPixel(asked[n].start) >= VisibleWidth(p.wide)
        THEN {}
        ELSE UNION {RebuiltLines(recoloured(f), cpu, required) : f \in colours}

=============================================================================
