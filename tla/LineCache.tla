------------------------------ MODULE LineCache ------------------------------
(***************************************************************************)
(* One worker's line cache (core/LineCache.h, core/InsnSequenceCache.h and *)
(* their use in core/Evaluator.cpp).  Every instruction sequence a raster  *)
(* line has had is interned; a line remembers the address of its interned  *)
(* sequence, and the rows rendered so far are found by that address and by *)
(* the register state on entry to the line.  Nothing reads the memory      *)
(* behind the address, so a hit is right only as long as equal addresses   *)
(* mean equal instructions, while memory is given back and used again,     *)
(* candidates are undone, and lines are copied and exchanged with their    *)
(* addresses.                                                              *)
(*                                                                         *)
(* A sequence is an element of Insns, a register state an element of       *)
(* States, and what a row shows is the pair of both.  The worker is        *)
(* sequential and its caches are its own; other workers appear only as the *)
(* programs it takes over from them.                                       *)
(***************************************************************************)
EXTENDS Integers, FiniteSets

CONSTANTS
  Height,       \* m_height, the number of raster lines
  Insns,        \* instruction sequences
  States,       \* register states, mem_regs_init among them
  Addresses,    \* where the allocator may put an interned sequence
  NULL,
  Exit,         \* Exit[l][s][i]: the registers after i has run on line l from s
  Off, OffMem,  \* what TurnOffRegisters makes of a line and of mem_regs_init
  Settings,     \* how the program may have been started
  Published     \* the programs to start from and those other workers publish

Lines == 1..Height
Modes == {"transactional", "copying", "legacy"}
Line == [insns : Insns, key : Addresses \cup {NULL}]
Picture == [mem : States, lines : [Lines -> Line]]
Program == [mem : States, lines : [Lines -> Insns]]

\* mode: LAHC or DLAS without and with /onoff, or the legacy optimizer.
\* cache, insns: m_cache_size and the part of it for interned sequences, a
\* quotient of it.
ASSUME LineCacheAssumption ==
  /\ Height \in Nat \ {0}
  /\ NULL \notin Addresses \cup Insns \cup States \cup Line
  /\ Exit \in [Lines -> [States -> [Insns -> States]]]
  /\ Published \subseteq Program
  /\ Off \in [Lines -> [Insns -> Insns]] /\ OffMem \in [States -> States]
  /\ \A s \in Settings : s.mode \in Modes /\ s.cache \in Nat /\ s.insns \in 0..s.cache

VARIABLES
  setting,      \* the optimizer and the budget
  pc,           \* where Run is
  pics,         \* m_best_pic, currentPicture and new_picture
  target,       \* which of them evaluatedPicture points to
  first,        \* clean_first_evaluation
  interned,     \* m_insn_seq_cache: what lies at each address
  table,        \* m_line_caches: line -> entry state and address -> sequence shown
  moved,        \* m_allocator_epoch is no longer the one Begin was given
  undo,         \* transactionalCandidate
  saved,        \* m_snapshots of the lines in m_touched, NULL for the others
  savedMem,     \* m_memory_snapshot, or NULL
  before,       \* the program before the candidate (history variable)
  y, entry,     \* the line being executed and the registers on entry to it
  rows          \* results_array: entry state and sequence shown of each line

memory == <<interned, table>>
transaction == <<moved, undo, saved, savedMem, before>>
execution == <<y, entry, rows>>
vars == <<setting, pc, pics, target, first, memory, transaction, execution>>

Legacy == setting.mode = "legacy"
Transactional == setting.mode = "transactional"

-----------------------------------------------------------------------------
(* Interning *)

Empty == [a \in Addresses |-> NULL]
NoRows == [l \in Lines |-> [k \in States \X Addresses |-> NULL]]
Holds(t) == {t[a] : a \in Addresses} \ {NULL}

\* insn_sequence_cache::insert for each of some sequences: one that is interned
\* keeps its address, another one goes to any address that is free.
Interning(t, new) ==
  {u \in [Addresses -> Insns \cup {NULL}] :
     /\ \A a \in Addresses : t[a] # NULL => u[a] = t[a]
     /\ Holds(u) = Holds(t) \cup new
     /\ \A a, b \in Addresses : u[a] # NULL /\ u[a] = u[b] => a = b}

AddressOf(t, i) == CHOOSE a \in Addresses : t[a] = i

Contents(p) == {p.lines[l].insns : l \in Lines}
Missing(p) == {p.lines[l].insns : l \in {m \in Lines : p.lines[m].key = NULL}}

\* raster_picture::uncache_insns, recache_missing_insns and recache_insns
Uncached(p) == [p EXCEPT !.lines = [l \in Lines |-> [p.lines[l] EXCEPT !.key = NULL]]]
Recached(p, t) ==
  [p EXCEPT !.lines = [l \in Lines |->
     IF p.lines[l].key # NULL THEN p.lines[l]
     ELSE [p.lines[l] EXCEPT !.key = AddressOf(t, p.lines[l].insns)]]]
RecachedAll(p, t) == Recached(Uncached(p), t)

\* a published program: without addresses
Plain(p) == [mem |-> p.mem, lines |-> [l \in Lines |-> p.lines[l].insns]]
Picturing(g) ==
  [mem |-> g.mem, lines |-> [l \in Lines |-> [insns |-> g.lines[l], key |-> NULL]]]

\* patch_raster_picture: lines that agree keep their addresses
Patched(p, g) ==
  [mem |-> g.mem,
   lines |-> [l \in Lines |-> IF p.lines[l].insns = g.lines[l] THEN p.lines[l]
                              ELSE [insns |-> g.lines[l], key |-> NULL]]]

-----------------------------------------------------------------------------
(* Memory *)

InternedCount == Cardinality({a \in Addresses : interned[a] # NULL})
RowCount ==
  Cardinality({c \in Lines \X (States \X Addresses) : table[c[1]][c[2]] # NULL})
Resident == InternedCount + RowCount

\* m_cache_allocator_stats.resident_bytes > m_cache_size, and the same of the
\* interned sequences
OverBudget_mutant == InternedCount > setting.cache
OverBudget == Resident > setting.cache

Crowded == InternedCount > setting.insns

-----------------------------------------------------------------------------
(* The head of Run's loop *)

\* ApplyEditorSession while the worker is parked: ClearAllCaches, and when the
\* worker wakes it takes the new best and interns it.
Retarget(g) ==
  /\ pc = "loop"
  /\ \E t \in Interning(Empty, Contents(Picturing(g))) :
       /\ interned' = t
       /\ pics' = [pics EXCEPT !["best"] = Recached(Picturing(g), t),
                               !["current"] = Recached(Picturing(g), t)]
  /\ table' = NoRows
  /\ moved' = TRUE
  /\ UNCHANGED <<setting, pc, target, first, undo, saved, savedMem, before, execution>>

\* The guard at the head of the loop does nothing, forgets the rows, or forgets
\* the interned sequences too and interns the worker's programs again.
KeepCache ==
  /\ pc = "loop" /\ ~OverBudget
  /\ pc' = "migrate"
  /\ UNCHANGED <<setting, pics, target, first, memory, transaction, execution>>

ForgetRows ==
  /\ pc = "loop" /\ OverBudget /\ ~Crowded
  /\ table' = NoRows
  /\ pc' = "migrate"
  /\ UNCHANGED <<setting, pics, target, first, interned, transaction, execution>>

ForgetAll ==
  /\ pc = "loop" /\ OverBudget /\ Crowded
  /\ table' = NoRows
  /\ LET own == IF Legacy THEN {"best"} ELSE {"best", "current"} IN
     \E t \in Interning(Empty, UNION {Contents(pics[n]) : n \in own}) :
       /\ interned' = t
       /\ pics' = [n \in DOMAIN pics |->
                     IF n \in own THEN RecachedAll(pics[n], t) ELSE pics[n]]
  /\ moved' = TRUE
  /\ pc' = "migrate"
  /\ UNCHANGED <<setting, target, first, undo, saved, savedMem, before, execution>>

\* An island takes over the published program.
Migrate(g) ==
  /\ pc = "migrate" /\ ~Legacy
  /\ LET p == Patched(pics["current"], g) IN
     \E t \in Interning(interned, Missing(p)) :
       /\ interned' = t
       /\ pics' = [pics EXCEPT !["current"] = Recached(p, t)]
  /\ pc' = "choose"
  /\ UNCHANGED <<setting, target, first, table, transaction, execution>>

Stay ==
  /\ pc = "migrate"
  /\ pc' = "choose"
  /\ UNCHANGED <<setting, pics, target, first, memory, transaction, execution>>

-----------------------------------------------------------------------------
(* Choosing and mutating a candidate *)

\* clean_first_evaluation: the program is rendered as it is.
Clean ==
  /\ pc = "choose" /\ first
  /\ first' = FALSE
  /\ IF Legacy THEN /\ target' = "new"
                    /\ pics' = [pics EXCEPT !["new"] = pics["best"]]
               ELSE /\ target' = "current" /\ UNCHANGED pics
  /\ undo' = FALSE
  /\ pc' = "enter"
  /\ UNCHANGED <<setting, memory, moved, saved, savedMem, before, execution>>

\* RasterMutationTransaction::Begin
Begin ==
  /\ pc = "choose" /\ ~first /\ Transactional
  /\ target' = "current"
  /\ undo' = TRUE
  /\ moved' = FALSE
  /\ saved' = [l \in Lines |-> NULL]
  /\ savedMem' = NULL
  /\ before' = Plain(pics["current"])
  /\ pc' = "mutate"
  /\ UNCHANGED <<setting, pics, first, memory, execution>>

\* new_picture = m_best_pic or currentPicture, addresses included
Copy ==
  /\ pc = "choose" /\ ~first /\ ~Transactional
  /\ target' = "new"
  /\ pics' = [pics EXCEPT !["new"] = pics[IF Legacy THEN "best" ELSE "current"]]
  /\ undo' = FALSE
  /\ pc' = "mutate"
  /\ UNCHANGED <<setting, first, memory, moved, saved, savedMem, before, execution>>

\* SaveMutationNeighborhood: the line and its neighbours, unless already saved
Neighborhood_mutant(l) == {l, l + 1} \cap Lines
Neighborhood(l) == {l - 1, l, l + 1} \cap Lines

Saving(l) ==
  saved' = [m \in Lines |->
              IF undo /\ m \in Neighborhood(l) /\ saved[m] = NULL
              THEN pics[target].lines[m] ELSE saved[m]]

\* MutateRasterProgram changes an initial register value.
MutateMemory(s) ==
  /\ pc = "mutate"
  /\ savedMem' = IF undo /\ savedMem = NULL THEN pics[target].mem ELSE savedMem
  /\ pics' = [pics EXCEPT ![target].mem = s]
  /\ UNCHANGED <<setting, pc, target, first, memory, moved, undo, saved, before, execution>>

\* A mutation of line l replaces lines as given; f is a function on some lines.
Replace(l, f) ==
  /\ pc = "mutate"
  /\ Saving(l)
  /\ pics' = [pics EXCEPT ![target].lines =
                [m \in Lines |-> IF m \in DOMAIN f THEN f[m] ELSE pics[target].lines[m]]]
  /\ UNCHANGED <<setting, pc, target, first, memory, moved, undo, savedMem, before, execution>>

\* The seven mutations of MutateOnce that edit the line's own instructions clear
\* its address.
EditLine_mutant(l, i) ==
  Replace(l, [m \in {l} |-> [insns |-> i, key |-> pics[target].lines[l].key]])
EditLine(l, i) ==
  Replace(l, [m \in {l} |-> [insns |-> i, key |-> NULL]])

\* E_MUTATION_COPY_LINE_TO_NEXT_ONE copies the next line, address included.
CopyNextLine(l) ==
  /\ l < Height
  /\ Replace(l, [m \in {l} |-> pics[target].lines[l + 1]])

\* E_MUTATION_PUSH_BACK_TO_PREV appends an instruction to the previous line.
PushBackToPrev(l, i) ==
  /\ l > 1
  /\ Replace(l, [m \in {l - 1} |-> [insns |-> i, key |-> NULL]])

\* E_MUTATION_SWAP_LINE_WITH_PREV_ONE exchanges two lines, addresses included.
SwapWithPrev(l) ==
  /\ l > 1
  /\ Replace(l, [m \in {l - 1, l} |-> pics[target].lines[2 * l - 1 - m]])

\* The end of MutateRasterProgram interns the lines that have changed.
EndMutation ==
  /\ pc = "mutate"
  /\ \E t \in Interning(interned, Missing(pics[target])) :
       /\ interned' = t
       /\ pics' = [pics EXCEPT ![target] = Recached(pics[target], t)]
  /\ pc' = "enter"
  /\ UNCHANGED <<setting, target, first, table, transaction, execution>>

-----------------------------------------------------------------------------
(* ExecuteRasterProgram *)

\* TurnOffRegisters edits the instructions and leaves the addresses alone.
TurnedOff(p) ==
  IF setting.mode # "copying" THEN p
  ELSE [mem |-> OffMem[p.mem],
        lines |-> [l \in Lines |->
                     [p.lines[l] EXCEPT !.insns = Off[l][p.lines[l].insns]]]]

\* The loop over the lines begins with picture p.
StartExecution(p) ==
  /\ pics' = [pics EXCEPT ![target] = TurnedOff(p)]
  /\ y' = 1
  /\ entry' = TurnedOff(p).mem
  /\ rows' = [l \in Lines |-> NULL]
  /\ pc' = "line"

\* The guard of ExecuteRasterProgram: as in Run, but what forgets the interned
\* sequences forgets the addresses of the evaluated picture only.
Enter ==
  /\ pc = "enter" /\ ~OverBudget
  /\ StartExecution(pics[target])
  /\ UNCHANGED <<setting, target, first, memory, transaction>>

EnterForgetRows ==
  /\ pc = "enter" /\ OverBudget /\ ~Crowded
  /\ table' = NoRows
  /\ StartExecution(pics[target])
  /\ UNCHANGED <<setting, target, first, interned, transaction>>

EnterForgetAll ==
  /\ pc = "enter" /\ OverBudget /\ Crowded
  /\ table' = NoRows
  /\ interned' = Empty
  /\ moved' = TRUE
  /\ StartExecution(Uncached(pics[target]))
  /\ UNCHANGED <<setting, target, first, undo, saved, savedMem, before>>

\* What line y shows, and the registers it leaves.
Show(i) ==
  /\ rows' = [rows EXCEPT ![y] = [entry |-> entry, insns |-> i]]
  /\ entry' = Exit[y][entry][i]
  /\ y' = y + 1
  /\ pc' = IF y = Height THEN "judge" ELSE "line"

\* A line without an address is interned first.
Unaddressed(l) == IF pics[target].lines[l].key = NULL
                  THEN {pics[target].lines[l].insns} ELSE {}
KeyAt(l, t) == IF pics[target].lines[l].key # NULL THEN pics[target].lines[l].key
               ELSE AddressOf(t, pics[target].lines[l].insns)

\* The row of line l under its entry registers and address, if there is one.
Find(l, t) == table[l][<<entry, KeyAt(l, t)>>]

Insert(l, t) ==
  [table EXCEPT ![l][<<entry, KeyAt(l, t)>>] = pics[target].lines[l].insns]

\* The row is in the cache, or it is rendered and stored there.
CacheHit ==
  /\ pc = "line"
  /\ \E t \in Interning(interned, Unaddressed(y)) :
       /\ Find(y, t) # NULL
       /\ Show(Find(y, t))
       /\ interned' = t
       /\ pics' = [pics EXCEPT ![target].lines[y].key = KeyAt(y, t)]
  /\ UNCHANGED <<setting, target, first, table, transaction>>

CacheMiss ==
  /\ pc = "line"
  /\ \E t \in Interning(interned, Unaddressed(y)) :
       /\ Find(y, t) = NULL
       /\ table' = Insert(y, t)
       /\ Show(pics[target].lines[y].insns)
       /\ interned' = t
       /\ pics' = [pics EXCEPT ![target].lines[y].key = KeyAt(y, t)]
  /\ UNCHANGED <<setting, target, first, transaction>>

-----------------------------------------------------------------------------
(* Judging the candidate *)

\* What is assigned again before it is read is forgotten here.
NextIteration ==
  /\ pc' = "loop"
  /\ target' = "current"
  /\ undo' = FALSE /\ moved' = FALSE
  /\ saved' = [l \in Lines |-> NULL] /\ savedMem' = NULL
  /\ before' = NULL
  /\ y' = 1 /\ entry' = NULL /\ rows' = [l \in Lines |-> NULL]
  /\ UNCHANGED <<setting, first, table>>

\* An accepted candidate stays, or is copied with its addresses.
Accept ==
  /\ pc = "judge" /\ ~Legacy
  /\ pics' = [pics EXCEPT !["current"] = pics[target], !["new"] = NULL]
  /\ NextIteration
  /\ UNCHANGED interned

\* RasterMutationTransaction::Restore; after a clear it drops the addresses.
RestoredKeys_mutant(p) ==
  [mem |-> IF savedMem # NULL THEN savedMem ELSE p.mem,
   lines |-> [l \in Lines |-> IF saved[l] = NULL THEN p.lines[l] ELSE saved[l]]]
Restored(p) ==
  [mem |-> IF savedMem # NULL THEN savedMem ELSE p.mem,
   lines |-> [l \in Lines |->
                IF saved[l] = NULL THEN p.lines[l]
                ELSE [insns |-> saved[l].insns,
                      key |-> IF moved THEN NULL ELSE saved[l].key]]]

Reject ==
  /\ pc = "judge" /\ ~Legacy
  /\ pics' = [pics EXCEPT !["current"] = IF undo THEN Restored(@) ELSE @,
                          !["new"] = NULL]
  /\ NextIteration
  /\ UNCHANGED interned

\* ApplyAcceptanceCore: the global best is taken over when its score differs from
\* the local one, whoever has found it.
LegacyKeep ==
  /\ pc = "judge" /\ Legacy
  /\ pics' = [pics EXCEPT !["new"] = NULL]
  /\ NextIteration
  /\ UNCHANGED interned

LegacySync(g) ==
  /\ pc = "judge" /\ Legacy
  /\ \E t \in Interning(interned, Contents(Picturing(g))) :
       /\ interned' = t
       /\ pics' = [pics EXCEPT !["best"] = Recached(Picturing(g), t), !["new"] = NULL]
  /\ NextIteration

-----------------------------------------------------------------------------
\* Run's beginning: the best program is interned, and the worker's is a copy.
Init ==
  /\ setting \in Settings
  /\ pc = "loop" /\ target = "current" /\ first = TRUE
  /\ \E g \in Published : \E t \in Interning(Empty, Contents(Picturing(g))) :
       /\ interned = t
       /\ pics = [n \in {"best", "current", "new"} |->
                    IF n = "new" THEN NULL ELSE Recached(Picturing(g), t)]
  /\ table = NoRows
  /\ undo = FALSE /\ moved = FALSE
  /\ saved = [l \in Lines |-> NULL] /\ savedMem = NULL /\ before = NULL
  /\ y = 1 /\ entry = NULL /\ rows = [l \in Lines |-> NULL]

Mutate ==
  \/ \E s \in States : MutateMemory(s)
  \/ \E l \in Lines : CopyNextLine(l) \/ SwapWithPrev(l)
  \/ \E l \in Lines, i \in Insns : EditLine(l, i) \/ PushBackToPrev(l, i)
  \/ EndMutation

Next ==
  \/ KeepCache \/ ForgetRows \/ ForgetAll \/ Stay
  \/ \E g \in Published : Retarget(g) \/ Migrate(g) \/ LegacySync(g)
  \/ Clean \/ Begin \/ Copy \/ Mutate
  \/ Enter \/ EnterForgetRows \/ EnterForgetAll
  \/ CacheHit \/ CacheMiss
  \/ Accept \/ Reject \/ LegacyKeep

Spec == Init /\ [][Next]_vars

-----------------------------------------------------------------------------
(* Properties *)

LineOrNull == Line \cup {NULL}

\* Every variable keeps its type.
TypeOK ==
  /\ setting \in Settings
  /\ pc \in {"loop", "migrate", "choose", "mutate", "enter", "line", "judge"}
  /\ pics \in [{"best", "current", "new"} -> Picture \cup {NULL}]
  /\ target \in {"current", "new"}
  /\ {pics["best"], pics["current"], pics[target]} \subseteq Picture
  /\ first \in BOOLEAN /\ undo \in BOOLEAN /\ moved \in BOOLEAN
  /\ interned \in [Addresses -> Insns \cup {NULL}]
  /\ table \in [Lines -> [States \X Addresses -> Insns \cup {NULL}]]
  /\ saved \in [Lines -> LineOrNull] /\ savedMem \in States \cup {NULL}
  /\ before \in Program \cup {NULL}
  /\ y \in 1..(Height + 1) /\ entry \in States \cup {NULL}
  /\ rows \in [Lines -> [entry : States, insns : Insns] \cup {NULL}]

\* The rows an evaluation has collected are those of an execution without a
\* cache: each shows the program's own instructions on its line, run from the
\* registers the line above has left.  Score and preview are made of them.
RowsRendered ==
  pc \in {"line", "judge"} =>
    \A l \in 1..(y - 1) :
      /\ rows[l].insns = pics[target].lines[l].insns
      /\ rows[l].entry = IF l = 1 THEN pics[target].mem
                         ELSE Exit[l - 1][rows[l - 1].entry][rows[l - 1].insns]

\* Before a line is looked up its address is that of an interned sequence, even
\* when the allocator has been cleared since the address was taken.
KeysLive ==
  pc = "line" =>
    \A l \in Lines : pics[target].lines[l].key # NULL
                       => interned[pics[target].lines[l].key] # NULL

\* A rejected candidate leaves the program as it was before its mutations, over
\* any chain of mutations of neighbouring lines.
RollbackRestores ==
  [][Reject /\ undo => Plain(pics'["current"]) = before]_vars

\* What the guards leave: a full clear keeps the sequences of the two programs the
\* worker keeps, however small the budget is.
Allowance == IF setting.cache < 2 * Height THEN 2 * Height ELSE setting.cache

\* The two guards keep the cache within its budget, but for what is added between
\* them: an evaluation adds one sequence or row for each line, and taking over
\* a program and mutating it may add a sequence for each line each.
MemoryBounded ==
  Resident <= Allowance + (IF pc \in {"line", "judge"} THEN Height ELSE 2 * Height)
=============================================================================
