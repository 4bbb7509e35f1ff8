# RastaConverter: TLA+ models, model checking and proofs

RastaConverter turns a picture into a *raster program* for the 8-bit Atari: for
each screen line a short sequence of register loads and stores that a 6502 can
execute while the line is drawn. The program is found by stochastic search:
worker threads mutate raster programs, render them in software, score the
result and keep or reject it by late acceptance. This directory holds models of
the parts of the code where ordering, sharing or bookkeeping can go wrong,
configurations that check them with TLC, and proofs checked by TLAPS.

All paths below are relative to the repository root, where the C++ sources are
in `src/`.

## 1. Inventory

| Component | Source | State it keeps | Operations | What is hard | What makes it correct |
|---|---|---|---|---|---|
| Acceptance state | `core/OptimizerState` | ring of remembered costs, index, current cost, DLAS maximum and count | `Initialize`, `Apply` (LAHC, DLAS), drift | incremental maximum over long call sequences, ring wrap-around | maximum and count match the ring; the ring's ceiling never rises by more than the drift |
| Single-frame search | `core/Evaluator::Run` | per worker: program, acceptance state, last seen version and objective; shared: best score, snapshot, version | start, evaluate, accept, publish, migrate, pause, leave | lock-free reads of three separately stored values; stale costs after a retarget | published best is coherent and monotone; no improvement lost |
| Worker pool and main loop | `core/rasta.cpp` `MainLoop`, `PauseWorkers`, `ResumeWorkers` | thread counters, pause and finish flags, one mutex, one condition variable | start, wait with deadline, open and close the editor, stop, drain | lost and stolen notifications, counters compared across threads | pauses complete, stops end, nothing runs where it must not |
| Editor and retarget | `core/rasta.cpp` `ApplyEditorSession`, `RetargetLocked`, `reconfigureAcceptanceHistory` | mask, destination, objective generation | begin, apply, discard | changes what a score means while workers hold scores | scores of two objectives are never compared |
| Run folder | `core/rasta.cpp` `SaveBestSolution`, `SnapshotBeforeMaskEdit`, `BranchCurrentRun`, `RastaSDL.cpp` | the files of a run, the recipe that says where they are, flags of what was edited | GUI save, autosave, final save, snapshot, branch | shares rendering buffers with publishing workers; eight files written in place; a recipe that has to follow them | all files of one save show one program; a snapshot restores; folders do not reach into each other |
| Line cache | `core/LineCache.h`, `InsnSequenceCache.h`, `LinearAllocator.h`, `Program.h` | per worker: interned instruction sequences, cached rendered lines, epoch | look-up, insert, generation clear, full clear, recache | keys are addresses that are reused after a clear | a hit is what rendering would produce |
| Mutation | `core/Evaluator` `MutateLine`, `MutateRasterProgram`, `RasterMutationTransaction` | the program under mutation, saved lines | 11 mutations, begin, restore | undo of several lines; limits on cycles per line | rollback restores the program; programs stay valid |
| Raster execution | `core/Evaluator::ExecuteRasterProgram`, `Cycles.cpp`, `Program.h` | registers, sprites, rows | render and score, validate, optimize, save and read | numeric, sequential; what the evaluator assumes of time the kernel must take to the cycle | equality with an uncached rendering; the assembled kernel does what was evaluated |
| Legacy optimizer | `core/Evaluator::ApplyAcceptanceCore` | one global history | one critical section per evaluation | unlocked copies at start and migration | best program and score agree |
| Dual-frame search | `core/dual/` | pairs of programs, rows rendered for the other frame, stage counters, dual line caches | bootstrap A and B, reseed, alternate, publish, migrate | pairs mixed across a migration; rows of a frame that has changed; several counters that decide together | a published pair belongs together and has its score |
| Resume | `core/rasta.cpp` `Resume`, `LoadOptimizerState`, `app/config.cpp` | saved program, optimizer state, command line, hashes | load, compare, reconfigure | folders left by a crash, changed options and pictures | a resumed search starts from what was saved, on one scale |
| Structured solver | `core/StructuredSolver` | candidate programs per line | initialize, finalize a run | a line rebuilt from its writes must leave the registers for the lines below | keeps writes in place, never worse than its input |
| Targets, masks, colours | `core/TargetBuilder`, `DetailsMask`, `VisualObjective`, `color/` | images and tables | build, hash, feather | arithmetic | covered by unit tests |
| Configuration | `app/` | options, what a resumed run is compared with | parse tokens, make options of them, resume with overrides | two readers and three writers of the same command line | a recipe gives back the options it was written from |
| Program entry | `app/main.cpp` | the session's options, from one conversion to the next | launch, setup, convert, resume, fail, save | what one pass leaves behind for the next | a pass starts a run of its own unless one is continued |
| Interrupts | `utils/Interrupt` | one flag | set by a signal | asynchronous | a stop is seen |
| Setup screen | `frontend/gui/live_ui/SetupScreen`, `SetupSections`, `ConfigModel`, `RecentRuns`, `RecentGallery` | the form, the history of runs, the choice of folders | edit, reset, reuse, delete, continue, convert | options that depend on each other, in any order of edits; folders shared by runs | every run can be repeated and resumed from its recipe; no run overwrites or breaks another |
| Rest of the live user interface | `frontend/gui` | widgets, previews, the paint editor's strokes | returns one command per frame | large; two worker threads | not modelled |

How they interact: `MainLoop` starts worker 0, waits for its first evaluation,
starts the rest and then alternates between drawing the user interface with the
mutex released and waiting on `m_condvar_update` with a deadline. Workers read
`m_pause_requested`, the best score, its version and its snapshot without the
mutex and take it to park, to publish and to leave. The editor stops the world
with `PauseWorkers`, changes the objective and the published best under the
mutex, and lets the workers go; they notice by the objective generation.
`main.cpp` saves after `MainLoop` has returned. With two frames `MainLoopDual`
takes the place of the loop: it has worker threads of its own for each phase, and
they share the published pair under the same mutex and two counters and two
generations without it. What a run leaves behind it leaves in files: the
editor saves before it changes anything and copies the folder, and `/continue`
starts from whatever a folder holds. With the live user interface `main` alternates
between the setup screen and conversions in one process: the screen hands over a
configuration and a recipe written from it, the conversion saves the recipe with
the program, and the history of runs reads it back, in this session or a later one, to
reuse its options or to continue the run.

## 2. Modules

| Module | What it is |
|---|---|
| `OptimizerState` | operators for `struct OptimizerState`; no behaviour of its own |
| `LateAcceptance` | one trajectory: any sequence of `Initialize` and `Apply` |
| `OptimizerState_proofs` | lemmas about those operators, for any ring and any costs |
| `LateAcceptance_proofs` | theorems about a trajectory: the bookkeeping, and what a full lap of rejections leaves |
| `PublishedBest` | what the search promises about its best, without workers |
| `IslandSearch` | `Evaluator::Run` with LAHC or DLAS, and the editor; implements `PublishedBest` |
| `IslandSearch_proofs` | theorems about the search, the scores its islands hold and its limit, and that it implements `PublishedBest` |
| `WorkerPool` | `MainLoop`, the workers and the condition variable between them |
| `WorkerPoolRacy` | `WorkerPool` with `m_threads_active` as the plain `int` it is |
| `WorkerPool_proofs` | theorems about the pause and the drain |
| `LineCache` | one worker's line cache, interning and mutation transaction, with any optimizer |
| `LineCache_proofs` | theorems about the cache: with LAHC or DLAS what it shows, with any optimizer how much it holds |
| `DualSearch` | `MainLoopDual` with LAHC or DLAS: bootstraps, reseed, alternation; implements `PublishedBest` once the pair is scored |
| `DualSearch_proofs` | theorems about pairs, islands and publication of two frames, and that they implement `PublishedBest` |
| `RunFolder` | saving, the editor's snapshots, branches, the end of the process at any moment, and `/continue` |
| `RunFolder_proofs` | theorems about what the files of a folder hold and what resuming from them gives |
| `RasterLines` | operators for lines of a raster program: cycles, what ANTIC leaves of each line, validation, execution, dead loads |
| `RasterKernel` | operators for the text of a program: the kernel that is assembled, and reading it back |
| `StructuredSolver` | operators for the structured solver: the lines it can build from the writes of one |
| `RasterProgram` | the program of a picture from initialization through mutations and structured passes to what is saved |
| `RasterProgram_proofs` | theorems about the program of a picture, and lemmas about cycles, execution and the solver's lines |
| `Recipe` | operators for options: command lines, what `Configuration::Process` makes of them, and the recipe the setup screen writes |
| `SetupSession` | sessions of the setup screen, its history and the conversions started from it, over several launches |
| `MC*` | values of constants for TLC |

`IslandSearch` and `WorkerPool` are two views of the same threads.
`IslandSearch` has the data (programs, costs, versions) and treats waiting as a
condition that becomes true; `WorkerPool` has the waiting (wait sets, lost
notifications, deadlines) and treats an evaluation as a step that may end the
search. They agree on the protocol: where a worker parks, what it tests, who
changes `m_pause_requested` and `m_finished`.

Definitions that end in `_mutant` are plausible mistakes, each beside the
definition it distorts. No specification uses them; replacing the definition by
its mutant must break the property listed for it in `PROJECT.json`.

### OptimizerState and LateAcceptance

The state record has the fields of the struct. `Apply` is `OptimizerState::Apply`
on an initialized state; the initialization inside it belongs to `Offer`, as
`ApplyIslandAcceptance` performs it. Costs are integers: the code only
compares, copies and adds a drift to thresholds. `ApplyDLAS` keeps the three
bookkeeping branches and the recount.

### IslandSearch

| Variable | Code |
|---|---|
| `bestResult`, `snapshot`, `bestVersion` | `m_best_result`, `m_best_snapshot`, `m_best_state_version` |
| `objective`, `bestPic` | `m_objective_generation`, `m_best_pic` |
| `pauseRequested`, `finished`, `initialized`, `evaluations` | the members of the same name |
| `held`, `island`, `seen`, `fresh` | the locals `currentPicture`, `islandState`, `observed...`, `clean_first_evaluation` |
| `trial` | the candidate, its result and number, `out.accepted`, `stopAfterIteration` |
| `startedAt` | history: `m_evaluations` when the search started |
| `lock` | `m_mutex`, held across steps only during a publication |
| `pc`, `main` | program counters |

A raster program is an element of `Pics`, and `Cost[objective][pic]` its score.
A mutation may produce any program. Each unlocked access that another thread can
separate from the next is a step: the prologue's three reads, the version check,
the load of the snapshot, the three stores of a publication. `StoreResult` and
`Overtaken` repeat the comparison under the mutex. `Retarget` is
`ApplyEditorSession` with `RetargetLocked` and the rescoring in
`reconfigureAcceptanceHistory`. Since no worker can be inside an evaluation
then, it is one step.

A search starts with the evaluations that were saved (`SavedEvaluations`: 0, or what `LoadOptimizerState`
or the header of the `.rp` gave it), which may be `/max_evals` or more already.

Reading `m_evaluations` and the best score for `reconstructingSavedPicture` is
folded into `Evaluate`, and the reads of `Judge` into one step; what lies
between them is local to the worker.

### WorkerPool

A critical section is one step unless something outside the mutex can come
between its parts; that is the case where a parked worker tests `m_finished`,
which `Evaluator::Run` stores without the mutex, and then blocks (`Park`,
`Block`). `waiters` is the wait set of the condition variable; `notify_one`
removes any element, a deadline removes the main thread, and a spurious wake-up
may remove anybody at any time. `Timeout` goes back to the head of the loop
without looking at a flag, as the `continue` in the code does, and may also
follow a notification that came just before the deadline. User commands are
nondeterministic.

### LineCache

The caches belong to one worker, so this module has one worker and no
interleaving: what makes it hard is that a cached row is found by an address,
that the memory behind addresses is given back and used again, and that lines
carry their address along when they are saved, copied, exchanged, taken over
or restored.

| Variable | Code |
|---|---|
| `setting` | `m_optimizer`, whether there is an `/onoff` file, `m_cache_size` and its share for interned sequences |
| `pics`, `target` | `m_best_pic`, `currentPicture`, `new_picture`; `evaluatedPicture` |
| `interned` | `m_insn_seq_cache` and its allocator: what lies at each address |
| `table` | `m_line_caches` and theirs: for each line, entry registers and address, the sequence whose row is stored |
| `moved` | whether `m_allocator_epoch` has changed since `Begin` |
| `undo`, `saved`, `savedMem` | `transactionalCandidate`, the snapshots and the memory snapshot |
| `y`, `entry`, `rows` | the line, the registers on entry, and `results_array` |
| `before` | history: the program before the candidate |

A sequence of instructions is an element of `Insns` and a register state one of
`States`; `Exit[l][s][i]` is what line `l` makes of the registers. What a row
shows is the pair of its entry registers and the sequence that was rendered:
pixels, errors and sprites are functions of these two and of the line. An interned
sequence is put at any free address (`Interning`), which includes every way an
allocator may use memory again. The allocator's bytes are counted in interned
sequences and rows, not in chunks.

The actions follow an iteration of `Run`: `Retarget` (the worker was parked,
`ClearAllCaches` ran and the objective changed), the guard at the head
(`KeepCache`, `ForgetRows`, `ForgetAll`), `Migrate` or `Stay`, the choice of the
candidate (`Clean`, `Begin`, `Copy`), any number of mutations and
`EndMutation`, the guard inside `ExecuteRasterProgram` (`Enter`,
`EnterForgetRows`, `EnterForgetAll`), one `CacheHit` or `CacheMiss` for each
line, and the judgement. Seven of the eleven mutations edit one line and clear
its address (`EditLine`, which may produce any sequence); `CopyNextLine`,
`PushBackToPrev` and `SwapWithPrev` are the ones that involve a neighbour, and
the ANTIC 4 attributes are left out.
Whether a candidate is better, whether a published program is taken over and which
line is mutated next is `IslandSearch`'s business or chance; here it is
nondeterministic.

Abstracted: the hash a line carries may be stale after `PushBackToPrev`, which only
interns a sequence twice; the restart of a line for sprites and the
order in a hash chain do not change what is found. What `Run` assigns again
before reading it is reset by `NextIteration`. In `Retarget` the first evaluator
also rescores the best program and so has rows in its cache afterwards, rendered
from the program it then interns again.

### DualSearch

| Variable | Code |
|---|---|
| `pics`, `shown`, `bestResult`, `version` | `m_best_pic` and `m_best_pic_B`, `m_created_picture` and `..._B`, `m_best_result`, `m_best_state_version` |
| `generation`, `focus`, `counter` | `m_dual_generation_A/B`, `m_dual_stage_focus_B`, `m_dual_stage_counter` |
| `own`, `rows`, `island`, `seen` | `islandState.currentA/B`, `currentRowsA/B`, `islandState.optimizer`, `observedBestVersion` |
| `side`, `read` | `local_mutateB`, `mutateB` |
| `cache`, `rendered` | `m_line_caches_dual`, `m_dual_last_other_generation` |
| `phase`, `pc` | the main thread and the workers |
| `stale` | history: some candidate was scored beside rows of another program |

A program is an element of `Pics`, what it renders to an element of `Rows`.
`Alone[p]` is the single-frame evaluation, `Paired[p][r]` the dual one: rows and
score beside rows `r` of the other frame. What a program renders to may depend on
`r`, since pixels choose the register that is best beside the other frame;
that is why rows have to be rendered again at a change of focus. A program
is one line long, so that a dual evaluation is one look-up.

Each unlocked access another worker can separate from the next is a step: the
increment of the stage counter, the exchange, the store of the focus, the bump of
the generation and the second read of the focus. In `Judge` the evaluation is counted,
decided and compared with the published score without the lock; `Publish` is the
critical section. The bootstraps have no step between a decision and its publication,
as the code has none. The memory guard of the dual evaluation may fire at any time.
The islands keep the rows of their own pair (`rows`), so no worker reads another's
buffers; the shared row buffers `m_dual_fixed_rows_buf` are the legacy optimizer's, which
is left out here, with saving and drawing.

### RasterLines, RasterKernel, StructuredSolver and RasterProgram

| Variable | Code |
|---|---|
| `picture` | configuration and colours of the picture: mode, width, height, initializer |
| `pic.lines`, `pic.mem`, `pic.attributes` | `raster_lines` (with the cached `cycles`), `mem_regs_init`, `antic4_attributes` |
| `phase`, `row` | before, in and after the search; the line `ApplyInternalStructuredPass` is at |
| `edits` | bound of the model |

A line is the sequence of its instructions and the cached count of their cycles. `Schedule`
is `GetRasterLineSchedule` with the slot tables of `Cycles.cpp`, number by number.
`EvaluatedWrites` is what `ExecuteRasterProgram` sees a line write: it stops at the right edge,
and `EntryCpu` passes the registers from line to line, with `A` taken by a change of
character set. `LineText` is what `SaveRasterProgram` writes for a line, with its cycles, and
`Optimized` is `OptimizeRasterProgram`. The kernel that runs is the text of the optimized program
(`KernelWrites`, `Time`); the program that is read back is the text of the program as it is
(`Read`, which is `LoadRasterProgram` with its handling of fillers, line ends and blocks). `line_started`
and `fixed_antic4_block` are one place of the reader: between lines, in a line, in its block, or past an error
(`ReadBetween`, `ReadInLine`, `ReadInBlock`). A block begins only in a line and ends it, so no other combination of the two flags
occurs.

In `RasterProgram` a step of the search is one call of `MutateOnce` (its eleven kinds, each with its
condition on cycles), one change of an initial register value or one toggle of an ANTIC 4 attribute. A
rejected candidate is undone (`LineCache`), so every program the search holds is
reached by such steps. `AddInstruction`, `ChangeTarget`, `ChangeMemory` and `ChangeValue` draw from `SampleTargets`, `Palette` and
`Values`; `TargetsHere` are those of them a store may name in the mode. `ChangeValue` covers the three kinds that change what a load loads.

The structured solver is modelled by the set of lines it can come up with. `Requested` lists the
writes of a line; `Place` schedules one of them as late as asked or earlier, from the first
register that can; `Restored` appends the loads that leave the registers as the following lines
expect; `SourceWindow` has a line for every recolouring of the playfield writes. The beam ranks
them by errors, which the model does not have: which one is tried is nondeterministic, and whether it is
strictly better too, except that a line that writes the same at the same cycles is not.

Abstracted: sprites, pixels and errors; the target of a load and the value of a store, which mean
nothing; the name of a register's initial value in the file; `/onoff`.

### RunFolder

| Variable | Code |
|---|---|
| `layer`, `params`, `target` | `details_mask`, `cfg.details_*`, `m_picture` |
| `table` | `m_picture_all_errors`: the objectives its entries were computed for |
| `built` | the objective the weights and `m_target_hash` were made for, which the header's hashes are of |
| `scale` | the error table `m_previous_results` was scored with |
| `buffer`, `bitmap` | `m_created_picture` with `m_sprites_memory`, `output_bitmap` |
| `recipe`, `output` | `cfg.command_line`, `cfg.output_file` |
| `maskEdited`, `targetEdited`, `editedSinceSave` | `m_mask_edited`, `m_destination_edited`, `m_mask_edited_since_save` |
| `at`, `then`, `locked` | the main thread's place, where a save returns to, the mutex |
| `disk`, `used` | the files of each folder, the folders in use |
| `complete`, `raced` | history: what the last finished save of a folder saved; that a program was published amid the exports |

The main thread writes one file per step, and between two steps a worker may publish
(unless the thread has the mutex) and the process may end. A file is a set with its
content, empty if the file is not there; a header holds what `/continue` reads of it. A
recipe says which folder's details and target to load. An objective is the layer, its
parameters and the target; a score or an entry of the error table is worth something under its own
objective only. A table is the set of objectives its entries are of: after a full rebuild one, after a
legacy stroke the objective of the painted pixels and those of the entries left (`Patched`). `Edit` is
`ApplyMaskEditLocked` or `ApplyDestinationEditLocked` with `RetargetLocked`; a request for the mask
comes with any parameters, scoring on or off. `Die` is the end of the program after the last save, an abort and a
crash alike. `Resume` takes any folder and may override the parameters, as options given
with `/continue` do.

Left out: the structured finalizer and initializer, a file cut off in the middle, a failing
write of the artifacts, ANTIC 4 files, statistics, and the setup screen, which is
`SetupSession`'s. A rebuild that fails after the snapshot was taken is left out as well: it
fails on an empty layer only, and that has made the snapshot fail before.

A run with a scored layer always has its history rebuilt when it is resumed (`OptionsChanged`): see the
observation on the baseline below.

### Recipe and SetupSession

`RunFolder` has one run with its files and takes its options for granted; `SetupSession` has the
options and takes the files whole.

| Variable | Code |
|---|---|
| `phase` | where `main` is: not running, between two passes, in `RunSetupScreen`, before and in `MainLoop` |
| `opts` | `cfg` in `main`, one record with every option |
| `live`, `parser`, `override`, `baseline`, `line` | `live_gui`, `parser`, `resume_override_tokens`, `resume_have_baseline` with `resume_saved_*`, `command_line` |
| `touched`, `dualE` | `output_touched` and `antic_e_dual_mode` of the form |
| `preference`, `recent` | what the live user interface keeps in the user's preferences |
| `run` | `rasta` and its configuration, from the moment a run is accepted; empty if there is none |
| `saved`, `states`, `files`, `folders` | programs with their recipes, `.optstate` files, edited layers and targets, folders of runs |
| `reset`, `edits`, `starts` | history: Reset was pressed; bounds |

A command line is a sequence of tokens, an option being its name and its value. `Parse` is `parseTokens`
with the values an option may take from the next word or by implication, `Process` what
`Configuration::Process` makes of the result, clause by clause, and
`BuildCommandLineArgs` walks the table of `ConfigModel.cpp`. These are three independent readings
of some sixty options; nothing in the code ties a clause of one to a clause of another. A conversion
that is edited while it runs changes its recipe with `SetRecipeOption` instead, and a resumed one has
that of the file and whatever tokens the command line had beside `/continue`.

The form has one action per section; the values an option may be set to are those of
`Offered`, and an option with a control that is hidden or disabled cannot be set. A choice that
carries others along (mode, width, own folder, a new picture) does so in the same step.
`Accept` is the end of `RunSetupScreen`: copies of the artifacts, the recipe, the history.
The last save of a conversion is one step, with whatever edits were made while it ran
(`Edited`). The history's folders and the
preference outlive the process (`Exit`), the options do not.

Abstracted: paths are absolute (`AbsolutizeJobPaths`), and quoting a value is undone by the
tokenizer, but for backslashes in quoted paths; options have their canonical
spelling with a slash; numbers have the six digits a recipe writes. A box that stands for automatic,
random or unlimited sets that value, and what the field beside it showed is not kept. Copying an artifact fails only
when it is not there. A file chosen in a dialog is as good as one typed. Pictures of the user, palettes and
`/onoff` files are there and are not damaged. One process at a time.

## 3. Runs

| Run | Bounds | What it shows |
|---|---|---|
| `late_acceptance` | ring of 3, costs 0..4, drifts 0 and 1, both optimizers | the incremental DLAS maximum equals a recount; the ring's ceiling; what a full lap of rejections implies |
| `island_search` | 2 workers, 3 programs, 2 objectives that rank them in opposite orders, DLAS with a ring of 2, at most 4 evaluations, of which 0, 3 or 5 were made before | coherence, monotonicity and completeness of publication; implements `PublishedBest` |
| `worker_pool` | 2 workers, unbounded behaviours | safety of the pause and the drain; three liveness properties |
| `worker_pool_finish` | the same | **violation**: the main loop can miss the end of the search for ever |
| `worker_pool_racy` | the same | **violation**: the thread counter loses an update |
| `line_cache` | 3 lines, 3 sequences, 2 register states, 3 interchangeable addresses, 2 published programs; LAHC/DLAS with the smallest budget, LAHC/DLAS with `/onoff` on all lines and the legacy optimizer without full clears | the cache cannot be told from rendering, no address from before a clear is used, rejected candidates are undone, memory stays bounded |
| `line_cache_stale` | the same, `/onoff` with full clears | **violation**: addresses from before a clear are used |
| `dual_search` | 2 workers, 2 programs, 2 renderings, LAHC with a ring of 1, 2 evaluations, stages of 1 iteration, drifts 0 and 1 | pairs, rows and scores stay together through both bootstraps, the reseed, stages and migrations; publication implements `PublishedBest`; the search returns |
| `dual_cache_stale` | the same, 1 worker, 4 evaluations, stages of 2 iterations | **violation**: a candidate is scored beside rows that are no longer there |
| `raster_program` | seven pictures: mode E normal with 2 lines and each initializer, mode E wide with 2 lines, ANTIC 4 wide with 8 lines, ANTIC 4 normal with 32; 2 colours, 3 values, 3 targets to store to; 1 to 3 changes | no mutation or rebuilt line breaks a limit; the kernel takes exactly the time ANTIC leaves and writes what was evaluated; saved programs are read back as they were; the structured solver keeps what it must |
| `run_folder` | 2 interchangeable programs, 2 layers, legacy parameters with scoring on and off, 2 targets, 3 folders, 2 edits, 1 publication, 1 resume | the files of a save agree; snapshots restore; folders are separate; the error table follows the edits, but for scoring switched on by a save; scores of two objectives are not mixed |
| `setup_session` | 2 pictures, 1 mask, 1 value other than the default for nearly every option, folders 1 to 3, 2 launches with options beside `/continue`, 2 edits, 3 launches and conversions together | every saved recipe is accepted and reproduces the options its program was found with; the pictures it names outlive other runs; fresh runs get folders of their own; a run picked from the history goes on as it was saved, with its optimizer state |

The properties behind these sentences, each defined and explained in its module:

- `late_acceptance`: `MaximaAgreeWithHistory`, `CurrentWithinHistory`, `HistoryCeiling`, `SettlesAfterFullLap`.
- `island_search`: the readers' snapshot describes the best (`SnapshotDescribesBest`),
  the cost an island compares with never exceeds its program's score (`CostNotInflated`), the best is the lowest published (`BestIsLowest`), what is published was
  accepted by its island (`PublishedWasAccepted`), evaluations never mix objectives
  (`OneObjectivePerEvaluation`), the limit is overshot by at most one evaluation of each other worker, and a search
  resumed at or past it makes one with each worker (`OvershootBounded`), refinement (`Publishes`).
- `worker_pool`: `TypeOK`, `NoWorkerUnderneath`, and the liveness of pause, stop and resume
  (`PauseCompletes`, `StopReturns`, `ResumeReachesAll`); `worker_pool_finish`:
  `NothingLeftToWaitFor`; `worker_pool_racy`: `CountAccurate`.
- `line_cache`: `RowsRendered`, `KeysLive`, `MemoryBounded`, `RollbackRestores`; `line_cache_stale`: `KeysLive`.
- `dual_search`: `TypeOK`, `PublishedPairScores`, `IslandPairReal`, `DualBestIsLowest`, refinement
  (`DualPublishes`), liveness (`DualReturns`); `dual_cache_stale`: `EvaluationFresh`.
- `raster_program`: `ProgramsLegal`, `KernelKeepsTime`, `SavesRestore`, `SolverKeepsContract`.
- `run_folder`: `ExportsAgree`, `ErrorTableCurrent`, `SaveRoundTrips`, `RestorePoint`, `ResumedOnScale`.
- `setup_session`: `RecipeReproduces`, `RecipeComplete`, `RunsKeptApart`, `ResumesAsLeft`.

Why the bounds are enough. A ring of three slots has a slot before and after
the one written, and repeated maxima; five costs allow a maximum, two levels
below it and drift above both. In `island_search` one worker can publish while
the other starts, migrates, judges or has just been overtaken, each worker can
do at least two evaluations, and every interesting pair of events fits between
two objectives; costs tie (`a` under the second objective costs what `b` costs
under the first), and the second objective makes the best program look worse, so
a score that survives the change shows. Of the limit of four evaluations none, three or more than all may have been
made before, so that a search starts below, just below and past its limit. `MaxEvals` and `MaxObjective` are
bounds of the model only in that they end the behaviours. In `worker_pool` two
workers suffice for a notification to be stolen: the main thread and one worker
wait while the other notifies. In `line_cache` three lines let a mutation leave a
line outside its neighbourhood and let neighbourhoods of a chain overlap;
there are as many sequences as addresses, so that after a clear any sequence can
come to lie where another one was; and the budget of four entries with a share of one for
interned sequences makes both guards fire in all their ways within an iteration. Two
register states suffice for a line to be entered with other registers because
of the line above. Of the three sequences one leaves the
registers alone and two set them differently. `line_cache` leaves full clears out for the
two settings in which they go wrong, as `line_cache_stale` shows, and an `/onoff` file that differs from line to line, which goes
wrong too (see the observations).

The type invariants of all these modules but `SetupSession` are proved for every value of the constants (section 4).

In `dual_search` a stage of one iteration makes two workers meet at every step of a
change of focus, and two evaluations let one publish while the other migrates, is
overtaken or flips back; more evaluations only repeat this. Two programs that
render differently beside different rows suffice to tell a pair from a mixed one. In
`run_folder` three folders are a run, its snapshot and its branch; one resume
suffices, since whatever was written before can be resumed; two edits are needed
for one before and one after a save, and one publication for one amid an
export. The two parameters are of legacy mode, where a stroke patches the table; in the other modes every edit rebuilds
it, which is what a change of parameters does here, and the proofs are for any of them. `MaxFolders`, `MaxPublications`, `MaxEdits` and `MaxLives` bound the model only.
In `raster_program`
each picture has the lines where limits differ: the first two lines of wide ANTIC 4 have 6 and 48 cycles,
line 24 of the tall one follows a change of character set, a smart or random line is near the limit of
its mode, and the wide mode E has a smaller limit than the structured solver builds for. Three
changes suffice for an instruction to be added, pushed to a neighbour and exchanged back; `MaxEdits` and
`Edited` (which lines are mutated) bound the model only. What a slot table says is checked for all
240 lines of every mode and width (`SlotsAssumption`).
In `setup_session` an option wrongly written, read, reset or copied shows as soon as it has one value
that is not its default: one edit, one conversion and its save. Two edits suffice for every pair of options that depend on each
other, and for an edit before or after Reset, reuse or a deletion; three starts for a launch, a run, and one that reuses or
continues it, in that process or, from the command line, in the next. `MaxRunIndex` is 999 in the code; three lets the numbers run
out. The system may stop, since the user may quit: `CHECK_DEADLOCK FALSE`. `MaxEdits` and `MaxStarts` bound the model only.
The programs of `run_folder` are interchangeable (`SYMMETRY`), which is sound as no liveness is checked.

**Fairness.** `WorkerPool` and `DualSearch` state liveness. `DualSearch` asks for `WF` of
each worker and of the main thread: a thread that can take a step takes one, and no step of the
model waits for a lock, since a critical section is one step. Nobody has to press Stop;
`DualReturns` holds because an evaluation limit is set. In `WorkerPool` `SF` for each worker and for
the main thread says that a runnable thread runs and that a mutex released
again and again is obtained by whoever keeps asking, which is what the
operating system's scheduler gives threads that block on a mutex. It is strong
because the mutex is taken in between; there is no fairness on the user, on
interrupts, on spurious wake-ups, or on reaching `max_evals`. `NextFrame` is assumed
to return. No liveness property assumes that a particular waiter is chosen by
`notify_one`.

### Disagreements found

* **The main loop can miss the end of the search** (`worker_pool_finish`).
  The guard at `core/rasta.cpp:3351` is there because "once they have all gone
  ... waiting is waiting forever", but it asks for `!m_finished`, and
  `m_finished` is set whenever workers go because of `max_evals`. Workers that
  store it, notify and leave while the main thread draws the user interface
  leave no notification behind; each later wait times out, and a timeout skips
  the test of `m_finished`.
* **The thread counter** (`worker_pool_racy`). `Evaluator::Start` increments
  `m_threads_active`, a plain `int`, without the mutex, deliberately outside
  the global lock. A worker that has already reached `max_evals` (a
  small limit, or a resumed run past it) decrements it at the same time. The
  comment in `PauseWorkers` relies on the count moving with the threads.
* **Addresses from before a clear** (`line_cache_stale`). The guard in
  `ExecuteRasterProgram` (`core/Evaluator.cpp:2269-2279`) clears the addresses of
  the evaluated picture only. With `/onoff`, and with the legacy optimizer, that is a
  copy; the original keeps freed addresses, the next copy takes them over,
  and the line "Ensure instruction sequence pointer is valid before
  hashing/lookup" only looks for `NULL`. The transactional path is safe because
  the saved lines are restored without addresses when the epoch has moved.
* **Generations of two frames compared as one** (`dual_cache_stale`). The dual
  line cache is dropped when the other frame's generation is not the one
  noted at the last evaluation (`core/Evaluator.cpp:879-885`). The two
  generations are counted separately and may be equal, so the first change of focus
  after `/after_dual_steps=copy` keeps the lines, and so does one after `/continue`.
  The comment at `RastaDual_MainLoop.cpp:835` says the bump is there "to force dual
  cache invalidation on identity flip". The safety properties of `dual_search` say what
  still holds then: with `stale` the rows are those of the program, only
  the score was taken beside others.

### Observations

Met while modelling, and not the subject of a run:

* *Start of an island.* `Evaluator.cpp:1601-1616` reads the snapshot and the best score separately,
  so a worker that starts while another one publishes may pair the old program with the new
  score, though the comment at 1613 wants history and picture to belong together. `CostNotInflated` says what
  holds all the same.
* *Odd values.* `CHANGE_VALUE` makes odd colour values. `ExtractStructuredSourceWindow` ranks the
  128 even ones only, so for a playfield write of an odd value the assertion at
  `StructuredSolver.cpp:1095` fails, or a release build reads past the ranking.
* *Ownership rows.* `ApplyStructuredSourceWindowIfBetter` takes `m_created_picture_targets` after
  an evaluation of the baseline that may be all cache hits, which do not write them: after a rejected
  candidate they are the candidate's.
* *Limit of the builder.* The structured solver builds to the limit of normal mode E and uses its table in wide
  mode E as well; only the validation at the end keeps its lines legal there (`ProgramsLegal` checks that
  this suffices).
* *Registers turned off.* `/onoff` replaces targets by `E_TARGET_MAX`; `SaveRasterProgram`
  calls that an unknown target and validation rejects it.
* *Smart initializer.* `CreateSmartRasterPicture` looks up the position of a colour by its
  rank, so that players nearly always start at the left edge.
* *Dual bootstrap.* In bootstrap B `m_best_result` is still A's, so "improved" compares B with A
  and the kept B may be worse than an earlier one (`RastaDual_MainLoop.cpp:485`). The
  bootstraps do not test `max_evals`. `reconfigureAcceptanceHistory` is never reached in dual mode, since the
  reseed clears the flag (640).
* *Crash between `.rp` and `.optstate`.* The folder then has the hashes of the new pictures beside
  the old history, and nothing reconfigures it on resume. An unlocked GUI save may export what a worker has just
  published, although the comment at `rasta.cpp:3081-3083` says the artifacts are of the exact program.
* *Scoring switched on by a save.* `SaveEditedMaskArtifact` sets `details_score` (932) without a
  new error table. The next stroke in legacy mode finds scoring on and its parameters unchanged, and patches the painted
  pixels only (1154-1165), though the comment there says that "scoring coming on" touches all of them: the table is mixed from then
  on. One way there: an edited mask, *apply to scoring* switched off in the editor (`PaintEditorPanels.cpp:852`), a save that is the first one in
  its folder (a branch), a stroke. `ErrorTableCurrent` names this exception, and says that there is no other.
* *Two programs in a folder.* `Resume` prefers `out_dual_A.rp` and `B` over a later single-frame save (3899-3918).
* *Registers turned off below an address.* `TurnOffRegisters` changes instructions without clearing the line's
  address, against the rule stated at `rasta.cpp:2652-2654`. While a line stays in its place this is harmless; with
  registers off on some lines only, an accepted line that moves to a place where the register is on hits
  a row of the instructions it had before. `line_cache` has them off on all lines, where it stays harmless.
* *Legacy optimizer.* A worker that starts copies `m_best_pic` without the mutex while another one may store it
  (`Evaluator.cpp:1603`).
* *Plateau.* `CalculateAcceptanceDrift` subtracts two counters read at different times (`Evaluator.cpp:653`); an
  improvement in between wraps the difference.
* *Truncated optimizer state.* `LoadOptimizerState` assigns fields as it parses (`rasta.cpp:464`).

Of the setup screen and of recipes:

* *No baseline of details.* `Process` sets `resume_have_baseline` and records six options only, so the block of
  `ProcessCmdLine` that records the details options never runs: a resumed run with a scored layer
  always counts as changed, and its history is rebuilt.
* *Reset forgets how the program was started.* It assigns a new `Configuration`, `live_gui` included. A run that is
  continued afterwards takes its output from the parser (`main.cpp:85-90`) and is looked for under `output.png`, which the
  comment there says is avoided. `ResumesAsLeft` leaves such sessions out (`reset`).
* *Reuse fixes the baseline.* `UseSettings` leaves `resume_have_baseline` set, so a run that is continued later in the
  session is compared with the recipe that was reused (`baseline` in `ResumesAsLeft`).
* *Leftover overrides.* `/livegui /continue` keeps its tokens as overrides for every run continued from the history;
  `/continue` and `/o` themselves have no effect there.
* *Random seed.* The box sets `initial_seed` to 0, which `ProcessInit` turns into 1: runs with a random seed
  always start alike, against `ConfigModel.cpp:345-346`. Without the setup screen the seed comes from the clock, and a recipe that
  is reused keeps that.
* *Seed and threads.* Both are set anew on each pass unless the command line has them, so what was chosen in the form is
  lost after a conversion (`SetupScreen.cpp:928-940`).
* *What Reuse brings along.* `details_layer` stays on when another mask is chosen, and `target_file` when another picture is.
  With *Bias mutation choice* ticked, clearing the mask leaves `/details_allocate` on, and the program ends with an error
  (`rasta.cpp:1740`).
* *Backslashes.* `SetRecipeOption` and the target of `RunSetupScreen` quote without escaping; the tokenizer takes the
  backslashes of a quoted path away.
* *Number of solutions.* `solutions` is global to the process; a resumed run leaves its own to the next pass of the form.
* *Folders.* `CreateRunFolder` accepts a folder that exists. Without a folder of its own only the `.png` is looked for, while
  two-frame runs beside a picture are all called `out_dual_A`, and the history takes the first `.opt` it finds.
* *Two frames continued.* The history finds `out_dual_A.opt` and passes `out_dual_A` as the output, but the
  optimizer state was saved under the run's own name (`rasta.cpp:3160`), so it is not loaded.
* *Small caches.* A recipe has whole megabytes: a cache below one becomes `/cache=0`.
* *Words.* `/livegui` with nothing else also becomes the input file, as the first argument.
* *File dialogs.* A late answer reaches a `FileDialogs` that is gone, though `FileDialog.h:56-57` says it does not.

## 4. Proofs

`LateAcceptance_proofs` proves for every ring length, cost bound and set of
drifts: `TypeCorrect`, `MaximaCorrect`, `CurrentBounded`, `CeilingHolds`. The
inductive invariant is the conjunction `TypeOK /\ MaximaAgreeWithHistory /\
CurrentWithinHistory`. `MaximaAgreeWithHistory` alone is not inductive without the
type (the count is a cardinality of a finite set of slots), and
`HistoryCeiling` needs both others: LAHC accepts up to the current cost plus drift,
so the current cost must lie below the ring, and DLAS accepts below `costMax`
plus drift, so `costMax` must be in the ring. The lemmas say how the number
of slots holding a cost changes when one slot is overwritten, and that a
ring has a maximum; they are in `OptimizerState_proofs`, for any ring length and any set
of natural costs. `LapCorrect` (`SettlesAfterFullLap`) speaks of a whole lap of rejections, and
no step but the last makes one; what every rejection preserves is the part of the lap already
travelled: the slots the index has passed since the last acceptance hold what settling makes of them
(`LapSettled`).

`IslandSearch_proofs` proves, for any finite set of workers, any programs,
scores, number of objectives, ring length, drifts, `max_evals` and either
optimizer: `SearchTypeCorrect`, `NoImprovementLost`, `SnapshotCorrect`,
`PublishedAccepted`, `ObjectiveStable`, and `SearchRefines`:
the search implements `PublishedBest`. The inductive invariant `IInv` adds to
`TypeOK` and `BestIsLowest` what they lean on:

* while the editor is open every worker is parked, leaving or gone
  (`EditorAlone`), so a running worker knows the objective in force
  (`ObjectiveKnown`) and its candidate's result is a score under it
  (`ResultIsScore`);
* who stores holds the mutex (`OneStores`), and has stored the result first
  (`StoredResult`), so the snapshot can only lag behind the score, never lead it
  (`SnapshotLags`), and a migration never brings in less than the best score;
* a worker on its way to publish has accepted its candidate
  (`PublisherHolds`). This is the step that needs everything else: an unaccepted
  candidate is worse than the island's cost (`ApplyTyped`), which is not
  below the best score (`BestIsLowest`), so the unlocked pre-check cannot
  send it on.

`CostCorrect` (`CostNotInflated`) is about the two unlocked reads an island starts from, the program and
later the score. It is right because every program that could have been read scores no less than every
best score that could be read after it (`StartsAbove`, from `FirstPic` while there is no snapshot), and
migration and acceptance keep it so (`Floor`). It needs the beginning as well: as long as there is no score, nobody has
evaluated anything but the initial program (`AllFirst`). `OvershootCorrect` (`OvershootBounded`) counts
workers instead of evaluations: one whose number reaches the limit is its worker's last (`SpentStop`),
so there are as many such workers as evaluations from the limit on (`SpentCounted`). `LastFrom` is where they start: the
limit, or the first evaluation of a search that had made as many before. Nothing is assumed of the saved number.

`WorkerPool_proofs` proves `PoolTypeCorrect` and `PauseAndDrainCorrect` (`NoWorkerUnderneath`) for any finite set
of workers. The counters are the cardinalities of the workers that were started and have not gone, and
of those that wait (`Counted`), which is what makes their equality mean that all wait. A worker started
late could still slip underneath; the editor cannot be reached before all are started (`AllStarted`),
and while it is open the pause is requested and a worker can only leave (`PauseHolds`).

`LineCache_proofs` proves, for any number of lines, any sequences, registers and
addresses and any budget: `CacheTypeCorrect`, and for LAHC and DLAS without
`/onoff` `CacheTransparent`, `NoStaleKey` and `UndoCorrect`. For the
other settings `RowsRendered` and `KeysLive` do not hold in general, as the
violations show, so the theorems have the setting as a premise. The inductive invariant
relates addresses to the memory behind them:

* a line of the worker's program that has an address has its own sequence there
  (`CurrentAgrees`), and a stored row shows the sequence that lies at its
  address now (`TableAgrees`). Together they make a hit right. A full clear
  keeps both because it forgets the rows in the same step;
* the saved lines agree with the memory too, unless the epoch has moved since
  `Begin` (`SavedAgrees`): this is what makes restoring an address right, and
  dropping it necessary;
* what is saved and what was not touched make up the program before
  (`UndoComplete`), which gives `UndoCorrect`. It survives a mutation because
  every line a mutation writes is in the saved neighbourhood;
* the registers on entry to the next line are those the last row left
  (`Reached`).

The lemmas say how interning, recaching, patching and restoring preserve
agreement (`InternStep`, `RecachedStep`, `AddressedStep`, `RestoredStep`).

`MemoryCorrect` (`MemoryBounded`) holds for every setting. Its invariant says how much lies in
the cache at each place of the loop (`Budgeted`): an evaluation starts within the budget with an address for every line and adds
a row for each, or from nothing and adds a sequence and a row for each (`AddsOne`, `AddsTwo`; `ComesAddressed`). A
full clear keeps the sequences of the two programs the worker needs, so a budget below their lines is not kept: the bound
has `Allowance` in place of the budget.

`DualSearch_proofs` proves, for any finite set of workers, any programs and renderings, any stage lengths and either
optimizer: `DualTypeCorrect`, `PairCorrect`, `IslandsCorrect`, `NoPairLost` and `DualRefines`. The invariant `DInv` says
beside which rows a candidate was scored (`TrialScored`): those its worker still holds, unless a remembered line was
stale, and always those some program renders to (`CacheReal`). A candidate on its way to publication is what its island
holds (`PublisherHolds`), and a worker that has copied the published pair has the rows of both programs (`CopiedReal`). The
stage counter passes the length of a stage only by the workers that are about to take it back (`StageCounted`).

`RunFolder_proofs` proves, for any number of folders, publications, edits and resumes and any programs, layers, parameters
and targets: `ExportsCorrect`, `TableCorrect`, `RoundTripCorrect`, `RestorePointCorrect` and `ScaleCorrect`. The invariant
`RInv` follows a save file by file: at each place, which files of the folder already are of the program being saved
(`PicturesSaved`, `ProgramSaved`, `ExportsSaved`); the mutex is held whenever a save leads to something else than the run
(`MutexKept`), so that the program cannot change under it. A folder in which a save was finished holds what that
save saved, and its recipe reads from no other folder (`SavesHeld`): this is what no later step, of this run or another, takes back, and
what `RestorePoint` and `SaveRoundTrips` need. While an edit is pending the parameters that count are those before it, since it may
be refused: every entry of the table is of those (`TableKept`, `InForce`), or was computed without the scoring that a save
has switched on since (`SwitchedOn`). A request's own parameters are then in force but for that same switch
(`RequestInForce`), which is what makes a patch (`PatchKept`) leave no other kind of entry: a stroke that does not rebuild
the table comes with the parameters there were.

`RasterProgram_proofs` proves `ProgramsLegalCorrect` (`ProgramsLegal`) for any pictures, colours, values and number of changes. The
invariant `PInv` is the type of a program and, for each line, that it fits its row (`Fits`): not empty, cached cycles
those of its instructions and within the limit of the row, stores where the mode allows them. The lemmas say what an instruction
appended, inserted, removed, exchanged or replaced does to the cycles of a line (`CyclesInsert` and those
that follow from it, by bijections between the stores of both lines), that the initializers' lines fit, and that what the structured
solver offers is a line of instructions, empty only in place of a line without stores, which it then does not replace
(`PlaceType`, `BuiltType`, `WindowType`). The solver's recursion is a function built by steps;
`RecursionExists` and `RecursionTyped` stand in for induction, with the least counterexample as their argument.

`SolverContract` (`SolverKeepsContract`) goes on from there. What a line writes is followed instruction by instruction: one that
stores nothing adds no write (`AppendQuiet`), a store adds one that starts at the cycles so far and has the value its register
holds (`AppendStore`). So a builder that knows the cycles and registers of its line still does after it places a write
(`Does`, `PlaceDoes`), and what restores the registers writes nothing (`RestoredQuiet`). The registers
the solver starts from are those of a replay of the loads; that the evaluator has the same ones in mode E (`EntryIsReplayed`)
needs every instruction within the limit to be displayed or executed at least, which is a matter of the slots of the line (`SlotsShown`).

`KernelCorrect` (`KernelKeepsTime`) needs no stronger invariant than `PInv`; it is about the text `PInv`'s programs are saved as. Its two halves:

* time. A text's time and code are functions built step by step (`TimeIs`, `CodeIs`), those of two texts add up (`TimeConcat`,
  `CodeConcat`), and a line of text is a start, its instructions, the filler and an end (`LineTextDoes`). The filler comes out
  even because cycles and limits are; that limit and suffix make up the slots of a line is checked for each of
  the tables of slots (`ScheduleFits`).
* writes. The evaluator executes every instruction of a line that fits, in ANTIC 4 too (`EveryExecuted`). Going through a line, a
  register whose next use is no load holds the same in the optimized line as in the line itself (`ClearedHolds`); so do the
  registers a line passes on, line after line (`RegistersAgree`), and at a store the next use of the register stored is that store.

`RestoreCorrect` (`SavesRestore`) is about the same text, read by `LoadRasterProgram` instead of assembled. A lemma for each word
says where it takes the reader (`ReadLine` to `ReadBlockEnd`); `Reads` follows a text word by word, and a text after a text
is read from where the first one led (`ReadsConcat`). So a line's start takes the reader into the line, its instructions are
appended (`ReadsInsTexts`), filler means nothing, and its end makes a line of them (`ReadsLineEnd`), marked
where the schedule changes the character set (`ScheduleChanges`, `ReadsFixedBlock`). `cmp byt2` ends a line only
after an instruction, which is why no line of the program may be empty. Line by line (`ReadsNext`, `ReadsSaved`) the
reader then holds the lines written so far. The registers need `RInv`, which is `PInv` and one thing more: in mode E, whose
file does not name `COLOR3`, its initial value is always 0.

All assume no more than the named assumptions on constants in the modules they are about. The recursion of texts, registers
and readers is over the lines and words of one file, whose bounds the proofs follow with `Induction`, a lemma about sets of
numbers: the theorems with an operator parameter are not used.

Model-checked only are the properties of `SetupSession` (`RecipeReproduces`, `RecipeComplete`, `RunsKeptApart`,
`ResumesAsLeft`), whose recipes are filtered and parsed by operators over sequences of options that were not worth a
calculus of their own, and the liveness properties, which are out of the prover's reach.

## 5. Not modelled, and the plan

Not modelled because there is no control to speak of or because it is
arithmetic: colour choice, sprites and errors of a row, colour distances, masks and targets, random
numbers, the widgets of the user interface. Of the command line the splitting into tokens, aliases,
warnings and help are left out. The paired search of the structured
solver is called by diagnostics only. `/onoff` is modelled where it meets the line cache.

Planned, in this order:

1. Proofs: `RunsKeptApart` and `ResumesAsLeft` of `SetupSession`, for any number of runs.
2. The export of ANTIC 4 screens and players (`SaveAntic4Data`, `SavePMG`), against the picture shown.
3. The legacy optimizer, as a second `Next` of the search.
4. Saves of a dual run, and files cut off in the middle, beside `RunFolder`.
5. The worker threads of the target preview and of the assembler, and the paint editor's undo, in the live user
   interface.
