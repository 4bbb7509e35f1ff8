------------------------------ MODULE DualSearch ------------------------------
(***************************************************************************)
(* The dual-frame search, MainLoopDual with LAHC or DLAS: two programs, A  *)
(* and B, are shown alternately and scored together.  Each is found alone  *)
(* first (bootstrap A, then B), the pair is scored (reseed), and then the  *)
(* workers mutate one member of their own pair at a time against the       *)
(* rendered rows of the other, changing sides by a shared stage counter.   *)
(*                                                                         *)
(* A raster program is an element of Pics, what it renders to an element   *)
(* of Rows.  Alone[p] is what ExecuteRasterProgram makes of p, and         *)
(* Paired[p][r] what ExecuteRasterProgramDual makes of p beside rows r of  *)
(* the other frame: neither looks at which frame p is.  A mutation may     *)
(* turn any program into any other, so which program a bootstrap worker    *)
(* mutates is left out.  A program is one line long: the dual line cache   *)
(* remembers what a program rendered to.                                   *)
(***************************************************************************)
EXTENDS OptimizerState

CONSTANTS
    Workers,        \* the evaluators
    Pics,           \* raster programs
    Rows,           \* what a program can render to
    Alone,          \* Alone[p]: rows and score for the quantized target
    Paired,         \* Paired[p][r]: rows and score beside r, for the input
    Kind,           \* LAHC or DLAS
    HistorySize,    \* max(solutions, 1), in force while alternating
    Drifts,         \* what CalculateAcceptanceDrift may return
    FirstSteps,     \* /first_dual_steps
    AlternateSteps, \* /altering_dual_steps
    MaxEvals        \* /max_evals, 0 for none

Renderings == [rows : Rows, cost : Nat]

ASSUME DualWorkersAssumption == IsFiniteSet(Workers)
ASSUME RenderingAssumption ==
    /\ Alone \in [Pics -> Renderings]
    /\ Paired \in [Pics -> [Rows -> Renderings]]
ASSUME DualOptimizerAssumption ==
    Kind \in Kinds /\ HistorySize \in Nat \ {0} /\ Drifts \subseteq Nat
ASSUME StepsAssumption == {FirstSteps, AlternateSteps, MaxEvals} \subseteq Nat

Frames == {"A", "B"}

Other(f) == IF f = "A" THEN "B" ELSE "A"

VARIABLES
    phase,          \* where the main thread is
    pics,           \* m_best_pic and m_best_pic_B
    shown,          \* the rows m_created_picture and m_created_picture_B
    bestResult,     \* m_best_result
    bestCostB,      \* bestCostB, of bootstrap B
    acceptedCost,   \* m_current_cost, whose history has one slot in bootstrap
    version,        \* m_best_state_version
    generation,     \* m_dual_generation_A and m_dual_generation_B
    focus,          \* m_dual_stage_focus_B: the frame to mutate
    counter,        \* m_dual_stage_counter
    evaluations,    \* m_evaluations
    limit,          \* targetE_A or targetE_B
    finished,       \* m_finished
    preview,        \* previewA or previewB, while it is rendered
    pc,             \* where each worker is
    own,            \* islandState.currentA and currentB
    rows,           \* currentRowsA and currentRowsB
    island,         \* islandState.optimizer
    seen,           \* observedBestVersion
    side,           \* local_mutateB
    read,           \* mutateB
    trial,          \* the candidate being evaluated and decided on, if any
    cache,          \* m_line_caches_dual
    rendered,       \* m_dual_last_other_generation
    stale           \* history: some evaluation used rows of another fixed frame

published == <<pics, shown, bestResult, version>>
boot      == <<bestCostB, acceptedCost, limit, preview>>
stage     == <<generation, focus, counter>>
control   == <<phase, evaluations, finished>>
pair      == <<own, rows, island, seen>>
caching   == <<cache, rendered, stale>>
vars      == <<published, boot, stage, control, pc, pair, side, read, trial, caching>>

Goto(w, place) == pc' = [pc EXCEPT ![w] = place]

\* What each program can render to beside some rows of the other frame.
RowsOf == [p \in Pics |-> {Paired[p][r].rows : r \in Rows}]

-----------------------------------------------------------------------------
(* Start.  A continued run has a program of each frame, renders each alone *)
(* and goes straight to the reseed.                                        *)

Init ==
    /\ phase \in {"bootA", "reseed"}
    /\ pics \in [Frames -> Pics]
    /\ phase = "bootA" => pics["B"] = pics["A"]
    /\ shown = [f \in Frames |-> Alone[pics[f]].rows]
    /\ bestResult = Alone[pics["A"]].cost
    /\ version = 0
    /\ bestCostB = 0
    /\ acceptedCost = bestResult
    /\ limit = FirstSteps
    /\ preview = {}
    /\ generation = [f \in Frames |-> 0]
    /\ focus = "A"
    /\ counter = 0
    /\ evaluations = 0
    /\ finished = FALSE
    /\ pc = [w \in Workers |-> IF phase = "bootA" THEN "try" ELSE "joined"]
    /\ own = [w \in Workers |-> pics]
    /\ rows = [w \in Workers |-> shown]
    /\ island = [w \in Workers |-> Fresh]
    /\ seen = [w \in Workers |-> 0]
    /\ side = [w \in Workers |-> "A"]
    /\ read = [w \in Workers |-> "A"]
    /\ trial = [w \in Workers |-> {}]
    /\ cache = [w \in Workers |-> <<>>]
    /\ rendered = [w \in Workers |-> 0]
    /\ stale = FALSE

-----------------------------------------------------------------------------
(* Bootstrap.  The workers look for the best A, then for a B, each scored  *)
(* alone and decided on under the mutex with a history of one slot.        *)

BootOver == finished \/ evaluations >= limit

Join(w) ==
    /\ Goto(w, "joined")
    /\ trial' = [trial EXCEPT ![w] = {}]

Try(w) ==
    /\ pc[w] = "try"
    /\ IF BootOver THEN Join(w)
       ELSE /\ \E p \in Pics :
                 trial' = [trial EXCEPT ![w] =
                             {[pic |-> p, result |-> Alone[p], number |-> 0]}]
            /\ Goto(w, "decide")
    /\ UNCHANGED <<published, boot, stage, control, pair, side, read, caching>>

\* A program of frame f found alone becomes the best of its frame, together
\* with the rows it renders to.
Keep(f, t) ==
    /\ pics' = [pics EXCEPT ![f] = t.pic]
    /\ shown' = [shown EXCEPT ![f] = t.result.rows]

\* B is replaced by a program that beats A's score, and by one that beats its
\* own: bestCostB always is the score of the program kept.
KeptCostB(t) == t.result.cost

KeepBetter(t) ==
    IF phase = "bootA"
    THEN IF t.result.cost < bestResult
         THEN /\ Keep("A", t)
              /\ bestResult' = t.result.cost
              /\ UNCHANGED <<bestCostB, generation>>
         ELSE UNCHANGED <<pics, shown, bestResult, bestCostB, generation>>
    ELSE IF t.result.cost < bestResult \/ t.result.cost < bestCostB
         THEN /\ Keep("B", t)
              /\ bestCostB' = KeptCostB(t)
              /\ generation' = [generation EXCEPT !["B"] = @ + 1]
              /\ UNCHANGED bestResult
         ELSE UNCHANGED <<pics, shown, bestResult, bestCostB, generation>>

Decide(w) ==
    /\ pc[w] = "decide"
    /\ IF BootOver
       THEN /\ Join(w)
            /\ UNCHANGED <<published, bestCostB, acceptedCost, generation, evaluations>>
       ELSE /\ evaluations' = evaluations + 1
            /\ \E t \in trial[w], drift \in Drifts :
                 /\ acceptedCost' = IF t.result.cost <= acceptedCost + drift
                                    THEN t.result.cost ELSE acceptedCost
                 /\ KeepBetter(t)
            /\ Goto(w, "try")
            /\ trial' = [trial EXCEPT ![w] = {}]
            /\ UNCHANGED version
    /\ UNCHANGED <<limit, preview, focus, counter, phase, finished, pair,
                   side, read, caching>>

Bootstrap(w) == Try(w) \/ Decide(w)

-----------------------------------------------------------------------------
(* The main thread between the phases. *)

BootFrame == IF phase = "bootA" THEN "A" ELSE "B"

Booting == phase \in {"bootA", "bootB"}

AllJoined == \A w \in Workers : pc[w] = "joined"

\* The loop of the main thread goes on until the search for this frame is over.
LoopGoesOn_mutant == TRUE

LoopGoesOn == ~BootOver

\* The periodic preview copies the best program under the mutex, renders it,
\* and shows it under the mutex again.
PreviewTake ==
    /\ Booting
    /\ preview = {}
    /\ LoopGoesOn
    /\ preview' = {pics[BootFrame]}
    /\ UNCHANGED <<published, bestCostB, acceptedCost, limit, stage, control, pc, pair,
                   side, read, trial, caching>>

PreviewShow ==
    /\ \E p \in preview : shown' = [shown EXCEPT ![BootFrame] = Alone[p].rows]
    /\ preview' = {}
    /\ UNCHANGED <<pics, bestResult, version, bestCostB, acceptedCost, limit, stage,
                   control, pc, pair, side, read, trial, caching>>

\* /after_dual_steps: B starts as a copy of A, or from a random program that
\* is searched for as long as A was.
CopyB ==
    /\ pics' = [pics EXCEPT !["B"] = pics["A"]]
    /\ shown' = [shown EXCEPT !["B"] = shown["A"]]
    /\ generation' = [generation EXCEPT !["B"] = @ + 1]
    /\ phase' = "reseed"
    /\ UNCHANGED <<bestCostB, acceptedCost, limit, pc>>

GenerateB ==
    /\ \E p \in Pics :
         /\ pics' = [pics EXCEPT !["B"] = p]
         /\ shown' = [shown EXCEPT !["B"] = Alone[p].rows]
         /\ bestCostB' = Alone[p].cost
         /\ acceptedCost' = Alone[p].cost
    /\ limit' = evaluations + FirstSteps
    /\ phase' = "bootB"
    /\ pc' = [w \in Workers |-> "try"]
    /\ UNCHANGED generation

EndA ==
    /\ phase = "bootA"
    /\ AllJoined
    /\ preview = {}
    /\ CopyB \/ GenerateB
    /\ UNCHANGED <<bestResult, version, preview, focus, counter, evaluations,
                   finished, pair, side, read, trial, caching>>

EndB ==
    /\ phase = "bootB"
    /\ AllJoined
    /\ preview = {}
    /\ phase' = "reseed"
    /\ UNCHANGED <<published, boot, stage, evaluations, finished, pc, pair,
                   side, read, trial, caching>>

\* Both programs are rendered for the input, B beside A's rows and then A
\* beside B's: the score of that starts the alternation.  What only the
\* bootstraps used is gone.
ReseededB == Paired[pics["B"]][shown["A"]]

ReseededA == Paired[pics["A"]][ReseededB.rows]

Reseed ==
    /\ phase = "reseed"
    /\ shown' = [f \in Frames |-> IF f = "A" THEN ReseededA.rows ELSE ReseededB.rows]
    /\ bestResult' = ReseededA.cost
    /\ acceptedCost' = ReseededA.cost
    /\ bestCostB' = 0
    /\ limit' = 0
    /\ cache' = [w \in Workers |-> <<>>]
    /\ rendered' = [w \in Workers |-> 0]
    /\ focus' = "A"
    /\ counter' = 0
    /\ phase' = "alternate"
    /\ pc' = [w \in Workers |-> "copy"]
    /\ UNCHANGED <<pics, version, preview, generation, evaluations,
                   finished, pair, side, read, trial, stale>>

\* The Stop button or an interrupt, seen by the loop of the phase.
Stop ==
    /\ Booting \/ phase = "alternate"
    /\ ~finished
    /\ finished' = TRUE
    /\ UNCHANGED <<published, boot, stage, phase, evaluations, pc, pair, side, read,
                   trial, caching>>

Return ==
    /\ phase = "alternate"
    /\ AllJoined
    /\ phase' = "done"
    /\ UNCHANGED <<published, boot, stage, evaluations, finished, pc, pair, side, read,
                   trial, caching>>

-----------------------------------------------------------------------------
(* A dual evaluation.  The line cache does not know what the other frame   *)
(* shows: it is dropped when the generation of the other frame is not the  *)
(* one noted at the last evaluation, or when it is over its budget.        *)

NoteGeneration(w, f) == generation[Other(f)]

Kept(w, f, over) ==
    IF over \/ rendered[w] # NoteGeneration(w, f) THEN <<>> ELSE cache[w]

Dual(w, p, f, over) ==
    IF p \in DOMAIN Kept(w, f, over) THEN Kept(w, f, over)[p]
    ELSE Paired[p][rows[w][Other(f)]]

\* What the evaluation of p as frame f leaves in the evaluator.
Remember(w, p, f, over) ==
    /\ cache' = [cache EXCEPT ![w] =
                   [q \in DOMAIN Kept(w, f, over) \cup {p} |->
                       IF q = p THEN Dual(w, p, f, over) ELSE cache[w][q]]]
    /\ rendered' = [rendered EXCEPT ![w] = NoteGeneration(w, f)]
    /\ stale' = (stale \/ Dual(w, p, f, over) # Paired[p][rows[w][Other(f)]])

-----------------------------------------------------------------------------
(* Alternation: a worker starts from a copy of the published pair, ... *)

Copy(w) ==
    /\ pc[w] = "copy"
    /\ own' = [own EXCEPT ![w] = pics]
    /\ rows' = [rows EXCEPT ![w] = shown]
    /\ island' = [island EXCEPT ![w] = Initialized(bestResult, HistorySize)]
    /\ seen' = [seen EXCEPT ![w] = version]
    /\ Goto(w, "enter")
    /\ UNCHANGED <<published, boot, stage, control, side, read, trial, caching>>

Enter(w) ==
    /\ pc[w] = "enter"
    /\ side' = [side EXCEPT ![w] = focus]
    /\ Goto(w, "head")
    /\ UNCHANGED <<published, boot, stage, control, pair, read, trial, caching>>

\* ... and leaves when the search is finished or has used its evaluations.
AtLimit(n) == MaxEvals > 0 /\ n >= MaxEvals

Head(w) ==
    /\ pc[w] = "head"
    /\ Goto(w, IF finished \/ AtLimit(evaluations) THEN "joined" ELSE "count")
    /\ read' = [read EXCEPT ![w] = focus]
    /\ UNCHANGED <<published, boot, stage, control, pair, side, trial, caching>>

\* The shared counter of iterations.  Of the workers that find it at the end
\* of the stage one takes it back to zero, and turns the focus to the frame
\* it had not read; then the frame fixed from now on gets a new generation.
StageOver_mutant(n) == n = AlternateSteps

StageOver(n) == n >= AlternateSteps

Count(w) ==
    /\ pc[w] = "count"
    /\ counter' = counter + 1
    /\ Goto(w, IF StageOver(counter + 1) THEN "exchange" ELSE "reread")
    /\ UNCHANGED <<published, boot, generation, focus, control, pair, side, read, trial,
                   caching>>

Exchange(w) ==
    /\ pc[w] = "exchange"
    /\ counter' = 0
    /\ Goto(w, IF StageOver(counter) THEN "flip" ELSE "reread")
    /\ UNCHANGED <<published, boot, generation, focus, control, pair, side, read, trial,
                   caching>>

Flip(w) ==
    /\ pc[w] = "flip"
    /\ focus' = Other(read[w])
    /\ Goto(w, "bump")
    /\ UNCHANGED <<published, boot, generation, counter, control, pair, side, read, trial,
                   caching>>

Bump(w) ==
    /\ pc[w] = "bump"
    /\ generation' = [generation EXCEPT ![read[w]] = @ + 1]
    /\ Goto(w, "reread")
    /\ UNCHANGED <<published, boot, focus, counter, control, pair, side, read, trial, caching>>

\* A change of focus is noticed by each worker for itself.  Every so many
\* iterations it looks for a better published pair without one.
Reread(w) ==
    /\ pc[w] = "reread"
    /\ read' = [read EXCEPT ![w] = focus]
    /\ IF focus # side[w] THEN Goto(w, "materialize")
       ELSE \E next \in {"migrate", "evaluate"} : Goto(w, next)
    /\ UNCHANGED <<published, boot, stage, control, pair, side, trial, caching>>

\* At a change of focus the frame just optimized is rendered, and its rows are
\* what the other frame is scored against from now on.
Materialized(w, result) == [rows[w] EXCEPT ![side[w]] = result.rows]

Materialize(w) ==
    /\ pc[w] = "materialize"
    /\ \E over \in BOOLEAN :
         LET p == own[w][side[w]]
         IN  /\ rows' = [rows EXCEPT ![w] = Materialized(w, Dual(w, p, side[w], over))]
             /\ Remember(w, p, side[w], over)
    /\ side' = [side EXCEPT ![w] = read[w]]
    /\ Goto(w, "migrate")
    /\ UNCHANGED <<published, boot, stage, control, own, island, seen, read, trial>>

\* A worker takes over the published pair, with its rows, only if it is better
\* than the worker's own.
MigratedRows_mutant(w) == rows[w]

MigratedRows(w) == shown

Migrate(w) ==
    /\ pc[w] = "migrate"
    /\ IF version # seen[w] /\ bestResult < island[w].currentCost
       THEN /\ own' = [own EXCEPT ![w] = pics]
            /\ rows' = [rows EXCEPT ![w] = MigratedRows(w)]
            /\ island' = [island EXCEPT ![w] = Initialized(bestResult, HistorySize)]
            /\ cache' = [cache EXCEPT ![w] = <<>>]
            /\ rendered' = [rendered EXCEPT ![w] = 0]
       ELSE UNCHANGED <<own, rows, island, cache, rendered>>
    /\ seen' = [seen EXCEPT ![w] = version]
    /\ Goto(w, "evaluate")
    /\ UNCHANGED <<published, boot, stage, control, side, read, trial, stale>>

Evaluate(w) ==
    /\ pc[w] = "evaluate"
    /\ \E p \in Pics, over \in BOOLEAN :
         /\ trial' = [trial EXCEPT ![w] =
                        {[pic |-> p, result |-> Dual(w, p, side[w], over), number |-> 0]}]
         /\ Remember(w, p, side[w], over)
    /\ Goto(w, "judge")
    /\ UNCHANGED <<published, boot, stage, control, pair, side, read>>

\* The island decides on the candidate, in place of its frame; one that is
\* accepted and below the best score read here, without the lock, goes on to
\* publication.
ToPublish_mutant(outcome, cost) == outcome.accepted /\ cost + 1 < bestResult

ToPublish(outcome, cost) == outcome.accepted /\ cost < bestResult

Judge(w) ==
    /\ pc[w] = "judge"
    /\ IF finished
       THEN Join(w) /\ UNCHANGED <<own, island, evaluations, finished>>
       ELSE \E t \in trial[w], drift \in Drifts :
              LET number  == evaluations + 1
                  outcome == Apply(Kind, island[w], t.result.cost, drift)
              IN  /\ evaluations' = number
                  /\ island' = [island EXCEPT ![w] = outcome.state]
                  /\ own' = IF outcome.accepted
                            THEN [own EXCEPT ![w][side[w]] = t.pic] ELSE own
                  /\ IF ToPublish(outcome, t.result.cost)
                     THEN /\ Goto(w, "publish")
                          /\ trial' = [trial EXCEPT ![w] = {[t EXCEPT !.number = number]}]
                          /\ UNCHANGED finished
                     ELSE /\ Goto(w, "head")
                          /\ trial' = [trial EXCEPT ![w] = {}]
                          /\ finished' = AtLimit(number)
    /\ UNCHANGED <<published, boot, stage, phase, rows, seen, side, read, caching>>

\* Under the lock the comparison is repeated.  The whole pair is published:
\* the candidate with the rows it was just rendered to, the other frame with
\* the rows it had meanwhile.
PublishedRows_mutant(w, t) == rows[w]

PublishedRows(w, t) == [rows[w] EXCEPT ![side[w]] = t.result.rows]

StillLower_mutant(t) == TRUE

StillLower(t) == t.result.cost < bestResult

Publish(w) ==
    /\ pc[w] = "publish"
    /\ \E t \in trial[w] :
         /\ IF StillLower(t)
            THEN /\ rows' = [rows EXCEPT ![w] = PublishedRows(w, t)]
                 /\ pics' = own[w]
                 /\ shown' = rows'[w]
                 /\ bestResult' = t.result.cost
                 /\ version' = version + 1
                 /\ seen' = [seen EXCEPT ![w] = version + 1]
            ELSE UNCHANGED <<published, rows, seen>>
         /\ finished' = (finished \/ AtLimit(t.number))
    /\ Goto(w, "head")
    /\ trial' = [trial EXCEPT ![w] = {}]
    /\ UNCHANGED <<boot, stage, phase, evaluations, own, island, side, read, caching>>

Alternation(w) ==
    \/ Copy(w) \/ Enter(w) \/ Head(w) \/ Count(w) \/ Exchange(w) \/ Flip(w) \/ Bump(w)
    \/ Reread(w) \/ Materialize(w) \/ Migrate(w) \/ Evaluate(w) \/ Judge(w) \/ Publish(w)

-----------------------------------------------------------------------------

Worker(w) == Bootstrap(w) \/ Alternation(w)

Driver == PreviewTake \/ PreviewShow \/ EndA \/ EndB \/ Reseed \/ Return

Terminated == phase = "done" /\ UNCHANGED vars

Next ==
    \/ \E w \in Workers : Worker(w)
    \/ Driver
    \/ Stop
    \/ Terminated

Spec == Init /\ [][Next]_vars

\* The threads are scheduled; nobody has to press Stop.
Fairness == (\A w \in Workers : WF_vars(Worker(w))) /\ WF_vars(Driver)

FairSpec == Spec /\ Fairness

-----------------------------------------------------------------------------

Places ==
    {"try", "decide", "copy", "enter", "head", "count", "exchange", "flip", "bump", "reread",
     "materialize", "migrate", "evaluate", "judge", "publish", "joined"}

Trials == [pic : Pics, result : Renderings, number : Nat]

\* What the shared state, the locals of the worker threads and their evaluators
\* can hold.
Types ==
    /\ phase \in {"bootA", "bootB", "reseed", "alternate", "done"}
    /\ pics \in [Frames -> Pics] /\ shown \in [Frames -> Rows]
    /\ {bestResult, bestCostB, acceptedCost, version, counter, evaluations, limit} \subseteq Nat
    /\ preview \subseteq Pics
    /\ generation \in [Frames -> Nat]
    /\ focus \in Frames
    /\ {finished, stale} \subseteq BOOLEAN
    /\ pc \in [Workers -> Places]
    /\ own \in [Workers -> [Frames -> Pics]]
    /\ rows \in [Workers -> [Frames -> Rows]]
    /\ island \in [Workers -> {Fresh} \cup States(HistorySize, Nat)]
    /\ seen \in [Workers -> Nat]
    /\ side \in [Workers -> Frames] /\ read \in [Workers -> Frames]
    /\ \A w \in Workers : trial[w] \subseteq Trials
    /\ DOMAIN trial = Workers /\ DOMAIN cache = Workers
    /\ \A w \in Workers :
         DOMAIN cache[w] \subseteq Pics /\ \A p \in DOMAIN cache[w] : cache[w][p] \in Renderings
    /\ rendered \in [Workers -> Nat]

\* The variables have their types, and the stage counter its range: every worker
\* that finds a stage over takes the counter back before it counts again, and so
\* the stages do not run away however the exchanges interleave.
TypeOK ==
    /\ Types
    /\ AlternateSteps > 0 => counter < AlternateSteps + Cardinality(Workers)

Alternating == phase \in {"alternate", "done"}

\* Workers with a pair of their own.
Islands == {w \in Workers : Alternating /\ island[w].initialized}

\* One of a pair's programs scores c beside rows that its other program can
\* render to.
ScoresAsPair(p, c) ==
    \E f \in Frames : \E r \in RowsOf[p[Other(f)]] : c = Paired[p[f]][r].cost

\* What is published belongs together.  In its bootstrap the score kept for B is
\* that of the program kept.  While the frames alternate, the rows shown for one
\* frame come from the evaluation that gave the best score, and those of the
\* other are a rendering of its program; that rendering is what the score was
\* measured against, unless a stale line was used.
PublishedPairScores ==
    /\ phase = "bootB" => bestCostB = Alone[pics["B"]].cost
    /\ Alternating =>
          \E f \in Frames, r \in Rows :
              /\ bestResult = Paired[pics[f]][r].cost
              /\ shown[f] = Paired[pics[f]][r].rows
              /\ shown[Other(f)] \in RowsOf[pics[Other(f)]]
              /\ ~stale => r = shown[Other(f)]

\* An island's pair, rows and cost belong together through every rejection,
\* change of focus and migration: the rows a worker scores its candidates
\* against are a rendering of the program that is its other frame, and its
\* acceptance cost is the score of the very pair it holds.
IslandPairReal ==
    \A w \in Islands :
        /\ rows[w][Other(side[w])] \in RowsOf[own[w][Other(side[w])]]
        /\ ~stale => ScoresAsPair(own[w], island[w].currentCost)

\* No island holds a pair better than the published one, except on its way to
\* publish it.
DualBestIsLowest ==
    \A w \in Islands : pc[w] # "publish" => bestResult <= island[w].currentCost

\* Once the pair has been scored, the search publishes as PublishedBest says:
\* the reseed is its one change of objective.
Dual_Best ==
    INSTANCE PublishedBest WITH
        cost      <- IF Alternating THEN bestResult ELSE 0,
        version   <- IF Alternating THEN version + 1 ELSE 0,
        objective <- IF Alternating THEN 1 ELSE 0

DualPublishes == Dual_Best!Spec

\* With a limit on the evaluations the search comes to an end, whatever the
\* stages and previews do.
DualReturns == <>(phase = "done")

\* An evaluation scores the candidate against the rows that are fixed now: the
\* generation bump is there to force dual cache invalidation on identity flip.
EvaluationFresh ==
    \A w \in Workers : pc[w] = "judge" =>
        \A t \in trial[w] : t.result = Paired[t.pic][rows[w][Other(side[w])]]

=============================================================================
