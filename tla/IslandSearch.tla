----------------------------- MODULE IslandSearch -----------------------------
(***************************************************************************)
(* The single-frame search: the worker threads of Evaluator::Run with the  *)
(* LAHC or DLAS optimizer.  Every worker is an island with a picture and   *)
(* an acceptance state of its own; improvements on everything any island   *)
(* has seen are published under the mutex, and the other islands pick them *)
(* up with lock-free reads of a version and a snapshot.  The editor stops  *)
(* all workers, may change the objective, and lets them go.                *)
(*                                                                         *)
(* A raster program is an element of Pics and EvaluateSingle is Cost: the  *)
(* line caches are transparent here (module LineCache is about that), and  *)
(* a mutation may turn any program into any other.  Conditions are waited  *)
(* for, not signalled: WorkerPool has the condition variable.              *)
(***************************************************************************)
EXTENDS OptimizerState

CONSTANTS
    Workers,        \* the evaluator threads
    First,          \* evaluator 0, which starts alone
    NoWorker,       \* who holds a mutex that is free
    Pics,           \* raster programs
    InitialPic,     \* the program the search starts from
    MaxObjective,   \* bound: the objective changes at most this often
    Cost,           \* Cost[g][p]: the score of program p under objective g
    Unscored,       \* DBL_MAX, the score of a search that has none
    Kind,           \* the optimizer, LAHC or DLAS
    HistorySize,    \* max(m_solutions, 1)
    Drifts,         \* what CalculateAcceptanceDrift may return
    MaxEvals,       \* /max_evals
    SavedEvaluations \* what m_evaluations may be at the start: 0, or what was saved

Objectives == 0 .. MaxObjective

ASSUME WorkersAssumption   == IsFiniteSet(Workers) /\ First \in Workers /\ NoWorker \notin Workers
ASSUME PicsAssumption      == InitialPic \in Pics
ASSUME ObjectiveAssumption == MaxObjective \in Nat
ASSUME CostAssumption ==
    /\ Unscored \in Nat
    /\ Cost \in [Objectives -> [Pics -> Nat]]
    /\ \A g \in Objectives, p \in Pics : Cost[g][p] < Unscored
ASSUME OptimizerAssumption ==
    Kind \in Kinds /\ HistorySize \in Nat \ {0} /\ Drifts \subseteq Nat
ASSUME MaxEvalsAssumption  == MaxEvals \in Nat /\ SavedEvaluations \subseteq Nat

NoSnapshot == [pic |-> InitialPic, cost |-> Unscored, version |-> 0]

VARIABLES
    lock,           \* m_mutex: its holder among the publishing workers
    bestResult,     \* m_best_result
    snapshot,       \* *m_best_snapshot; NoSnapshot is the null pointer
    bestVersion,    \* m_best_state_version
    bestPic,        \* m_best_pic
    objective,      \* m_objective_generation
    pauseRequested, \* m_pause_requested
    finished,       \* m_finished
    initialized,    \* m_initialized
    evaluations,    \* m_evaluations
    startedAt,      \* history: what it was when the search started
    main,           \* the main thread: run, pausing, editing or stopped
    pc,             \* where each worker is
    held,           \* currentPicture
    island,         \* islandState
    seen,           \* observedBestVersion and observedObjectiveGeneration
    fresh,          \* clean_first_evaluation
    trial           \* the candidate under evaluation and what became of it

published == <<bestResult, snapshot, bestVersion>>
control   == <<bestPic, objective, pauseRequested, finished, initialized, evaluations,
               startedAt, main>>
locals    == <<held, island, seen, fresh, trial>>
vars      == <<lock, published, control, pc, locals>>

\* Workers counted in m_threads_active, and those in m_threads_paused.
Active == {w \in Workers : pc[w] \notin {"off", "done"}}
Parked == {w \in Workers : pc[w] = "paused"}

Goto(w, place) == pc' = [pc EXCEPT ![w] = place]

\* The program a worker loads: the published one, else m_best_pic.
LoadedPic == IF snapshot = NoSnapshot THEN bestPic ELSE snapshot.pic

-----------------------------------------------------------------------------

\* A fresh search has no score, and neither has a resumed one, but for one whose
\* saved program has been scored anew.  A resumed search counts on from the
\* evaluations that were saved, which /max_evals may already be below.
Init ==
    /\ lock = NoWorker
    /\ bestResult \in {Unscored, Cost[0][InitialPic]}
    /\ snapshot = NoSnapshot
    /\ bestVersion = 0
    /\ bestPic = InitialPic
    /\ objective = 0
    /\ pauseRequested = FALSE
    /\ finished = FALSE
    /\ initialized = FALSE
    /\ evaluations \in SavedEvaluations
    /\ startedAt = evaluations
    /\ main = "run"
    /\ pc = [w \in Workers |-> IF w = First THEN "loadSnapshot" ELSE "off"]
    /\ held = [w \in Workers |-> InitialPic]
    /\ island = [w \in Workers |-> Fresh]
    /\ seen = [w \in Workers |-> [version |-> 0, objective |-> 0]]
    /\ fresh = [w \in Workers |-> TRUE]
    /\ trial = [w \in Workers |->
                  [pic |-> InitialPic, result |-> Unscored, number |-> 0,
                   accepted |-> FALSE, stop |-> FALSE]]

-----------------------------------------------------------------------------
(* The prologue of Evaluator::Run: three unlocked reads. *)

LoadSnapshot(w) ==
    /\ pc[w] = "loadSnapshot"
    /\ held' = [held EXCEPT ![w] = LoadedPic]
    /\ Goto(w, "loadVersion")
    /\ UNCHANGED <<lock, published, control, island, seen, fresh, trial>>

LoadVersion(w) ==
    /\ pc[w] = "loadVersion"
    /\ seen' = [seen EXCEPT ![w] = [version |-> bestVersion, objective |-> objective]]
    /\ Goto(w, "loadBest")
    /\ UNCHANGED <<lock, published, control, held, island, fresh, trial>>

LoadBest(w) ==
    /\ pc[w] = "loadBest"
    /\ island' = [island EXCEPT ![w] =
                    IF bestResult = Unscored THEN Fresh
                    ELSE Initialized(bestResult, HistorySize)]
    /\ Goto(w, "top")
    /\ UNCHANGED <<lock, published, control, held, seen, fresh, trial>>

-----------------------------------------------------------------------------
(* The loop: pause point, migration, evaluation, acceptance, publication. *)

Pass(w) ==
    /\ pc[w] = "top"
    /\ ~pauseRequested
    /\ Goto(w, "readVersion")
    /\ UNCHANGED <<lock, published, control, locals>>

Park(w) ==
    /\ pc[w] = "top"
    /\ pauseRequested
    /\ lock = NoWorker
    /\ Goto(w, "paused")
    /\ UNCHANGED <<lock, published, control, locals>>

\* A worker that was parked while the objective changed starts over from the
\* published best before it evaluates again.
Reinitializes_mutant(w) == FALSE

Reinitializes(w) == objective # seen[w].objective

Wake(w) ==
    /\ pc[w] = "paused"
    /\ lock = NoWorker
    /\ ~pauseRequested \/ finished
    /\ IF Reinitializes(w)
       THEN /\ held' = [held EXCEPT ![w] = LoadedPic]
            /\ island' = [island EXCEPT ![w] = Initialized(bestResult, HistorySize)]
            /\ seen' = [seen EXCEPT ![w] = [version |-> bestVersion, objective |-> objective]]
       ELSE UNCHANGED <<held, island, seen>>
    /\ Goto(w, IF finished THEN "leave" ELSE "readVersion")
    /\ UNCHANGED <<lock, published, control, fresh, trial>>

ReadVersion(w) ==
    /\ pc[w] = "readVersion"
    /\ Goto(w, IF bestVersion # seen[w].version THEN "adopt" ELSE "evaluate")
    /\ UNCHANGED <<lock, published, control, locals>>

\* Migration takes over the published program only if it is better than what
\* the island holds, and starts its history over from the published cost.
Migrates(w) == ~island[w].initialized \/ snapshot.cost < island[w].currentCost

Adopt(w) ==
    /\ pc[w] = "adopt"
    /\ IF snapshot # NoSnapshot /\ snapshot.version # seen[w].version
       THEN /\ IF Migrates(w)
               THEN /\ held' = [held EXCEPT ![w] = snapshot.pic]
                    /\ island' = [island EXCEPT ![w] = Initialized(snapshot.cost, HistorySize)]
               ELSE UNCHANGED <<held, island>>
            /\ seen' = [seen EXCEPT ![w].version = snapshot.version]
       ELSE UNCHANGED <<held, island, seen>>
    /\ Goto(w, "evaluate")
    /\ UNCHANGED <<lock, published, control, fresh, trial>>

\* The first evaluation scores the loaded program itself; it is not counted
\* when it only rebuilds a search whose score is missing.  Every later one
\* scores a mutation.  The first worker to get here initializes the search.
Reconstructing(w) ==
    fresh[w] /\ bestResult = Unscored /\ (evaluations > 0 \/ initialized)

Evaluate(w) ==
    /\ pc[w] = "evaluate"
    /\ initialized \/ lock = NoWorker
    /\ \E p \in IF fresh[w] THEN {held[w]} ELSE Pics :
         LET number == IF Reconstructing(w) THEN evaluations ELSE evaluations + 1
         IN  /\ trial' = [trial EXCEPT ![w].pic = p,
                                       ![w].result = Cost[objective][p],
                                       ![w].number = number]
             /\ evaluations' = number
    /\ initialized' = TRUE
    /\ fresh' = [fresh EXCEPT ![w] = FALSE]
    /\ Goto(w, "judge")
    /\ UNCHANGED <<lock, published, bestPic, objective, pauseRequested, finished, startedAt,
                   main, held, island, seen>>

\* Where an iteration ends: the accepted candidate stays, a rejected one is
\* rolled back, and a worker that saw m_finished leaves.
AfterIteration(w) == IF trial'[w].stop THEN "leave" ELSE "top"

Settled_mutant(w) == held[w]

Settled(w) == IF trial'[w].accepted THEN trial[w].pic ELSE held[w]

\* The evaluation with this number ends the search.
ReachesLimit_mutant(number) == number = MaxEvals

ReachesLimit(number) == number >= MaxEvals

\* A result below the best score read here, without the lock, goes on to
\* publication.
PotentialImprovement_mutant(w) == island[w].initialized /\ trial[w].result < bestResult

PotentialImprovement(w) == trial[w].result < bestResult

\* The island decides on the candidate and the worker on how it goes on.
Judge(w) ==
    /\ pc[w] = "judge"
    /\ finished' = (finished \/ ReachesLimit(trial[w].number))
    /\ \E drift \in Drifts :
         LET result  == trial[w].result
             start   == IF island[w].initialized THEN island[w]
                        ELSE Initialized(result, HistorySize)
             outcome == Apply(Kind, start, result, drift)
         IN  /\ island' = [island EXCEPT ![w] = outcome.state]
             /\ trial' = [trial EXCEPT ![w].accepted = outcome.accepted, ![w].stop = finished']
    /\ IF PotentialImprovement(w)
       THEN Goto(w, "publish") /\ UNCHANGED held
       ELSE Goto(w, AfterIteration(w)) /\ held' = [held EXCEPT ![w] = Settled(w)]
    /\ UNCHANGED <<lock, published, bestPic, objective, pauseRequested, initialized,
                   evaluations, startedAt, main, seen, fresh>>

\* Under the lock the comparison is repeated: another island may have
\* published since.  The three stores that follow are seen by lock-free
\* readers in this order.
StillBetter_mutant(w) == TRUE

StillBetter(w) == trial[w].result < bestResult

StoreResult(w) ==
    /\ pc[w] = "publish"
    /\ lock = NoWorker
    /\ StillBetter(w)
    /\ lock' = w
    /\ bestResult' = trial[w].result
    /\ Goto(w, "storeSnapshot")
    /\ UNCHANGED <<snapshot, bestVersion, control, locals>>

Overtaken(w) ==
    /\ pc[w] = "publish"
    /\ lock = NoWorker
    /\ ~StillBetter(w)
    /\ UNCHANGED trial
    /\ Goto(w, AfterIteration(w))
    /\ held' = [held EXCEPT ![w] = Settled(w)]
    /\ UNCHANGED <<lock, published, control, island, seen, fresh>>

PublishedPic_mutant(w) == held[w]

PublishedPic(w) == trial[w].pic

StoreSnapshot(w) ==
    /\ pc[w] = "storeSnapshot"
    /\ snapshot' = [pic |-> PublishedPic(w), cost |-> trial[w].result, version |-> bestVersion + 1]
    /\ seen' = [seen EXCEPT ![w].version = bestVersion + 1]
    /\ Goto(w, "storeVersion")
    /\ UNCHANGED <<lock, bestResult, bestVersion, control, held, island, fresh, trial>>

StoreVersion(w) ==
    /\ pc[w] = "storeVersion"
    /\ bestVersion' = bestVersion + 1
    /\ lock' = NoWorker
    /\ UNCHANGED trial
    /\ Goto(w, AfterIteration(w))
    /\ held' = [held EXCEPT ![w] = Settled(w)]
    /\ UNCHANGED <<bestResult, snapshot, control, island, seen, fresh>>

Leave(w) ==
    /\ pc[w] = "leave"
    /\ lock = NoWorker
    /\ Goto(w, "done")
    /\ UNCHANGED <<lock, published, control, locals>>

Worker(w) ==
    \/ LoadSnapshot(w) \/ LoadVersion(w) \/ LoadBest(w)
    \/ Pass(w) \/ Park(w) \/ Wake(w) \/ ReadVersion(w) \/ Adopt(w)
    \/ Evaluate(w) \/ Judge(w) \/ StoreResult(w) \/ Overtaken(w)
    \/ StoreSnapshot(w) \/ StoreVersion(w) \/ Leave(w)

-----------------------------------------------------------------------------
(* The main thread: starting workers, the editor session, stopping. *)

\* The other evaluators start once the first has initialized the search.
StartWorker(w) ==
    /\ main = "run"
    /\ pc[w] = "off"
    /\ initialized
    /\ Goto(w, "loadSnapshot")
    /\ UNCHANGED <<lock, published, control, locals>>

\* BeginEditorSession and PauseWorkers, up to the wait.
RequestPause ==
    /\ main = "run"
    /\ lock = NoWorker
    /\ \A w \in Workers : pc[w] # "off"
    /\ pauseRequested' = TRUE
    /\ main' = "pausing"
    /\ UNCHANGED <<lock, published, bestPic, objective, finished, initialized, evaluations,
                   startedAt, pc, locals>>

\* PauseWorkers returns when as many workers are paused as are active.
AllParked_mutant == Parked # {}

AllParked == Active = Parked

OpenEditor ==
    /\ main = "pausing"
    /\ lock = NoWorker
    /\ AllParked
    /\ main' = "editing"
    /\ UNCHANGED <<lock, published, bestPic, objective, pauseRequested, finished, initialized,
                   evaluations, startedAt, pc, locals>>

\* DiscardEditorSession, and an ApplyEditorSession that changes nothing.
Discard ==
    /\ main = "editing"
    /\ lock = NoWorker
    /\ pauseRequested' = FALSE
    /\ main' = "run"
    /\ UNCHANGED <<lock, published, bestPic, objective, finished, initialized, evaluations,
                   startedAt, pc, locals>>

\* The score RetargetLocked publishes: the best program under the new objective.
RescoredBest == Cost[objective + 1][LoadedPic]

\* ApplyEditorSession with RetargetLocked: the objective changes, the best
\* program is scored again and republished, the workers resume.
Retarget ==
    /\ main = "editing"
    /\ lock = NoWorker
    /\ objective < MaxObjective
    /\ bestPic' = LoadedPic
    /\ bestResult' = RescoredBest
    /\ snapshot' = [pic |-> LoadedPic, cost |-> RescoredBest, version |-> bestVersion + 1]
    /\ bestVersion' = bestVersion + 1
    /\ objective' = objective + 1
    /\ pauseRequested' = FALSE
    /\ main' = "run"
    /\ UNCHANGED <<lock, finished, initialized, evaluations, startedAt, pc, locals>>

\* The loop is left by Stop or an interrupt, or because the search finished,
\* in the latter case even with the editor open.
Stop ==
    /\ lock = NoWorker
    /\ \/ main = "run"
       \/ main = "editing" /\ finished
    /\ main' = "stopped"
    /\ finished' = TRUE
    /\ UNCHANGED <<lock, published, bestPic, objective, pauseRequested, initialized,
                   evaluations, startedAt, pc, locals>>

\* MainLoop has returned: every started worker has gone.
Terminated ==
    /\ main = "stopped"
    /\ Active = {}
    /\ UNCHANGED vars

Main == RequestPause \/ OpenEditor \/ Discard \/ Retarget \/ Stop

Next ==
    \/ \E w \in Workers : Worker(w) \/ StartWorker(w)
    \/ Main
    \/ Terminated

Spec == Init /\ [][Next]_vars

-----------------------------------------------------------------------------

Costs == {Cost[g][p] : g \in Objectives, p \in Pics}

Places ==
    {"off", "loadSnapshot", "loadVersion", "loadBest", "top", "paused", "readVersion", "adopt",
     "evaluate", "judge", "publish", "storeSnapshot", "storeVersion", "leave", "done"}

\* The variables have their types: what EvalGlobalState and the locals of
\* Evaluator::Run can hold.
TypeOK ==
    /\ lock \in Workers \cup {NoWorker}
    /\ bestResult \in Costs \cup {Unscored}
    /\ snapshot \in [pic : Pics, cost : Costs \cup {Unscored}, version : Nat]
    /\ bestVersion \in Nat
    /\ bestPic \in Pics
    /\ objective \in Objectives
    /\ {pauseRequested, finished, initialized} \subseteq BOOLEAN
    /\ evaluations \in Nat /\ startedAt \in Nat
    /\ main \in {"run", "pausing", "editing", "stopped"}
    /\ pc \in [Workers -> Places]
    /\ held \in [Workers -> Pics]
    /\ island \in [Workers -> {Fresh} \cup States(HistorySize, Costs)]
    /\ seen \in [Workers -> [version : Nat, objective : Objectives]]
    /\ fresh \in [Workers -> BOOLEAN]
    /\ trial \in [Workers -> [pic : Pics, result : Costs \cup {Unscored}, number : Nat,
                             accepted : BOOLEAN, stop : BOOLEAN]]

\* Whoever finds the mutex free finds a published program that scores, under
\* the objective in force, exactly the best score, and carries the latest
\* version: what the saved program and its reported distance rest on.
SnapshotDescribesBest ==
    lock = NoWorker /\ snapshot # NoSnapshot =>
        /\ snapshot.cost = bestResult
        /\ snapshot.cost = Cost[objective][snapshot.pic]
        /\ snapshot.version = bestVersion

\* Workers searching under the objective in force.
Current == {w \in Workers : island[w].initialized /\ seen[w].objective = objective}

\* No island holds a solution better than the published best, except while it
\* is on its way to publish it: the test against an unlocked read of the best
\* score loses no improvement.
BestIsLowest ==
    \A w \in Current : pc[w] # "publish" => bestResult <= island[w].currentCost

\* A worker about to mutate its program never takes it for worse than it is:
\* after every rollback, migration and retarget the cost it compares with
\* bounds the score of its program from below.
CostNotInflated ==
    \A w \in Current :
        pc[w] \in {"top", "readVersion", "adopt", "evaluate"} =>
            island[w].currentCost <= Cost[objective][held[w]]

\* An improvement on the published best is always one the publishing island
\* accepted itself: Run stores the island's history as the global one with
\* the candidate's score, and rolls the program back if it was rejected.
PublishedWasAccepted ==
    \A w \in Workers :
        \/ pc[w] \in {"storeSnapshot", "storeVersion"}
        \/ pc[w] = "publish" /\ StillBetter(w)
        => trial[w].accepted

\* The objective does not change under an evaluation: whoever scores a
\* candidate, decides on it or publishes it knows the objective in force.
OneObjectivePerEvaluation ==
    \A w \in Workers :
        pc[w] \in {"evaluate", "judge", "publish", "storeSnapshot", "storeVersion"} =>
            seen[w].objective = objective

\* The count from which every evaluation is the last of its worker: /max_evals,
\* or the first evaluation at all if as many had been made when it started.
LastFrom == IF MaxEvals <= startedAt THEN startedAt + 1 ELSE MaxEvals

\* With max_evals reached every other worker finishes at most the evaluation
\* it is at, and a search resumed at or past it has one from each worker.
OvershootBounded == evaluations <= LastFrom + Cardinality(Workers) - 1

\* The search implements PublishedBest.  The new version counts from the
\* moment the score is stored, which is when the new best begins.
PublishedVersion ==
    IF \E w \in Workers : pc[w] \in {"storeSnapshot", "storeVersion"}
    THEN bestVersion + 1 ELSE bestVersion

Abstract == INSTANCE PublishedBest WITH cost <- bestResult, version <- PublishedVersion

Publishes == Abstract!Spec

=============================================================================
