------------------------------ MODULE WorkerPool ------------------------------
(***************************************************************************)
(* The threads of a single-frame run and what they wait for: the main      *)
(* thread in RastaConverter::MainLoop, the worker threads of Evaluator::Run *)
(* and the one mutex and one condition variable between them.  What the    *)
(* workers compute is module IslandSearch; here an evaluation may end the  *)
(* search, publish something or do neither.                                *)
(*                                                                         *)
(* A critical section is one step, except where something outside the      *)
(* mutex can come between: a worker tests m_finished, which is stored      *)
(* without the mutex, before it waits.                                     *)
(*                                                                         *)
(* Evaluator::Start increments m_threads_active, a plain int, without the  *)
(* mutex.  This module takes that increment for one step, as the readers   *)
(* of the counter do; WorkerPoolRacy takes it for what it is.              *)
(***************************************************************************)
EXTENDS Integers, FiniteSets

CONSTANTS
    Workers,      \* the evaluator threads
    First,        \* evaluator 0, which MainLoop starts alone
    Main,         \* the main thread
    Nobody        \* who holds a mutex that is free

ASSUME PoolAssumption ==
    /\ IsFiniteSet(Workers) /\ First \in Workers
    /\ Main \notin Workers /\ Nobody \notin Workers \cup {Main}

VARIABLES
    mutex,              \* m_mutex: its holder between two steps of one section
    waiters,            \* the threads blocked on m_condvar_update
    pc,                 \* where each worker is
    mpc,                \* where the main thread is
    active,             \* m_threads_active
    paused,             \* m_threads_paused
    pauseRequested,     \* m_pause_requested
    finished,           \* m_finished
    initialized,        \* m_initialized
    updateInitialized,  \* m_update_initialized
    evalInited,         \* eval_inited
    startedAll,         \* remaining_workers_started
    editorPaused,       \* m_editor_paused
    running,            \* running
    interrupted         \* interrupts::StopRequested()

flags   == <<pauseRequested, finished, initialized, updateInitialized>>
locals  == <<evalInited, startedAll, editorPaused, running>>
vars    == <<mutex, waiters, pc, mpc, active, paused, flags, locals, interrupted>>

Free == mutex = Nobody

Goto(w, place) == pc' = [pc EXCEPT ![w] = place]

\* notify_all wakes every waiter, notify_one any one of them.
NotifyAll == waiters' = {}

NotifyOne ==
    IF waiters = {} THEN UNCHANGED waiters
    ELSE \E t \in waiters : waiters' = waiters \ {t}

-----------------------------------------------------------------------------

\* MainLoop up to the loop: evaluator 0 is started.
Init ==
    /\ mutex = Nobody
    /\ waiters = {}
    /\ pc = [w \in Workers |-> IF w = First THEN "run" ELSE "off"]
    /\ mpc = "top"
    /\ active = 1
    /\ paused = 0
    /\ pauseRequested = FALSE
    /\ finished = FALSE
    /\ initialized = FALSE
    /\ updateInitialized = FALSE
    /\ evalInited = FALSE
    /\ startedAll = (Workers = {First})
    /\ editorPaused = FALSE
    /\ running = TRUE
    /\ interrupted = FALSE

-----------------------------------------------------------------------------
(* A worker *)

\* The pause request is read without the mutex.
Run(w) ==
    /\ pc[w] = "run"
    /\ Goto(w, IF pauseRequested THEN "pausing" ELSE "evaluate")
    /\ UNCHANGED <<mutex, waiters, mpc, active, paused, flags, locals, interrupted>>

\* The condition a parked worker waits for.
Released == ~pauseRequested \/ finished

\* A worker that no longer waits; it leaves if the search has finished.
Unpark_mutant(w) ==
    /\ UNCHANGED paused
    /\ Goto(w, IF finished THEN "leave" ELSE "evaluate")

Unpark(w) ==
    /\ paused' = paused - 1
    /\ Goto(w, IF finished THEN "leave" ELSE "evaluate")

\* The worker acknowledges the pause and tests the condition a first time.
AcknowledgesPause_mutant == UNCHANGED waiters

AcknowledgesPause == NotifyAll

Park(w) ==
    /\ pc[w] = "pausing"
    /\ Free
    /\ AcknowledgesPause
    /\ IF Released
       THEN Goto(w, IF finished THEN "leave" ELSE "evaluate") /\ UNCHANGED <<paused, mutex>>
       ELSE paused' = paused + 1 /\ Goto(w, "blocking") /\ mutex' = w
    /\ UNCHANGED <<mpc, active, flags, locals, interrupted>>

\* It blocks and releases the mutex; a notification since the test is lost.
Block(w) ==
    /\ pc[w] = "blocking"
    /\ waiters' = waiters \cup {w}
    /\ mutex' = Nobody
    /\ Goto(w, "parked")
    /\ UNCHANGED <<mpc, active, paused, flags, locals, interrupted>>

\* Awake, it has the mutex again and tests the condition once more.
Wake(w) ==
    /\ pc[w] = "parked"
    /\ w \notin waiters
    /\ Free
    /\ IF Released
       THEN Unpark(w) /\ UNCHANGED mutex
       ELSE Goto(w, "blocking") /\ mutex' = w /\ UNCHANGED paused
    /\ UNCHANGED <<waiters, mpc, active, flags, locals, interrupted>>

\* An evaluation; the first one initializes the search and says so.
Evaluate(w) ==
    /\ pc[w] = "evaluate"
    /\ IF initialized THEN UNCHANGED <<waiters, initialized, updateInitialized>>
       ELSE /\ Free
            /\ NotifyOne
            /\ initialized' = TRUE
            /\ updateInitialized' = TRUE
    /\ \/ Goto(w, "judge")
       \/ Goto(w, "autosave")
    /\ UNCHANGED <<mutex, mpc, active, paused, pauseRequested, finished, locals, interrupted>>

\* An autosave is due; main is told under the mutex.
Autosave(w) ==
    /\ pc[w] = "autosave"
    /\ Free
    /\ NotifyOne
    /\ Goto(w, "judge")
    /\ UNCHANGED <<mutex, mpc, active, paused, flags, locals, interrupted>>

\* The evaluation was the last one: m_finished is stored, then the condition
\* notified, neither of them under the mutex.
ReachLimit(w) ==
    /\ pc[w] = "judge"
    /\ finished' = TRUE
    /\ Goto(w, "announce")
    /\ UNCHANGED <<mutex, waiters, mpc, active, paused, pauseRequested, initialized,
                   updateInitialized, locals, interrupted>>

Announce(w) ==
    /\ pc[w] = "announce"
    /\ NotifyOne
    /\ Goto(w, "publish") \/ Goto(w, "leave")
    /\ UNCHANGED <<mutex, mpc, active, paused, flags, locals, interrupted>>

\* It was not; m_finished is read before the publication.
GoOn(w) ==
    /\ pc[w] = "judge"
    /\ \/ Goto(w, IF finished THEN "publish" ELSE "publishAndRun")
       \/ Goto(w, IF finished THEN "leave" ELSE "run")
    /\ UNCHANGED <<mutex, waiters, mpc, active, paused, flags, locals, interrupted>>

\* An improvement, told under the mutex.
Publish(w) ==
    /\ pc[w] \in {"publish", "publishAndRun"}
    /\ Free
    /\ NotifyOne
    /\ Goto(w, IF pc[w] = "publish" THEN "leave" ELSE "run")
    /\ UNCHANGED <<mutex, mpc, active, paused, flags, locals, interrupted>>

\* The end of Evaluator::Run: --m_threads_active, then notify_one.
AnnouncesExit == NotifyOne

Exit(w) ==
    /\ pc[w] = "leave"
    /\ Free
    /\ active' = active - 1
    /\ AnnouncesExit
    /\ Goto(w, "done")
    /\ UNCHANGED <<mutex, mpc, paused, flags, locals, interrupted>>

Work(w) ==
    \/ Run(w) \/ Park(w) \/ Block(w) \/ Wake(w) \/ Evaluate(w) \/ Autosave(w) \/ ReachLimit(w)
    \/ Announce(w) \/ GoOn(w) \/ Publish(w)

-----------------------------------------------------------------------------
(* The main thread *)

\* The head of the loop.  An interrupt closes the editor and leaves the loop.
Top ==
    /\ mpc = "top"
    /\ mpc' = CASE ~running                  -> "finish"
                [] running /\ ~interrupted   -> IF evalInited THEN "ui" ELSE "relock"
                [] OTHER                     -> IF editorPaused THEN "quit" ELSE "finish"
    /\ running' = (running /\ ~interrupted)
    /\ UNCHANGED <<mutex, waiters, pc, active, paused, flags, evalInited, startedAll,
                   editorPaused, interrupted>>

\* What the user asks for in gui.NextFrame(), with the mutex released.
NoCommand ==
    /\ mpc = "ui"
    /\ mpc' = "relock"
    /\ UNCHANGED <<mutex, waiters, pc, active, paused, flags, locals, interrupted>>

\* An editor session is applied or discarded.
CloseEditor ==
    /\ mpc = "ui"
    /\ editorPaused
    /\ mpc' = "close"
    /\ UNCHANGED <<mutex, waiters, pc, active, paused, flags, locals, interrupted>>

StopCommand ==
    /\ mpc = "ui"
    /\ running' = FALSE
    /\ mpc' = IF editorPaused THEN "close" ELSE "relock"
    /\ UNCHANGED <<mutex, waiters, pc, active, paused, flags, evalInited, startedAll,
                   editorPaused, interrupted>>

\* The condition PauseWorkers waits for.
AllPaused_mutant == paused >= active - 1

AllPaused == paused >= active

\* BeginEditorSession: PauseWorkers tests its condition once before it waits.
OpenEditor ==
    /\ mpc = "ui"
    /\ ~editorPaused
    /\ Free
    /\ pauseRequested' = TRUE
    /\ editorPaused' = AllPaused
    /\ IF AllPaused THEN mpc' = "relock" /\ NotifyAll
       ELSE mpc' = "pausing" /\ waiters' = {Main}
    /\ UNCHANGED <<mutex, pc, active, paused, finished, initialized, updateInitialized,
                   evalInited, startedAll, running, interrupted>>

AwaitPause ==
    /\ mpc = "pausing"
    /\ Main \notin waiters
    /\ Free
    /\ editorPaused' = AllPaused
    /\ IF AllPaused THEN mpc' = "relock" /\ UNCHANGED waiters
       ELSE mpc' = "pausing" /\ waiters' = waiters \cup {Main}
    /\ UNCHANGED <<mutex, pc, active, paused, flags, evalInited, startedAll, running, interrupted>>

\* ApplyEditorSession or DiscardEditorSession, then ResumeWorkers up to its
\* unlock.  The objective changes here, if it does.
Close ==
    /\ mpc \in {"close", "quit"}
    /\ Free
    /\ editorPaused' = FALSE
    /\ pauseRequested' = FALSE
    /\ mpc' = IF mpc = "close" THEN "resume" ELSE "quitting"
    /\ UNCHANGED <<mutex, waiters, pc, active, paused, finished, initialized, updateInitialized,
                   evalInited, startedAll, running, interrupted>>

\* ResumeWorkers notifies after the unlock.  An interrupted loop is left next,
\* any other iteration goes on.
AnnouncesResume_mutant == UNCHANGED waiters

AnnouncesResume == NotifyAll

Resume ==
    /\ mpc \in {"resume", "quitting"}
    /\ AnnouncesResume
    /\ mpc' = IF mpc = "resume" THEN "relock" ELSE "finish"
    /\ UNCHANGED <<mutex, pc, active, paused, flags, locals, interrupted>>

\* All workers have gone before the search finished.
AllGone == evalInited /\ ~editorPaused /\ active = 0 /\ ~finished

\* The mutex is taken again: leave the loop or wait, at most to a deadline.
\* The call of startRemainingWorkers in between finds nothing to do, because
\* eval_inited is set only where the other call of it follows.
Relock ==
    /\ mpc = "relock"
    /\ Free
    /\ IF AllGone THEN mpc' = "finish" /\ UNCHANGED waiters
       ELSE mpc' = "waiting" /\ waiters' = waiters \cup {Main}
    /\ UNCHANGED <<mutex, pc, active, paused, flags, locals, interrupted>>

\* Evaluator::Start for one worker after the other.
Start(w) ==
    /\ mpc = "starting"
    /\ pc[w] = "off"
    /\ active' = active + 1
    /\ Goto(w, "run")
    /\ UNCHANGED <<mutex, waiters, mpc, paused, flags, locals, interrupted>>

\* All are started; the test of m_finished follows.
StartedAll ==
    /\ mpc = "starting"
    /\ Free
    /\ \A w \in Workers : pc[w] # "off"
    /\ startedAll' = TRUE
    /\ mpc' = IF finished THEN "finish" ELSE "top"
    /\ UNCHANGED <<mutex, waiters, pc, active, paused, flags, evalInited, editorPaused, running,
                   interrupted>>

\* The deadline passes: the loop starts over and looks at no flag.  A thread
\* notified at the last moment may be told that it was late.
Timeout ==
    /\ mpc = "waiting"
    /\ Free
    /\ waiters' = waiters \ {Main}
    /\ mpc' = "top"
    /\ UNCHANGED <<mutex, pc, active, paused, flags, locals, interrupted>>

\* Notified in time: the flags are looked at, m_finished last.
Notified ==
    /\ mpc = "waiting"
    /\ Main \notin waiters
    /\ Free
    /\ updateInitialized' = FALSE
    /\ evalInited' = (evalInited \/ updateInitialized)
    /\ mpc' = CASE evalInited' /\ ~startedAll -> "starting"
                [] OTHER                      -> IF finished THEN "finish" ELSE "top"
    /\ UNCHANGED <<mutex, waiters, pc, active, paused, pauseRequested, finished, initialized,
                   startedAll, editorPaused, running, interrupted>>

\* After the loop: every worker is told to stop, and waited for.
StopsWorkers_mutant == finished

StopsWorkers == TRUE

\* What the main thread waits for to become false before it returns.
Draining == active > 0

Finish ==
    /\ mpc = "finish"
    /\ Free
    /\ finished' = StopsWorkers
    /\ IF Draining THEN mpc' = "draining" /\ waiters' = {Main}
       ELSE mpc' = "returned" /\ NotifyAll
    /\ UNCHANGED <<mutex, pc, active, paused, pauseRequested, initialized, updateInitialized,
                   locals, interrupted>>

Drain ==
    /\ mpc = "draining"
    /\ Main \notin waiters
    /\ Free
    /\ IF Draining THEN mpc' = "draining" /\ waiters' = waiters \cup {Main}
       ELSE mpc' = "returned" /\ UNCHANGED waiters
    /\ UNCHANGED <<mutex, pc, active, paused, flags, locals, interrupted>>

Loop ==
    \/ Top \/ Close \/ Resume \/ Relock \/ Timeout \/ Notified \/ AwaitPause
    \/ StartedAll \/ Finish \/ Drain

User == NoCommand \/ CloseEditor \/ StopCommand \/ OpenEditor

-----------------------------------------------------------------------------
(* The environment *)

\* Ctrl+C, a kill, the terminal closing.
Interrupt ==
    /\ ~interrupted
    /\ interrupted' = TRUE
    /\ UNCHANGED <<mutex, waiters, pc, mpc, active, paused, flags, locals>>

\* A condition variable may wake a thread for no reason.
SpuriousWake ==
    /\ \E t \in waiters : waiters' = waiters \ {t}
    /\ UNCHANGED <<mutex, pc, mpc, active, paused, flags, locals, interrupted>>

Terminated ==
    /\ mpc = "returned"
    /\ \A w \in Workers : pc[w] \in {"off", "done"}
    /\ UNCHANGED vars

Next ==
    \/ \E w \in Workers : Work(w) \/ Exit(w) \/ Start(w)
    \/ Loop \/ User \/ Interrupt \/ SpuriousWake \/ Terminated

\* Threads that can run do, and a mutex that is released again and again goes
\* to everyone who asks for it.  Users, interrupts and spurious wake-ups owe
\* nothing; NextFrame always returns.
Fairness ==
    /\ \A w \in Workers : SF_vars(Work(w) \/ Exit(w))
    /\ SF_vars(Loop \/ User \/ \E w \in Workers : Start(w))

Spec == Init /\ [][Next]_vars /\ Fairness

-----------------------------------------------------------------------------

WorkerPlaces ==
    {"off", "run", "pausing", "blocking", "parked", "evaluate", "autosave", "judge", "announce",
     "publish", "publishAndRun", "leave", "done"}

MainPlaces ==
    {"top", "ui", "close", "quit", "resume", "quitting", "relock", "pausing", "waiting",
     "starting", "finish", "draining", "returned"}

\* The variables have their types; m_threads_paused and m_threads_active stay
\* between nobody and everybody.
TypeOK ==
    /\ mutex \in Workers \cup {Nobody}
    /\ waiters \subseteq Workers \cup {Main}
    /\ pc \in [Workers -> WorkerPlaces]
    /\ mpc \in MainPlaces
    /\ active \in 0 .. Cardinality(Workers)
    /\ paused \in 0 .. Cardinality(Workers)
    /\ {pauseRequested, finished, initialized, updateInitialized, evalInited, startedAll,
        editorPaused, running, interrupted} \subseteq BOOLEAN

Evaluating == {"evaluate", "autosave", "judge", "announce", "publish", "publishAndRun"}

\* Nobody meets a worker in an evaluation.  While the editor is open none is
\* where it would hold cached rows that ApplyEditorSession frees; and when
\* MainLoop returns, which is when its caller saves and frees what the workers
\* use, every worker that was started has gone.
NoWorkerUnderneath ==
    /\ editorPaused => \A w \in Workers : pc[w] \notin Evaluating
    /\ mpc = "returned" => \A w \in Workers : pc[w] \in {"off", "done"}

\* BeginEditorSession gets its pause, whatever the workers are doing and
\* whoever is woken by the notifications in between.
PauseCompletes == mpc = "pausing" ~> mpc # "pausing"

\* A stop, by the button or from outside, ends with MainLoop returning, even
\* if the editor is open or workers are parked.
StopReturns == ~running \/ interrupted ~> mpc = "returned"

\* A worker parked when the pause is over goes on, unless the next one comes.
ResumeReachesAll ==
    \A w \in Workers : pc[w] = "parked" /\ ~pauseRequested ~> pc[w] # "parked" \/ pauseRequested

\* With every worker gone and no editor open the main thread has nothing to
\* wait for, and stops: the comment at the guard of its loop.
NothingLeftToWaitFor ==
    evalInited /\ startedAll /\ active = 0 /\ ~editorPaused ~> mpc = "returned" \/ editorPaused

=============================================================================
