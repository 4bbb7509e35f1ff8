--------------------------- MODULE WorkerPool_proofs ---------------------------
(***************************************************************************)
(* The pause and the drain for any number of workers: what the two         *)
(* counters the main thread waits for say about where the workers are.     *)
(***************************************************************************)
EXTENDS WorkerPool, FiniteSetTheorems, TLAPS

USE PoolAssumption

\* The workers that were started and have not gone, and those that wait for the
\* pause to end.
Live    == {w \in Workers : pc[w] \notin {"off", "done"}}
Waiting == {w \in Workers : pc[w] \in {"blocking", "parked"}}

\* The variables have their types, the counters left aside.
Typed ==
    /\ mutex \in Workers \cup {Nobody}
    /\ waiters \subseteq Workers \cup {Main}
    /\ pc \in [Workers -> WorkerPlaces]
    /\ mpc \in MainPlaces
    /\ pauseRequested \in BOOLEAN /\ finished \in BOOLEAN
    /\ initialized \in BOOLEAN /\ updateInitialized \in BOOLEAN
    /\ evalInited \in BOOLEAN /\ startedAll \in BOOLEAN
    /\ editorPaused \in BOOLEAN /\ running \in BOOLEAN /\ interrupted \in BOOLEAN

\* The counters count what their names say.
Counted ==
    /\ active = Cardinality(Live)
    /\ paused = Cardinality(Waiting)

\* The editor cannot be reached before every worker is started: eval_inited is
\* set in the iteration that starts the rest.
AllStarted ==
    /\ evalInited /\ mpc # "starting" => startedAll
    /\ startedAll => mpc # "starting" /\ \A w \in Workers : pc[w] # "off"
    /\ mpc \in {"ui", "pausing"} => evalInited
    /\ editorPaused => startedAll

\* The pause is requested from the moment the editor asks for it until it is
\* closed, and meanwhile a worker can only leave.
PauseHolds ==
    /\ mpc = "pausing" => pauseRequested
    /\ editorPaused =>
         /\ pauseRequested
         /\ \A w \in Workers : pc[w] \in {"blocking", "parked", "leave", "done"}

\* The main loop returns when nobody is left, and nobody is started after it.
ReturnedAlone == mpc = "returned" => \A w \in Workers : pc[w] \in {"off", "done"}

PInv == Typed /\ Counted /\ AllStarted /\ PauseHolds /\ ReturnedAlone

-----------------------------------------------------------------------------

\* Both counts are of sets of workers.
LEMMA CountsBounded ==
    /\ IsFiniteSet(Live) /\ IsFiniteSet(Waiting)
    /\ Waiting \subseteq Live
    /\ Cardinality(Workers) \in Nat
    /\ Cardinality(Live) \in 0 .. Cardinality(Workers)
    /\ Cardinality(Waiting) \in 0 .. Cardinality(Workers)
<1>1. Live \in SUBSET Workers /\ Waiting \in SUBSET Workers /\ Waiting \subseteq Live
  BY DEF Live, Waiting
<1>2. /\ Cardinality(Live) <= Cardinality(Workers) /\ IsFiniteSet(Live)
      /\ Cardinality(Waiting) <= Cardinality(Workers) /\ IsFiniteSet(Waiting)
  BY <1>1, FS_Subset DEF PoolAssumption
<1>3. /\ Cardinality(Workers) \in Nat
      /\ Cardinality(Live) \in Nat /\ Cardinality(Waiting) \in Nat
  BY <1>2, FS_CardinalityType DEF PoolAssumption
<1> QED
  BY <1>1, <1>2, <1>3

\* As many wait as are left: whoever was started and does not wait has gone.
LEMMA EverybodyWaits ==
    ASSUME Counted, AllPaused
    PROVE  \A w \in Workers : pc[w] \in {"off", "done", "blocking", "parked"}
<1>1. Waiting \in SUBSET Live /\ IsFiniteSet(Live)
  BY CountsBounded
<1>2. Cardinality(Waiting) <= Cardinality(Live)
  BY <1>1, FS_Subset
<1>3. Cardinality(Waiting) = Cardinality(Live)
  BY <1>2, CountsBounded DEF Counted, AllPaused
<1>4. Waiting = Live
  BY <1>1, <1>3, FS_Subset
<1> QED
  BY <1>4 DEF Waiting, Live

\* Nobody is left.
LEMMA NobodyLeft ==
    ASSUME Counted, ~Draining
    PROVE  \A w \in Workers : pc[w] \in {"off", "done"}
<1>1. Cardinality(Live) = 0 /\ IsFiniteSet(Live)
  BY CountsBounded DEF Counted, Draining
<1>2. Live = {}
  BY <1>1, FS_EmptySet
<1> QED
  BY <1>2 DEF Live

-----------------------------------------------------------------------------

LEMMA InitPInv == Init => PInv
<1> SUFFICES ASSUME Init PROVE PInv
  OBVIOUS
<1>1. Typed
  BY DEF Init, Typed, WorkerPlaces, MainPlaces, PoolAssumption
<1>2. Live = {First} /\ Waiting = {}
  BY DEF Init, Live, Waiting, PoolAssumption
<1>3. Counted
  BY <1>2, FS_Singleton, FS_EmptySet DEF Init, Counted
<1>4. AllStarted /\ PauseHolds /\ ReturnedAlone
  BY DEF Init, AllStarted, PauseHolds, ReturnedAlone, PoolAssumption
<1> QED
  BY <1>1, <1>3, <1>4 DEF PInv

\* Every step keeps the types.
LEMMA TypedStep ==
    ASSUME Typed, [Next]_vars
    PROVE  Typed'
<1> USE DEF Typed, flags, locals
<1>1. ASSUME NEW w \in Workers, Work(w)
      PROVE  Typed'
  <2>1. CASE Run(w)
    BY <2>1 DEF Run, Goto, WorkerPlaces
  <2>2. CASE Park(w)
    BY <2>2 DEF Park, Goto, AcknowledgesPause, NotifyAll, WorkerPlaces
  <2>3. CASE Block(w)
    BY <2>3 DEF Block, Goto, WorkerPlaces
  <2>4. CASE Wake(w)
    BY <2>4 DEF Wake, Goto, Unpark, WorkerPlaces
  <2>5. CASE Evaluate(w)
    BY <2>5, ZenonT(30) DEF Evaluate, Goto, NotifyOne, WorkerPlaces
  <2>6. CASE Autosave(w)
    BY <2>6 DEF Autosave, Goto, NotifyOne, WorkerPlaces
  <2>7. CASE ReachLimit(w)
    BY <2>7 DEF ReachLimit, Goto, WorkerPlaces
  <2>8. CASE Announce(w)
    BY <2>8 DEF Announce, Goto, NotifyOne, WorkerPlaces
  <2>9. CASE GoOn(w)
    BY <2>9 DEF GoOn, Goto, WorkerPlaces
  <2>10. CASE Publish(w)
    BY <2>10 DEF Publish, Goto, NotifyOne, WorkerPlaces
  <2> QED
    BY <1>1, <2>1, <2>2, <2>3, <2>4, <2>5, <2>6, <2>7, <2>8, <2>9, <2>10 DEF Work
<1>2. ASSUME NEW w \in Workers, Exit(w) \/ Start(w)
      PROVE  Typed'
  BY <1>2 DEF Exit, Start, Goto, AnnouncesExit, NotifyOne, WorkerPlaces
<1>3. ASSUME Loop
      PROVE  Typed'
  <2>1. CASE Top
    BY <2>1 DEF Top, MainPlaces
  <2>2. CASE Close
    BY <2>2 DEF Close, MainPlaces
  <2>3. CASE Resume
    BY <2>3 DEF Resume, AnnouncesResume, NotifyAll, MainPlaces
  <2>4. CASE Relock
    BY <2>4 DEF Relock, MainPlaces
  <2>5. CASE Timeout
    BY <2>5 DEF Timeout, MainPlaces
  <2>6. CASE Notified
    BY <2>6 DEF Notified, MainPlaces
  <2>7. CASE AwaitPause
    BY <2>7 DEF AwaitPause, AllPaused, MainPlaces
  <2>8. CASE StartedAll
    BY <2>8 DEF StartedAll, MainPlaces
  <2>9. CASE Finish
    BY <2>9 DEF Finish, StopsWorkers, NotifyAll, MainPlaces
  <2>10. CASE Drain
    BY <2>10 DEF Drain, MainPlaces
  <2> QED
    BY <1>3, <2>1, <2>2, <2>3, <2>4, <2>5, <2>6, <2>7, <2>8, <2>9, <2>10 DEF Loop
<1>4. ASSUME User
      PROVE  Typed'
  <2>1. CASE NoCommand
    BY <2>1 DEF NoCommand, MainPlaces
  <2>2. CASE CloseEditor
    BY <2>2 DEF CloseEditor, MainPlaces
  <2>3. CASE StopCommand
    BY <2>3 DEF StopCommand, MainPlaces
  <2>4. CASE OpenEditor
    BY <2>4 DEF OpenEditor, AllPaused, NotifyAll, MainPlaces
  <2> QED
    BY <1>4, <2>1, <2>2, <2>3, <2>4 DEF User
<1>5. ASSUME Interrupt \/ SpuriousWake
      PROVE  Typed'
  BY <1>5, ZenonT(30) DEF Interrupt, SpuriousWake
<1>6. ASSUME UNCHANGED vars
      PROVE  Typed'
  BY <1>6 DEF vars
<1> QED
  BY <1>1, <1>2, <1>3, <1>4, <1>5, <1>6 DEF Next, Terminated

\* A worker that goes elsewhere without being started, leaving or waiting
\* changes neither count.
LEMMA SameCount ==
    ASSUME Typed, Counted, UNCHANGED <<active, paused>>,
           NEW w \in Workers, NEW place, Goto(w, place),
           w \in Live <=> place \notin {"off", "done"},
           w \in Waiting <=> place \in {"blocking", "parked"}
    PROVE  Counted'
<1>1. \A v \in Workers : pc'[v] = IF v = w THEN place ELSE pc[v]
  BY DEF Typed, Goto
<1>2. Live' = Live /\ Waiting' = Waiting
  BY <1>1 DEF Live, Waiting
<1> QED
  BY <1>2 DEF Counted

\* Every step keeps the counts.
LEMMA CountedStep ==
    ASSUME Typed, Counted, [Next]_vars
    PROVE  Counted'
<1> USE DEF flags, locals
<1>a. UNCHANGED <<pc, active, paused>> => Counted'
  BY DEF Counted, Live, Waiting
<1>b. /\ IsFiniteSet(Live) /\ IsFiniteSet(Waiting)
      /\ Cardinality(Live) \in Nat /\ Cardinality(Waiting) \in Nat
  BY CountsBounded
<1>1. ASSUME NEW w \in Workers,
             \/ Run(w) \/ Evaluate(w) \/ Autosave(w) \/ ReachLimit(w) \/ Announce(w)
             \/ GoOn(w) \/ Publish(w) \/ Block(w)
      PROVE  Counted'
  <2>1. UNCHANGED <<active, paused>>
    BY <1>1 DEF Run, Evaluate, Autosave, ReachLimit, Announce, GoOn, Publish, Block
  <2>2. CASE Block(w)
    BY <2>1, <2>2, SameCount DEF Block, Live, Waiting
  <2>3. CASE ~Block(w)
    <3>1. PICK place : /\ Goto(w, place)
                       /\ place \notin {"off", "done", "blocking", "parked"}
      BY <1>1, <2>3 DEF Run, Evaluate, Autosave, ReachLimit, Announce, GoOn, Publish
    <3>2. w \in Live /\ w \notin Waiting
      BY <1>1, <2>3 DEF Run, Evaluate, Autosave, ReachLimit, Announce, GoOn, Publish, Live,
         Waiting
    <3> QED
      BY <2>1, <3>1, <3>2, SameCount
  <2> QED
    BY <2>2, <2>3
<1>2. ASSUME NEW w \in Workers, Park(w)
      PROVE  Counted'
  <2>1. w \in Live /\ w \notin Waiting /\ UNCHANGED active
    BY <1>2 DEF Park, Live, Waiting
  <2>2. CASE Released
    BY <1>2, <2>1, <2>2, SameCount DEF Park
  <2>3. CASE ~Released
    <3>1. Live' = Live /\ Waiting' = Waiting \cup {w} /\ paused' = paused + 1
      BY <1>2, <2>3 DEF Park, Goto, Typed, Live, Waiting
    <3> QED
      BY <1>b, <2>1, <3>1, FS_AddElement DEF Counted
  <2> QED
    BY <2>2, <2>3
<1>3. ASSUME NEW w \in Workers, Wake(w)
      PROVE  Counted'
  <2>1. w \in Live /\ w \in Waiting /\ UNCHANGED active
    BY <1>3 DEF Wake, Live, Waiting
  <2>2. CASE ~Released
    BY <1>3, <2>1, <2>2, SameCount DEF Wake
  <2>3. CASE Released
    <3>1. Live' = Live /\ Waiting' = Waiting \ {w} /\ paused' = paused - 1
      BY <1>3, <2>3 DEF Wake, Unpark, Goto, Typed, Live, Waiting
    <3> QED
      BY <1>b, <2>1, <3>1, FS_RemoveElement DEF Counted
  <2> QED
    BY <2>2, <2>3
<1>4. ASSUME NEW w \in Workers, Exit(w)
      PROVE  Counted'
  <2>1. /\ w \in Live /\ Live' = Live \ {w} /\ active' = active - 1
        /\ Waiting' = Waiting /\ paused' = paused
    BY <1>4 DEF Exit, Goto, Typed, Live, Waiting
  <2> QED
    BY <1>b, <2>1, FS_RemoveElement DEF Counted
<1>5. ASSUME NEW w \in Workers, Start(w)
      PROVE  Counted'
  <2>1. /\ w \notin Live /\ Live' = Live \cup {w} /\ active' = active + 1
        /\ Waiting' = Waiting /\ paused' = paused
    BY <1>5 DEF Start, Goto, Typed, Live, Waiting
  <2> QED
    BY <1>b, <2>1, FS_AddElement DEF Counted
<1>6. Loop \/ User => UNCHANGED <<pc, active, paused>>
  BY DEF Loop, Top, Close, Resume, Relock, Timeout, Notified, AwaitPause, StartedAll, Finish,
     Drain, User, NoCommand, CloseEditor, StopCommand, OpenEditor
<1>7. Interrupt \/ SpuriousWake \/ UNCHANGED vars => UNCHANGED <<pc, active, paused>>
  BY DEF Interrupt, SpuriousWake, vars
<1> QED
  BY <1>a, <1>1, <1>2, <1>3, <1>4, <1>5, <1>6, <1>7 DEF Next, Work, Terminated

\* Where the worker of a step may go, and that it touches nothing the main
\* thread decides by.
LEMMA WorkerMoves ==
    ASSUME Typed, NEW w \in Workers, Work(w) \/ Exit(w)
    PROVE  /\ UNCHANGED <<mpc, locals, pauseRequested>>
           /\ pc[w] \notin {"off", "done"}
           /\ \A v \in Workers \ {w} : pc'[v] = pc[v]
           /\ pc'[w] # "off"
           /\ pc[w] \in {"blocking", "parked", "leave"} /\ pauseRequested =>
                pc'[w] \in {"blocking", "parked", "leave", "done"}
<1> USE DEF Typed, Goto, flags, locals
<1>1. CASE Run(w) \/ Evaluate(w) \/ Autosave(w) \/ ReachLimit(w) \/ Announce(w) \/ GoOn(w)
           \/ Publish(w)
  BY <1>1 DEF Run, Evaluate, Autosave, ReachLimit, Announce, GoOn, Publish
<1>2. CASE Park(w)
  BY <1>2 DEF Park
<1>3. CASE Block(w)
  BY <1>3 DEF Block
<1>4. CASE Wake(w)
  BY <1>4 DEF Wake, Unpark, Released
<1>5. CASE Exit(w)
  BY <1>5 DEF Exit
<1> QED
  BY <1>1, <1>2, <1>3, <1>4, <1>5 DEF Work

\* Workers' steps keep the three parts that relate the main thread to them.
LEMMA WorkerKeeps ==
    ASSUME PInv, NEW w \in Workers, Work(w) \/ Exit(w)
    PROVE  AllStarted' /\ PauseHolds' /\ ReturnedAlone'
<1>1. AllStarted'
  BY WorkerMoves DEF PInv, AllStarted, locals
<1>2. PauseHolds'
  BY WorkerMoves DEF PInv, PauseHolds, locals
<1>3. ReturnedAlone'
  BY WorkerMoves DEF PInv, ReturnedAlone
<1> QED
  BY <1>1, <1>2, <1>3

\* So do the main thread's and the environment's.
LEMMA MainKeeps ==
    ASSUME PInv, Loop \/ User \/ Interrupt \/ SpuriousWake \/ UNCHANGED vars
    PROVE  AllStarted' /\ PauseHolds' /\ ReturnedAlone'
<1> USE DEF PInv, Typed, AllStarted, PauseHolds, ReturnedAlone, flags, locals
<1>1. CASE Top
  BY <1>1 DEF Top
<1>2. CASE Close
  BY <1>2 DEF Close
<1>3. CASE Resume \/ Relock \/ Timeout
  BY <1>3 DEF Resume, Relock, Timeout
<1>4. CASE Notified
  BY <1>4 DEF Notified
<1>5. CASE AwaitPause
  BY <1>5, EverybodyWaits DEF AwaitPause
<1>6. CASE StartedAll
  BY <1>6 DEF StartedAll
<1>7. CASE Finish \/ Drain
  BY <1>7, NobodyLeft DEF Finish, Drain
<1>8. CASE NoCommand \/ CloseEditor \/ StopCommand
  BY <1>8 DEF NoCommand, CloseEditor, StopCommand
<1>9. CASE OpenEditor
  BY <1>9, EverybodyWaits DEF OpenEditor
<1>10. CASE Interrupt \/ SpuriousWake \/ UNCHANGED vars
  BY <1>10 DEF Interrupt, SpuriousWake, vars
<1> QED
  BY <1>1, <1>2, <1>3, <1>4, <1>5, <1>6, <1>7, <1>8, <1>9, <1>10 DEF Loop, User

LEMMA NextPInv == PInv /\ [Next]_vars => PInv'
<1> SUFFICES ASSUME PInv, [Next]_vars PROVE PInv'
  OBVIOUS
<1>1. Typed' /\ Counted'
  BY TypedStep, CountedStep DEF PInv
<1>2. ASSUME NEW w \in Workers, Start(w)
      PROVE  AllStarted' /\ PauseHolds' /\ ReturnedAlone'
  BY <1>2 DEF PInv, Typed, AllStarted, PauseHolds, ReturnedAlone, Start, Goto, flags, locals
<1> QED
  BY <1>1, <1>2, WorkerKeeps, MainKeeps DEF Next, Terminated, PInv

LEMMA PInvHolds == Spec => []PInv
BY InitPInv, NextPInv, PTL DEF Spec

-----------------------------------------------------------------------------

\* The threads' variables have their types, and the two counters stay between
\* nobody and everybody: no wait of the main loop is for a number that cannot
\* be reached.
THEOREM PoolTypeCorrect == Spec => []TypeOK
<1>1. PInv => TypeOK
  BY CountsBounded DEF PInv, Typed, Counted, TypeOK
<1> QED
  BY <1>1, PInvHolds, PTL

\* For any number of workers: nobody evaluates while the editor is open, and
\* MainLoop returns when every worker it started has gone.
THEOREM PauseAndDrainCorrect == Spec => []NoWorkerUnderneath
<1>1. PInv => NoWorkerUnderneath
  BY DEF PInv, PauseHolds, ReturnedAlone, NoWorkerUnderneath, Evaluating
<1> QED
  BY <1>1, PInvHolds, PTL

=============================================================================
