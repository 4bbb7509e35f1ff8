---------------------------- MODULE WorkerPoolRacy ----------------------------
(***************************************************************************)
(* WorkerPool with m_threads_active as it is: an int that Evaluator::Start *)
(* increments without the mutex while a worker that ends decrements it     *)
(* under the mutex.  Increment and decrement are a read and a write.       *)
(***************************************************************************)
EXTENDS WorkerPool

VARIABLE register   \* what a thread in an increment or a decrement has read

racyVars == <<vars, register>>

RacyInit ==
    /\ Init
    /\ register = [t \in Workers \cup {Main} |-> 0]

StartReads ==
    /\ mpc = "starting"
    /\ \E w \in Workers : pc[w] = "off"
    /\ register' = [register EXCEPT ![Main] = active]
    /\ mpc' = "incrementing"
    /\ UNCHANGED <<mutex, waiters, pc, active, paused, flags, locals, interrupted>>

StartWrites(w) ==
    /\ mpc = "incrementing"
    /\ pc[w] = "off"
    /\ active' = register[Main] + 1
    /\ Goto(w, "run")
    /\ mpc' = "starting"
    /\ UNCHANGED <<mutex, waiters, paused, flags, locals, interrupted, register>>

ExitReads(w) ==
    /\ pc[w] = "leave"
    /\ Free
    /\ mutex' = w
    /\ register' = [register EXCEPT ![w] = active]
    /\ Goto(w, "leaving")
    /\ UNCHANGED <<waiters, mpc, active, paused, flags, locals, interrupted>>

ExitWrites(w) ==
    /\ pc[w] = "leaving"
    /\ active' = register[w] - 1
    /\ AnnouncesExit
    /\ mutex' = Nobody
    /\ Goto(w, "done")
    /\ UNCHANGED <<mpc, paused, flags, locals, interrupted, register>>

RacyNext ==
    \/ StartReads
    \/ \E w \in Workers : StartWrites(w) \/ ExitReads(w) \/ ExitWrites(w)
    \/ /\ \/ \E w \in Workers : Work(w)
          \/ Loop \/ User \/ Interrupt \/ SpuriousWake \/ Terminated
       /\ UNCHANGED register

RacySpec == RacyInit /\ [][RacyNext]_racyVars

\* m_threads_active is the number of threads that have been started and have
\* not gone, whenever no start is under way: PauseWorkers relies on a count
\* that moves with the threads, and so do the guard of the main loop and the
\* drain at its end.
CountAccurate ==
    mpc # "incrementing" =>
        active = Cardinality({w \in Workers : pc[w] \notin {"off", "done"}})

=============================================================================
