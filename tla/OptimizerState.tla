---------------------------- MODULE OptimizerState ----------------------------
(***************************************************************************)
(* The acceptance state of one search trajectory (struct OptimizerState):  *)
(* a ring of remembered costs and the rules by which LAHC (late acceptance *)
(* hill climbing) and DLAS (diversified late acceptance search) accept a   *)
(* candidate and update the ring.  The module holds values and operators   *)
(* only; LateAcceptance gives them a behaviour and IslandSearch has one    *)
(* such record per worker.                                                 *)
(*                                                                         *)
(* Costs are integers: the code compares and copies them, and adds a drift *)
(* to the two thresholds; it never computes with them otherwise.           *)
(*                                                                         *)
(* An operator whose name ends in _mutant is a plausible mistake, kept     *)
(* beside the definition it distorts to show that a property notices it.   *)
(***************************************************************************)
EXTENDS Integers, FiniteSets

Kinds == {"LAHC", "DLAS"}

Slots(n) == 0 .. (n - 1)

\* A default-constructed state: no history, not initialized.
Fresh ==
    [ history      |-> [i \in {} |-> 0],
      historyIndex |-> 0,
      currentCost  |-> 0,
      costMax      |-> 0,
      maxCount     |-> 0,
      initialized  |-> FALSE ]

\* The initialized states over a ring of n slots and the cost set C.
States(n, C) ==
    [ history      : [Slots(n) -> C],
      historyIndex : Slots(n),
      currentCost  : C,
      costMax      : C,
      maxCount     : Int,
      initialized  : {TRUE} ]

\* c is the largest remembered cost (std::max_element).
IsMaximum(history, c) ==
    /\ \E i \in DOMAIN history : history[i] = c
    /\ \A i \in DOMAIN history : history[i] <= c

\* The slots that hold c, and how many there are (std::count).
Holding(history, c) == {i \in DOMAIN history : history[i] = c}

CountOf(history, c) == Cardinality(Holding(history, c))

\* OptimizerState::Initialize: every slot remembers the same cost.
Initialized(cost, historySize) ==
    LET n == IF historySize = 0 THEN 1 ELSE historySize
    IN  [ history      |-> [i \in Slots(n) |-> cost],
          historyIndex |-> 0,
          currentCost  |-> cost,
          costMax      |-> cost,
          maxCount     |-> n,
          initialized  |-> TRUE ]

\* The slot after index on a ring of n slots.
NextIndex(index, n) == (index + 1) % n

\* What the LAHC slot under the index holds after the decision: the cost of
\* the solution that is current now, whether or not the candidate was taken.
LAHCRemembers_mutant(accepted, candidate, current, old) == candidate

LAHCRemembersOnAccept_mutant(accepted, candidate, current, old) ==
    IF accepted THEN current ELSE old

LAHCRemembers(accepted, candidate, current, old) == current

ApplyLAHC(s, candidate, drift) ==
    LET old      == s.history[s.historyIndex]
        accepted == candidate <= s.currentCost + drift \/ candidate <= old + drift
        current  == IF accepted THEN candidate ELSE s.currentCost
    IN  [ accepted |-> accepted,
          state    |->
            [s EXCEPT !.historyIndex = NextIndex(s.historyIndex, Cardinality(DOMAIN s.history)),
                      !.currentCost = current,
                      !.history[s.historyIndex] =
                          LAHCRemembers(accepted, candidate, current, old)] ]

\* DLAS lets a larger current cost into the ring always, a smaller one only
\* when this step improved on the previous current cost.
DLASReplaces_mutant(current, old, previous) == current < old /\ current < previous

DLASReplaces(current, old, previous) ==
    \/ current > old
    \/ current < old /\ current < previous

\* The DLAS bookkeeping of the largest remembered cost and its multiplicity
\* when current arrives at a slot holding old: a new maximum, one more slot that
\* holds it, a slot that gives it up, or no change.
DLASMaxima_mutant(s, current, old) ==
    CASE current > old /\ current > s.costMax -> [costMax |-> current, maxCount |-> 1]
      [] current > old /\ current = s.costMax ->
            [costMax |-> s.costMax, maxCount |-> s.maxCount + 1]
      [] OTHER -> [costMax |-> s.costMax, maxCount |-> s.maxCount]

DLASMaxima(s, current, old) ==
    CASE current > old /\ current > s.costMax -> [costMax |-> current, maxCount |-> 1]
      [] current > old /\ current = s.costMax /\ old # s.costMax ->
            [costMax |-> s.costMax, maxCount |-> s.maxCount + 1]
      [] /\ DLASReplaces(current, old, s.currentCost)
         /\ current < s.costMax /\ old = s.costMax ->
            [costMax |-> s.costMax, maxCount |-> s.maxCount - 1]
      [] OTHER -> [costMax |-> s.costMax, maxCount |-> s.maxCount]

\* The maximum and its count, read off the whole ring.
Recounted(history) ==
    LET top == CHOOSE c \in {history[i] : i \in DOMAIN history} : IsMaximum(history, c)
    IN  [costMax |-> top, maxCount |-> CountOf(history, top)]

ApplyDLAS(s, candidate, drift) ==
    LET accepted == candidate <= s.currentCost + drift \/ candidate < s.costMax + drift
        current  == IF accepted THEN candidate ELSE s.currentCost
        old      == s.history[s.historyIndex]
        history  == IF DLASReplaces(current, old, s.currentCost)
                    THEN [s.history EXCEPT ![s.historyIndex] = current]
                    ELSE s.history
        kept     == DLASMaxima(s, current, old)
        maxima   == IF kept.maxCount <= 0 THEN Recounted(history) ELSE kept
    IN  [ accepted |-> accepted,
          state    |->
            [s EXCEPT !.historyIndex = NextIndex(s.historyIndex, Cardinality(DOMAIN s.history)),
                      !.currentCost = current,
                      !.history = history,
                      !.costMax = maxima.costMax,
                      !.maxCount = maxima.maxCount] ]

\* OptimizerState::Apply on an initialized state.
Apply(kind, s, candidate, drift) ==
    IF kind = "LAHC" THEN ApplyLAHC(s, candidate, drift)
    ELSE ApplyDLAS(s, candidate, drift)

=============================================================================
