---------------------------- MODULE LateAcceptance ----------------------------
(***************************************************************************)
(* One trajectory of OptimizerState: the calls Initialize and Apply in any *)
(* order a search makes them, on any candidate and any drift.              *)
(***************************************************************************)
EXTENDS OptimizerState

CONSTANTS
    HistorySize,    \* /s (solutions): the number of remembered costs
    MaxCost,        \* bound: candidate costs are 0 .. MaxCost
    Drifts          \* the drifts CalculateAcceptanceDrift may return

ASSUME HistorySizeAssumption == HistorySize \in Nat \ {0}
ASSUME MaxCostAssumption     == MaxCost \in Nat
ASSUME DriftsAssumption      == Drifts \subseteq Nat

Costs == 0 .. MaxCost

VARIABLES
    kind,           \* the optimizer in use, fixed for the run
    opt,            \* the OptimizerState record
    call,           \* the last call: its kind, argument, drift and result
    rejections      \* consecutive rejected candidates, up to HistorySize

vars == <<kind, opt, call, rejections>>

Init ==
    /\ kind \in Kinds
    /\ opt = Fresh
    /\ call = [op |-> "none", candidate |-> 0, drift |-> 0, accepted |-> FALSE]
    /\ rejections = 0

\* A start, a migration or a retarget resets the trajectory to a known cost.
InitializeTo(cost) ==
    /\ opt' = Initialized(cost, HistorySize)
    /\ call' = [op |-> "Initialize", candidate |-> cost, drift |-> 0, accepted |-> TRUE]
    /\ rejections' = 0
    /\ UNCHANGED kind

\* A candidate is scored and offered.  ApplyIslandAcceptance initializes a
\* state that is not, at the configured length, before it applies the rule.
Offer(candidate, drift) ==
    LET start   == IF opt.initialized THEN opt ELSE Initialized(candidate, HistorySize)
        outcome == Apply(kind, start, candidate, drift)
    IN  /\ opt' = outcome.state
        /\ call' = [op |-> "Apply", candidate |-> candidate, drift |-> drift,
                    accepted |-> outcome.accepted]
        /\ rejections' = IF outcome.accepted THEN 0
                         ELSE IF rejections < HistorySize THEN rejections + 1
                         ELSE rejections
        /\ UNCHANGED kind

Next ==
    \/ \E cost \in Costs : InitializeTo(cost)
    \/ \E candidate \in Costs, drift \in Drifts : Offer(candidate, drift)

Spec == Init /\ [][Next]_vars

-----------------------------------------------------------------------------

Calls == [op : {"none", "Initialize", "Apply"}, candidate : Costs,
          drift : Drifts \cup {0}, accepted : BOOLEAN]

\* Types: the state is the default-constructed one or an initialized one whose
\* ring has the configured length and whose index stays on the ring.
TypeOK ==
    /\ kind \in Kinds
    /\ \/ opt = Fresh /\ rejections = 0
       \/ opt \in States(HistorySize, Costs)
    /\ call \in Calls
    /\ rejections \in 0 .. HistorySize

\* The incrementally maintained DLAS pair agrees with a recount of the ring:
\* costMax is the largest remembered cost and maxCount the number of slots
\* that hold it, after any sequence of calls (OptimizerState::Apply's three
\* bookkeeping branches and its recount).
MaximaAgreeWithHistory ==
    kind = "DLAS" /\ opt.initialized =>
        /\ IsMaximum(opt.history, opt.costMax)
        /\ opt.maxCount = CountOf(opt.history, opt.costMax)

\* The current cost never rises above everything the ring remembers, so the
\* threshold "not worse than the ring" always admits the current solution.
CurrentWithinHistory ==
    opt.initialized => \E i \in DOMAIN opt.history : opt.currentCost <= opt.history[i]

\* Late acceptance may take worse candidates, but never one above everything
\* remembered: over one Apply the largest remembered cost rises by at most the
\* drift of that call, and not at all without drift.
HistoryCeiling ==
    [][ call'.op = "Apply" /\ opt.initialized =>
          \A j \in DOMAIN opt'.history : \E i \in DOMAIN opt.history :
              opt'.history[j] <= opt.history[i] + call'.drift ]_vars

\* A trajectory that rejects a whole lap of the ring has settled: LAHC
\* remembers only the current cost, and DLAS nothing below it.
SettlesAfterFullLap ==
    rejections = HistorySize =>
        \A i \in DOMAIN opt.history :
            IF kind = "LAHC" THEN opt.history[i] = opt.currentCost
            ELSE opt.history[i] >= opt.currentCost

=============================================================================
