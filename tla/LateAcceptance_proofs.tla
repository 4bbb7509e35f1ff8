------------------------- MODULE LateAcceptance_proofs -------------------------
(***************************************************************************)
(* The invariants of LateAcceptance for every ring length, cost bound and  *)
(* set of drifts.                                                          *)
(***************************************************************************)
EXTENDS LateAcceptance, OptimizerState_proofs

USE HistorySizeAssumption, MaxCostAssumption, DriftsAssumption

-----------------------------------------------------------------------------
(***************************************************************************)
(* The three state properties are inductive together: the DLAS rule keeps  *)
(* its pair exact only on a typed, exact state, and what it accepts is     *)
(* bounded by the ring only because the pair is exact.                     *)
(***************************************************************************)
IInv == TypeOK /\ MaximaAgreeWithHistory /\ CurrentWithinHistory

LEMMA TheRing == Ring(HistorySize, Costs)
BY DEF Ring, Costs

\* IInv holds initially.
LEMMA InitIInv == Init => IInv
BY DEF Init, IInv, TypeOK, MaximaAgreeWithHistory, CurrentWithinHistory, Calls, Fresh, Costs

\* A reset re-establishes IInv whatever went before.
LEMMA InitializeIInv ==
    ASSUME IInv, NEW cost \in Costs, InitializeTo(cost)
    PROVE  IInv'
<1>1. opt' = Initialized(cost, HistorySize) /\ kind' = kind /\ kind \in Kinds
  BY DEF InitializeTo, IInv, TypeOK
<1>2. opt' \in States(HistorySize, Costs) /\ Exact(opt')
  BY <1>1, InitializedCorrect, TheRing
<1>3. \E i \in DOMAIN opt'.history : opt'.currentCost <= opt'.history[i]
  BY <1>1, InitializedCorrect, TheRing
<1>4. call' \in Calls /\ rejections' \in 0 .. HistorySize
  BY DEF InitializeTo, Calls
<1> QED
  BY <1>1, <1>2, <1>3, <1>4
     DEF IInv, TypeOK, MaximaAgreeWithHistory, CurrentWithinHistory, Exact

\* What an offer starts from: the state itself, or one initialized to the
\* candidate; either way typed, exact and not above its ring.
LEMMA OfferStart ==
    ASSUME IInv, NEW c \in Costs
    PROVE  LET start == IF opt.initialized THEN opt ELSE Initialized(c, HistorySize)
           IN  /\ start \in States(HistorySize, Costs)
               /\ kind = "DLAS" => Exact(start)
               /\ \E i \in DOMAIN start.history : start.currentCost <= start.history[i]
<1>1. CASE opt.initialized
  BY <1>1 DEF IInv, TypeOK, MaximaAgreeWithHistory, CurrentWithinHistory, Exact, Fresh
<1>2. CASE ~opt.initialized
  BY <1>2, InitializedCorrect, TheRing
<1> QED
  BY <1>1, <1>2

\* An offer preserves IInv.
LEMMA OfferIInv ==
    ASSUME IInv, NEW c \in Costs, NEW d \in Drifts, Offer(c, d)
    PROVE  IInv'
<1> DEFINE start == IF opt.initialized THEN opt ELSE Initialized(c, HistorySize)
           out   == Apply(kind, start, c, d)
<1>1. /\ start \in States(HistorySize, Costs)
      /\ kind = "DLAS" => Exact(start)
      /\ \E i \in DOMAIN start.history : start.currentCost <= start.history[i]
  BY OfferStart
<1>2. /\ opt' = out.state /\ kind' = kind
      /\ call' = [op |-> "Apply", candidate |-> c, drift |-> d, accepted |-> out.accepted]
      /\ rejections' = IF out.accepted THEN 0
                       ELSE IF rejections < HistorySize THEN rejections + 1 ELSE rejections
  BY DEF Offer
<1>3. kind \in Kinds /\ rejections \in 0 .. HistorySize
  BY DEF IInv, TypeOK
<1> HIDE DEF start
<1>4. /\ out.accepted \in BOOLEAN
      /\ out.state \in States(HistorySize, Costs)
      /\ kind = "DLAS" => Exact(out.state)
      /\ \E i \in DOMAIN out.state.history : out.state.currentCost <= out.state.history[i]
  BY <1>1, <1>3, OfferStep, TheRing, ZenonT(30)
<1> HIDE DEF out
<1>5. call' \in Calls /\ rejections' \in 0 .. HistorySize
  BY <1>2, <1>3, <1>4 DEF Calls
<1> QED
  BY <1>2, <1>3, <1>4, <1>5
     DEF IInv, TypeOK, MaximaAgreeWithHistory, CurrentWithinHistory, Exact

\* IInv is preserved by every step.
LEMMA NextIInv == IInv /\ [Next]_vars => IInv'
<1> SUFFICES ASSUME IInv, [Next]_vars PROVE IInv'
  OBVIOUS
<1>1. CASE \E cost \in Costs : InitializeTo(cost)
  BY <1>1, InitializeIInv
<1>2. CASE \E c \in Costs, d \in Drifts : Offer(c, d)
  BY <1>2, OfferIInv
<1>3. CASE UNCHANGED vars
  BY <1>3 DEF vars, IInv, TypeOK, MaximaAgreeWithHistory, CurrentWithinHistory
<1> QED
  BY <1>1, <1>2, <1>3 DEF Next

LEMMA IInvHolds == Spec => []IInv
BY InitIInv, NextIInv, PTL DEF Spec

\* Apply and Initialize keep the ring's length and index for every ring.
THEOREM TypeCorrect == Spec => []TypeOK
BY IInvHolds, PTL DEF IInv

\* The incremental DLAS bookkeeping always equals a recount of the ring.
THEOREM MaximaCorrect == Spec => []MaximaAgreeWithHistory
BY IInvHolds, PTL DEF IInv

\* The current cost never exceeds everything the ring remembers.
THEOREM CurrentBounded == Spec => []CurrentWithinHistory
BY IInvHolds, PTL DEF IInv

\* No offer raises the largest remembered cost by more than its drift.
THEOREM CeilingHolds == Spec => HistoryCeiling
<1> DEFINE Ceiling == call'.op = "Apply" /\ opt.initialized =>
              \A j \in DOMAIN opt'.history : \E i \in DOMAIN opt.history :
                  opt'.history[j] <= opt.history[i] + call'.drift
<1>1. IInv /\ [Next]_vars => [Ceiling]_vars
  <2> SUFFICES ASSUME IInv, Next, call'.op = "Apply", opt.initialized
               PROVE  \A j \in DOMAIN opt'.history : \E i \in DOMAIN opt.history :
                          opt'.history[j] <= opt.history[i] + call'.drift
    BY DEF vars
  <2>1. PICK c \in Costs, d \in Drifts : Offer(c, d)
    BY DEF Next, InitializeTo
  <2>2. opt' = Apply(kind, opt, c, d).state /\ call'.drift = d
    BY <2>1 DEF Offer
  <2>3. /\ opt \in States(HistorySize, Costs) /\ kind \in Kinds
        /\ kind = "DLAS" => Exact(opt)
        /\ \E i \in DOMAIN opt.history : opt.currentCost <= opt.history[i]
    BY DEF IInv, TypeOK, MaximaAgreeWithHistory, CurrentWithinHistory, Exact, Fresh
  <2> QED
    BY <2>2, <2>3, OfferStep, TheRing
<1> QED
  BY <1>1, IInvHolds, PTL DEF Spec, HistoryCeiling

-----------------------------------------------------------------------------
(***************************************************************************)
(* SettlesAfterFullLap speaks of a whole lap only; what every rejection    *)
(* preserves is the part of it already travelled.  The slots the last      *)
(* rejections have passed are those less than that far behind the index.   *)
(***************************************************************************)

\* How many offers ago the index passed slot i: 1 .. HistorySize.
Behind(i) ==
    IF i < opt.historyIndex THEN opt.historyIndex - i
    ELSE opt.historyIndex - i + HistorySize

SettledSlot(i) ==
    IF kind = "LAHC" THEN opt.history[i] = opt.currentCost
    ELSE opt.history[i] >= opt.currentCost

\* The slots passed since the last accepted candidate have settled.
LapSettled ==
    opt.initialized => \A i \in Slots(HistorySize) : Behind(i) <= rejections => SettledSlot(i)

\* The index moves on by one, and with it every slot falls one further behind,
\* but for the one it leaves, which becomes the nearest.
LEMMA BehindMoves ==
    ASSUME opt \in States(HistorySize, Costs),
           opt'.historyIndex = NextIndex(opt.historyIndex, HistorySize),
           NEW i \in Slots(HistorySize)
    PROVE  IF i = opt.historyIndex THEN Behind(i)' = 1 ELSE Behind(i)' = Behind(i) + 1
<1>1. opt.historyIndex \in 0 .. (HistorySize - 1) /\ i \in 0 .. (HistorySize - 1)
  BY DEF States, Slots
<1>2. opt'.historyIndex = IF opt.historyIndex = HistorySize - 1 THEN 0 ELSE opt.historyIndex + 1
  BY <1>1 DEF NextIndex
<1> QED
  BY <1>1, <1>2 DEF Behind

LEMMA BehindInRange ==
    ASSUME opt \in States(HistorySize, Costs), NEW i \in Slots(HistorySize)
    PROVE  Behind(i) \in 1 .. HistorySize
BY DEF Behind, States, Slots

\* A rejection settles the slot it passes and keeps those it has passed.
LEMMA RejectionSettles ==
    ASSUME IInv, NEW c \in Costs, NEW d \in Drifts, Offer(c, d),
           opt.initialized, ~call'.accepted
    PROVE  /\ opt'.currentCost = opt.currentCost
           /\ \A i \in Slots(HistorySize) :
                i = opt.historyIndex \/ SettledSlot(i) => SettledSlot(i)'
<1> DEFINE out == Apply(kind, opt, c, d)
<1>1. /\ opt' = out.state /\ ~out.accepted /\ kind' = kind /\ kind \in Kinds
      /\ opt \in States(HistorySize, Costs) /\ (kind = "DLAS" => Exact(opt))
      /\ d \in Nat
  BY DEF Offer, IInv, TypeOK, MaximaAgreeWithHistory, Exact, Fresh
<1>2. /\ opt.history \in [Slots(HistorySize) -> Costs]
      /\ opt.historyIndex \in Slots(HistorySize)
      /\ opt.currentCost \in Nat
      /\ \A i \in Slots(HistorySize) : opt.history[i] \in Nat
  BY <1>1 DEF States, Costs
<1>3. CASE kind = "LAHC"
  <2>1. out = ApplyLAHC(opt, c, d)
    BY <1>3 DEF Apply
  <2> HIDE DEF out
  <2>2. /\ opt'.currentCost = opt.currentCost
        /\ opt'.history = [opt.history EXCEPT ![opt.historyIndex] = opt'.currentCost]
    BY <1>1, <2>1, LAHCStep, TheRing
  <2> QED
    BY <1>1, <1>2, <1>3, <2>2 DEF SettledSlot
<1>4. CASE kind = "DLAS"
  <2>1. out = ApplyDLAS(opt, c, d) /\ Exact(opt)
    BY <1>1, <1>4 DEF Apply
  <2> HIDE DEF out
  <2>2. /\ opt'.currentCost = opt.currentCost
        /\ opt'.currentCost <= opt'.history[opt.historyIndex]
        /\ \A j \in Slots(HistorySize) : opt'.history[j] \in {opt.history[j], opt'.currentCost}
        /\ opt' \in States(HistorySize, Costs)
    BY <1>1, <2>1, DLASStep, TheRing
  <2>3. /\ opt'.history[opt.historyIndex] >= opt.currentCost
        /\ \A j \in Slots(HistorySize) :
             opt.history[j] >= opt.currentCost => opt'.history[j] >= opt.currentCost
    BY <1>2, <2>2
  <2> QED
    BY <1>1, <1>4, <2>2, <2>3 DEF SettledSlot
<1> QED
  BY <1>1, <1>3, <1>4 DEF Kinds

\* Every step preserves it: one more rejection passes one more slot, and
\* anything else starts a new lap.
LEMMA NextLapSettled == IInv /\ LapSettled /\ [Next]_vars => LapSettled'
<1> SUFFICES ASSUME IInv, LapSettled, [Next]_vars, opt'.initialized,
                    NEW i \in Slots(HistorySize), Behind(i)' <= rejections'
             PROVE  SettledSlot(i)'
  BY DEF LapSettled
<1>0. IInv'
  BY NextIInv
<1>1. opt' \in States(HistorySize, Costs) /\ rejections \in 0 .. HistorySize
  BY <1>0 DEF IInv, TypeOK, Fresh
<1>2. rejections' # 0
  <2>1. Behind(i)' \in 1 .. HistorySize
    BY <1>1 DEF Behind, States, Slots
  <2> QED
    BY <2>1
<1>3. CASE UNCHANGED vars
  BY <1>3 DEF vars, Behind, SettledSlot, LapSettled
<1>4. ASSUME NEW cost \in Costs, InitializeTo(cost)
      PROVE  FALSE
  BY <1>2, <1>4 DEF InitializeTo
<1>5. ASSUME NEW c \in Costs, NEW d \in Drifts, Offer(c, d)
      PROVE  SettledSlot(i)'
  <2>1. /\ ~call'.accepted
        /\ rejections' = IF rejections < HistorySize THEN rejections + 1 ELSE rejections
    BY <1>2, <1>5 DEF Offer
  <2>2. CASE opt.initialized
    <3>1. opt \in States(HistorySize, Costs) /\ kind \in Kinds
      BY <2>2 DEF IInv, TypeOK, Fresh
    <3>2. opt'.historyIndex = NextIndex(opt.historyIndex, HistorySize)
      BY <1>5, <2>2, <3>1, IndexAdvances, TheRing DEF Offer
    <3>3. CASE i = opt.historyIndex
      BY <1>5, <2>1, <2>2, <3>3, RejectionSettles
    <3>4. CASE i # opt.historyIndex
      <4>1. Behind(i) \in 1 .. HistorySize /\ Behind(i)' = Behind(i) + 1
        BY <3>1, <3>2, <3>4, BehindMoves, BehindInRange
      <4>2. Behind(i) <= rejections
        BY <1>1, <2>1, <4>1
      <4>3. SettledSlot(i)
        BY <2>2, <4>2 DEF LapSettled
      <4> QED
        BY <1>5, <2>1, <2>2, <4>3, RejectionSettles
    <3> QED
      BY <3>3, <3>4
  \* The first offer is taken over as the state it is compared with.
  <2>3. CASE ~opt.initialized
    <3> DEFINE start == Initialized(c, HistorySize)
               out   == Apply(kind, start, c, d)
    <3>1. start \in States(HistorySize, Costs) /\ start.currentCost = c
      BY InitializedCorrect, TheRing DEF Initialized
    <3>2. kind \in Kinds /\ c <= start.currentCost /\ call'.accepted = out.accepted
      BY <1>5, <2>3, <3>1 DEF IInv, TypeOK, Offer, Costs
    <3> HIDE DEF start
    <3>3. out.accepted
      BY <3>1, <3>2, ApplyTyped, TheRing
    <3> QED
      BY <2>1, <3>2, <3>3
  <2> QED
    BY <2>2, <2>3
<1> QED
  BY <1>3, <1>4, <1>5 DEF Next

\* After a whole lap of rejections no slot is further behind than the lap.
LEMMA FullLapSettles == IInv /\ LapSettled => SettlesAfterFullLap
<1> SUFFICES ASSUME IInv, LapSettled, rejections = HistorySize, NEW i \in DOMAIN opt.history
             PROVE  SettledSlot(i)
  BY DEF SettlesAfterFullLap, SettledSlot
<1>1. opt \in States(HistorySize, Costs) /\ opt.initialized
  BY DEF IInv, TypeOK, States
<1>2. i \in Slots(HistorySize)
  BY <1>1 DEF States
<1>3. Behind(i) <= rejections
  BY <1>1, <1>2, BehindInRange
<1> QED
  BY <1>1, <1>2, <1>3 DEF LapSettled

\* A trajectory that rejects a whole lap of the ring remembers only its current
\* cost with LAHC, and nothing below it with DLAS.
THEOREM LapCorrect == Spec => []SettlesAfterFullLap
<1>1. Init => LapSettled
  BY DEF Init, LapSettled, Fresh
<1> QED
  BY <1>1, NextLapSettled, FullLapSettles, IInvHolds, PTL DEF Spec

=============================================================================
