-------------------------- MODULE IslandSearch_proofs --------------------------
(***************************************************************************)
(* The single-frame search for any number of workers, any programs, scores *)
(* and objectives, and either optimizer.                                   *)
(***************************************************************************)
EXTENDS IslandSearch, OptimizerState_proofs

USE WorkersAssumption, PicsAssumption, ObjectiveAssumption, CostAssumption,
    OptimizerAssumption, MaxEvalsAssumption

\* Where a worker has not read the best score yet, where it holds the lock,
\* where it carries a scored candidate, and where the pause cannot reach it.
Starting == {"off", "loadSnapshot", "loadVersion", "loadBest"}
Storing  == {"storeSnapshot", "storeVersion"}
Scored   == {"judge", "publish"} \cup Storing
Running  == {"loadBest", "top", "readVersion", "adopt", "evaluate"} \cup Scored

\* While the editor is open nobody runs, and nobody new starts.
EditorAlone ==
    /\ main \in {"pausing", "editing"} => pauseRequested /\ \A w \in Workers : pc[w] # "off"
    /\ main = "editing" => \A w \in Workers : pc[w] \in {"paused", "leave", "done"}

\* No worker knows a later objective than the one in force, and a running one
\* knows no earlier one either.
ObjectiveKnown ==
    \A w \in Workers :
        /\ seen[w].objective <= objective
        /\ pc[w] \in Running => seen[w].objective = objective

\* The mutex admits one publisher.
OneStores == \A w \in Workers : pc[w] \in Storing <=> lock = w

\* An island is not initialized before LoadBest.
Blank == \A w \in Workers : pc[w] \in Starting => island[w] = Fresh

\* A candidate's result is its score under the objective in force.
ResultIsScore ==
    \A w \in Workers :
        pc[w] \in Scored => trial[w].result = Cost[objective][trial[w].pic]

\* A candidate on its way to publication was accepted, so it is what the
\* island now compares with.
PublisherHolds ==
    \A w \in Workers :
        pc[w] \in {"publish"} \cup Storing =>
            /\ trial[w].accepted
            /\ island[w].initialized
            /\ island[w].currentCost = trial[w].result

\* The publisher has stored its result first.
StoredResult == \A w \in Workers : pc[w] \in Storing => bestResult = trial[w].result

\* A search that was retargeted has a score.
RetargetedScored == objective > 0 => bestResult # Unscored

\* The snapshot is of the objective in force and never better than the best
\* score; it lags behind only between the first store and the second.
SnapshotLags ==
    /\ snapshot # NoSnapshot =>
         /\ snapshot.cost = Cost[objective][snapshot.pic]
         /\ bestResult <= snapshot.cost
         /\ (\A w \in Workers : pc[w] \notin Storing) =>
              snapshot.cost = bestResult /\ snapshot.version = bestVersion
    /\ \A w \in Workers : pc[w] = "storeVersion" =>
         /\ snapshot # NoSnapshot
         /\ snapshot.cost = bestResult
         /\ snapshot.version = bestVersion + 1

IInv ==
    /\ TypeOK
    /\ EditorAlone
    /\ ObjectiveKnown
    /\ OneStores
    /\ Blank
    /\ ResultIsScore
    /\ PublisherHolds
    /\ StoredResult
    /\ RetargetedScored
    /\ SnapshotLags
    /\ BestIsLowest

-----------------------------------------------------------------------------

\* Scores are naturals below the score of a search that has none.
LEMMA CostFacts ==
    /\ \A g \in Objectives, p \in Pics : Cost[g][p] \in Costs
    /\ \A c \in Costs : c \in Nat /\ c < Unscored
    /\ Unscored \in Nat \ Costs
<1>1. \A g \in Objectives, p \in Pics : Cost[g][p] \in Nat /\ Cost[g][p] < Unscored
  OBVIOUS
<1>2. \A c \in Costs : \E g \in Objectives, p \in Pics : c = Cost[g][p]
  BY DEF Costs
<1>3. \A g \in Objectives, p \in Pics : Cost[g][p] \in Costs
  BY DEF Costs
<1> QED
  BY <1>1, <1>2, <1>3

LEMMA TheRing == Ring(HistorySize, Costs)
BY CostFacts DEF Ring

\* What the type of an island says of the fields the search looks at.
LEMMA IslandFields ==
    /\ Fresh.initialized = FALSE
    /\ \A s \in States(HistorySize, Costs) : s.initialized = TRUE /\ s.currentCost \in Costs
    /\ \A c \in Costs :
         /\ Initialized(c, HistorySize) \in States(HistorySize, Costs)
         /\ Initialized(c, HistorySize).currentCost = c
<1>1. \A c \in Costs : Initialized(c, HistorySize).currentCost = c
  BY DEF Initialized
<1>2. \A c \in Costs : Initialized(c, HistorySize) \in States(HistorySize, Costs)
  BY TheRing, InitializedCorrect
<1>3. Fresh.initialized = FALSE
  BY DEF Fresh
<1>4. \A s \in States(HistorySize, Costs) : s.initialized = TRUE /\ s.currentCost \in Costs
  BY DEF States
<1> QED
  BY <1>1, <1>2, <1>3, <1>4

\* IInv holds initially.
LEMMA InitIInv == Init => IInv
<1> SUFFICES ASSUME Init PROVE IInv
  OBVIOUS
<1>1. TypeOK
  <2>1. 0 \in Objectives
    BY DEF Objectives
  <2>2. bestResult \in Costs \cup {Unscored}
    BY <2>1, CostFacts DEF Init
  <2>3. snapshot \in [pic : Pics, cost : Costs \cup {Unscored}, version : Nat]
    BY DEF Init, NoSnapshot
  <2>4. pc \in [Workers -> Places]
    BY DEF Init, Places
  <2> QED
    BY <2>1, <2>2, <2>3, <2>4 DEF Init, TypeOK
<1>2. EditorAlone /\ ObjectiveKnown /\ OneStores /\ Blank
  BY DEF Init, EditorAlone, ObjectiveKnown, OneStores, Blank, Storing, Running, Scored, Objectives
<1>3. ResultIsScore /\ PublisherHolds /\ StoredResult /\ RetargetedScored
  BY DEF Init, ResultIsScore, PublisherHolds, StoredResult, RetargetedScored, Storing, Scored
<1>4. SnapshotLags /\ BestIsLowest
  BY IslandFields DEF Init, SnapshotLags, BestIsLowest, Current
<1> QED
  BY <1>1, <1>2, <1>3, <1>4 DEF IInv

\* A worker loads its program.
LEMMA LoadSnapshotIInv ==
    ASSUME IInv, NEW w \in Workers, LoadSnapshot(w)
    PROVE  IInv'
<1> USE DEF IInv, LoadSnapshot, Goto, published, control, locals
<1>1. TypeOK'
  BY DEF TypeOK, Places, LoadedPic
<1>2. EditorAlone'
  BY DEF EditorAlone, TypeOK
<1>3. ObjectiveKnown'
  BY DEF ObjectiveKnown, TypeOK, Running, Scored, Storing
<1>4. OneStores'
  BY DEF OneStores, TypeOK, Storing
<1>5. Blank'
  BY DEF Blank, TypeOK, Starting
<1>6. ResultIsScore' /\ PublisherHolds' /\ StoredResult' /\ RetargetedScored'
  BY DEF ResultIsScore, PublisherHolds, StoredResult, RetargetedScored, TypeOK, Scored, Storing
<1>7. SnapshotLags'
  BY DEF SnapshotLags, TypeOK, Storing
<1>8. BestIsLowest'
  BY DEF BestIsLowest, Current, TypeOK
<1> QED
  BY <1>1, <1>2, <1>3, <1>4, <1>5, <1>6, <1>7, <1>8

\* A worker loads the version and the objective.
LEMMA LoadVersionIInv ==
    ASSUME IInv, NEW w \in Workers, LoadVersion(w)
    PROVE  IInv'
<1> USE DEF IInv, LoadVersion, Goto, published, control, locals
<1>1. TypeOK'
  BY DEF TypeOK, Places
<1>2. EditorAlone'
  BY DEF EditorAlone, TypeOK
<1>3. ObjectiveKnown'
  BY DEF ObjectiveKnown, TypeOK, Objectives, Running, Scored, Storing
<1>4. OneStores'
  BY DEF OneStores, TypeOK, Storing
<1>5. Blank'
  BY DEF Blank, TypeOK, Starting
<1>6. ResultIsScore' /\ PublisherHolds' /\ StoredResult' /\ RetargetedScored'
  BY DEF ResultIsScore, PublisherHolds, StoredResult, RetargetedScored, TypeOK, Scored, Storing
<1>7. SnapshotLags'
  BY DEF SnapshotLags, TypeOK, Storing
<1>8. BestIsLowest'
  BY IslandFields DEF BestIsLowest, Current, TypeOK, Blank, Starting
<1> QED
  BY <1>1, <1>2, <1>3, <1>4, <1>5, <1>6, <1>7, <1>8

\* A worker loads the best score, the floor its island starts from.
LEMMA LoadBestIInv ==
    ASSUME IInv, NEW w \in Workers, LoadBest(w)
    PROVE  IInv'
<1> USE DEF IInv, LoadBest, Goto, published, control, locals
<1>0. \/ bestResult = Unscored
      \/ bestResult \in Costs /\ bestResult <= bestResult
  BY CostFacts DEF TypeOK
<1>1. TypeOK'
  BY CostFacts, IslandFields DEF TypeOK, Places
<1>2. EditorAlone'
  BY DEF EditorAlone, TypeOK
<1>3. ObjectiveKnown'
  BY DEF ObjectiveKnown, TypeOK, Running, Scored, Storing
<1>4. OneStores'
  BY DEF OneStores, TypeOK, Storing
<1>5. Blank'
  BY DEF Blank, TypeOK, Starting
<1>6. ResultIsScore' /\ PublisherHolds' /\ StoredResult' /\ RetargetedScored'
  BY DEF ResultIsScore, PublisherHolds, StoredResult, RetargetedScored, TypeOK, Scored, Storing
<1>7. SnapshotLags'
  BY DEF SnapshotLags, TypeOK, Storing
<1>8. BestIsLowest'
  BY <1>0, IslandFields DEF BestIsLowest, Current, TypeOK
<1> QED
  BY <1>1, <1>2, <1>3, <1>4, <1>5, <1>6, <1>7, <1>8

\* Pass moves a worker on and touches nothing else.
LEMMA PassIInv ==
    ASSUME IInv, NEW w \in Workers, Pass(w)
    PROVE  IInv'
<1> USE DEF IInv, Pass, Goto, published, control, locals
<1>1. TypeOK'
  BY DEF TypeOK, Places
<1>2. EditorAlone'
  BY DEF EditorAlone, TypeOK
<1>3. ObjectiveKnown'
  BY DEF ObjectiveKnown, TypeOK, Running, Scored, Storing
<1>4. OneStores'
  BY DEF OneStores, TypeOK, Storing
<1>5. Blank'
  BY DEF Blank, TypeOK, Starting
<1>6. ResultIsScore' /\ PublisherHolds' /\ StoredResult' /\ RetargetedScored'
  BY DEF ResultIsScore, PublisherHolds, StoredResult, RetargetedScored, TypeOK, Scored, Storing
<1>7. SnapshotLags'
  BY DEF SnapshotLags, TypeOK, Storing
<1>8. BestIsLowest'
  BY DEF BestIsLowest, Current, TypeOK
<1> QED
  BY <1>1, <1>2, <1>3, <1>4, <1>5, <1>6, <1>7, <1>8

\* A worker parks.
LEMMA ParkIInv ==
    ASSUME IInv, NEW w \in Workers, Park(w)
    PROVE  IInv'
<1> USE DEF IInv, Park, Goto, published, control, locals
<1>1. TypeOK'
  BY DEF TypeOK, Places
<1>2. EditorAlone'
  BY DEF EditorAlone, TypeOK
<1>3. ObjectiveKnown'
  BY DEF ObjectiveKnown, TypeOK, Running, Scored, Storing
<1>4. OneStores'
  BY DEF OneStores, TypeOK, Storing
<1>5. Blank'
  BY DEF Blank, TypeOK, Starting
<1>6. ResultIsScore' /\ PublisherHolds' /\ StoredResult' /\ RetargetedScored'
  BY DEF ResultIsScore, PublisherHolds, StoredResult, RetargetedScored, TypeOK, Scored, Storing
<1>7. SnapshotLags'
  BY DEF SnapshotLags, TypeOK, Storing
<1>8. BestIsLowest'
  BY DEF BestIsLowest, Current, TypeOK
<1> QED
  BY <1>1, <1>2, <1>3, <1>4, <1>5, <1>6, <1>7, <1>8

\* A worker wakes; if the objective changed it starts over from the best score.
LEMMA WakeIInv ==
    ASSUME IInv, NEW w \in Workers, Wake(w)
    PROVE  IInv'
<1> USE DEF IInv, Wake, Goto, published, control, locals
<1>0. /\ seen[w].objective \in Nat /\ objective \in Nat /\ LoadedPic \in Pics
      /\ Reinitializes(w) => bestResult \in Costs /\ bestResult <= bestResult
  <2>1. /\ seen[w].objective \in Nat /\ objective \in Nat /\ LoadedPic \in Pics
        /\ bestResult \in Costs \cup {Unscored}
    BY DEF TypeOK, Objectives, LoadedPic
  <2>2. Reinitializes(w) => objective > 0
    BY <2>1 DEF Reinitializes, ObjectiveKnown
  <2> QED
    BY <2>1, <2>2, CostFacts DEF RetargetedScored
<1>1. TypeOK'
  <2>1. island' \in [Workers -> {Fresh} \cup States(HistorySize, Costs)]
    BY <1>0, IslandFields, SMTT(30) DEF TypeOK
  <2>2. held' \in [Workers -> Pics] /\ seen' \in [Workers -> [version : Nat, objective : Objectives]]
    <3>1. CASE Reinitializes(w)
      <4>1. [version |-> bestVersion, objective |-> objective] \in [version : Nat, objective : Objectives]
        BY DEF TypeOK
      <4>2. /\ seen' = [seen EXCEPT ![w] = [version |-> bestVersion, objective |-> objective]]
            /\ held' = [held EXCEPT ![w] = LoadedPic]
        BY <3>1
      <4>3. seen \in [Workers -> [version : Nat, objective : Objectives]] /\ held \in [Workers -> Pics]
        BY DEF TypeOK
      <4>4. held' \in [Workers -> Pics]
        BY <1>0, <4>2, <4>3
      <4>5. seen' \in [Workers -> [version : Nat, objective : Objectives]]
        BY <4>1, <4>2, <4>3
      <4> QED
        BY <4>4, <4>5
    <3>2. CASE ~Reinitializes(w)
      BY <3>2 DEF TypeOK
    <3> QED
      BY <3>1, <3>2
  <2>3. pc' \in [Workers -> Places]
    BY DEF TypeOK, Places
  <2> QED
    BY <2>1, <2>2, <2>3 DEF TypeOK
<1>2. EditorAlone'
  BY DEF EditorAlone, TypeOK
<1>3. ObjectiveKnown'
  BY <1>0 DEF ObjectiveKnown, TypeOK, Running, Scored, Storing, Reinitializes
<1>4. OneStores'
  BY DEF OneStores, TypeOK, Storing
<1>5. Blank'
  BY DEF Blank, TypeOK, Starting
<1>6. ResultIsScore' /\ PublisherHolds' /\ StoredResult' /\ RetargetedScored'
  BY DEF ResultIsScore, PublisherHolds, StoredResult, RetargetedScored, TypeOK, Scored, Storing
<1>7. SnapshotLags'
  BY DEF SnapshotLags, TypeOK, Storing
<1>8. BestIsLowest'
  <2> SUFFICES ASSUME NEW u \in Current', pc'[u] # "publish"
               PROVE  bestResult' <= island'[u].currentCost
    BY DEF BestIsLowest
  <2>1. CASE u = w /\ Reinitializes(w)
    BY <1>0, <2>1, IslandFields DEF TypeOK
  <2>2. CASE u # w \/ ~Reinitializes(w)
    BY <2>2 DEF BestIsLowest, Current, TypeOK
  <2> QED
    BY <2>1, <2>2
<1> QED
  BY <1>1, <1>2, <1>3, <1>4, <1>5, <1>6, <1>7, <1>8

\* A worker reads the version.
LEMMA ReadVersionIInv ==
    ASSUME IInv, NEW w \in Workers, ReadVersion(w)
    PROVE  IInv'
<1> USE DEF IInv, ReadVersion, Goto, published, control, locals
<1>1. TypeOK'
  BY DEF TypeOK, Places
<1>2. EditorAlone'
  BY DEF EditorAlone, TypeOK
<1>3. ObjectiveKnown'
  BY DEF ObjectiveKnown, TypeOK, Running, Scored, Storing
<1>4. OneStores'
  BY DEF OneStores, TypeOK, Storing
<1>5. Blank'
  BY DEF Blank, TypeOK, Starting
<1>6. ResultIsScore' /\ PublisherHolds' /\ StoredResult' /\ RetargetedScored'
  BY DEF ResultIsScore, PublisherHolds, StoredResult, RetargetedScored, TypeOK, Scored, Storing
<1>7. SnapshotLags'
  BY DEF SnapshotLags, TypeOK, Storing
<1>8. BestIsLowest'
  BY DEF BestIsLowest, Current, TypeOK
<1> QED
  BY <1>1, <1>2, <1>3, <1>4, <1>5, <1>6, <1>7, <1>8

\* Migration takes over a snapshot, which is never below the best score.
LEMMA AdoptIInv ==
    ASSUME IInv, NEW w \in Workers, Adopt(w)
    PROVE  IInv'
<1> USE DEF IInv, Adopt, Goto, published, control, locals
<1>0. snapshot # NoSnapshot =>
        snapshot.cost \in Costs /\ bestResult <= snapshot.cost
  BY CostFacts DEF SnapshotLags, TypeOK
<1>1. TypeOK'
  <2>1. held' \in [Workers -> Pics] /\ island' \in [Workers -> {Fresh} \cup States(HistorySize, Costs)]
    <3>1. snapshot # NoSnapshot =>
            Initialized(snapshot.cost, HistorySize) \in {Fresh} \cup States(HistorySize, Costs)
      BY <1>0, IslandFields
    <3>2. held' \in [Workers -> Pics]
      BY DEF TypeOK
    <3>3. island' \in {island, [island EXCEPT ![w] = Initialized(snapshot.cost, HistorySize)]}
      OBVIOUS
    <3>4. CASE island' = island
      BY <3>2, <3>4 DEF TypeOK
    <3>5. CASE island' # island
      <4>1. /\ Initialized(snapshot.cost, HistorySize) \in {Fresh} \cup States(HistorySize, Costs)
            /\ island' = [island EXCEPT ![w] = Initialized(snapshot.cost, HistorySize)]
        BY <3>1, <3>3, <3>5
      <4>2. island \in [Workers -> {Fresh} \cup States(HistorySize, Costs)]
        BY DEF TypeOK
      <4>3. island' \in [Workers -> {Fresh} \cup States(HistorySize, Costs)]
        BY <4>1, <4>2
      <4> QED
        BY <3>2, <4>3
    <3> QED
      BY <3>4, <3>5
  <2>2. seen' \in [Workers -> [version : Nat, objective : Objectives]]
    <3>1. seen[w] \in [version : Nat, objective : Objectives] /\ snapshot.version \in Nat
      BY DEF TypeOK
    <3>2. [seen[w] EXCEPT !.version = snapshot.version] \in [version : Nat, objective : Objectives]
      BY <3>1
    <3>3. seen' \in {seen, [seen EXCEPT ![w] = [seen[w] EXCEPT !.version = snapshot.version]]}
      OBVIOUS
    <3> QED
      BY <3>2, <3>3 DEF TypeOK
  <2>3. pc' \in [Workers -> Places]
    BY DEF TypeOK, Places
  <2> QED
    BY <2>1, <2>2, <2>3 DEF TypeOK
<1>2. EditorAlone'
  BY DEF EditorAlone, TypeOK
<1>3. ObjectiveKnown'
  BY DEF ObjectiveKnown, TypeOK, Running, Scored, Storing
<1>4. OneStores'
  BY DEF OneStores, TypeOK, Storing
<1>5. Blank'
  BY DEF Blank, TypeOK, Starting
<1>6. ResultIsScore' /\ PublisherHolds' /\ StoredResult' /\ RetargetedScored'
  BY DEF ResultIsScore, PublisherHolds, StoredResult, RetargetedScored, TypeOK, Scored, Storing
<1>7. SnapshotLags'
  BY DEF SnapshotLags, TypeOK, Storing
<1>8. BestIsLowest'
  <2> SUFFICES ASSUME NEW u \in Current', pc'[u] # "publish"
               PROVE  bestResult' <= island'[u].currentCost
    BY DEF BestIsLowest
  <2>1. CASE island'[u] = island[u]
    <3>1. u \in Current /\ pc[u] # "publish"
      BY <2>1 DEF Current, TypeOK
    <3> QED
      BY <2>1, <3>1 DEF BestIsLowest
  <2>2. CASE island'[u] # island[u]
    <3>1. snapshot # NoSnapshot /\ island'[u] = Initialized(snapshot.cost, HistorySize)
      BY <2>2 DEF TypeOK, Current
    <3> QED
      BY <1>0, <3>1, IslandFields
  <2> QED
    BY <2>1, <2>2
<1> QED
  BY <1>1, <1>2, <1>3, <1>4, <1>5, <1>6, <1>7, <1>8

\* A candidate is scored under the objective in force.
LEMMA EvaluateIInv ==
    ASSUME IInv, NEW w \in Workers, Evaluate(w)
    PROVE  IInv'
<1> USE DEF IInv, Evaluate, Goto, published, control, locals
<1>1. TypeOK'
  <2>1. PICK p \in Pics : trial' = [trial EXCEPT ![w].pic = p,
                                                ![w].result = Cost[objective][p],
                                                ![w].number = evaluations']
    BY DEF TypeOK
  <2>2. Cost[objective][p] \in Costs /\ evaluations' \in Nat
    BY CostFacts DEF TypeOK
  <2>3. trial' \in [Workers -> [pic : Pics, result : Costs \cup {Unscored}, number : Nat,
                                accepted : BOOLEAN, stop : BOOLEAN]]
    <3> DEFINE t == [trial[w] EXCEPT !.pic = p, !.result = Cost[objective][p], !.number = evaluations']
    <3>0. trial[w] \in [pic : Pics, result : Costs \cup {Unscored}, number : Nat,
                  accepted : BOOLEAN, stop : BOOLEAN]
      BY DEF TypeOK
    <3>1. t \in [pic : Pics, result : Costs \cup {Unscored}, number : Nat,
                  accepted : BOOLEAN, stop : BOOLEAN]
      BY <2>2, <3>0
    <3>2. trial' = [trial EXCEPT ![w] = t]
      BY <2>1
    <3> HIDE DEF t
    <3> QED
      BY <3>1, <3>2 DEF TypeOK
  <2>4. pc' \in [Workers -> Places] /\ fresh' \in [Workers -> BOOLEAN]
    BY DEF TypeOK, Places
  <2> QED
    BY <2>2, <2>3, <2>4 DEF TypeOK
<1>2. EditorAlone'
  BY DEF EditorAlone, TypeOK
<1>3. ObjectiveKnown'
  BY DEF ObjectiveKnown, TypeOK, Running, Scored, Storing
<1>4. OneStores'
  BY DEF OneStores, TypeOK, Storing
<1>5. Blank'
  BY DEF Blank, TypeOK, Starting
<1>6. ResultIsScore' /\ PublisherHolds' /\ StoredResult' /\ RetargetedScored'
  BY DEF ResultIsScore, PublisherHolds, StoredResult, RetargetedScored, TypeOK, Scored, Storing
<1>7. SnapshotLags'
  BY DEF SnapshotLags, TypeOK, Storing
<1>8. BestIsLowest'
  BY DEF BestIsLowest, Current, TypeOK
<1> QED
  BY <1>1, <1>2, <1>3, <1>4, <1>5, <1>6, <1>7, <1>8

\* The island decides; only an accepted candidate goes on to publication.
LEMMA JudgeIInv ==
    ASSUME IInv, NEW w \in Workers, Judge(w)
    PROVE  IInv'
<1> USE DEF IInv, Judge, Goto, published, control, locals
<1> DEFINE result == trial[w].result
           start  == IF island[w].initialized THEN island[w] ELSE Initialized(result, HistorySize)
<1>0. /\ result \in Costs /\ result \in Nat /\ bestResult \in Nat
      /\ start \in States(HistorySize, Costs)
      /\ start.currentCost \in Nat
      /\ island[w].initialized => start = island[w]
      /\ ~island[w].initialized => start.currentCost = result
  <2>1. result \in Costs /\ bestResult \in Costs \cup {Unscored}
    BY CostFacts DEF TypeOK, ResultIsScore, Scored
  <2>2. island[w] \in {Fresh} \cup States(HistorySize, Costs)
    BY DEF TypeOK
  <2> QED
    BY <2>1, <2>2, CostFacts, IslandFields
<1>a. PICK drift \in Drifts :
        LET outcome == Apply(Kind, start, result, drift)
        IN  /\ island' = [island EXCEPT ![w] = outcome.state]
            /\ trial' = [trial EXCEPT ![w].accepted = outcome.accepted, ![w].stop = finished']
  OBVIOUS
<1> DEFINE outcome == Apply(Kind, start, result, drift)
<1>b. /\ outcome.accepted \in BOOLEAN
      /\ outcome.state \in States(HistorySize, Costs)
      /\ outcome.state.currentCost = IF outcome.accepted THEN result ELSE start.currentCost
      /\ result <= start.currentCost => outcome.accepted
  <2> HIDE DEF start, result
  <2> QED
    BY <1>0, TheRing, ApplyTyped
<1>c. outcome.state.initialized
  BY <1>b, IslandFields
<1> HIDE DEF start, outcome
<1>d. /\ island' = [island EXCEPT ![w] = outcome.state]
      /\ trial' = [trial EXCEPT ![w].accepted = outcome.accepted, ![w].stop = finished']
  BY <1>a DEF outcome
<1>e. /\ seen[w].objective = objective
      /\ island[w].initialized => bestResult <= island[w].currentCost
  BY DEF ObjectiveKnown, Running, Scored, BestIsLowest, Current
\* An unaccepted candidate is above the island's cost, hence above the best.
<1>f. PotentialImprovement(w) => outcome.accepted
  BY <1>0, <1>b, <1>e DEF PotentialImprovement
<1>g. pc' = [pc EXCEPT ![w] = IF PotentialImprovement(w) THEN "publish" ELSE AfterIteration(w)]
  OBVIOUS
<1>h. AfterIteration(w) \in {"leave", "top"} /\ Settled(w) \in Pics
  BY DEF AfterIteration, Settled, TypeOK
<1>1. TypeOK'
  <2>1. island' \in [Workers -> {Fresh} \cup States(HistorySize, Costs)]
    BY <1>b, <1>d DEF TypeOK
  <2>2. finished' \in BOOLEAN
    BY DEF TypeOK
  <2>3. trial' \in [Workers -> [pic : Pics, result : Costs \cup {Unscored}, number : Nat,
                                accepted : BOOLEAN, stop : BOOLEAN]]
    <3> DEFINE t == [trial[w] EXCEPT !.accepted = outcome.accepted, !.stop = finished']
    <3>0. trial[w] \in [pic : Pics, result : Costs \cup {Unscored}, number : Nat,
                  accepted : BOOLEAN, stop : BOOLEAN]
      BY DEF TypeOK
    <3>1. t \in [pic : Pics, result : Costs \cup {Unscored}, number : Nat,
                  accepted : BOOLEAN, stop : BOOLEAN]
      BY <1>b, <2>2, <3>0
    <3>2. trial' = [trial EXCEPT ![w] = t]
      BY <1>d
    <3> HIDE DEF t
    <3> QED
      BY <3>1, <3>2 DEF TypeOK
  <2>4. pc' \in [Workers -> Places] /\ held' \in [Workers -> Pics]
    <3>1. (IF PotentialImprovement(w) THEN "publish" ELSE AfterIteration(w)) \in Places
      BY <1>h DEF Places
    <3>2. pc' \in [Workers -> Places]
      BY <1>g, <3>1 DEF TypeOK
    <3>3. held' \in {held, [held EXCEPT ![w] = Settled(w)]}
      OBVIOUS
    <3>4. held' \in [Workers -> Pics]
      BY <1>h, <3>3, ZenonT(30) DEF TypeOK
    <3> QED
      BY <3>2, <3>4
  <2> QED
    BY <2>1, <2>2, <2>3, <2>4 DEF TypeOK
<1>2. EditorAlone'
  BY <1>g, <1>h DEF EditorAlone, TypeOK
<1>3. ObjectiveKnown'
  BY <1>g, <1>h DEF ObjectiveKnown, TypeOK, Running, Scored, Storing
<1>4. OneStores'
  BY <1>g, <1>h DEF OneStores, TypeOK, Storing
<1>5. Blank'
  BY <1>d, <1>g, <1>h DEF Blank, TypeOK, Starting
<1>6. ResultIsScore' /\ PublisherHolds' /\ StoredResult' /\ RetargetedScored'
  <2>1. \A u \in Workers : trial'[u].result = trial[u].result /\ trial'[u].pic = trial[u].pic
    BY <1>d DEF TypeOK
  <2>2. ResultIsScore'
    BY <1>g, <1>h, <2>1, ZenonT(30) DEF ResultIsScore, TypeOK, Scored, Storing
  <2>3. trial'[w].accepted = outcome.accepted /\ island'[w] = outcome.state
    BY <1>d DEF TypeOK
  <2>4. PublisherHolds'
    <3> SUFFICES ASSUME NEW u \in Workers, pc'[u] \in {"publish"} \cup Storing
                 PROVE  /\ trial'[u].accepted
                        /\ island'[u].initialized
                        /\ island'[u].currentCost = trial'[u].result
      BY DEF PublisherHolds
    <3>1. CASE u = w
      BY <1>b, <1>c, <1>f, <1>g, <1>h, <2>1, <2>3, <3>1 DEF TypeOK, Storing
    <3>2. CASE u # w
      BY <1>d, <1>g, <3>2 DEF PublisherHolds, TypeOK
    <3> QED
      BY <3>1, <3>2
  <2>5. StoredResult'
    BY <1>g, <1>h, <2>1 DEF StoredResult, TypeOK, Storing
  <2> QED
    BY <2>2, <2>4, <2>5 DEF RetargetedScored
<1>7. SnapshotLags'
  BY <1>g, <1>h DEF SnapshotLags, TypeOK, Storing
<1>8. BestIsLowest'
  <2> SUFFICES ASSUME NEW u \in Current', pc'[u] # "publish"
               PROVE  bestResult <= island'[u].currentCost
    BY DEF BestIsLowest
  <2>1. CASE u = w
    <3>1. ~PotentialImprovement(w) /\ island'[u] = outcome.state
      BY <1>d, <1>g, <2>1 DEF TypeOK
    <3> QED
      BY <1>0, <1>b, <1>e, <3>1 DEF PotentialImprovement
  <2>2. CASE u # w
    BY <1>d, <1>g, <2>2 DEF BestIsLowest, Current, TypeOK
  <2> QED
    BY <2>1, <2>2
<1> QED
  BY <1>1, <1>2, <1>3, <1>4, <1>5, <1>6, <1>7, <1>8

\* The publisher takes the lock and stores its result.
LEMMA StoreResultIInv ==
    ASSUME IInv, NEW w \in Workers, StoreResult(w)
    PROVE  IInv'
<1> USE DEF IInv, StoreResult, Goto, published, control, locals
<1>0. /\ trial[w].result \in Costs
      /\ bestResult' \in Nat /\ bestResult \in Nat /\ bestResult' < bestResult
      /\ bestResult' # Unscored
      /\ seen[w].objective = objective
      /\ \A u \in Workers : island[u].initialized => island[u].currentCost \in Nat
      /\ snapshot.cost \in Nat
  <2>1. trial[w].result \in Costs
    BY CostFacts DEF ResultIsScore, Scored, TypeOK
  <2>2. \A u \in Workers : island[u].initialized => island[u].currentCost \in Nat
    BY CostFacts, IslandFields DEF TypeOK
  <2>3. seen[w].objective = objective
    BY DEF ObjectiveKnown, Running, Scored
  <2> QED
    BY <2>1, <2>2, <2>3, CostFacts DEF TypeOK, StillBetter
<1>a. \A u \in Workers : pc[u] \notin Storing
  BY DEF OneStores
<1>1. TypeOK'
  BY <1>0, CostFacts, IslandFields DEF TypeOK, Places
<1>2. EditorAlone'
  BY DEF EditorAlone, TypeOK
<1>3. ObjectiveKnown'
  BY DEF ObjectiveKnown, TypeOK, Running, Scored, Storing
<1>4. OneStores'
  BY DEF OneStores, TypeOK, Storing
<1>5. Blank'
  BY DEF Blank, TypeOK, Starting
<1>6. ResultIsScore' /\ PublisherHolds' /\ StoredResult' /\ RetargetedScored'
  <2>1. ResultIsScore' /\ PublisherHolds'
    BY DEF ResultIsScore, PublisherHolds, TypeOK, Scored, Storing
  <2>2. StoredResult'
    BY <1>a DEF StoredResult, TypeOK, Storing
  <2> QED
    BY <1>0, <2>1, <2>2 DEF RetargetedScored
<1>7. SnapshotLags'
  <2>1. \A u \in Workers : pc'[u] # "storeVersion"
    BY <1>a DEF TypeOK, Storing
  <2>2. pc'[w] \in Storing
    BY DEF TypeOK, Storing
  <2> QED
    BY <1>0, <2>1, <2>2 DEF SnapshotLags
<1>8. BestIsLowest'
  <2> SUFFICES ASSUME NEW u \in Current', pc'[u] # "publish"
               PROVE  bestResult' <= island[u].currentCost
    BY DEF BestIsLowest
  <2>1. u \in Workers /\ island[u].initialized
    BY DEF Current
  <2>2. CASE u = w
    BY <1>0, <2>1, <2>2 DEF PublisherHolds
  <2>3. CASE u # w
    <3>1. bestResult <= island[u].currentCost
      BY <2>3 DEF BestIsLowest, Current, TypeOK
    <3> QED
      BY <1>0, <2>1, <3>1
  <2> QED
    BY <2>2, <2>3
<1> QED
  BY <1>1, <1>2, <1>3, <1>4, <1>5, <1>6, <1>7, <1>8

\* A publisher that was overtaken gives up.
LEMMA OvertakenIInv ==
    ASSUME IInv, NEW w \in Workers, Overtaken(w)
    PROVE  IInv'
<1> USE DEF IInv, Overtaken, Goto, published, control, locals
<1>0. AfterIteration(w) \in {"leave", "top"} /\ Settled(w) \in Pics
  BY DEF AfterIteration, Settled, TypeOK
<1>a. bestResult <= trial[w].result
  <2>1. bestResult \in Nat /\ trial[w].result \in Nat
    BY CostFacts DEF TypeOK
  <2> QED
    BY <2>1 DEF StillBetter
<1>1. TypeOK'
  BY <1>0 DEF TypeOK, Places
<1>2. EditorAlone'
  BY <1>0 DEF EditorAlone, TypeOK
<1>3. ObjectiveKnown'
  BY <1>0 DEF ObjectiveKnown, TypeOK, Running, Scored, Storing
<1>4. OneStores'
  BY <1>0 DEF OneStores, TypeOK, Storing
<1>5. Blank'
  BY <1>0 DEF Blank, TypeOK, Starting
<1>6. ResultIsScore' /\ PublisherHolds' /\ StoredResult' /\ RetargetedScored'
  BY <1>0 DEF ResultIsScore, PublisherHolds, StoredResult, RetargetedScored, TypeOK, Scored, Storing
<1>7. SnapshotLags'
  BY <1>0 DEF SnapshotLags, TypeOK, Storing
<1>8. BestIsLowest'
  <2> SUFFICES ASSUME NEW u \in Current', pc'[u] # "publish"
               PROVE  bestResult <= island[u].currentCost
    BY DEF BestIsLowest
  <2>1. CASE u = w
    BY <1>a, <2>1 DEF PublisherHolds
  <2>2. CASE u # w
    BY <2>2 DEF BestIsLowest, Current, TypeOK
  <2> QED
    BY <2>1, <2>2
<1> QED
  BY <1>1, <1>2, <1>3, <1>4, <1>5, <1>6, <1>7, <1>8

\* The publisher stores its program.
LEMMA StoreSnapshotIInv ==
    ASSUME IInv, NEW w \in Workers, StoreSnapshot(w)
    PROVE  IInv'
<1> USE DEF IInv, StoreSnapshot, Goto, published, control, locals
<1>0. /\ trial[w].result = bestResult /\ bestResult \in Nat
      /\ trial[w].result = Cost[objective][trial[w].pic]
      /\ trial[w].pic \in Pics /\ bestVersion + 1 \in Nat
  BY CostFacts DEF TypeOK, StoredResult, ResultIsScore, Storing, Scored
<1>a. snapshot' = [pic |-> trial[w].pic, cost |-> trial[w].result, version |-> bestVersion + 1]
  BY DEF PublishedPic
<1>b. \A u \in Workers : pc[u] \in Storing => u = w
  BY DEF OneStores, Storing
<1>1. TypeOK'
  <2>1. snapshot' \in [pic : Pics, cost : Costs \cup {Unscored}, version : Nat]
    BY <1>0, <1>a DEF TypeOK
  <2>2. seen' \in [Workers -> [version : Nat, objective : Objectives]]
    <3>1. seen[w] \in [version : Nat, objective : Objectives]
      BY DEF TypeOK
    <3>2. [seen[w] EXCEPT !.version = bestVersion + 1] \in [version : Nat, objective : Objectives]
      BY <1>0, <3>1
    <3> QED
      BY <3>2 DEF TypeOK
  <2>3. pc' \in [Workers -> Places]
    BY DEF TypeOK, Places
  <2> QED
    BY <2>1, <2>2, <2>3 DEF TypeOK
<1>2. EditorAlone'
  BY DEF EditorAlone, TypeOK
<1>3. ObjectiveKnown'
  BY DEF ObjectiveKnown, TypeOK, Running, Scored, Storing
<1>4. OneStores'
  BY DEF OneStores, TypeOK, Storing
<1>5. Blank'
  BY DEF Blank, TypeOK, Starting
<1>6. ResultIsScore' /\ PublisherHolds' /\ StoredResult' /\ RetargetedScored'
  BY DEF ResultIsScore, PublisherHolds, StoredResult, RetargetedScored, TypeOK, Scored, Storing
<1>7. SnapshotLags'
  <2>1. pc'[w] \in Storing
    BY DEF TypeOK, Storing
  <2>2. snapshot' # NoSnapshot
    BY <1>0, <1>a DEF NoSnapshot, TypeOK
  <2> QED
    BY <1>0, <1>a, <2>1, <2>2 DEF SnapshotLags
<1>8. BestIsLowest'
  BY DEF BestIsLowest, Current, TypeOK
<1> QED
  BY <1>1, <1>2, <1>3, <1>4, <1>5, <1>6, <1>7, <1>8

\* The publisher stores the version and lets go.
LEMMA StoreVersionIInv ==
    ASSUME IInv, NEW w \in Workers, StoreVersion(w)
    PROVE  IInv'
<1> USE DEF IInv, StoreVersion, Goto, published, control, locals
<1>0. AfterIteration(w) \in {"leave", "top"} /\ Settled(w) \in Pics
  BY DEF AfterIteration, Settled, TypeOK
<1>a. \A u \in Workers : pc[u] \in Storing => u = w
  BY DEF OneStores, Storing
<1>1. TypeOK'
  BY <1>0 DEF TypeOK, Places
<1>2. EditorAlone'
  BY <1>0 DEF EditorAlone, TypeOK
<1>3. ObjectiveKnown'
  BY <1>0 DEF ObjectiveKnown, TypeOK, Running, Scored, Storing
<1>4. OneStores'
  BY <1>0, <1>a DEF OneStores, TypeOK, Storing
<1>5. Blank'
  BY <1>0 DEF Blank, TypeOK, Starting
<1>6. ResultIsScore' /\ PublisherHolds' /\ StoredResult' /\ RetargetedScored'
  BY <1>0 DEF ResultIsScore, PublisherHolds, StoredResult, RetargetedScored, TypeOK, Scored, Storing
<1>7. SnapshotLags'
  <2>1. \A u \in Workers : pc'[u] \notin Storing
    BY <1>0, <1>a DEF TypeOK, Storing
  <2>2. snapshot.cost = bestResult /\ snapshot.version = bestVersion'
    BY DEF SnapshotLags
  <2> QED
    BY <2>1, <2>2 DEF SnapshotLags, Storing
<1>8. BestIsLowest'
  <2> SUFFICES ASSUME NEW u \in Current', pc'[u] # "publish"
               PROVE  bestResult <= island[u].currentCost
    BY DEF BestIsLowest
  <2>1. u \in Current /\ pc[u] # "publish"
    BY DEF Current, TypeOK
  <2> QED
    BY <2>1 DEF BestIsLowest
<1> QED
  BY <1>1, <1>2, <1>3, <1>4, <1>5, <1>6, <1>7, <1>8

\* A worker leaves.
LEMMA LeaveIInv ==
    ASSUME IInv, NEW w \in Workers, Leave(w)
    PROVE  IInv'
<1> USE DEF IInv, Leave, Goto, published, control, locals
<1>1. TypeOK'
  BY DEF TypeOK, Places
<1>2. EditorAlone'
  BY DEF EditorAlone, TypeOK
<1>3. ObjectiveKnown'
  BY DEF ObjectiveKnown, TypeOK, Running, Scored, Storing
<1>4. OneStores'
  BY DEF OneStores, TypeOK, Storing
<1>5. Blank'
  BY DEF Blank, TypeOK, Starting
<1>6. ResultIsScore' /\ PublisherHolds' /\ StoredResult' /\ RetargetedScored'
  BY DEF ResultIsScore, PublisherHolds, StoredResult, RetargetedScored, TypeOK, Scored, Storing
<1>7. SnapshotLags'
  BY DEF SnapshotLags, TypeOK, Storing
<1>8. BestIsLowest'
  BY DEF BestIsLowest, Current, TypeOK
<1> QED
  BY <1>1, <1>2, <1>3, <1>4, <1>5, <1>6, <1>7, <1>8

\* Another worker starts.
LEMMA StartWorkerIInv ==
    ASSUME IInv, NEW w \in Workers, StartWorker(w)
    PROVE  IInv'
<1> USE DEF IInv, StartWorker, Goto, published, control, locals
<1>1. TypeOK'
  BY DEF TypeOK, Places
<1>2. EditorAlone'
  BY DEF EditorAlone, TypeOK
<1>3. ObjectiveKnown'
  BY DEF ObjectiveKnown, TypeOK, Running, Scored, Storing
<1>4. OneStores'
  BY DEF OneStores, TypeOK, Storing
<1>5. Blank'
  BY DEF Blank, TypeOK, Starting
<1>6. ResultIsScore' /\ PublisherHolds' /\ StoredResult' /\ RetargetedScored'
  BY DEF ResultIsScore, PublisherHolds, StoredResult, RetargetedScored, TypeOK, Scored, Storing
<1>7. SnapshotLags'
  BY DEF SnapshotLags, TypeOK, Storing
<1>8. BestIsLowest'
  BY DEF BestIsLowest, Current, TypeOK
<1> QED
  BY <1>1, <1>2, <1>3, <1>4, <1>5, <1>6, <1>7, <1>8

\* The editor asks for a pause.
LEMMA RequestPauseIInv ==
    ASSUME IInv, RequestPause
    PROVE  IInv'
<1> USE DEF IInv, RequestPause, published, control, locals
<1>1. TypeOK'
  BY DEF TypeOK, Places
<1>2. EditorAlone'
  BY DEF EditorAlone, TypeOK
<1>3. ObjectiveKnown'
  BY DEF ObjectiveKnown, TypeOK, Running, Scored, Storing
<1>4. OneStores'
  BY DEF OneStores, TypeOK, Storing
<1>5. Blank'
  BY DEF Blank, TypeOK, Starting
<1>6. ResultIsScore' /\ PublisherHolds' /\ StoredResult' /\ RetargetedScored'
  BY DEF ResultIsScore, PublisherHolds, StoredResult, RetargetedScored, TypeOK, Scored, Storing
<1>7. SnapshotLags'
  BY DEF SnapshotLags, TypeOK, Storing
<1>8. BestIsLowest'
  BY DEF BestIsLowest, Current, TypeOK
<1> QED
  BY <1>1, <1>2, <1>3, <1>4, <1>5, <1>6, <1>7, <1>8

\* The editor opens.
LEMMA OpenEditorIInv ==
    ASSUME IInv, OpenEditor
    PROVE  IInv'
<1> USE DEF IInv, OpenEditor, published, control, locals
<1>1. TypeOK'
  BY DEF TypeOK, Places
<1>2. EditorAlone'
  BY DEF EditorAlone, AllParked, Active, Parked, TypeOK, Places
<1>3. ObjectiveKnown'
  BY DEF ObjectiveKnown, TypeOK, Running, Scored, Storing
<1>4. OneStores'
  BY DEF OneStores, TypeOK, Storing
<1>5. Blank'
  BY DEF Blank, TypeOK, Starting
<1>6. ResultIsScore' /\ PublisherHolds' /\ StoredResult' /\ RetargetedScored'
  BY DEF ResultIsScore, PublisherHolds, StoredResult, RetargetedScored, TypeOK, Scored, Storing
<1>7. SnapshotLags'
  BY DEF SnapshotLags, TypeOK, Storing
<1>8. BestIsLowest'
  BY DEF BestIsLowest, Current, TypeOK
<1> QED
  BY <1>1, <1>2, <1>3, <1>4, <1>5, <1>6, <1>7, <1>8

\* The editor closes.
LEMMA DiscardIInv ==
    ASSUME IInv, Discard
    PROVE  IInv'
<1> USE DEF IInv, Discard, published, control, locals
<1>1. TypeOK'
  BY DEF TypeOK, Places
<1>2. EditorAlone'
  BY DEF EditorAlone, TypeOK
<1>3. ObjectiveKnown'
  BY DEF ObjectiveKnown, TypeOK, Running, Scored, Storing
<1>4. OneStores'
  BY DEF OneStores, TypeOK, Storing
<1>5. Blank'
  BY DEF Blank, TypeOK, Starting
<1>6. ResultIsScore' /\ PublisherHolds' /\ StoredResult' /\ RetargetedScored'
  BY DEF ResultIsScore, PublisherHolds, StoredResult, RetargetedScored, TypeOK, Scored, Storing
<1>7. SnapshotLags'
  BY DEF SnapshotLags, TypeOK, Storing
<1>8. BestIsLowest'
  BY DEF BestIsLowest, Current, TypeOK
<1> QED
  BY <1>1, <1>2, <1>3, <1>4, <1>5, <1>6, <1>7, <1>8

\* A retarget raises the objective, which no island knows yet.
LEMMA RetargetIInv ==
    ASSUME IInv, Retarget
    PROVE  IInv'
<1> USE DEF IInv, Retarget, published, control, locals
<1>0. /\ LoadedPic \in Pics
      /\ objective \in Nat /\ objective' = objective + 1 /\ objective' \in Objectives
      /\ bestResult' = Cost[objective'][LoadedPic] /\ bestResult' \in Costs
      /\ bestVersion + 1 \in Nat
      /\ snapshot' = [pic |-> LoadedPic, cost |-> bestResult', version |-> bestVersion']
  <2>1. LoadedPic \in Pics
    BY DEF TypeOK, LoadedPic
  <2>2. objective \in Nat /\ objective' = objective + 1 /\ objective' \in Objectives
    BY DEF TypeOK, Objectives
  <2>3. bestResult' = Cost[objective'][LoadedPic] /\ bestResult' \in Costs
    BY <2>1, <2>2, CostFacts DEF RescoredBest
  <2> QED
    BY <2>1, <2>2, <2>3 DEF TypeOK
<1>a. \A w \in Workers : pc[w] \in {"paused", "leave", "done"}
  BY DEF EditorAlone
<1>b. \A w \in Workers : seen[w].objective < objective'
  <2> SUFFICES ASSUME NEW w \in Workers PROVE seen[w].objective < objective'
    OBVIOUS
  <2>1. seen[w].objective \in Nat /\ seen[w].objective <= objective
    BY DEF ObjectiveKnown, TypeOK, Objectives
  <2> QED
    BY <1>0, <2>1
<1>1. TypeOK'
  <2>1. snapshot' \in [pic : Pics, cost : Costs \cup {Unscored}, version : Nat]
    BY <1>0
  <2> QED
    BY <1>0, <2>1 DEF TypeOK
<1>2. EditorAlone'
  BY DEF EditorAlone, TypeOK
<1>3. ObjectiveKnown'
  <2>1. \A w \in Workers : seen[w].objective \in Nat
    BY DEF TypeOK, Objectives
  <2> QED
    BY <1>0, <1>a, <1>b, <2>1 DEF ObjectiveKnown, Running, Scored, Storing
<1>4. OneStores'
  BY DEF OneStores, TypeOK, Storing
<1>5. Blank'
  BY DEF Blank, TypeOK, Starting
<1>6. ResultIsScore' /\ PublisherHolds' /\ StoredResult' /\ RetargetedScored'
  <2>1. bestResult' # Unscored
    BY <1>0, CostFacts
  <2> QED
    BY <1>a, <2>1 DEF ResultIsScore, PublisherHolds, StoredResult, RetargetedScored, Scored, Storing
<1>7. SnapshotLags'
  <2>1. bestResult' <= bestResult'
    BY <1>0, CostFacts
  <2> QED
    BY <1>0, <1>a, <2>1 DEF SnapshotLags
<1>8. BestIsLowest'
  <2>1. Current' = {}
    BY <1>0, <1>b DEF Current, TypeOK, Objectives
  <2> QED
    BY <2>1 DEF BestIsLowest
<1> QED
  BY <1>1, <1>2, <1>3, <1>4, <1>5, <1>6, <1>7, <1>8

\* The search is stopped.
LEMMA StopIInv ==
    ASSUME IInv, Stop
    PROVE  IInv'
<1> USE DEF IInv, Stop, published, control, locals
<1>1. TypeOK'
  BY DEF TypeOK, Places
<1>2. EditorAlone'
  BY DEF EditorAlone, TypeOK
<1>3. ObjectiveKnown'
  BY DEF ObjectiveKnown, TypeOK, Running, Scored, Storing
<1>4. OneStores'
  BY DEF OneStores, TypeOK, Storing
<1>5. Blank'
  BY DEF Blank, TypeOK, Starting
<1>6. ResultIsScore' /\ PublisherHolds' /\ StoredResult' /\ RetargetedScored'
  BY DEF ResultIsScore, PublisherHolds, StoredResult, RetargetedScored, TypeOK, Scored, Storing
<1>7. SnapshotLags'
  BY DEF SnapshotLags, TypeOK, Storing
<1>8. BestIsLowest'
  BY DEF BestIsLowest, Current, TypeOK
<1> QED
  BY <1>1, <1>2, <1>3, <1>4, <1>5, <1>6, <1>7, <1>8

\* IInv is preserved by every step.
LEMMA NextIInv == IInv /\ [Next]_vars => IInv'
<1> SUFFICES ASSUME IInv, [Next]_vars PROVE IInv'
  OBVIOUS
<1>1. CASE UNCHANGED vars
  <2> USE <1>1 DEF vars, published, control, locals, IInv
  <2>1. TypeOK' /\ EditorAlone' /\ ObjectiveKnown' /\ OneStores' /\ Blank'
    BY DEF TypeOK, EditorAlone, ObjectiveKnown, OneStores, Blank
  <2>2. ResultIsScore' /\ PublisherHolds' /\ StoredResult' /\ RetargetedScored'
    BY DEF ResultIsScore, PublisherHolds, StoredResult, RetargetedScored
  <2>3. SnapshotLags' /\ BestIsLowest'
    BY DEF SnapshotLags, BestIsLowest, Current
  <2> QED
    BY <2>1, <2>2, <2>3
<1>2. ASSUME NEW w \in Workers, Worker(w) \/ StartWorker(w)
      PROVE  IInv'
  BY <1>2, LoadSnapshotIInv, LoadVersionIInv, LoadBestIInv, PassIInv, ParkIInv, WakeIInv,
     ReadVersionIInv, AdoptIInv, EvaluateIInv, JudgeIInv, StoreResultIInv, OvertakenIInv,
     StoreSnapshotIInv, StoreVersionIInv, LeaveIInv, StartWorkerIInv DEF Worker
<1>3. CASE Main
  BY <1>3, RequestPauseIInv, OpenEditorIInv, DiscardIInv, RetargetIInv, StopIInv DEF Main
<1>4. CASE Terminated
  BY <1>1, <1>4 DEF Terminated
<1> QED
  BY <1>1, <1>2, <1>3, <1>4 DEF Next

LEMMA IInvHolds == Spec => []IInv
BY InitIInv, NextIInv, PTL DEF Spec

-----------------------------------------------------------------------------

\* EvalGlobalState and the locals of Run keep their types.
THEOREM SearchTypeCorrect == Spec => []TypeOK
BY IInvHolds, PTL DEF IInv

\* No island ever holds a solution better than the published best, except on
\* its way to publish it: the unlocked pre-check of Run loses no improvement.
THEOREM NoImprovementLost == Spec => []BestIsLowest
BY IInvHolds, PTL DEF IInv

\* Whoever finds the mutex free finds score, snapshot and version in agreement.
THEOREM SnapshotCorrect == Spec => []SnapshotDescribesBest
<1>1. IInv => SnapshotDescribesBest
  BY DEF IInv, SnapshotDescribesBest, SnapshotLags, OneStores
<1> QED
  BY <1>1, IInvHolds, PTL

\* What is published was accepted by the island that publishes it.
THEOREM PublishedAccepted == Spec => []PublishedWasAccepted
<1>1. IInv => PublishedWasAccepted
  BY DEF IInv, PublishedWasAccepted, PublisherHolds, Storing
<1> QED
  BY <1>1, IInvHolds, PTL

\* The editor never changes the objective under an evaluation.
THEOREM ObjectiveStable == Spec => []OneObjectivePerEvaluation
<1>1. IInv => OneObjectivePerEvaluation
  BY DEF IInv, OneObjectivePerEvaluation, ObjectiveKnown, Running, Scored, Storing
<1> QED
  BY <1>1, IInvHolds, PTL

-----------------------------------------------------------------------------
(* The refinement: StoreResult is Improve, Retarget is Retarget, all else    *)
(* stutters.                                                                 *)

\* With nobody storing the abstract version is the published one.
LEMMA VersionAtRest ==
    ASSUME \A w \in Workers : pc[w] \notin Storing
    PROVE  PublishedVersion = bestVersion
BY DEF PublishedVersion, Storing

LEMMA VersionWhileStoring ==
    ASSUME NEW w \in Workers, pc[w] \in Storing
    PROVE  PublishedVersion = bestVersion + 1
BY DEF PublishedVersion, Storing

\* A step that changes neither the three published values nor who is storing.
LEMMA Stutters ==
    ASSUME bestResult' = bestResult, bestVersion' = bestVersion, objective' = objective,
           \A w \in Workers : pc'[w] \in Storing <=> pc[w] \in Storing
    PROVE  UNCHANGED Abstract!bestVars
<1>1. PublishedVersion' = PublishedVersion
  BY DEF PublishedVersion, Storing
<1> QED
  BY <1>1 DEF Abstract!bestVars

\* Every step of the search is one of PublishedBest or a stutter.
LEMMA StepRefines ==
    ASSUME IInv, [Next]_vars
    PROVE  [Abstract!Next]_(Abstract!bestVars)
<1> USE DEF Goto, published, control, locals
<1>0. pc \in [Workers -> Places] /\ bestResult \in Nat /\ bestResult' \in Nat
  <2>1. IInv'
    BY NextIInv
  <2> QED
    BY <2>1, CostFacts DEF IInv, TypeOK
<1>1. ASSUME NEW w \in Workers, StoreResult(w)
      PROVE  Abstract!Next
  <2>1. PublishedVersion = bestVersion
    BY <1>1, VersionAtRest DEF IInv, OneStores, StoreResult
  <2>2. PublishedVersion' = bestVersion + 1
    BY <1>0, <1>1 DEF PublishedVersion, StoreResult
  <2>3. bestResult' < bestResult /\ objective' = objective
    BY <1>1 DEF StoreResult, StillBetter
  <2> QED
    BY <1>0, <2>1, <2>2, <2>3 DEF Abstract!Next, Abstract!Improve
<1>2. ASSUME NEW w \in Workers, StoreVersion(w)
      PROVE  UNCHANGED Abstract!bestVars
  <2>1. PublishedVersion = bestVersion + 1
    BY <1>2, VersionWhileStoring DEF StoreVersion, Storing
  <2>2. \A u \in Workers : pc'[u] \notin Storing
    <3>1. \A u \in Workers : pc[u] \in Storing => u = w
      BY <1>2 DEF IInv, OneStores, StoreVersion, Storing
    <3> QED
      BY <1>0, <1>2, <3>1 DEF StoreVersion, AfterIteration, Storing
  <2>3. PublishedVersion' = bestVersion'
    BY <2>2 DEF PublishedVersion, Storing
  <2> QED
    BY <1>2, <2>1, <2>3 DEF StoreVersion, Abstract!bestVars
<1>3. CASE Retarget
  <2>1. \A w \in Workers : pc[w] \notin Storing
    BY <1>3 DEF IInv, OneStores, Retarget
  <2>2. PublishedVersion = bestVersion /\ PublishedVersion' = bestVersion + 1
    BY <1>3, <2>1 DEF Retarget, PublishedVersion, Storing
  <2> QED
    BY <1>0, <1>3, <2>2 DEF Retarget, Abstract!Next, Abstract!Retarget
<1>4. ASSUME NEW w \in Workers, Worker(w) \/ StartWorker(w), ~StoreResult(w), ~StoreVersion(w)
      PROVE  UNCHANGED Abstract!bestVars
  <2>1. \A u \in Workers : pc'[u] \in Storing <=> pc[u] \in Storing
    BY <1>0, <1>4 DEF Worker, StartWorker, LoadSnapshot, LoadVersion, LoadBest, Pass, Park, Wake,
       ReadVersion, Adopt, Evaluate, Judge, Overtaken, StoreSnapshot, Leave, AfterIteration, Storing
  <2>2. bestResult' = bestResult /\ bestVersion' = bestVersion /\ objective' = objective
    BY <1>4 DEF Worker, StartWorker, LoadSnapshot, LoadVersion, LoadBest, Pass, Park, Wake,
       ReadVersion, Adopt, Evaluate, Judge, Overtaken, StoreSnapshot, Leave
  <2> QED
    BY <2>1, <2>2, Stutters
<1>5. CASE RequestPause \/ OpenEditor \/ Discard \/ Stop \/ Terminated \/ UNCHANGED vars
  <2>1. /\ bestResult' = bestResult /\ bestVersion' = bestVersion /\ objective' = objective
        /\ pc' = pc
    BY <1>5 DEF RequestPause, OpenEditor, Discard, Stop, Terminated, vars
  <2> QED
    BY <2>1, Stutters
<1> QED
  BY <1>1, <1>2, <1>3, <1>4, <1>5 DEF Next, Main

\* The search implements PublishedBest.
THEOREM SearchRefines == Spec => Publishes
<1>1. Init => Abstract!Init
  <2> SUFFICES ASSUME Init PROVE Abstract!Init
    OBVIOUS
  <2>1. bestResult \in Nat
    BY InitIInv, CostFacts DEF IInv, TypeOK
  <2>2. PublishedVersion = bestVersion
    BY VersionAtRest DEF Init, Storing
  <2> QED
    BY <2>1, <2>2 DEF Init, Abstract!Init
<1>2. IInv /\ [Next]_vars => [Abstract!Next]_(Abstract!bestVars)
  BY StepRefines
<1> QED
  BY <1>1, <1>2, IInvHolds, PTL DEF Spec, Publishes, Abstract!Spec

-----------------------------------------------------------------------------
(***************************************************************************)
(* CostNotInflated: why no island takes its program for worse than it is.  *)
(* An island starts from a program and a score read without a lock at two  *)
(* moments, so it is right only because every program that could have been *)
(* read scores no less than every best score that could have been.  That   *)
(* in turn needs the beginning: as long as there is no score, nobody has   *)
(* evaluated anything but the initial program.                             *)
(***************************************************************************)

\* Without a score every worker holds the initial program, and all it can have
\* scored is that one.
AllFirst ==
    bestResult = Unscored =>
        \A w \in Workers :
            /\ held[w] = InitialPic
            /\ IF pc[w] \in {"judge", "publish"} THEN trial[w].pic = InitialPic ELSE fresh[w]

\* Without a snapshot m_best_pic is the initial program still, and the best
\* score no higher than its score.
FirstPic ==
    snapshot = NoSnapshot =>
        /\ bestPic = InitialPic
        /\ bestResult # Unscored => bestResult <= Cost[objective][InitialPic]

\* The program a starting worker has loaded is no better than the best score it
\* will load.
StartsAbove ==
    \A w \in Workers : pc[w] \in {"loadVersion", "loadBest"} /\ bestResult # Unscored =>
        bestResult <= Cost[objective][held[w]]

\* CostNotInflated, of the parked workers and of those that judge as well.
Floor ==
    \A w \in Current :
        pc[w] \in {"top", "paused", "readVersion", "adopt", "evaluate", "judge"} =>
            island[w].currentCost <= Cost[objective][held[w]]

FInv == AllFirst /\ FirstPic /\ StartsAbove /\ Floor

\* What the types say of the numbers compared here.
LEMMA Scores ==
    ASSUME IInv
    PROVE  /\ \A p \in Pics : Cost[objective][p] \in Nat /\ Cost[objective][p] < Unscored
           /\ bestResult \in Nat /\ bestResult <= Unscored
           /\ bestResult = Unscored => snapshot = NoSnapshot /\ objective = 0
           /\ \A w \in Workers : held[w] \in Pics /\ trial[w].pic \in Pics
           /\ \A w \in Workers : island[w].initialized => island[w].currentCost \in Nat
<1>1. objective \in Objectives /\ objective \in Nat
  BY DEF IInv, TypeOK, Objectives
<1>2. \A p \in Pics : Cost[objective][p] \in Nat /\ Cost[objective][p] < Unscored
  BY <1>1
<1>3. bestResult \in Nat /\ bestResult <= Unscored
  BY CostFacts DEF IInv, TypeOK
<1>4. bestResult = Unscored => snapshot = NoSnapshot
  <2> SUFFICES ASSUME bestResult = Unscored, snapshot # NoSnapshot PROVE FALSE
    OBVIOUS
  <2>1. snapshot.pic \in Pics /\ snapshot.cost = Cost[objective][snapshot.pic]
        /\ bestResult <= snapshot.cost
    BY DEF IInv, TypeOK, SnapshotLags
  <2> QED
    BY <1>2, <2>1
<1>5. bestResult = Unscored => objective = 0
  BY <1>1 DEF IInv, RetargetedScored
<1>6. \A w \in Workers : held[w] \in Pics /\ trial[w].pic \in Pics
  BY DEF IInv, TypeOK
<1>7. \A w \in Workers : island[w].initialized => island[w].currentCost \in Nat
  BY IslandFields, CostFacts DEF IInv, TypeOK
<1> QED
  BY <1>2, <1>3, <1>4, <1>5, <1>6, <1>7

LEMMA InitFInv == Init => FInv
<1> SUFFICES ASSUME Init PROVE FInv
  OBVIOUS
<1>1. bestResult # Unscored => bestResult <= Cost[objective][InitialPic]
  BY InitIInv, Scores DEF Init
<1>2. AllFirst /\ FirstPic /\ StartsAbove
  BY <1>1 DEF Init, AllFirst, FirstPic, StartsAbove
<1>3. Current = {}
  BY IslandFields DEF Init, Current
<1> QED
  BY <1>2, <1>3 DEF FInv, Floor

\* Steps that only move a worker, within the loop or outside it.
LEMMA MoveFInv ==
    ASSUME IInv, FInv, NEW w \in Workers,
           Pass(w) \/ Park(w) \/ ReadVersion(w) \/ Leave(w) \/ StartWorker(w)
    PROVE  FInv'
<1> USE DEF IInv, FInv, Goto, published, control, locals
<1>1. \E q \in {"paused", "readVersion", "adopt", "evaluate", "done", "loadSnapshot"} :
        /\ pc' = [pc EXCEPT ![w] = q]
        /\ q \in {"paused", "readVersion", "adopt", "evaluate"} => pc[w] \in {"top", "readVersion"}
        /\ pc[w] \notin {"judge", "publish"}
  BY DEF Pass, Park, ReadVersion, Leave, StartWorker
<1>2. UNCHANGED <<published, bestPic, objective, locals>>
  BY DEF Pass, Park, ReadVersion, Leave, StartWorker
<1>3. AllFirst' /\ FirstPic'
  BY <1>1, <1>2 DEF AllFirst, FirstPic, TypeOK
<1>4. StartsAbove'
  BY <1>1, <1>2 DEF StartsAbove, TypeOK
<1>5. Floor'
  BY <1>1, <1>2 DEF Floor, Current, TypeOK
<1> QED
  BY <1>3, <1>4, <1>5

\* What a starting worker loads is no better than the best score.
LEMMA LoadSnapshotFInv ==
    ASSUME IInv, FInv, NEW w \in Workers, LoadSnapshot(w)
    PROVE  FInv'
<1> USE DEF IInv, FInv, LoadSnapshot, Goto, published, control, locals
<1>1. AllFirst' /\ FirstPic'
  BY Scores DEF AllFirst, FirstPic, TypeOK, LoadedPic
<1>2. bestResult # Unscored => bestResult <= Cost[objective][LoadedPic]
  BY DEF FirstPic, SnapshotLags, LoadedPic
<1>3. StartsAbove'
  BY <1>2 DEF StartsAbove, TypeOK
<1>4. Floor'
  BY DEF Floor, Current, TypeOK
<1> QED
  BY <1>1, <1>3, <1>4

LEMMA LoadVersionFInv ==
    ASSUME IInv, FInv, NEW w \in Workers, LoadVersion(w)
    PROVE  FInv'
<1> USE DEF IInv, FInv, LoadVersion, Goto, published, control, locals
<1>1. AllFirst' /\ FirstPic'
  BY DEF AllFirst, FirstPic, TypeOK
<1>2. StartsAbove'
  BY DEF StartsAbove, TypeOK
<1>3. Floor'
  BY IslandFields DEF Floor, Current, TypeOK, Blank, Starting
<1> QED
  BY <1>1, <1>2, <1>3

\* The island starts from the best score, if there is one.
LEMMA LoadBestFInv ==
    ASSUME IInv, FInv, NEW w \in Workers, LoadBest(w)
    PROVE  FInv'
<1> USE DEF IInv, FInv, LoadBest, Goto, published, control, locals
<1>1. AllFirst' /\ FirstPic'
  BY DEF AllFirst, FirstPic, TypeOK
<1>2. StartsAbove'
  BY DEF StartsAbove, TypeOK
<1>3. Floor'
  <2> SUFFICES ASSUME NEW u \in Current',
                      pc'[u] \in {"top", "paused", "readVersion", "adopt", "evaluate", "judge"}
               PROVE  island'[u].currentCost <= Cost[objective][held[u]]
    BY DEF Floor
  <2>1. CASE u # w
    BY <2>1 DEF Floor, Current, TypeOK
  <2>2. CASE u = w
    <3>1. bestResult # Unscored
      BY <2>2, IslandFields DEF Current, TypeOK
    <3>2. bestResult <= Cost[objective][held[w]] /\ bestResult \in Costs
      BY <3>1 DEF StartsAbove, TypeOK
    <3>3. island'[w] = Initialized(bestResult, HistorySize)
      BY <3>1 DEF TypeOK
    <3> QED
      BY <2>2, <3>2, <3>3, IslandFields
  <2> QED
    BY <2>1, <2>2
<1> QED
  BY <1>1, <1>2, <1>3

\* A worker that starts over takes the best program with exactly its score.
LEMMA WakeFInv ==
    ASSUME IInv, FInv, NEW w \in Workers, Wake(w)
    PROVE  FInv'
<1> USE DEF IInv, FInv, Wake, Goto, published, control, locals
<1>1. Reinitializes(w) =>
        /\ bestResult # Unscored /\ bestResult \in Costs
        /\ bestResult <= Cost[objective][LoadedPic]
  <2>1. seen[w].objective \in Nat /\ objective \in Nat /\ seen[w].objective <= objective
    BY DEF ObjectiveKnown, TypeOK, Objectives
  <2>2. Reinitializes(w) => objective > 0
    BY <2>1 DEF Reinitializes
  <2> QED
    BY <2>2 DEF RetargetedScored, FirstPic, SnapshotLags, LoadedPic, TypeOK
<1>2. pc' = [pc EXCEPT ![w] = IF finished THEN "leave" ELSE "readVersion"]
  OBVIOUS
<1>3. AllFirst' /\ FirstPic'
  BY <1>1 DEF AllFirst, FirstPic, TypeOK
<1>4. StartsAbove'
  <2>1. \A u \in Workers : pc'[u] \in {"loadVersion", "loadBest"} =>
          u # w /\ pc[u] = pc'[u] /\ held'[u] = held[u]
    BY <1>2 DEF TypeOK
  <2> QED
    BY <2>1 DEF StartsAbove
<1>5. Floor'
  <2> SUFFICES ASSUME NEW u \in Current',
                      pc'[u] \in {"top", "paused", "readVersion", "adopt", "evaluate", "judge"}
               PROVE  island'[u].currentCost <= Cost[objective][held'[u]]
    BY DEF Floor
  <2>1. CASE u = w /\ Reinitializes(w)
    BY <1>1, <2>1, IslandFields DEF TypeOK
  <2>2. CASE u # w \/ ~Reinitializes(w)
    BY <2>2 DEF Floor, Current, TypeOK
  <2> QED
    BY <2>1, <2>2
<1> QED
  BY <1>3, <1>4, <1>5

\* Migration takes over a program with its own score.
LEMMA AdoptFInv ==
    ASSUME IInv, FInv, NEW w \in Workers, Adopt(w)
    PROVE  FInv'
<1> USE DEF IInv, FInv, Adopt, Goto, published, control, locals
<1>1. snapshot # NoSnapshot =>
        /\ snapshot.cost \in Costs /\ snapshot.cost \in Nat
        /\ snapshot.cost = Cost[objective][snapshot.pic]
  BY CostFacts DEF SnapshotLags, TypeOK
<1>2. AllFirst' /\ FirstPic'
  BY Scores DEF AllFirst, FirstPic, TypeOK
<1>3. StartsAbove'
  <2>1. \A u \in Workers : pc'[u] \in {"loadVersion", "loadBest"} =>
          u # w /\ pc[u] = pc'[u] /\ held'[u] = held[u]
    BY DEF TypeOK
  <2> QED
    BY <2>1 DEF StartsAbove
<1>4. Floor'
  <2> SUFFICES ASSUME NEW u \in Current',
                      pc'[u] \in {"top", "paused", "readVersion", "adopt", "evaluate", "judge"}
               PROVE  island'[u].currentCost <= Cost[objective][held'[u]]
    BY DEF Floor
  <2> DEFINE taken == snapshot # NoSnapshot /\ snapshot.version # seen[w].version /\ Migrates(w)
  <2>1. CASE u = w /\ taken
    <3>1. held'[w] = snapshot.pic /\ island'[w] = Initialized(snapshot.cost, HistorySize)
      BY <2>1 DEF TypeOK
    <3>2. island'[w].currentCost = snapshot.cost
      BY <1>1, <2>1, <3>1, IslandFields
    <3> QED
      BY <1>1, <2>1, <3>1, <3>2
  <2>2. CASE u # w
    BY <2>2 DEF Floor, Current, TypeOK
  <2>3. CASE u = w /\ ~taken
    <3>1. island' = island /\ held' = held /\ pc[w] = "adopt"
      BY <2>3
    <3>2. seen[w].objective = objective
      BY <3>1 DEF ObjectiveKnown, Running
    <3> QED
      BY <2>3, <3>1, <3>2 DEF Floor, Current
  <2> QED
    BY <2>1, <2>2, <2>3
<1> QED
  BY <1>2, <1>3, <1>4

\* Without a score the candidate can only be the initial program.
LEMMA EvaluateFInv ==
    ASSUME IInv, FInv, NEW w \in Workers, Evaluate(w)
    PROVE  FInv'
<1> USE DEF IInv, FInv, Evaluate, Goto, published, control, locals
<1>1. PICK p \in Pics :
        /\ fresh[w] => p = held[w]
        /\ \E number \in Nat : trial' = [trial EXCEPT ![w].pic = p,
                                                      ![w].result = Cost[objective][p],
                                                      ![w].number = number]
  <2>1. evaluations \in Nat /\ held[w] \in Pics
    BY DEF TypeOK
  <2>2. (IF Reconstructing(w) THEN evaluations ELSE evaluations + 1) \in Nat
    BY <2>1
  <2>3. (IF fresh[w] THEN {held[w]} ELSE Pics) \subseteq Pics
    BY <2>1
  <2> QED
    BY <2>2, <2>3
<1>2. AllFirst'
  BY <1>1 DEF AllFirst, TypeOK
<1>3. FirstPic' /\ StartsAbove'
  BY DEF FirstPic, StartsAbove, TypeOK
<1>4. Floor'
  BY DEF Floor, Current, TypeOK
<1> QED
  BY <1>2, <1>3, <1>4

\* A rejected candidate leaves the island as it is; without a score none is.
LEMMA JudgeFInv ==
    ASSUME IInv, FInv, NEW w \in Workers, Judge(w)
    PROVE  FInv'
<1> USE DEF IInv, FInv, Judge, Goto, published, control, locals
<1> DEFINE result == trial[w].result
           start  == IF island[w].initialized THEN island[w] ELSE Initialized(result, HistorySize)
<1>0. /\ result = Cost[objective][trial[w].pic] /\ result \in Costs /\ result < Unscored
      /\ start \in States(HistorySize, Costs)
      /\ start.currentCost \in Nat /\ result \in Nat
      /\ ~island[w].initialized => start.currentCost = result
  <2>1. result = Cost[objective][trial[w].pic] /\ result \in Costs
    BY CostFacts DEF TypeOK, ResultIsScore, Scored
  <2>2. island[w] \in {Fresh} \cup States(HistorySize, Costs)
    BY DEF TypeOK
  <2> QED
    BY <2>1, <2>2, CostFacts, IslandFields
<1>a. PICK drift \in Drifts :
        LET outcome == Apply(Kind, start, result, drift)
        IN  /\ island' = [island EXCEPT ![w] = outcome.state]
            /\ trial' = [trial EXCEPT ![w].accepted = outcome.accepted, ![w].stop = finished']
  OBVIOUS
<1> DEFINE outcome == Apply(Kind, start, result, drift)
<1>b. /\ outcome.accepted \in BOOLEAN
      /\ outcome.state.currentCost = IF outcome.accepted THEN result ELSE start.currentCost
      /\ result <= start.currentCost => outcome.accepted
  <2> HIDE DEF start, result
  <2> QED
    BY <1>0, TheRing, ApplyTyped
<1>c. /\ island' = [island EXCEPT ![w] = outcome.state]
      /\ trial' = [trial EXCEPT ![w].accepted = outcome.accepted, ![w].stop = finished']
  BY <1>a
<1>d. ~outcome.accepted => island[w].initialized /\ start = island[w]
  BY <1>0, <1>b, SMTT(30)
<1> HIDE DEF start, outcome
<1>e. AfterIteration(w) \in {"leave", "top"} /\ trial'[w].accepted = outcome.accepted
  BY <1>c DEF AfterIteration, TypeOK
<1>f. bestResult = Unscored => PotentialImprovement(w)
  BY <1>0 DEF PotentialImprovement
<1>1. AllFirst'
  <2> SUFFICES ASSUME bestResult = Unscored PROVE AllFirst'
    BY DEF AllFirst
  <2>1. pc' = [pc EXCEPT ![w] = "publish"] /\ held' = held
    BY <1>f
  <2>2. \A u \in Workers : trial'[u].pic = trial[u].pic
    BY <1>c DEF TypeOK
  <2> QED
    BY <2>1, <2>2 DEF AllFirst, TypeOK
<1>2. FirstPic'
  BY DEF FirstPic
<1>3. StartsAbove'
  <2>1. \A u \in Workers : pc'[u] \in {"loadVersion", "loadBest"} =>
          u # w /\ pc[u] = pc'[u] /\ held'[u] = held[u]
    BY <1>e DEF TypeOK
  <2> QED
    BY <2>1 DEF StartsAbove
<1>4. Floor'
  <2> SUFFICES ASSUME NEW u \in Current',
                      pc'[u] \in {"top", "paused", "readVersion", "adopt", "evaluate", "judge"}
               PROVE  island'[u].currentCost <= Cost[objective][held'[u]]
    BY DEF Floor
  <2>1. CASE u # w
    <3>1. island'[u] = island[u]
      BY <1>c, <2>1 DEF TypeOK
    <3>2. pc'[u] = pc[u] /\ held'[u] = held[u]
      <4>1. pc \in [Workers -> Places] /\ held \in [Workers -> Pics] /\ u \in Workers
        BY DEF TypeOK, Current
      <4>2. CASE PotentialImprovement(w)
        BY <2>1, <4>1, <4>2
      <4>3. CASE ~PotentialImprovement(w)
        BY <2>1, <4>1, <4>3
      <4> QED
        BY <4>2, <4>3
    <3> QED
      BY <3>1, <3>2 DEF Floor, Current
  <2>2. CASE u = w
    <3>1. ~PotentialImprovement(w)
      BY <2>2 DEF TypeOK
    <3>2. held'[w] = IF outcome.accepted THEN trial[w].pic ELSE held[w]
      BY <1>e, <3>1 DEF Settled, TypeOK
    <3>3. island'[w].currentCost = IF outcome.accepted THEN result ELSE start.currentCost
      BY <1>b, <1>c DEF TypeOK
    <3>4. CASE outcome.accepted
      BY <1>0, <2>2, <3>2, <3>3, <3>4, SMTT(30)
    <3>5. CASE ~outcome.accepted
      <4>1. island[w].initialized /\ seen[w].objective = objective
        BY <1>d, <3>5 DEF ObjectiveKnown, Running, Scored
      <4>2. island[w].currentCost <= Cost[objective][held[w]]
        BY <4>1 DEF Floor, Current
      <4> QED
        BY <1>d, <2>2, <3>2, <3>3, <3>5, <4>2
    <3> QED
      BY <3>4, <3>5
  <2> QED
    BY <2>1, <2>2
<1> QED
  BY <1>1, <1>2, <1>3, <1>4

\* The best score only falls, and the first one is the initial program's.
LEMMA StoreResultFInv ==
    ASSUME IInv, FInv, NEW w \in Workers, StoreResult(w)
    PROVE  FInv'
<1> USE DEF IInv, FInv, StoreResult, Goto, published, control, locals
<1>1. /\ bestResult' = Cost[objective][trial[w].pic]
      /\ bestResult' \in Nat /\ bestResult' < bestResult /\ bestResult' # Unscored
  BY Scores DEF ResultIsScore, Scored, StillBetter
<1>2. bestResult = Unscored => trial[w].pic = InitialPic
  BY DEF AllFirst
<1>3. AllFirst'
  BY <1>1 DEF AllFirst
<1>4. FirstPic'
  <2>1. Cost[objective][InitialPic] \in Nat /\ bestResult \in Nat
    BY Scores
  <2>2. CASE bestResult = Unscored
    BY <1>1, <1>2, <2>1, <2>2 DEF FirstPic
  <2>3. CASE bestResult # Unscored
    BY <1>1, <2>1, <2>3 DEF FirstPic
  <2> QED
    BY <2>2, <2>3
<1>5. StartsAbove'
  <2> SUFFICES ASSUME NEW u \in Workers, pc'[u] \in {"loadVersion", "loadBest"}
               PROVE  bestResult' <= Cost[objective][held[u]]
    BY DEF StartsAbove
  <2>1. pc[u] = pc'[u] /\ bestResult \in Nat /\ Cost[objective][held[u]] \in Nat
    BY Scores DEF TypeOK
  <2>2. CASE bestResult = Unscored
    <3>1. held[u] = InitialPic
      BY <2>2 DEF AllFirst
    <3> QED
      BY <1>1, <1>2, <2>1, <2>2, <3>1
  <2>3. CASE bestResult # Unscored
    BY <1>1, <2>1, <2>3 DEF StartsAbove
  <2> QED
    BY <2>2, <2>3
<1>6. Floor'
  BY DEF Floor, Current, TypeOK
<1> QED
  BY <1>3, <1>4, <1>5, <1>6

LEMMA StoreSnapshotFInv ==
    ASSUME IInv, FInv, NEW w \in Workers, StoreSnapshot(w)
    PROVE  FInv'
<1> USE DEF IInv, FInv, StoreSnapshot, Goto, published, control, locals
<1>1. trial[w].result # Unscored /\ bestResult # Unscored
  BY Scores DEF ResultIsScore, Scored, StoredResult, Storing
<1>2. AllFirst' /\ FirstPic'
  BY <1>1 DEF AllFirst, FirstPic, NoSnapshot
<1>3. StartsAbove'
  BY DEF StartsAbove, TypeOK
<1>4. Floor'
  BY DEF Floor, Current, TypeOK
<1> QED
  BY <1>2, <1>3, <1>4

\* After publication, or on finding itself overtaken, the island holds the
\* program whose score it compares with.
LEMMA SettleFInv ==
    ASSUME IInv, FInv, NEW w \in Workers, Overtaken(w) \/ StoreVersion(w)
    PROVE  FInv'
<1> USE DEF IInv, FInv, Goto, published, control, locals
<1>1. /\ pc[w] \in {"publish", "storeVersion"}
      /\ pc' = [pc EXCEPT ![w] = AfterIteration(w)] /\ held' = [held EXCEPT ![w] = Settled(w)]
      /\ UNCHANGED <<bestResult, snapshot, bestPic, objective, island, seen, fresh, trial>>
  BY DEF Overtaken, StoreVersion
<1>2. /\ trial[w].accepted /\ island[w].currentCost = trial[w].result
      /\ trial[w].result = Cost[objective][trial[w].pic]
      /\ trial[w].result \in Nat
  BY <1>1, Scores DEF PublisherHolds, ResultIsScore, Scored, Storing
<1>3. bestResult # Unscored
  BY <1>1, <1>2, Scores DEF Overtaken, StoreVersion, StillBetter, StoredResult, Storing
<1>4. AfterIteration(w) \in {"leave", "top"} /\ Settled(w) = trial[w].pic
  BY <1>1, <1>2 DEF AfterIteration, Settled
<1>5. AllFirst' /\ FirstPic'
  BY <1>1, <1>3 DEF AllFirst, FirstPic
<1>6. StartsAbove'
  <2>1. \A u \in Workers : pc'[u] \in {"loadVersion", "loadBest"} =>
          u # w /\ pc[u] = pc'[u] /\ held'[u] = held[u]
    BY <1>1, <1>4 DEF TypeOK
  <2> QED
    BY <1>1, <2>1 DEF StartsAbove
<1>7. Floor'
  <2> SUFFICES ASSUME NEW u \in Current',
                      pc'[u] \in {"top", "paused", "readVersion", "adopt", "evaluate", "judge"}
               PROVE  island[u].currentCost <= Cost[objective][held'[u]]
    BY <1>1 DEF Floor
  <2>1. CASE u # w
    BY <1>1, <2>1 DEF Floor, Current, TypeOK
  <2>2. CASE u = w
    <3>1. held'[w] = trial[w].pic
      BY <1>1, <1>4 DEF TypeOK
    <3> QED
      BY <1>2, <2>2, <3>1
  <2> QED
    BY <2>1, <2>2
<1> QED
  BY <1>5, <1>6, <1>7

\* The main thread changes scores and programs only while everybody is parked,
\* and then no island knows the objective in force.
LEMMA MainFInv ==
    ASSUME IInv, FInv, Main
    PROVE  FInv'
<1> USE DEF IInv, FInv, published, control, locals
<1>1. CASE Retarget
  <2>1. \A w \in Workers : pc[w] \in {"paused", "leave", "done"} /\ pc'[w] = pc[w]
    BY <1>1 DEF Retarget, EditorAlone
  <2>2. /\ objective' \in Objectives /\ LoadedPic \in Pics
        /\ bestResult' = Cost[objective'][LoadedPic]
        /\ snapshot' = [pic |-> LoadedPic, cost |-> bestResult', version |-> bestVersion']
        /\ \A w \in Workers : seen'[w].objective # objective'
    BY <1>1 DEF Retarget, RescoredBest, LoadedPic, TypeOK, Objectives, ObjectiveKnown
  <2>3. bestResult' # Unscored
    BY <2>2
  <2>4. snapshot' # NoSnapshot
    BY <2>2, <2>3 DEF NoSnapshot
  <2>5. Current' = {}
    BY <2>2 DEF Current
  <2> QED
    BY <2>1, <2>3, <2>4, <2>5 DEF AllFirst, FirstPic, StartsAbove, Floor
<1>2. CASE RequestPause \/ OpenEditor \/ Discard \/ Stop
  <2>1. UNCHANGED <<published, bestPic, objective, pc, locals>>
    BY <1>2 DEF RequestPause, OpenEditor, Discard, Stop
  <2> QED
    BY <2>1 DEF AllFirst, FirstPic, StartsAbove, Floor, Current
<1> QED
  BY <1>1, <1>2 DEF Main

LEMMA NextFInv == IInv /\ FInv /\ [Next]_vars => FInv'
<1> SUFFICES ASSUME IInv, FInv, [Next]_vars PROVE FInv'
  OBVIOUS
<1>1. CASE UNCHANGED vars
  BY <1>1 DEF vars, published, control, locals, FInv, AllFirst, FirstPic, StartsAbove, Floor, Current
<1>2. ASSUME NEW w \in Workers, Worker(w) \/ StartWorker(w)
      PROVE  FInv'
  BY <1>2, LoadSnapshotFInv, LoadVersionFInv, LoadBestFInv, MoveFInv, WakeFInv, AdoptFInv,
     EvaluateFInv, JudgeFInv, StoreResultFInv, StoreSnapshotFInv, SettleFInv DEF Worker
<1>3. CASE Main
  BY <1>3, MainFInv
<1>4. CASE Terminated
  BY <1>1, <1>4 DEF Terminated
<1> QED
  BY <1>1, <1>2, <1>3, <1>4 DEF Next

\* No island about to mutate its program compares candidates with a cost above
\* the score of that program.
THEOREM CostCorrect == Spec => []CostNotInflated
<1>1. FInv => CostNotInflated
  BY DEF FInv, Floor, CostNotInflated
<1> QED
  BY <1>1, InitFInv, NextFInv, IInvHolds, PTL DEF Spec

-----------------------------------------------------------------------------
(***************************************************************************)
(* OvershootBounded: an evaluation whose number reaches the limit is the   *)
(* last of its worker, so those beyond the limit are the work of distinct  *)
(* workers.                                                                *)
(***************************************************************************)

\* The workers whose latest evaluation was counted from there on.
Spent == {w \in Workers : trial[w].number >= LastFrom}

\* They have decided to stop, or are about to, and do not evaluate again.
SpentStop ==
    \A w \in Spent :
        /\ pc[w] \in Scored \cup {"leave", "done"}
        /\ pc[w] \in Scored \ {"judge"} => trial[w].stop

\* There are as many of them as evaluations from the limit on.
SpentCounted == evaluations >= LastFrom => evaluations - LastFrom + 1 <= Cardinality(Spent)

OInv == SpentStop /\ SpentCounted

LEMMA SpentFinite ==
    /\ IsFiniteSet(Spent) /\ Cardinality(Spent) \in Nat
    /\ Cardinality(Spent) <= Cardinality(Workers) /\ Cardinality(Workers) \in Nat \ {0}
<1>1. Spent \subseteq Workers /\ IsFiniteSet(Workers) /\ Workers # {}
  BY DEF Spent
<1> QED
  BY <1>1, FS_Subset, FS_CardinalityType, FS_EmptySet

LEMMA LastFromType == TypeOK => LastFrom \in Nat \ {0} /\ startedAt < LastFrom
BY DEF TypeOK, LastFrom

LEMMA LastFromKept == [Next]_vars => LastFrom' = LastFrom
<1> SUFFICES ASSUME [Next]_vars PROVE startedAt' = startedAt
  BY DEF LastFrom
<1>1. ASSUME NEW w \in Workers, Worker(w) \/ StartWorker(w) PROVE startedAt' = startedAt
  BY <1>1 DEF Worker, StartWorker, LoadSnapshot, LoadVersion, LoadBest, Pass, Park, Wake,
     ReadVersion, Adopt, Evaluate, Judge, StoreResult, Overtaken, StoreSnapshot, StoreVersion,
     Leave, control
<1>2. CASE Main \/ Terminated \/ UNCHANGED vars
  BY <1>2 DEF Main, Terminated, RequestPause, OpenEditor, Discard, Retarget, Stop, vars, control
<1> QED
  BY <1>1, <1>2 DEF Next

LEMMA InitOInv == Init => OInv
<1> SUFFICES ASSUME Init PROVE OInv
  OBVIOUS
<1>1. LastFrom \in Nat \ {0} /\ evaluations < LastFrom /\ evaluations \in Nat
  BY InitIInv, LastFromType DEF IInv, Init, TypeOK
<1>2. Spent = {}
  BY <1>1 DEF Init, Spent
<1> QED
  BY <1>1, <1>2 DEF OInv, SpentStop, SpentCounted

\* A step that evaluates nothing.
LEMMA OtherOInv ==
    ASSUME IInv, OInv, evaluations' = evaluations, LastFrom' = LastFrom,
           \A w \in Workers : trial'[w].number = trial[w].number,
           \A w \in Spent : /\ pc'[w] \in Scored \cup {"leave", "done"}
                            /\ pc'[w] \in Scored \ {"judge"} => trial'[w].stop
    PROVE  OInv'
<1>1. Spent' = Spent
  BY DEF Spent
<1> QED
  BY <1>1 DEF OInv, SpentStop, SpentCounted

LEMMA EvaluateOInv ==
    ASSUME IInv, OInv, NEW w \in Workers, Evaluate(w)
    PROVE  OInv'
<1>1. /\ evaluations \in Nat /\ LastFrom \in Nat \ {0}
      /\ evaluations' \in {evaluations, evaluations + 1}
      /\ w \notin Spent
  <2>1. evaluations \in Nat /\ LastFrom \in Nat \ {0}
    BY LastFromType DEF IInv, TypeOK
  <2>2. evaluations' \in {evaluations, evaluations + 1} /\ pc[w] = "evaluate"
    BY DEF Evaluate
  <2>3. w \notin Spent
    BY <2>2 DEF OInv, SpentStop, Scored, Storing
  <2> QED
    BY <2>1, <2>2, <2>3
<1>2. /\ pc' = [pc EXCEPT ![w] = "judge"] /\ pc \in [Workers -> Places]
      /\ \A u \in Workers : trial'[u].number = IF u = w THEN evaluations' ELSE trial[u].number
      /\ \A u \in Workers : u # w => trial'[u] = trial[u]
  BY DEF Evaluate, Goto, IInv, TypeOK
<1>k. LastFrom' = LastFrom
  BY DEF Evaluate, LastFrom
<1>3. Spent' = IF evaluations' >= LastFrom THEN Spent \cup {w} ELSE Spent
  BY <1>1, <1>2, <1>k DEF Spent
<1>4. SpentStop'
  BY <1>2, <1>3 DEF SpentStop, OInv, Scored, Spent
<1>5. SpentCounted'
  <2> SUFFICES ASSUME evaluations' >= LastFrom
               PROVE  evaluations' - LastFrom + 1 <= Cardinality(Spent')
    BY <1>k DEF SpentCounted
  <2>1. Cardinality(Spent') = Cardinality(Spent) + 1 /\ Cardinality(Spent) \in Nat
    BY <1>1, <1>3, SpentFinite, FS_AddElement
  <2> QED
    BY <1>1, <2>1 DEF OInv, SpentCounted
<1> QED
  BY <1>4, <1>5 DEF OInv

\* The worker judging an evaluation at the limit sees the end of the search.
LEMMA JudgeOInv ==
    ASSUME IInv, OInv, NEW w \in Workers, Judge(w)
    PROVE  OInv'
<1>1. /\ pc \in [Workers -> Places]
      /\ pc' \in {[pc EXCEPT ![w] = "publish"], [pc EXCEPT ![w] = AfterIteration(w)]}
  BY DEF Judge, Goto, IInv, TypeOK
<1>2. /\ \A u \in Workers : trial'[u].number = trial[u].number
      /\ \A u \in Workers : u # w => trial'[u] = trial[u]
      /\ trial'[w].stop = finished'
  BY DEF Judge, IInv, TypeOK
<1>3. w \in Spent => finished' = TRUE
  <2>1. trial[w].number \in Nat
    BY DEF IInv, TypeOK
  <2>2. w \in Spent => ReachesLimit(trial[w].number)
    <3>1. LastFrom \in Nat /\ MaxEvals \in Nat /\ startedAt \in Nat
      BY LastFromType DEF IInv, TypeOK
    <3>2. MaxEvals <= LastFrom
      BY <3>1 DEF LastFrom
    <3> QED
      BY <2>1, <3>1, <3>2 DEF ReachesLimit, Spent
  <2> QED
    BY <2>2 DEF Judge
<1>4. w \in Spent => trial'[w].stop /\ AfterIteration(w) = "leave"
  BY <1>2, <1>3 DEF AfterIteration
<1>5. \A u \in Spent : u \in Workers /\ pc[u] \in Scored \cup {"leave", "done"}
  BY DEF OInv, SpentStop, Spent
<1>6. \A u \in Spent : /\ pc'[u] \in Scored \cup {"leave", "done"}
                       /\ pc'[u] \in Scored \ {"judge"} => trial'[u].stop
  <2> TAKE u \in Spent
  <2>1. CASE u = w
    BY <1>1, <1>4, <1>5, <2>1 DEF Scored, Storing
  <2>2. CASE u # w
    BY <1>1, <1>2, <1>5, <2>2 DEF OInv, SpentStop
  <2> QED
    BY <2>1, <2>2
<1>7. evaluations' = evaluations /\ LastFrom' = LastFrom
  BY DEF Judge, LastFrom
<1> QED
  BY <1>2, <1>6, <1>7, OtherOInv

\* A spent worker is on its way out, whatever the others and the main thread do.
LEMMA NextOInv == IInv /\ OInv /\ [Next]_vars => OInv'
<1> SUFFICES ASSUME IInv, OInv, [Next]_vars PROVE OInv'
  OBVIOUS
<1> USE DEF Goto, published, control, locals
<1>0. pc \in [Workers -> Places]
  BY DEF IInv, TypeOK
<1>1. CASE Main \/ Terminated \/ UNCHANGED vars
  <2>1. evaluations' = evaluations /\ trial' = trial /\ pc' = pc
    BY <1>1 DEF Main, Terminated, RequestPause, OpenEditor, Discard, Retarget, Stop, vars
  <2> QED
    BY <2>1, OtherOInv, LastFromKept DEF OInv, SpentStop, Spent
<1>2. ASSUME NEW w \in Workers, Evaluate(w)
      PROVE  OInv'
  BY <1>2, EvaluateOInv
<1>3. ASSUME NEW w \in Workers, Judge(w)
      PROVE  OInv'
  BY <1>3, JudgeOInv
<1>4. ASSUME NEW w \in Workers, Worker(w) \/ StartWorker(w), ~Evaluate(w), ~Judge(w)
      PROVE  OInv'
  <2>1. evaluations' = evaluations /\ trial' = trial
    BY <1>4 DEF Worker, StartWorker, LoadSnapshot, LoadVersion, LoadBest, Pass, Park, Wake,
       ReadVersion, Adopt, StoreResult, Overtaken, StoreSnapshot, StoreVersion, Leave
  <2>2. \A u \in Workers : u # w => pc'[u] = pc[u]
    BY <1>0, <1>4 DEF Worker, StartWorker, LoadSnapshot, LoadVersion, LoadBest, Pass, Park, Wake,
       ReadVersion, Adopt, StoreResult, Overtaken, StoreSnapshot, StoreVersion, Leave
  <2>3. w \in Spent => /\ pc[w] \in {"publish", "leave", "done"} \cup Storing
                       /\ pc[w] # "leave" /\ pc[w] # "done" => trial[w].stop
    BY <1>4 DEF OInv, SpentStop, Scored, Storing, Worker, StartWorker, LoadSnapshot, LoadVersion,
       LoadBest, Pass, Park, Wake, ReadVersion, Adopt, StoreResult, Overtaken, StoreSnapshot,
       StoreVersion, Leave
  <2>4. w \in Spent => pc'[w] \in {"leave", "done"} \cup Storing /\ (pc'[w] \in Storing => trial[w].stop)
    BY <1>0, <1>4, <2>1, <2>3 DEF Worker, StartWorker, LoadSnapshot, LoadVersion, LoadBest, Pass,
       Park, Wake, ReadVersion, Adopt, StoreResult, Overtaken, StoreSnapshot, StoreVersion, Leave,
       AfterIteration, Storing
  <2>5. \A u \in Spent : /\ pc'[u] \in Scored \cup {"leave", "done"}
                         /\ pc'[u] \in Scored \ {"judge"} => trial'[u].stop
    BY <2>1, <2>2, <2>4 DEF OInv, SpentStop, Spent, Scored, Storing
  <2> QED
    BY <2>1, <2>5, OtherOInv, LastFromKept
<1> QED
  BY <1>1, <1>2, <1>3, <1>4 DEF Next

\* With n workers at most n - 1 evaluations follow the one that reaches the
\* limit, or the first one of a search that starts at or past it.
THEOREM OvershootCorrect == Spec => []OvershootBounded
<1>1. IInv /\ OInv => OvershootBounded
  <2> SUFFICES ASSUME IInv, OInv PROVE evaluations <= LastFrom + Cardinality(Workers) - 1
    BY DEF OvershootBounded
  <2>1. evaluations \in Nat /\ LastFrom \in Nat \ {0}
    BY LastFromType DEF IInv, TypeOK
  <2> QED
    BY <2>1, SpentFinite DEF OInv, SpentCounted
<1> QED
  BY <1>1, InitOInv, NextOInv, IInvHolds, PTL DEF Spec

=============================================================================
