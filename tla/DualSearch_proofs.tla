--------------------------- MODULE DualSearch_proofs ---------------------------
(***************************************************************************)
(* The dual-frame search for any number of workers, any programs and what  *)
(* they render to, any stage lengths and either optimizer.                 *)
(***************************************************************************)
EXTENDS DualSearch, OptimizerState_proofs

USE DualWorkersAssumption, RenderingAssumption, DualOptimizerAssumption, StepsAssumption

\* The variables have their types, each on its own.
Typed ==
    /\ phase \in {"bootA", "bootB", "reseed", "alternate", "done"}
    /\ pics \in [Frames -> Pics] /\ shown \in [Frames -> Rows]
    /\ bestResult \in Nat /\ bestCostB \in Nat /\ acceptedCost \in Nat /\ version \in Nat
    /\ counter \in Nat /\ evaluations \in Nat /\ limit \in Nat
    /\ preview \in SUBSET Pics
    /\ generation \in [Frames -> Nat]
    /\ focus \in Frames
    /\ finished \in BOOLEAN /\ stale \in BOOLEAN
    /\ pc \in [Workers -> Places]
    /\ own \in [Workers -> [Frames -> Pics]]
    /\ rows \in [Workers -> [Frames -> Rows]]
    /\ island \in [Workers -> {Fresh} \cup States(HistorySize, Nat)]
    /\ seen \in [Workers -> Nat]
    /\ side \in [Workers -> Frames] /\ read \in [Workers -> Frames]
    /\ trial \in [Workers -> SUBSET Trials]
    /\ rendered \in [Workers -> Nat]

\* A candidate of a dual evaluation, and a remembered line, is what its program
\* renders to beside some rows of the other frame.
Beside(p, result) == \E r \in Rows : result = Paired[p][r]

CacheReal ==
    /\ DOMAIN cache = Workers
    /\ \A w \in Workers :
         /\ DOMAIN cache[w] \subseteq Pics
         /\ \A p \in DOMAIN cache[w] : Beside(p, cache[w][p])

\* The workers that found the stage over and have not yet tried to take the
\* counter back.
Exchanging == {w \in Workers : pc[w] = "exchange"}

StageCounted == AlternateSteps > 0 => counter < AlternateSteps + Cardinality(Exchanging)

\* Where the workers are in each phase; what the alternation uses is untouched
\* before it.
PhasePlaces ==
    /\ Booting => \A w \in Workers : pc[w] \in {"try", "decide", "joined"}
    /\ phase \in {"reseed", "done"} => \A w \in Workers : pc[w] = "joined"
    /\ Alternating => \A w \in Workers : pc[w] \notin {"try", "decide"}
    /\ ~Alternating => version = 0 /\ \A w \in Workers : island[w] = Fresh
    /\ ~Booting => preview = {}

\* A worker that is past its copy has an island.
HasIsland ==
    \A w \in Workers :
        Alternating /\ pc[w] \notin {"copy", "joined"} => island[w] # Fresh

\* A bootstrap scores alone, the alternation beside rows the candidate's worker
\* still holds, unless a remembered line was stale.
TrialScored ==
    \A w \in Workers : \A t \in trial[w] :
        /\ pc[w] = "decide" => t.result = Alone[t.pic]
        /\ pc[w] \in {"judge", "publish"} =>
             /\ Beside(t.pic, t.result)
             /\ ~stale => t.result = Paired[t.pic][rows[w][Other(side[w])]]

\* A candidate on its way to publication is what the island holds now.
PublisherHolds ==
    \A w \in Workers : \A t \in trial[w] :
        pc[w] = "publish" =>
            /\ own[w][side[w]] = t.pic
            /\ island[w].currentCost = t.result.cost

\* A worker that has just copied the pair has real rows of both frames.
CopiedReal ==
    \A w \in Workers : pc[w] = "enter" =>
        \A f \in Frames : rows[w][f] \in RowsOf[own[w][f]]

DInv ==
    /\ Typed /\ CacheReal /\ StageCounted
    /\ PhasePlaces /\ HasIsland /\ TrialScored /\ PublisherHolds /\ CopiedReal
    /\ PublishedPairScores /\ IslandPairReal /\ DualBestIsLowest

-----------------------------------------------------------------------------
(* The model's operators *)

LEMMA OtherFrame ==
    /\ \A f \in Frames : Other(f) \in Frames /\ Other(f) # f /\ Other(Other(f)) = f
    /\ \A f, g \in Frames : g # f => g = Other(f)
BY DEF Frames, Other

\* What a rendering is made of, beside any rows and alone.
LEMMA RenderingFacts ==
    /\ \A p \in Pics : Alone[p] \in Renderings
    /\ \A p \in Pics, r \in Rows : Paired[p][r] \in Renderings
    /\ \A p \in Pics, r \in Rows : Paired[p][r].rows \in RowsOf[p]
    /\ \A t \in Renderings : t.rows \in Rows /\ t.cost \in Nat
<1>1. \A t \in Renderings : t.rows \in Rows /\ t.cost \in Nat
  BY DEF Renderings
<1>2. \A p \in Pics, r \in Rows : Paired[p][r] \in Renderings
  OBVIOUS
<1>3. \A p \in Pics, r \in Rows : Paired[p][r].rows \in RowsOf[p]
  BY DEF RowsOf
<1> QED
  BY <1>1, <1>2, <1>3

LEMMA BesideFacts ==
    ASSUME NEW p \in Pics, NEW result, Beside(p, result)
    PROVE  result \in Renderings /\ result.rows \in RowsOf[p]
BY RenderingFacts DEF Beside

\* A candidate that is counted is a candidate.
LEMMA TrialNumbered ==
    ASSUME NEW t \in Trials, NEW n \in Nat
    PROVE  [t EXCEPT !.number = n] \in Trials
BY DEF Trials

LEMMA TheRing == Ring(HistorySize, Nat)
BY DEF Ring

\* A worker's optimizer state is fresh or a state of its ring.
LEMMA IslandFields ==
    /\ Fresh.initialized = FALSE
    /\ \A s \in States(HistorySize, Nat) : s.initialized = TRUE /\ s.currentCost \in Nat
    /\ \A c \in Nat :
         /\ Initialized(c, HistorySize) \in States(HistorySize, Nat)
         /\ Initialized(c, HistorySize).currentCost = c
<1>1. \A c \in Nat : Initialized(c, HistorySize).currentCost = c
  BY DEF Initialized
<1>2. \A c \in Nat : Initialized(c, HistorySize) \in States(HistorySize, Nat)
  BY TheRing, InitializedCorrect
<1>3. Fresh.initialized = FALSE
  BY DEF Fresh
<1>4. \A s \in States(HistorySize, Nat) : s.initialized = TRUE /\ s.currentCost \in Nat
  BY DEF States
<1> QED
  BY <1>1, <1>2, <1>3, <1>4

\* A dual evaluation yields what the program renders to beside some rows,
\* whether it comes from a remembered line or not.
LEMMA DualReal ==
    ASSUME Typed, CacheReal, NEW w \in Workers, NEW p \in Pics, NEW f \in Frames,
           NEW over \in BOOLEAN
    PROVE  /\ Beside(p, Dual(w, p, f, over))
           /\ DOMAIN Kept(w, f, over) \subseteq DOMAIN cache[w]
<1>1. Beside(p, Paired[p][rows[w][Other(f)]])
  BY OtherFrame DEF Typed, Beside
<1>2. DOMAIN Kept(w, f, over) \subseteq DOMAIN cache[w]
  BY DEF Kept
<1>3. p \in DOMAIN Kept(w, f, over) => Kept(w, f, over) = cache[w]
  BY DEF Kept
<1> QED
  BY <1>1, <1>2, <1>3 DEF Dual, CacheReal

\* What it leaves in the evaluator is real too, and as long as no history of a
\* stale line is noted it was the rendering beside the rows at hand.
LEMMA RememberStep ==
    ASSUME Typed, CacheReal, NEW w \in Workers, NEW p \in Pics, NEW f \in Frames,
           NEW over \in BOOLEAN, Remember(w, p, f, over)
    PROVE  /\ CacheReal'
           /\ rendered' \in [Workers -> Nat]
           /\ stale' \in BOOLEAN
           /\ ~stale' => ~stale /\ Dual(w, p, f, over) = Paired[p][rows[w][Other(f)]]
<1> DEFINE D == Dual(w, p, f, over)
           K == DOMAIN Kept(w, f, over)
<1>1. Beside(p, D) /\ K \subseteq DOMAIN cache[w]
  BY DualReal
<1>2. cache' = [cache EXCEPT ![w] = [q \in K \cup {p} |-> IF q = p THEN D ELSE cache[w][q]]]
  BY DEF Remember
<1>3. CacheReal'
  <2> HIDE DEF D, K
  <2>1. DOMAIN cache' = Workers
    BY <1>2 DEF CacheReal
  <2>2. ASSUME NEW v \in Workers, NEW q \in DOMAIN cache'[v]
        PROVE  q \in Pics /\ Beside(q, cache'[v][q])
    <3>1. CASE v = w
      BY <1>1, <1>2, <3>1 DEF CacheReal
    <3>2. CASE v # w
      BY <1>2, <3>2 DEF CacheReal
    <3> QED
      BY <3>1, <3>2
  <2> QED
    BY <2>1, <2>2 DEF CacheReal, Beside
<1>4. NoteGeneration(w, f) \in Nat
  BY OtherFrame DEF NoteGeneration, Typed
<1>5. rendered' \in [Workers -> Nat]
  BY <1>4 DEF Remember, Typed
<1> QED
  BY <1>3, <1>5 DEF Remember, Typed

-----------------------------------------------------------------------------

LEMMA InitDInv == Init => DInv
<1> SUFFICES ASSUME Init PROVE DInv
  OBVIOUS
<1>a. \A f \in Frames : pics[f] \in Pics /\ shown[f] \in Rows
  BY RenderingFacts DEF Init, Frames
<1>1. Typed
  <2>1. bestResult \in Nat /\ acceptedCost = bestResult
    BY RenderingFacts, <1>a DEF Init, Frames
  <2>2. shown \in [Frames -> Rows]
    BY <1>a DEF Init
  <2> QED
    BY <2>1, <2>2 DEF Init, Typed, Frames, Places
<1>2. CacheReal
  BY DEF Init, CacheReal
<1>3. Exchanging = {}
  BY DEF Init, Exchanging
<1>4. StageCounted
  BY <1>3, FS_EmptySet DEF Init, StageCounted
<1>5. PhasePlaces /\ HasIsland /\ TrialScored /\ PublisherHolds /\ CopiedReal
  BY DEF Init, PhasePlaces, HasIsland, TrialScored, PublisherHolds, CopiedReal, Booting,
     Alternating
<1>6. PublishedPairScores /\ IslandPairReal /\ DualBestIsLowest
  BY DEF Init, PublishedPairScores, IslandPairReal, DualBestIsLowest, Alternating, Islands
<1> QED
  BY <1>1, <1>2, <1>4, <1>5, <1>6 DEF DInv

\* What the decision out on candidate t changes.
Judged(w, t, out) ==
    /\ evaluations' = evaluations + 1
    /\ island' = [island EXCEPT ![w] = out.state]
    /\ own' = IF out.accepted THEN [own EXCEPT ![w][side[w]] = t.pic] ELSE own
    /\ IF ToPublish(out, t.result.cost)
       THEN /\ Goto(w, "publish")
            /\ trial' = [trial EXCEPT ![w] = {[t EXCEPT !.number = evaluations + 1]}]
            /\ UNCHANGED finished
       ELSE /\ Goto(w, "head")
            /\ trial' = [trial EXCEPT ![w] = {}]
            /\ finished' = AtLimit(evaluations + 1)

\* The island decides by its own costs: what it then compares with is the
\* candidate's score or what it was.
LEMMA JudgeStep ==
    ASSUME Typed, PhasePlaces, HasIsland, NEW w \in Workers, Judge(w), ~finished
    PROVE  \E t \in trial[w] : \E out :
             /\ Judged(w, t, out)
             /\ t \in Trials /\ t.pic \in Pics /\ t.result \in Renderings
             /\ t.result.cost \in Nat /\ t.result.rows \in Rows
             /\ out.accepted \in BOOLEAN
             /\ out.state \in States(HistorySize, Nat)
             /\ island[w] \in States(HistorySize, Nat)
             /\ out.state.currentCost =
                  IF out.accepted THEN t.result.cost ELSE island[w].currentCost
<1>1. PICK t \in trial[w], drift \in Drifts :
        Judged(w, t, Apply(Kind, island[w], t.result.cost, drift))
  BY DEF Judge, Judged
<1> DEFINE out == Apply(Kind, island[w], t.result.cost, drift)
<1>2. t \in Trials
  BY DEF Typed
<1>3. t.pic \in Pics /\ t.result \in Renderings
  BY <1>2 DEF Trials
<1>4. t.result.cost \in Nat /\ t.result.rows \in Rows
  BY <1>3, RenderingFacts
<1>5. island[w] \in States(HistorySize, Nat)
  BY DEF Judge, HasIsland, PhasePlaces, Booting, Alternating, Typed
<1>6. /\ out.accepted \in BOOLEAN
      /\ out.state \in States(HistorySize, Nat)
      /\ out.state.currentCost = IF out.accepted THEN t.result.cost ELSE island[w].currentCost
  <2> DEFINE c == t.result.cost
             start == island[w]
             C == Nat
  <2>1. /\ c \in C /\ start \in States(HistorySize, C) /\ drift \in Nat /\ Kind \in Kinds
        /\ Ring(HistorySize, C)
    BY <1>4, <1>5, TheRing
  <2>2. out = Apply(Kind, start, c, drift)
    OBVIOUS
  <2> HIDE DEF c, start, out, C
  <2>3. /\ out.accepted \in BOOLEAN
        /\ out.state \in States(HistorySize, C)
        /\ out.state.currentCost = IF out.accepted THEN c ELSE start.currentCost
        /\ c <= start.currentCost => out.accepted
    BY <2>1, <2>2, ApplyTyped
  <2> QED
    BY <2>3 DEF c, start, C
<1> HIDE DEF out
<1>7. Judged(w, t, out)
  BY <1>1 DEF out
<1> QED
  BY <1>2, <1>3, <1>4, <1>5, <1>6, <1>7

-----------------------------------------------------------------------------
(* Types *)

LEMMA TypedBoot ==
    ASSUME Typed,
           \/ \E w \in Workers : Bootstrap(w)
           \/ PreviewTake \/ PreviewShow \/ EndA \/ EndB \/ Reseed \/ Return
           \/ Stop \/ UNCHANGED vars
    PROVE  Typed'
<1> USE DEF Typed, Goto, published, boot, stage, control, pair, caching, Places
<1>1. ASSUME NEW w \in Workers, Try(w)
      PROVE  Typed'
  <2>1. \A p \in Pics : {[pic |-> p, result |-> Alone[p], number |-> 0]} \in SUBSET Trials
    BY RenderingFacts DEF Trials
  <2>2. trial' \in [Workers -> SUBSET Trials]
    <3>1. \E c \in SUBSET Trials : trial' = [trial EXCEPT ![w] = c]
      BY <1>1, <2>1 DEF Try, Join
    <3> QED
      BY <3>1
  <2>3. pc' \in [Workers -> Places]
    BY <1>1, ZenonT(30) DEF Try, Join
  <2> QED
    BY <1>1, <2>2, <2>3 DEF Try
<1>2. ASSUME NEW w \in Workers, Decide(w)
      PROVE  Typed'
  <2>1. CASE BootOver
    BY <1>2, <2>1 DEF Decide, Join
  <2>2. CASE ~BootOver
    <3>1. PICK t \in trial[w], drift \in Drifts :
            /\ acceptedCost' = IF t.result.cost <= acceptedCost + drift
                               THEN t.result.cost ELSE acceptedCost
            /\ KeepBetter(t)
      BY <1>2, <2>2 DEF Decide
    <3>2. t.pic \in Pics /\ t.result \in Renderings
      BY DEF Trials
    <3>3. t.result.rows \in Rows /\ t.result.cost \in Nat
      BY <3>2, RenderingFacts
    <3>4. /\ pics' \in [Frames -> Pics] /\ shown' \in [Frames -> Rows]
          /\ bestResult' \in Nat /\ bestCostB' \in Nat
          /\ generation' \in [Frames -> Nat]
      BY <3>1, <3>2, <3>3 DEF KeepBetter, Keep, KeptCostB, Frames
    <3>5. acceptedCost' \in Nat
      BY <3>1, <3>3
    <3>6. trial' \in [Workers -> SUBSET Trials] /\ pc' \in [Workers -> Places]
      BY <1>2, <2>2 DEF Decide
    <3>7. evaluations' \in Nat
      BY <1>2, <2>2 DEF Decide
    <3> QED
      BY <1>2, <2>2, <3>4, <3>5, <3>6, <3>7 DEF Decide
  <2> QED
    BY <2>1, <2>2
<1>3. ASSUME PreviewTake
      PROVE  Typed'
  BY <1>3 DEF PreviewTake, BootFrame, Frames
<1>4. ASSUME PreviewShow
      PROVE  Typed'
  <2>1. PICK p \in preview : shown' = [shown EXCEPT ![BootFrame] = Alone[p].rows]
    BY <1>4 DEF PreviewShow
  <2>2. Alone[p].rows \in Rows
    BY RenderingFacts
  <2>3. shown' \in [Frames -> Rows]
    BY <2>1, <2>2
  <2> QED
    BY <1>4, <2>3 DEF PreviewShow
<1>5. ASSUME EndA
      PROVE  Typed'
  <2>1. CASE CopyB
    BY <1>5, <2>1 DEF EndA, CopyB, Frames
  <2>2. CASE GenerateB
    BY <1>5, <2>2, RenderingFacts DEF EndA, GenerateB, Frames
  <2> QED
    BY <1>5, <2>1, <2>2 DEF EndA
<1>6. ASSUME EndB \/ Return \/ Stop
      PROVE  Typed'
  BY <1>6 DEF EndB, Return, Stop
<1>7. ASSUME Reseed
      PROVE  Typed'
  <2>1. ReseededB \in Renderings
    BY RenderingFacts DEF ReseededB, Frames
  <2>2. ReseededB.rows \in Rows
    BY <2>1, RenderingFacts
  <2>3. ReseededA \in Renderings
    BY <2>2, RenderingFacts DEF ReseededA, Frames
  <2>4. ReseededA.rows \in Rows /\ ReseededA.cost \in Nat
    BY <2>3, RenderingFacts
  <2> QED
    BY <1>7, <2>2, <2>4 DEF Reseed, Frames
<1>8. ASSUME UNCHANGED vars
      PROVE  Typed'
  BY <1>8 DEF vars
<1> QED
  BY <1>1, <1>2, <1>3, <1>4, <1>5, <1>6, <1>7, <1>8 DEF Bootstrap

LEMMA TypedAlternation ==
    ASSUME Typed, CacheReal, PhasePlaces, HasIsland, NEW w \in Workers, Alternation(w)
    PROVE  Typed'
<1> USE DEF Typed, Goto, published, boot, stage, control, pair, caching, Places
<1>1. CASE Copy(w)
  BY <1>1, IslandFields DEF Copy
<1>2. CASE Enter(w)
  BY <1>2 DEF Enter
<1>3. CASE Head(w)
  BY <1>3 DEF Head
<1>4. CASE Count(w)
  BY <1>4 DEF Count
<1>5. CASE Exchange(w)
  BY <1>5 DEF Exchange
<1>6. CASE Flip(w)
  BY <1>6, OtherFrame DEF Flip
<1>7. CASE Bump(w)
  BY <1>7 DEF Bump
<1>8. CASE Reread(w)
  BY <1>8 DEF Reread
<1>9. CASE Materialize(w)
  <2>1. PICK over \in BOOLEAN :
          LET p == own[w][side[w]]
          IN  /\ rows' = [rows EXCEPT ![w] = Materialized(w, Dual(w, p, side[w], over))]
              /\ Remember(w, p, side[w], over)
    BY <1>9 DEF Materialize
  <2>2. own[w][side[w]] \in Pics
    OBVIOUS
  <2>3. Dual(w, own[w][side[w]], side[w], over).rows \in Rows
    BY <2>2, DualReal, BesideFacts, RenderingFacts
  <2>4. Materialized(w, Dual(w, own[w][side[w]], side[w], over)) \in [Frames -> Rows]
    BY <2>3 DEF Materialized
  <2>5. rows' \in [Workers -> [Frames -> Rows]]
    BY <2>1, <2>4
  <2>6. rendered' \in [Workers -> Nat] /\ stale' \in BOOLEAN
    BY <2>1, <2>2, RememberStep
  <2> QED
    BY <1>9, <2>5, <2>6 DEF Materialize
<1>10. CASE Migrate(w)
  <2>1. /\ own' \in [Workers -> [Frames -> Pics]]
        /\ rows' \in [Workers -> [Frames -> Rows]]
        /\ rendered' \in [Workers -> Nat]
    <3>1. UNCHANGED <<own, rows, rendered>> \/
             /\ own' = [own EXCEPT ![w] = pics]
             /\ rows' = [rows EXCEPT ![w] = shown]
             /\ rendered' = [rendered EXCEPT ![w] = 0]
      BY <1>10 DEF Migrate, MigratedRows
    <3>2. CASE UNCHANGED <<own, rows, rendered>>
      BY <3>2
    <3>3. CASE /\ own' = [own EXCEPT ![w] = pics]
               /\ rows' = [rows EXCEPT ![w] = shown]
               /\ rendered' = [rendered EXCEPT ![w] = 0]
      BY <3>3
    <3> QED
      BY <3>1, <3>2, <3>3
  <2>2. Initialized(bestResult, HistorySize) \in States(HistorySize, Nat)
    BY IslandFields
  <2>3. island' \in [Workers -> {Fresh} \cup States(HistorySize, Nat)]
    BY <1>10, <2>2 DEF Migrate
  <2>4. seen' \in [Workers -> Nat] /\ pc' \in [Workers -> Places]
    BY <1>10 DEF Migrate
  <2> QED
    BY <1>10, <2>1, <2>3, <2>4 DEF Migrate
<1>11. CASE Evaluate(w)
  <2>1. PICK p \in Pics, over \in BOOLEAN :
          /\ trial' = [trial EXCEPT ![w] =
                         {[pic |-> p, result |-> Dual(w, p, side[w], over), number |-> 0]}]
          /\ Remember(w, p, side[w], over)
    BY <1>11 DEF Evaluate
  <2>2. Dual(w, p, side[w], over) \in Renderings
    BY DualReal, BesideFacts
  <2>3. trial' \in [Workers -> SUBSET Trials]
    BY <2>1, <2>2 DEF Trials
  <2>4. rendered' \in [Workers -> Nat] /\ stale' \in BOOLEAN
    BY <2>1, RememberStep
  <2> QED
    BY <1>11, <2>3, <2>4 DEF Evaluate
<1>12. CASE Judge(w)
  <2>1. CASE finished
    BY <1>12, <2>1 DEF Judge, Join
  <2>2. CASE ~finished
    <3>0. PICK t \in trial[w] : \E out :
            /\ Judged(w, t, out)
            /\ t \in Trials /\ t.pic \in Pics
            /\ out.accepted \in BOOLEAN
            /\ out.state \in States(HistorySize, Nat)
      BY <1>12, <2>2, JudgeStep
    <3>1. PICK out :
            /\ Judged(w, t, out)
            /\ t \in Trials /\ t.pic \in Pics
            /\ out.accepted \in BOOLEAN
            /\ out.state \in States(HistorySize, Nat)
      BY <3>0
    <3>2. own' \in [Workers -> [Frames -> Pics]]
      BY <3>1 DEF Judged
    <3>3. island' \in [Workers -> {Fresh} \cup States(HistorySize, Nat)]
      BY <3>1 DEF Judged
    <3>4. [t EXCEPT !.number = evaluations + 1] \in Trials
      <4>1. evaluations + 1 \in Nat
        OBVIOUS
      <4> QED
        BY <3>1, <4>1, TrialNumbered
    <3>5. trial' \in [Workers -> SUBSET Trials]
      <4>1. \/ trial' = [trial EXCEPT ![w] = {[t EXCEPT !.number = evaluations + 1]}]
            \/ trial' = [trial EXCEPT ![w] = {}]
        BY <3>1 DEF Judged
      <4>2. {[t EXCEPT !.number = evaluations + 1]} \in SUBSET Trials /\ {} \in SUBSET Trials
        BY <3>4
      <4>3. \E c \in SUBSET Trials : trial' = [trial EXCEPT ![w] = c]
        BY <4>1, <4>2
      <4> QED
        BY <4>3
    <3>6. pc' \in [Workers -> Places]
      BY <3>1 DEF Judged
    <3>7. finished' \in BOOLEAN /\ evaluations' \in Nat
      <4>1. AtLimit(evaluations + 1) \in BOOLEAN
        BY DEF AtLimit
      <4>2. finished' \in {finished, AtLimit(evaluations + 1)} /\ evaluations' = evaluations + 1
        BY <3>1 DEF Judged
      <4> QED
        BY <4>1, <4>2
    <3> QED
      BY <1>12, <3>2, <3>3, <3>5, <3>6, <3>7 DEF Judge
  <2> QED
    BY <2>1, <2>2
<1>13. CASE Publish(w)
  <2>1. PICK t \in trial[w] :
         /\ IF StillLower(t)
            THEN /\ rows' = [rows EXCEPT ![w] = PublishedRows(w, t)]
                 /\ pics' = own[w]
                 /\ shown' = rows'[w]
                 /\ bestResult' = t.result.cost
                 /\ version' = version + 1
                 /\ seen' = [seen EXCEPT ![w] = version + 1]
            ELSE UNCHANGED <<published, rows, seen>>
         /\ finished' = (finished \/ AtLimit(t.number))
    BY <1>13 DEF Publish
  <2>2. t.result.rows \in Rows /\ t.result.cost \in Nat
    BY RenderingFacts DEF Trials
  <2>3. PublishedRows(w, t) \in [Frames -> Rows]
    BY <2>2 DEF PublishedRows
  <2>4. /\ pics' \in [Frames -> Pics] /\ shown' \in [Frames -> Rows] /\ bestResult' \in Nat
        /\ version' \in Nat /\ rows' \in [Workers -> [Frames -> Rows]]
        /\ seen' \in [Workers -> Nat]
    <3>1. CASE StillLower(t)
      <4>1. rows' = [rows EXCEPT ![w] = PublishedRows(w, t)] /\ shown' = rows'[w]
        BY <2>1, <3>1
      <4>2. rows' \in [Workers -> [Frames -> Rows]] /\ shown' \in [Frames -> Rows]
        BY <2>3, <4>1
      <4>3. /\ pics' = own[w] /\ bestResult' = t.result.cost /\ version' = version + 1
            /\ seen' = [seen EXCEPT ![w] = version + 1]
        BY <2>1, <3>1
      <4>4. pics' \in [Frames -> Pics] /\ version' \in Nat /\ seen' \in [Workers -> Nat]
        BY <4>3
      <4> QED
        BY <2>2, <4>2, <4>3, <4>4
    <3>2. CASE ~StillLower(t)
      BY <2>1, <3>2
    <3> QED
      BY <3>1, <3>2
  <2>5. finished' \in BOOLEAN
    BY <2>1 DEF AtLimit
  <2> QED
    BY <1>13, <2>4, <2>5 DEF Publish
<1> QED
  BY <1>1, <1>2, <1>3, <1>4, <1>5, <1>6, <1>7, <1>8, <1>9, <1>10, <1>11, <1>12, <1>13
     DEF Alternation

-----------------------------------------------------------------------------
(* The remembered lines and the stage counter *)

LEMMA CacheStep ==
    ASSUME Typed, CacheReal, [Next]_vars
    PROVE  CacheReal'
<1> USE DEF published, boot, stage, control, pair, caching
<1>1. UNCHANGED cache => CacheReal'
  BY DEF CacheReal, Beside
<1>2. ASSUME NEW w \in Workers, Materialize(w)
      PROVE  CacheReal'
  <2>1. PICK over \in BOOLEAN : Remember(w, own[w][side[w]], side[w], over)
    BY <1>2 DEF Materialize
  <2>2. own[w][side[w]] \in Pics /\ side[w] \in Frames
    BY DEF Typed
  <2> QED
    BY <2>1, <2>2, RememberStep
<1>3. ASSUME NEW w \in Workers, Evaluate(w)
      PROVE  CacheReal'
  <2>1. PICK p \in Pics, over \in BOOLEAN : Remember(w, p, side[w], over)
    BY <1>3 DEF Evaluate
  <2>2. side[w] \in Frames
    BY DEF Typed
  <2> QED
    BY <2>1, <2>2, RememberStep
<1>4. ASSUME NEW w \in Workers, Migrate(w)
      PROVE  CacheReal'
  <2>1. cache' = cache \/ cache' = [cache EXCEPT ![w] = <<>>]
    BY <1>4 DEF Migrate
  <2> QED
    BY <1>1, <2>1 DEF CacheReal, Beside
<1>5. Reseed => CacheReal'
  BY DEF Reseed, CacheReal, Beside
<1>6. ASSUME NEW w \in Workers,
             \/ Bootstrap(w) \/ Copy(w) \/ Enter(w) \/ Head(w) \/ Count(w) \/ Exchange(w)
             \/ Flip(w) \/ Bump(w) \/ Reread(w) \/ Judge(w) \/ Publish(w)
      PROVE  UNCHANGED cache
  BY <1>6 DEF Bootstrap, Try, Decide, Copy, Enter, Head, Count, Exchange, Flip, Bump, Reread,
     Judge, Publish
<1>7. PreviewTake \/ PreviewShow \/ EndA \/ EndB \/ Return \/ Stop \/ UNCHANGED vars =>
        UNCHANGED cache
  BY DEF PreviewTake, PreviewShow, EndA, EndB, Return, Stop, vars
<1> QED
  BY <1>1, <1>2, <1>3, <1>4, <1>5, <1>6, <1>7
     DEF Next, Worker, Alternation, Driver, Terminated

\* The counter is past the end of a stage by no more than there are workers on
\* their way to take it back.
LEMMA StageStep ==
    ASSUME Typed, PhasePlaces, StageCounted, [Next]_vars
    PROVE  StageCounted'
<1> USE DEF published, boot, stage, control, pair, caching
<1>a. Exchanging \in SUBSET Workers /\ IsFiniteSet(Exchanging)
  BY FS_Subset DEF Exchanging
<1>b. Cardinality(Exchanging) \in Nat
  BY <1>a, FS_CardinalityType
<1>c. Exchanging' \in SUBSET Workers
  BY DEF Exchanging
<1>d. IsFiniteSet(Exchanging') /\ Cardinality(Exchanging') \in Nat
  BY <1>c, FS_Subset, FS_CardinalityType
<1>1. ASSUME UNCHANGED counter, Exchanging' = Exchanging
      PROVE  StageCounted'
  BY <1>1 DEF StageCounted
<1>2. ASSUME counter' = 0
      PROVE  StageCounted'
  BY <1>2, <1>d DEF StageCounted
<1>3. ASSUME NEW w \in Workers, Count(w)
      PROVE  StageCounted'
  <2>1. CASE StageOver(counter + 1)
    <3>1. Exchanging' = Exchanging \cup {w} /\ w \notin Exchanging
      BY <1>3, <2>1 DEF Count, Goto, Exchanging, Typed
    <3>2. Cardinality(Exchanging') = Cardinality(Exchanging) + 1
      BY <1>a, <3>1, FS_AddElement
    <3> QED
      BY <1>3, <1>b, <3>2 DEF Count, StageCounted, Typed
  <2>2. CASE ~StageOver(counter + 1)
    BY <1>3, <1>d, <2>2 DEF Count, StageOver, StageCounted, Typed
  <2> QED
    BY <2>1, <2>2
<1>4. ASSUME NEW w \in Workers, Exchange(w)
      PROVE  StageCounted'
  BY <1>2, <1>4 DEF Exchange
<1>5. ASSUME NEW w \in Workers,
             \/ Bootstrap(w) \/ Copy(w) \/ Enter(w) \/ Head(w) \/ Flip(w) \/ Bump(w)
             \/ Reread(w) \/ Materialize(w) \/ Migrate(w) \/ Evaluate(w) \/ Judge(w)
             \/ Publish(w)
      PROVE  UNCHANGED counter /\ Exchanging' = Exchanging
  <2>1. UNCHANGED counter
    BY <1>5 DEF Bootstrap, Try, Decide, Copy, Enter, Head, Flip, Bump, Reread, Materialize,
       Migrate, Evaluate, Judge, Publish
  <2>2. UNCHANGED pc \/ \E place : Goto(w, place) /\ place # "exchange" /\ pc[w] # "exchange"
    BY <1>5 DEF Bootstrap, Try, Decide, Copy, Enter, Head, Flip, Bump, Reread, Materialize,
       Migrate, Evaluate, Judge, Publish, Join
  <2> QED
    BY <2>1, <2>2 DEF Exchanging, Goto, Typed
<1>6. ASSUME Reseed
      PROVE  StageCounted'
  BY <1>2, <1>6 DEF Reseed
<1>7. ASSUME EndA
      PROVE  UNCHANGED counter /\ Exchanging' = Exchanging
  <2>1. UNCHANGED pc \/ pc' = [w \in Workers |-> "try"]
    BY <1>7 DEF EndA, CopyB, GenerateB
  <2>2. \A w \in Workers : pc[w] = "joined"
    BY <1>7 DEF EndA, AllJoined
  <2> QED
    BY <1>7, <2>1, <2>2 DEF EndA, Exchanging
<1>8. PreviewTake \/ PreviewShow \/ EndB \/ Return \/ Stop \/ UNCHANGED vars =>
        UNCHANGED counter /\ Exchanging' = Exchanging
  BY DEF PreviewTake, PreviewShow, EndB, Return, Stop, vars, Exchanging
<1> QED
  BY <1>1, <1>3, <1>4, <1>5, <1>6, <1>7, <1>8 DEF Next, Worker, Alternation, Driver, Terminated

-----------------------------------------------------------------------------
(* Before the alternation *)

\* What is left to show of a step.
Rest ==
    /\ PhasePlaces /\ HasIsland /\ TrialScored /\ PublisherHolds /\ CopiedReal
    /\ PublishedPairScores /\ IslandPairReal /\ DualBestIsLowest

\* No pair is published and no island is in use before the alternation.
LEMMA NotYet ==
    ASSUME ~Alternating'
    PROVE  HasIsland' /\ IslandPairReal' /\ DualBestIsLowest'
BY DEF HasIsland, IslandPairReal, DualBestIsLowest, Islands

LEMMA TryStep ==
    ASSUME DInv, NEW w \in Workers, Try(w)
    PROVE  Rest'
<1> USE DEF DInv, Typed, PhasePlaces, Goto, Join, Booting, Alternating, published, boot, stage,
        control, pair, caching
<1>1. Booting /\ ~Alternating' /\ UNCHANGED <<phase, version, island, preview, pics, bestCostB>>
  BY DEF Try
<1>2. \A v \in Workers : pc'[v] \in {"try", "decide", "joined"}
  BY <1>1 DEF Try
<1>3. PhasePlaces'
  BY <1>1, <1>2
<1>4. TrialScored'
  <2>1. ASSUME NEW v \in Workers, NEW t \in trial'[v], pc'[v] = "decide"
        PROVE  t.result = Alone[t.pic]
    <3>1. CASE v # w
      BY <2>1, <3>1 DEF Try, TrialScored
    <3>2. CASE v = w
      BY <2>1, <3>2 DEF Try
    <3> QED
      BY <3>1, <3>2
  <2> QED
    BY <1>2, <2>1 DEF TrialScored
<1>5. PublisherHolds' /\ CopiedReal'
  BY <1>2 DEF PublisherHolds, CopiedReal
<1>6. PublishedPairScores'
  BY <1>1 DEF PublishedPairScores
<1> QED
  BY <1>1, <1>3, <1>4, <1>5, <1>6, NotYet DEF Rest

\* What decides in a bootstrap is scored alone, so the score kept for B is
\* that of the program kept.
LEMMA DecideStep ==
    ASSUME DInv, NEW w \in Workers, Decide(w)
    PROVE  Rest'
<1> USE DEF DInv, Typed, PhasePlaces, Goto, Join, Booting, Alternating, published, boot, stage,
        control, pair, caching
<1>1. Booting /\ ~Alternating' /\ UNCHANGED <<phase, version, island, preview>>
  BY DEF Decide
<1>2. \A v \in Workers : pc'[v] \in {"try", "decide", "joined"}
  BY <1>1 DEF Decide
<1>3. PhasePlaces'
  BY <1>1, <1>2
<1>4. TrialScored'
  <2>1. ASSUME NEW v \in Workers, NEW t \in trial'[v], pc'[v] = "decide"
        PROVE  t.result = Alone[t.pic]
    <3>1. v # w /\ trial'[v] = trial[v] /\ pc[v] = "decide"
      BY <2>1 DEF Decide
    <3> QED
      BY <2>1, <3>1 DEF TrialScored
  <2> QED
    BY <1>2, <2>1 DEF TrialScored
<1>5. PublisherHolds' /\ CopiedReal'
  BY <1>2 DEF PublisherHolds, CopiedReal
<1>6. PublishedPairScores'
  <2>1. CASE BootOver
    BY <1>1, <2>1 DEF Decide, PublishedPairScores
  <2>2. CASE ~BootOver
    <3>1. PICK t \in trial[w] : KeepBetter(t)
      BY <2>2 DEF Decide
    <3>2. t.result = Alone[t.pic]
      BY DEF Decide, TrialScored
    <3>3. phase = "bootB" => bestCostB' = Alone[pics'["B"]].cost
      BY <3>1, <3>2 DEF KeepBetter, Keep, KeptCostB, PublishedPairScores, Frames
    <3> QED
      BY <1>1, <3>3 DEF PublishedPairScores
  <2> QED
    BY <2>1, <2>2
<1> QED
  BY <1>1, <1>3, <1>4, <1>5, <1>6, NotYet DEF Rest

\* The main thread's steps before the alternation.
LEMMA BetweenStep ==
    ASSUME DInv, PreviewTake \/ PreviewShow \/ EndA \/ EndB
    PROVE  Rest'
<1> USE DEF DInv, Typed, PhasePlaces, Booting, Alternating, AllJoined, published, boot, stage,
        control, pair, caching, CopyB, GenerateB
<1>1. /\ Booting /\ ~Alternating' /\ UNCHANGED <<version, island, trial>>
      /\ Booting' \/ preview' = {}
  BY DEF PreviewTake, PreviewShow, EndA, EndB
<1>2. \A v \in Workers : pc'[v] \in {"try", "decide", "joined"}
  BY <1>1 DEF PreviewTake, PreviewShow, EndA, EndB
<1>3. \A v \in Workers : pc'[v] = "decide" => pc[v] = "decide"
  BY <1>1 DEF PreviewTake, PreviewShow, EndA, EndB
<1>4. phase' = "reseed" => \A v \in Workers : pc'[v] = "joined"
  BY <1>1 DEF PreviewTake, PreviewShow, EndA, EndB
<1>5. PhasePlaces'
  BY <1>1, <1>2, <1>4
<1>6. TrialScored' /\ PublisherHolds' /\ CopiedReal'
  BY <1>1, <1>2, <1>3, ZenonT(30) DEF TrialScored, PublisherHolds, CopiedReal
<1>7. phase' = "bootB" => bestCostB' = Alone[pics'["B"]].cost
  BY DEF PreviewTake, PreviewShow, EndA, EndB, PublishedPairScores, Frames
<1>8. PublishedPairScores'
  BY <1>1, <1>7 DEF PublishedPairScores
<1> QED
  BY <1>1, <1>5, <1>6, <1>8, NotYet DEF Rest

\* The reseed renders B beside A and then A beside that: the score is of the
\* rows shown.
LEMMA ReseedStep ==
    ASSUME DInv, Reseed
    PROVE  Rest'
<1>1. /\ Alternating' /\ phase' = "alternate" /\ preview' = {} /\ UNCHANGED <<pics, island>>
      /\ \A w \in Workers : pc'[w] = "copy" /\ island[w] = Fresh
  <2>1. phase = "reseed" /\ phase' = "alternate" /\ UNCHANGED <<preview, pics, island, pair>>
    BY DEF Reseed, pair
  <2>2. \A w \in Workers : pc'[w] = "copy"
    BY DEF Reseed
  <2>3. preview = {} /\ \A w \in Workers : island[w] = Fresh
    BY <2>1 DEF DInv, PhasePlaces, Booting, Alternating
  <2> QED
    BY <2>1, <2>2, <2>3 DEF Alternating
<1> USE DEF DInv, Typed, PhasePlaces, Booting, Alternating
<1>2. PhasePlaces' /\ HasIsland' /\ TrialScored' /\ PublisherHolds' /\ CopiedReal'
  BY <1>1 DEF HasIsland, TrialScored, PublisherHolds, CopiedReal
<1>3. Islands' = {}
  BY <1>1, IslandFields DEF Islands
<1>4. IslandPairReal' /\ DualBestIsLowest'
  BY <1>3 DEF IslandPairReal, DualBestIsLowest
<1>5. ReseededB.rows \in RowsOf[pics["B"]] /\ ReseededB.rows \in Rows
  BY RenderingFacts DEF ReseededB, Frames
<1>6. /\ bestResult' = Paired[pics["A"]][ReseededB.rows].cost
      /\ shown'["A"] = Paired[pics["A"]][ReseededB.rows].rows
      /\ shown'["B"] = ReseededB.rows
  BY DEF Reseed, ReseededA, Frames
<1>7. PublishedPairScores'
  <2>1. "A" \in Frames /\ Other("A") = "B"
    BY DEF Frames, Other
  <2> QED
    BY <1>1, <1>5, <1>6, <2>1, ZenonT(30) DEF PublishedPairScores, RowsOf
<1> QED
  BY <1>2, <1>4, <1>7 DEF Rest

\* Stopping, returning and standing still.
LEMMA StopStep ==
    ASSUME DInv, Stop \/ Return \/ UNCHANGED vars
    PROVE  Rest'
<1>1. UNCHANGED <<published, bestCostB, pc, pair, side, trial, preview, stale>>
  BY DEF Stop, Return, vars, published, boot, stage, control, pair, caching
<1>2. phase' = phase \/ (phase = "alternate" /\ phase' = "done" /\ AllJoined)
  <2>1. Return => phase = "alternate" /\ phase' = "done" /\ AllJoined
    BY DEF Return
  <2>2. Stop \/ UNCHANGED vars => phase' = phase
    BY DEF Stop, vars, control
  <2> QED
    BY <2>1, <2>2
<1> USE DEF DInv, PhasePlaces, Booting, Alternating, AllJoined, published, pair
<1>3. PhasePlaces' /\ HasIsland' /\ TrialScored' /\ PublisherHolds' /\ CopiedReal'
  BY <1>1, <1>2 DEF HasIsland, TrialScored, PublisherHolds, CopiedReal, Beside
<1>4. PublishedPairScores'
  BY <1>1, <1>2 DEF PublishedPairScores
<1>5. Alternating' = Alternating /\ Islands' = Islands
  BY <1>1, <1>2 DEF Islands
<1>6. UNCHANGED <<own, rows, island, side, stale, bestResult, pc>>
  BY <1>1
<1> HIDE DEF PhasePlaces
<1>7. IslandPairReal'
  BY <1>5, <1>6 DEF IslandPairReal, ScoresAsPair
<1>8. DualBestIsLowest'
  BY <1>5, <1>6 DEF DualBestIsLowest
<1> QED
  BY <1>3, <1>4, <1>7, <1>8 DEF Rest

-----------------------------------------------------------------------------
(* While the frames alternate, worker by worker *)

\* What the invariant says of one worker.
WorkerSound(v) ==
    /\ pc[v] \notin {"try", "decide"}
    /\ pc[v] \notin {"copy", "joined"} => island[v] # Fresh
    /\ \A t \in trial[v] :
         /\ pc[v] \in {"judge", "publish"} =>
              /\ Beside(t.pic, t.result)
              /\ ~stale => t.result = Paired[t.pic][rows[v][Other(side[v])]]
         /\ pc[v] = "publish" =>
              /\ own[v][side[v]] = t.pic
              /\ island[v].currentCost = t.result.cost
    /\ pc[v] = "enter" => \A f \in Frames : rows[v][f] \in RowsOf[own[v][f]]
    /\ island[v].initialized =>
         /\ rows[v][Other(side[v])] \in RowsOf[own[v][Other(side[v])]]
         /\ ~stale => ScoresAsPair(own[v], island[v].currentCost)
         /\ pc[v] # "publish" => bestResult <= island[v].currentCost

LEMMA WorkersSound ==
    ASSUME DInv, Alternating, NEW v \in Workers
    PROVE  WorkerSound(v)
<1> USE DEF DInv
<1>1. pc[v] \notin {"try", "decide"}
  BY DEF PhasePlaces
<1>2. pc[v] \notin {"copy", "joined"} => island[v] # Fresh
  BY DEF HasIsland
<1>3. ASSUME NEW t \in trial[v]
      PROVE  /\ pc[v] \in {"judge", "publish"} =>
                  /\ Beside(t.pic, t.result)
                  /\ ~stale => t.result = Paired[t.pic][rows[v][Other(side[v])]]
             /\ pc[v] = "publish" =>
                  /\ own[v][side[v]] = t.pic
                  /\ island[v].currentCost = t.result.cost
  BY DEF TrialScored, PublisherHolds
<1>4. pc[v] = "enter" => \A f \in Frames : rows[v][f] \in RowsOf[own[v][f]]
  BY DEF CopiedReal
<1>5. island[v].initialized =>
         /\ rows[v][Other(side[v])] \in RowsOf[own[v][Other(side[v])]]
         /\ ~stale => ScoresAsPair(own[v], island[v].currentCost)
         /\ pc[v] # "publish" => bestResult <= island[v].currentCost
  BY DEF IslandPairReal, DualBestIsLowest, Islands
<1> QED
  BY <1>1, <1>2, <1>3, <1>4, <1>5 DEF WorkerSound

\* And the workers make up the invariant after a step.
LEMMA SoundRest ==
    ASSUME phase' = "alternate", preview' = {}, PublishedPairScores',
           \A v \in Workers : WorkerSound(v)'
    PROVE  Rest'
<1> USE DEF WorkerSound
<1>1. PhasePlaces' /\ HasIsland'
  BY DEF PhasePlaces, HasIsland, Booting, Alternating
<1>2. TrialScored' /\ PublisherHolds' /\ CopiedReal'
  BY DEF TrialScored, PublisherHolds, CopiedReal
<1>3. IslandPairReal'
  BY DEF IslandPairReal, Islands
<1>4. DualBestIsLowest'
  BY DEF DualBestIsLowest, Islands
<1> QED
  BY <1>1, <1>2, <1>3, <1>4 DEF Rest

\* Who alternates does so in the phase of that name, touches nothing of
\* another worker, and at most lowers the best score and spoils the history.
LEMMA AlternationFrame ==
    ASSUME DInv, NEW w \in Workers, Alternation(w)
    PROVE  /\ phase = "alternate" /\ preview = {} /\ UNCHANGED <<phase, preview, bestCostB>>
           /\ \A v \in Workers \ {w} :
                /\ pc'[v] = pc[v] /\ own'[v] = own[v] /\ rows'[v] = rows[v]
                /\ island'[v] = island[v] /\ side'[v] = side[v] /\ trial'[v] = trial[v]
           /\ ~stale' => ~stale
           /\ bestResult' <= bestResult
           /\ bestResult' = bestResult \/ Publish(w)
<1> USE DEF Typed, Goto, published, boot, stage, control, pair, caching
<1>0. Typed /\ PhasePlaces
  BY DEF DInv
<1>1. pc[w] \notin {"try", "decide", "joined"}
  BY DEF Alternation, Copy, Enter, Head, Count, Exchange, Flip, Bump, Reread, Materialize,
     Migrate, Evaluate, Judge, Publish
<1>2. phase = "alternate" /\ preview = {}
  BY <1>0, <1>1 DEF PhasePlaces, Booting, Alternating
<1>3. CASE Copy(w) \/ Enter(w) \/ Head(w) \/ Count(w) \/ Exchange(w) \/ Flip(w) \/ Bump(w)
           \/ Reread(w) \/ Migrate(w)
  <2>1. UNCHANGED <<phase, preview, bestCostB, bestResult, stale, trial>>
    BY <1>3 DEF Copy, Enter, Head, Count, Exchange, Flip, Bump, Reread, Migrate
  <2>2. \A v \in Workers \ {w} : pc'[v] = pc[v]
    BY <1>0, <1>3 DEF Copy, Enter, Head, Count, Exchange, Flip, Bump, Reread, Migrate
  <2>3. \A v \in Workers \ {w} : /\ own'[v] = own[v] /\ rows'[v] = rows[v]
                                 /\ island'[v] = island[v] /\ side'[v] = side[v]
    <3>1. CASE Copy(w)
      BY <1>0, <3>1 DEF Copy
    <3>2. CASE Migrate(w)
      BY <1>0, <3>2 DEF Migrate
    <3>3. CASE Enter(w) \/ Head(w) \/ Count(w) \/ Exchange(w) \/ Flip(w) \/ Bump(w)
               \/ Reread(w)
      BY <1>0, <3>3 DEF Enter, Head, Count, Exchange, Flip, Bump, Reread
    <3> QED
      BY <1>3, <3>1, <3>2, <3>3
  <2>4. bestResult' <= bestResult
    BY <1>0, <2>1
  <2> QED
    BY <1>2, <2>1, <2>2, <2>3, <2>4
<1>4. CASE Materialize(w) \/ Evaluate(w)
  <2>1. UNCHANGED <<phase, preview, bestCostB, bestResult, own, island>> /\ (~stale' => ~stale)
    BY <1>4 DEF Materialize, Evaluate, Remember
  <2>2. \A v \in Workers \ {w} : /\ pc'[v] = pc[v] /\ rows'[v] = rows[v]
                                 /\ side'[v] = side[v] /\ trial'[v] = trial[v]
    BY <1>0, <1>4 DEF Materialize, Evaluate
  <2>3. bestResult' <= bestResult
    BY <1>0, <2>1
  <2> QED
    BY <1>2, <2>1, <2>2, <2>3
<1>5. CASE Judge(w)
  <2>1. UNCHANGED <<rows, side, stale, bestResult, phase, preview, bestCostB>>
    BY <1>5 DEF Judge
  <2>2. CASE finished
    <3>1. UNCHANGED <<own, island>>
      BY <1>5, <2>2 DEF Judge
    <3>2. \A v \in Workers \ {w} : pc'[v] = pc[v] /\ trial'[v] = trial[v]
      BY <1>0, <1>5, <2>2 DEF Judge, Join
    <3> QED
      BY <1>0, <1>2, <2>1, <3>1, <3>2
  <2>3. CASE ~finished
    <3>0. PICK t \in trial[w] : \E out : Judged(w, t, out)
      BY <1>0, <1>5, <2>3, JudgeStep DEF DInv
    <3>1. PICK out : Judged(w, t, out)
      BY <3>0
    <3>2. \A v \in Workers \ {w} :
            pc'[v] = pc[v] /\ own'[v] = own[v] /\ island'[v] = island[v] /\ trial'[v] = trial[v]
      BY <1>0, <3>1 DEF Judged
    <3> QED
      BY <1>0, <1>2, <2>1, <3>2
  <2> QED
    BY <2>2, <2>3
<1>6. CASE Publish(w)
  <2>1. UNCHANGED <<phase, preview, bestCostB, own, island, side, stale>>
    BY <1>6 DEF Publish
  <2>2. \A v \in Workers \ {w} : pc'[v] = pc[v] /\ trial'[v] = trial[v] /\ rows'[v] = rows[v]
    BY <1>0, <1>6 DEF Publish
  <2>3. bestResult' <= bestResult
    <3>1. PICK t \in trial[w] : IF StillLower(t) THEN bestResult' = t.result.cost
                                ELSE UNCHANGED bestResult
      BY <1>6 DEF Publish
    <3>2. t.result.cost \in Nat
      BY <1>0, RenderingFacts DEF Trials
    <3> QED
      BY <1>0, <3>1, <3>2 DEF StillLower
  <2> QED
    BY <1>2, <1>6, <2>1, <2>2, <2>3
<1> QED
  BY <1>3, <1>4, <1>5, <1>6 DEF Alternation

LEMMA OtherSound ==
    ASSUME DInv, NEW w \in Workers, Alternation(w), Typed', NEW v \in Workers \ {w}
    PROVE  WorkerSound(v)'
<1>1. WorkerSound(v)
  BY AlternationFrame, WorkersSound DEF Alternating
<1>2. /\ pc'[v] = pc[v] /\ own'[v] = own[v] /\ rows'[v] = rows[v]
      /\ island'[v] = island[v] /\ side'[v] = side[v] /\ trial'[v] = trial[v]
      /\ ~stale' => ~stale
      /\ bestResult' <= bestResult
  BY AlternationFrame
<1>3. /\ bestResult \in Nat /\ bestResult' \in Nat
      /\ island[v].initialized => island[v].currentCost \in Nat
  BY IslandFields DEF DInv, Typed
<1>4. island'[v].initialized /\ pc'[v] # "publish" => bestResult' <= island'[v].currentCost
  BY <1>1, <1>2, <1>3 DEF WorkerSound
<1> QED
  BY <1>1, <1>2, <1>4 DEF WorkerSound, Beside, ScoresAsPair

\* The published pair can be taken over as it is.
LEMMA PairShared ==
    ASSUME DInv, Alternating
    PROVE  /\ \A f \in Frames : shown[f] \in RowsOf[pics[f]]
           /\ ~stale => ScoresAsPair(pics, bestResult)
<1>1. PICK f \in Frames, r \in Rows :
        /\ bestResult = Paired[pics[f]][r].cost
        /\ shown[f] = Paired[pics[f]][r].rows
        /\ shown[Other(f)] \in RowsOf[pics[Other(f)]]
        /\ ~stale => r = shown[Other(f)]
  BY DEF DInv, PublishedPairScores
<1>2. pics[f] \in Pics
  BY DEF DInv, Typed
<1>3. shown[f] \in RowsOf[pics[f]]
  BY <1>1, <1>2, RenderingFacts
<1> QED
  BY <1>1, <1>3, OtherFrame DEF ScoresAsPair

\* The steps that only move a worker, read or turn the focus, or count.
LEMMA QuietSound ==
    ASSUME DInv, NEW w \in Workers, WorkerSound(w), Typed',
           \/ Enter(w) \/ Head(w) \/ Count(w) \/ Exchange(w) \/ Flip(w) \/ Bump(w)
           \/ Reread(w)
    PROVE  WorkerSound(w)'
<1>0. Typed
  BY DEF DInv
<1> USE DEF Goto, published, boot, stage, control, pair, caching
<1>1. UNCHANGED <<published, pair, trial, stale>>
  BY DEF Enter, Head, Count, Exchange, Flip, Bump, Reread
<1>2. /\ pc[w] \notin {"copy", "joined", "judge", "publish"}
      /\ pc'[w] \notin {"try", "decide", "copy", "judge", "publish", "enter"}
  BY <1>0 DEF Enter, Head, Count, Exchange, Flip, Bump, Reread, Typed
<1>3. island[w].initialized => /\ bestResult <= island[w].currentCost
                               /\ ~stale => ScoresAsPair(own[w], island[w].currentCost)
  BY <1>2 DEF WorkerSound
<1>4. island[w].initialized => rows[w][Other(side'[w])] \in RowsOf[own[w][Other(side'[w])]]
  <2>1. CASE Enter(w)
    <3>1. \A f \in Frames : rows[w][f] \in RowsOf[own[w][f]]
      BY <2>1 DEF Enter, WorkerSound
    <3>2. Other(side'[w]) \in Frames
      BY OtherFrame DEF Typed
    <3> QED
      BY <3>1, <3>2
  <2>2. CASE ~Enter(w)
    <3>1. UNCHANGED side
      BY <2>2 DEF Head, Count, Exchange, Flip, Bump, Reread
    <3> QED
      BY <3>1 DEF WorkerSound
  <2> QED
    BY <2>1, <2>2
<1>5. island[w] # Fresh
  BY <1>2 DEF WorkerSound
<1> QED
  BY <1>1, <1>2, <1>3, <1>4, <1>5 DEF WorkerSound, ScoresAsPair

\* A worker that takes over the published pair.
LEMMA TakenOver ==
    ASSUME DInv, NEW w \in Workers, Alternating,
           Typed', own'[w] = pics, rows'[w] = shown,
           island'[w] = Initialized(bestResult, HistorySize),
           UNCHANGED <<bestResult, stale, trial>>,
           pc'[w] \in {"enter", "evaluate"}
    PROVE  WorkerSound(w)'
<1>1. /\ \A f \in Frames : shown[f] \in RowsOf[pics[f]]
      /\ ~stale => ScoresAsPair(pics, bestResult)
  BY PairShared
<1>2. /\ island'[w] # Fresh /\ island'[w].currentCost = bestResult
      /\ bestResult \in Nat
  BY IslandFields DEF DInv, Typed
<1>3. Other(side'[w]) \in Frames
  BY OtherFrame DEF Typed
<1> QED
  BY <1>1, <1>2, <1>3 DEF WorkerSound, ScoresAsPair

LEMMA CopySound ==
    ASSUME DInv, Alternating, NEW w \in Workers, Copy(w), Typed'
    PROVE  WorkerSound(w)'
<1>1. Typed
  BY DEF DInv
<1>2. /\ own'[w] = pics /\ rows'[w] = shown /\ pc'[w] = "enter"
      /\ island'[w] = Initialized(bestResult, HistorySize)
  BY <1>1 DEF Copy, Goto, Typed
<1>3. UNCHANGED <<bestResult, stale, trial>>
  BY DEF Copy, published, caching
<1> QED
  BY <1>2, <1>3, TakenOver

LEMMA MigrateSound ==
    ASSUME DInv, Alternating, NEW w \in Workers, WorkerSound(w), Migrate(w), Typed'
    PROVE  WorkerSound(w)'
<1>1. Typed
  BY DEF DInv
<1>2. UNCHANGED <<bestResult, stale, trial, side>> /\ pc[w] = "migrate" /\ pc'[w] = "evaluate"
  BY <1>1 DEF Migrate, Goto, Typed, published
<1>3. CASE version # seen[w] /\ bestResult < island[w].currentCost
  <2>1. /\ own'[w] = pics /\ rows'[w] = shown
        /\ island'[w] = Initialized(bestResult, HistorySize)
    BY <1>1, <1>3 DEF Migrate, MigratedRows, Typed
  <2> QED
    BY <1>2, <2>1, TakenOver
<1>4. CASE ~(version # seen[w] /\ bestResult < island[w].currentCost)
  <2>1. UNCHANGED <<own, rows, island>>
    BY <1>4 DEF Migrate
  <2> QED
    BY <1>2, <2>1 DEF WorkerSound, ScoresAsPair
<1> QED
  BY <1>3, <1>4

\* At a change of focus the rows of the frame just optimized become real too.
LEMMA MaterializeSound ==
    ASSUME DInv, NEW w \in Workers, WorkerSound(w), Materialize(w), Typed'
    PROVE  WorkerSound(w)'
<1>1. Typed /\ CacheReal
  BY DEF DInv
<1> DEFINE p == own[w][side[w]]
<1>2. PICK over \in BOOLEAN :
        /\ rows' = [rows EXCEPT ![w] = Materialized(w, Dual(w, p, side[w], over))]
        /\ Remember(w, p, side[w], over)
  BY DEF Materialize
<1>3. p \in Pics /\ side[w] \in Frames
  BY <1>1 DEF Typed
<1>4. Dual(w, p, side[w], over).rows \in RowsOf[p]
  BY <1>1, <1>3, DualReal, BesideFacts
<1>5. /\ rows'[w][side[w]] \in RowsOf[p]
      /\ rows'[w][Other(side[w])] = rows[w][Other(side[w])]
  BY <1>1, <1>2, <1>3, <1>4, OtherFrame DEF Materialized, Typed
<1>6. UNCHANGED <<own, island, trial, bestResult>> /\ (~stale' => ~stale)
  BY DEF Materialize, Remember, published
<1>7. pc[w] = "materialize" /\ pc'[w] = "migrate"
  BY <1>1 DEF Materialize, Goto, Typed
<1>8. island[w].initialized => \A f \in Frames : rows'[w][f] \in RowsOf[own[w][f]]
  BY <1>3, <1>5, OtherFrame DEF WorkerSound
<1>9. Other(side'[w]) \in Frames
  BY OtherFrame DEF Typed
<1> QED
  BY <1>6, <1>7, <1>8, <1>9 DEF WorkerSound, ScoresAsPair

\* A candidate is scored beside some rows, and beside those at hand unless the
\* remembered line is stale.
LEMMA EvaluateSound ==
    ASSUME DInv, NEW w \in Workers, WorkerSound(w), Evaluate(w), Typed'
    PROVE  WorkerSound(w)'
<1>1. Typed /\ CacheReal
  BY DEF DInv
<1>2. PICK p \in Pics, over \in BOOLEAN :
        /\ trial' = [trial EXCEPT ![w] =
                       {[pic |-> p, result |-> Dual(w, p, side[w], over), number |-> 0]}]
        /\ Remember(w, p, side[w], over)
  BY DEF Evaluate
<1>3. side[w] \in Frames
  BY <1>1 DEF Typed
<1>4. /\ Beside(p, Dual(w, p, side[w], over))
      /\ ~stale' => ~stale /\ Dual(w, p, side[w], over) = Paired[p][rows[w][Other(side[w])]]
  BY <1>1, <1>2, <1>3, DualReal, RememberStep
<1>5. UNCHANGED <<own, rows, side, island, bestResult>>
  BY DEF Evaluate, published, pair
<1>6. pc[w] = "evaluate" /\ pc'[w] = "judge"
  BY <1>1 DEF Evaluate, Goto, Typed
<1>7. \A t \in trial'[w] : t.pic = p /\ t.result = Dual(w, p, side[w], over)
  BY <1>1, <1>2 DEF Typed
<1> HIDE <1>2
<1>8. \A t \in trial'[w] :
        /\ Beside(t.pic, t.result)
        /\ ~stale' => t.result = Paired[t.pic][rows[w][Other(side[w])]]
  BY <1>4, <1>7
<1>9. island'[w].initialized =>
         /\ rows'[w][Other(side'[w])] \in RowsOf[own'[w][Other(side'[w])]]
         /\ ~stale' => ScoresAsPair(own'[w], island'[w].currentCost)
         /\ bestResult' <= island'[w].currentCost
  BY <1>4, <1>5, <1>6 DEF WorkerSound
<1>10. island'[w] # Fresh
  BY <1>5, <1>6 DEF WorkerSound
<1> QED
  BY <1>5, <1>6, <1>8, <1>9, <1>10 DEF WorkerSound, ScoresAsPair, Beside

\* An accepted candidate takes the place of its frame together with its score;
\* one that is rejected, or no better than the best, leaves the island above it.
LEMMA JudgeSound ==
    ASSUME DInv, Alternating, NEW w \in Workers, WorkerSound(w), Judge(w), Typed'
    PROVE  WorkerSound(w)'
<1>1. Typed /\ PhasePlaces /\ HasIsland
  BY DEF DInv
<1>2. UNCHANGED <<rows, side, stale, bestResult>> /\ pc[w] = "judge"
  BY DEF Judge, published, caching
<1>3. /\ island[w] # Fresh /\ island[w].initialized
      /\ rows[w][Other(side[w])] \in RowsOf[own[w][Other(side[w])]]
      /\ ~stale => ScoresAsPair(own[w], island[w].currentCost)
      /\ bestResult <= island[w].currentCost
  BY <1>1, <1>2, IslandFields DEF WorkerSound, Typed
<1>4. CASE finished
  <2>1. UNCHANGED <<own, island>> /\ pc'[w] = "joined" /\ trial'[w] = {}
    BY <1>1, <1>4 DEF Judge, Join, Goto, Typed
  <2> QED
    BY <1>2, <1>3, <2>1 DEF WorkerSound, ScoresAsPair
<1>5. CASE ~finished
  <2>0. PICK t \in trial[w] : \E out :
             /\ Judged(w, t, out)
             /\ t \in Trials /\ t.pic \in Pics
             /\ t.result.cost \in Nat
             /\ out.accepted \in BOOLEAN
             /\ out.state \in States(HistorySize, Nat)
             /\ out.state.currentCost =
                  IF out.accepted THEN t.result.cost ELSE island[w].currentCost
    BY <1>1, <1>5, JudgeStep
  <2>1. PICK out :
             /\ Judged(w, t, out)
             /\ t \in Trials /\ t.pic \in Pics
             /\ t.result.cost \in Nat
             /\ out.accepted \in BOOLEAN
             /\ out.state \in States(HistorySize, Nat)
             /\ out.state.currentCost =
                  IF out.accepted THEN t.result.cost ELSE island[w].currentCost
    BY <2>0
  <2>2. /\ Beside(t.pic, t.result)
        /\ ~stale => t.result = Paired[t.pic][rows[w][Other(side[w])]]
    BY <1>2 DEF WorkerSound
  <2>3. island'[w] = out.state /\ island'[w] # Fresh
    BY <1>1, <2>1, IslandFields DEF Judged, Typed
  <2>4. /\ side[w] \in Frames /\ Other(side[w]) \in Frames /\ Other(side[w]) # side[w]
        /\ Other(Other(side[w])) = side[w]
    BY <1>1, OtherFrame DEF Typed
  <2>5. own'[w][Other(side[w])] = own[w][Other(side[w])]
    BY <1>1, <2>1, <2>4 DEF Judged, Typed
  <2>6. out.accepted => own'[w][side[w]] = t.pic
    BY <1>1, <2>1, <2>4 DEF Judged, Typed
  <2>7. ~stale => ScoresAsPair(own'[w], out.state.currentCost)
    <3>1. CASE out.accepted
      BY <1>3, <2>1, <2>2, <2>4, <2>5, <2>6, <3>1 DEF ScoresAsPair
    <3>2. CASE ~out.accepted
      <4>1. own' = own
        BY <2>1, <3>2 DEF Judged
      <4> QED
        BY <1>3, <2>1, <3>2, <4>1
    <3> QED
      BY <3>1, <3>2
  <2>8. CASE ToPublish(out, t.result.cost)
    <3>1. /\ pc'[w] = "publish"
          /\ trial'[w] = {[t EXCEPT !.number = evaluations + 1]}
      BY <1>1, <2>1, <2>8 DEF Judged, Goto, Typed
    <3>2. \A u \in trial'[w] : u.pic = t.pic /\ u.result = t.result
      BY <2>1, <3>1 DEF Trials
    <3>3. out.accepted
      BY <2>8 DEF ToPublish
    <3>4. \A u \in trial'[w] :
            /\ Beside(u.pic, u.result)
            /\ ~stale => u.result = Paired[u.pic][rows[w][Other(side[w])]]
            /\ own'[w][side[w]] = u.pic
            /\ island'[w].currentCost = u.result.cost
      BY <2>1, <2>2, <2>3, <2>6, <3>2, <3>3
    <3>5. rows[w][Other(side[w])] \in RowsOf[own'[w][Other(side[w])]]
      BY <1>3, <2>5
    <3> QED
      BY <1>2, <2>3, <2>7, <3>1, <3>4, <3>5 DEF WorkerSound, ScoresAsPair, Beside
  <2>9. CASE ~ToPublish(out, t.result.cost)
    <3>1. pc'[w] = "head" /\ trial'[w] = {}
      BY <1>1, <2>1, <2>9 DEF Judged, Goto, Typed
    <3>2. bestResult <= out.state.currentCost
      BY <1>1, <1>3, <2>1, <2>9 DEF ToPublish, Typed
    <3>3. rows[w][Other(side[w])] \in RowsOf[own'[w][Other(side[w])]]
      BY <1>3, <2>5
    <3> QED
      BY <1>2, <2>3, <2>7, <3>1, <3>2, <3>3 DEF WorkerSound, ScoresAsPair
  <2> QED
    BY <2>8, <2>9
<1> QED
  BY <1>4, <1>5

\* What a publication does, if the candidate is still better.
LEMMA PublishStep ==
    ASSUME DInv, NEW w \in Workers, WorkerSound(w), Publish(w)
    PROVE  \/ UNCHANGED <<published, rows>> /\ \E t \in trial[w] : ~StillLower(t)
           \/ \E t \in trial[w], r \in Rows :
                /\ StillLower(t)
                /\ t.pic \in Pics /\ t.result = Paired[t.pic][r]
                /\ ~stale => r = rows[w][Other(side[w])]
                /\ own[w][side[w]] = t.pic
                /\ pics' = own[w]
                /\ bestResult' = t.result.cost
                /\ version' = version + 1
                /\ shown' = rows'[w]
                /\ rows' = [rows EXCEPT ![w] = PublishedRows(w, t)]
<1>1. Typed /\ pc[w] = "publish"
  BY DEF DInv, Publish
<1>2. PICK t \in trial[w] :
            IF StillLower(t)
            THEN /\ rows' = [rows EXCEPT ![w] = PublishedRows(w, t)]
                 /\ pics' = own[w]
                 /\ shown' = rows'[w]
                 /\ bestResult' = t.result.cost
                 /\ version' = version + 1
            ELSE UNCHANGED <<published, rows>>
  BY DEF Publish, published
<1>3. t.pic \in Pics
  BY <1>1 DEF Typed, Trials
<1>4. \E r \in Rows : t.result = Paired[t.pic][r] /\ (~stale => r = rows[w][Other(side[w])])
  <2>1. /\ Beside(t.pic, t.result)
        /\ ~stale => t.result = Paired[t.pic][rows[w][Other(side[w])]]
    BY <1>1 DEF WorkerSound
  <2>2. rows[w][Other(side[w])] \in Rows
    BY <1>1, OtherFrame DEF Typed
  <2> QED
    BY <2>1, <2>2 DEF Beside
<1>5. own[w][side[w]] = t.pic
  BY <1>1 DEF WorkerSound
<1> QED
  BY <1>2, <1>3, <1>4, <1>5

LEMMA PublishSound ==
    ASSUME DInv, Alternating, NEW w \in Workers, WorkerSound(w), Publish(w), Typed'
    PROVE  WorkerSound(w)'
<1>1. Typed
  BY DEF DInv
<1>2. UNCHANGED <<own, island, side, stale>> /\ pc[w] = "publish"
  BY DEF Publish, caching
<1>3. pc'[w] = "head" /\ trial'[w] = {}
  BY <1>1 DEF Publish, Goto, Typed
<1>4. /\ island[w] # Fresh /\ island[w].initialized
      /\ rows[w][Other(side[w])] \in RowsOf[own[w][Other(side[w])]]
      /\ ~stale => ScoresAsPair(own[w], island[w].currentCost)
      /\ \A t \in trial[w] : island[w].currentCost = t.result.cost
  BY <1>1, <1>2, IslandFields DEF WorkerSound, Typed
<1>5. \A t \in trial[w] : t.result.cost \in Nat
  BY <1>1, RenderingFacts DEF Typed, Trials
<1>6. bestResult' <= island[w].currentCost
  <2>1. CASE UNCHANGED <<published, rows>> /\ \E t \in trial[w] : ~StillLower(t)
    BY <1>1, <1>4, <1>5, <2>1 DEF StillLower, published, Typed
  <2>2. CASE \E t \in trial[w] : bestResult' = t.result.cost
    BY <1>4, <1>5, <2>2
  <2> QED
    BY <2>1, <2>2, PublishStep
<1>7. rows'[w][Other(side[w])] = rows[w][Other(side[w])]
  <2>1. CASE UNCHANGED rows
    BY <2>1
  <2>2. CASE \E t \in trial[w] : rows' = [rows EXCEPT ![w] = PublishedRows(w, t)]
    BY <1>1, <2>2, OtherFrame DEF PublishedRows, Typed
  <2> QED
    BY <2>1, <2>2, PublishStep
<1> QED
  BY <1>2, <1>3, <1>4, <1>6, <1>7 DEF WorkerSound, ScoresAsPair

\* The candidate is published with the rows it was rendered to, beside those
\* the other frame had meanwhile.
LEMMA PairStep ==
    ASSUME DInv, Alternating, NEW w \in Workers, WorkerSound(w), Alternation(w), Typed'
    PROVE  PublishedPairScores'
<1>0. Typed /\ PublishedPairScores
  BY DEF DInv
<1>1. Alternating' /\ phase' # "bootB"
  BY AlternationFrame DEF Alternating
<1>2. ASSUME UNCHANGED <<pics, shown, bestResult>>
      PROVE  PublishedPairScores'
  <2>1. ~stale' => ~stale
    BY AlternationFrame
  <2> QED
    BY <1>0, <1>1, <1>2, <2>1 DEF PublishedPairScores
<1>3. CASE Publish(w)
  <2>1. CASE UNCHANGED <<published, rows>>
    BY <1>2, <2>1 DEF published
  <2>2. CASE ~UNCHANGED <<published, rows>>
    <3>1. PICK t \in trial[w], r \in Rows :
                /\ t.pic \in Pics /\ t.result = Paired[t.pic][r]
                /\ ~stale => r = rows[w][Other(side[w])]
                /\ own[w][side[w]] = t.pic
                /\ pics' = own[w]
                /\ bestResult' = t.result.cost
                /\ shown' = rows'[w]
                /\ rows' = [rows EXCEPT ![w] = PublishedRows(w, t)]
      BY <1>3, <2>2, PublishStep
    <3>2. /\ side[w] \in Frames /\ Other(side[w]) \in Frames /\ Other(side[w]) # side[w]
      BY <1>0, OtherFrame DEF Typed
    <3>3. /\ shown'[side[w]] = t.result.rows
          /\ shown'[Other(side[w])] = rows[w][Other(side[w])]
      BY <1>0, <3>1, <3>2 DEF PublishedRows, Typed
    <3>4. rows[w][Other(side[w])] \in RowsOf[own[w][Other(side[w])]]
      <4>1. island[w] # Fresh
        BY <1>3 DEF Publish, WorkerSound
      <4>2. island[w].initialized
        BY <1>0, <4>1, IslandFields DEF Typed
      <4> QED
        BY <4>2 DEF WorkerSound
    <3>5. UNCHANGED stale
      BY <1>3 DEF Publish, caching
    <3>6. /\ bestResult' = Paired[pics'[side[w]]][r].cost
          /\ shown'[side[w]] = Paired[pics'[side[w]]][r].rows
          /\ shown'[Other(side[w])] \in RowsOf[pics'[Other(side[w])]]
          /\ ~stale' => r = shown'[Other(side[w])]
      BY <3>1, <3>3, <3>4, <3>5
    <3> QED
      BY <1>1, <3>2, <3>6 DEF PublishedPairScores
  <2> QED
    BY <2>1, <2>2
<1>4. CASE ~Publish(w)
  <2>1. UNCHANGED published
    BY <1>4 DEF Alternation, Copy, Enter, Head, Count, Exchange, Flip, Bump, Reread,
       Materialize, Migrate, Evaluate, Judge
  <2> QED
    BY <1>2, <2>1 DEF published
<1> QED
  BY <1>3, <1>4

LEMMA AlternationStep ==
    ASSUME DInv, NEW w \in Workers, Alternation(w), Typed'
    PROVE  Rest'
<1>1. /\ phase = "alternate" /\ preview = {} /\ UNCHANGED <<phase, preview>>
  BY AlternationFrame
<1>2. Alternating /\ WorkerSound(w)
  BY <1>1, WorkersSound DEF Alternating
<1>3. WorkerSound(w)'
  BY <1>2, QuietSound, CopySound, MigrateSound, MaterializeSound, EvaluateSound, JudgeSound,
     PublishSound DEF Alternation
<1>4. \A v \in Workers : WorkerSound(v)'
  BY <1>3, OtherSound
<1>5. PublishedPairScores'
  BY <1>2, PairStep
<1> QED
  BY <1>1, <1>4, <1>5, SoundRest

LEMMA NextDInv == DInv /\ [Next]_vars => DInv'
<1> SUFFICES ASSUME DInv, [Next]_vars PROVE DInv'
  OBVIOUS
<1>0. Typed /\ CacheReal /\ StageCounted /\ PhasePlaces /\ HasIsland
  BY DEF DInv
<1>1. Typed'
  BY <1>0, TypedBoot, TypedAlternation DEF Next, Worker, Driver, Terminated
<1>2. CacheReal' /\ StageCounted'
  BY <1>0, CacheStep, StageStep
<1>3. Rest'
  BY <1>1, TryStep, DecideStep, BetweenStep, ReseedStep, StopStep, AlternationStep
     DEF Next, Worker, Bootstrap, Driver, Terminated
<1> QED
  BY <1>1, <1>2, <1>3 DEF DInv, Rest

LEMMA DInvHolds == Spec => []DInv
BY InitDInv, NextDInv, PTL DEF Spec

-----------------------------------------------------------------------------

\* The variables have their types, and the stages do not run away: the counter
\* passes the end of a stage by fewer than there are workers.
THEOREM DualTypeCorrect == Spec => []TypeOK
<1>1. ASSUME DInv
      PROVE  TypeOK
  <2>1. Types
    <3>1. /\ phase \in {"bootA", "bootB", "reseed", "alternate", "done"}
          /\ pics \in [Frames -> Pics] /\ shown \in [Frames -> Rows]
          /\ {bestResult, bestCostB, acceptedCost, version, counter, evaluations, limit}
               \subseteq Nat
          /\ preview \subseteq Pics
          /\ generation \in [Frames -> Nat]
          /\ focus \in Frames
          /\ {finished, stale} \subseteq BOOLEAN
      BY <1>1 DEF DInv, Typed
    <3>2. /\ pc \in [Workers -> Places]
          /\ own \in [Workers -> [Frames -> Pics]]
          /\ rows \in [Workers -> [Frames -> Rows]]
          /\ island \in [Workers -> {Fresh} \cup States(HistorySize, Nat)]
          /\ seen \in [Workers -> Nat]
          /\ side \in [Workers -> Frames] /\ read \in [Workers -> Frames]
          /\ rendered \in [Workers -> Nat]
      BY <1>1 DEF DInv, Typed
    <3>3. /\ \A w \in Workers : trial[w] \subseteq Trials
          /\ DOMAIN trial = Workers /\ DOMAIN cache = Workers
      BY <1>1 DEF DInv, Typed, CacheReal
    <3>4. \A w \in Workers : /\ DOMAIN cache[w] \subseteq Pics
                            /\ \A p \in DOMAIN cache[w] : cache[w][p] \in Renderings
      BY <1>1, BesideFacts DEF DInv, CacheReal
    <3> QED
      BY <3>1, <3>2, <3>3, <3>4 DEF Types
  <2>2. AlternateSteps > 0 => counter < AlternateSteps + Cardinality(Workers)
    <3>1. Exchanging \in SUBSET Workers
      BY DEF Exchanging
    <3>2. IsFiniteSet(Exchanging) /\ Cardinality(Exchanging) <= Cardinality(Workers)
      BY <3>1, FS_Subset
    <3>3. Cardinality(Exchanging) \in Nat /\ Cardinality(Workers) \in Nat
      BY <3>2, FS_CardinalityType
    <3> QED
      BY <1>1, <3>2, <3>3 DEF DInv, StageCounted, Typed
  <2> QED
    BY <2>1, <2>2 DEF TypeOK
<1> QED
  BY <1>1, DInvHolds, PTL

\* The published pair, its rows and its score come from one evaluation, up to
\* the staleness of a remembered line.
THEOREM PairCorrect == Spec => []PublishedPairScores
<1>1. DInv => PublishedPairScores
  BY DEF DInv
<1> QED
  BY <1>1, DInvHolds, PTL

\* So do an island's pair, rows and cost, through every rejection, change of
\* focus and migration.
THEOREM IslandsCorrect == Spec => []IslandPairReal
<1>1. DInv => IslandPairReal
  BY DEF DInv
<1> QED
  BY <1>1, DInvHolds, PTL

\* No island but a publishing one holds a pair better than the published one.
THEOREM NoPairLost == Spec => []DualBestIsLowest
<1>1. DInv => DualBestIsLowest
  BY DEF DInv
<1> QED
  BY <1>1, DInvHolds, PTL

-----------------------------------------------------------------------------
(* The refinement: the reseed is a retarget, a publication an improvement,  *)
(* and every other step stutters.                                           *)

LEMMA DualInitRefines == Init => Dual_Best!Init
BY DEF Init, Dual_Best!Init, Alternating

LEMMA ReseedRefines ==
    ASSUME DInv, Reseed, Typed'
    PROVE  Dual_Best!Retarget
<1>1. ~Alternating /\ Alternating' /\ bestResult' \in Nat /\ UNCHANGED version /\ version = 0
  BY DEF Reseed, Alternating, Typed, DInv, PhasePlaces
<1> QED
  BY <1>1 DEF Dual_Best!Retarget

LEMMA PublishRefines ==
    ASSUME DInv, NEW w \in Workers, Publish(w), Typed'
    PROVE  [Dual_Best!Next]_(Dual_Best!bestVars)
<1>0. Alternation(w)
  BY DEF Alternation
<1>1. Alternating /\ Alternating' /\ WorkerSound(w)
  BY <1>0, AlternationFrame, WorkersSound DEF Alternating
<1>2. CASE UNCHANGED published
  BY <1>1, <1>2 DEF published, Dual_Best!bestVars
<1>3. CASE ~UNCHANGED published
  <2>1. PICK t \in trial[w] :
          StillLower(t) /\ bestResult' = t.result.cost /\ version' = version + 1
    BY <1>1, <1>3, PublishStep DEF published
  <2>2. bestResult' \in Nat /\ bestResult' < bestResult
    BY <2>1 DEF StillLower, Typed
  <2>3. Dual_Best!Improve
    BY <1>1, <2>1, <2>2 DEF Dual_Best!Improve
  <2> QED
    BY <2>3 DEF Dual_Best!Next
<1> QED
  BY <1>2, <1>3

\* A step that keeps the phase's side of the reseed and what is published.
LEMMA QuietRefines ==
    ASSUME Alternating' = Alternating, Alternating => UNCHANGED <<bestResult, version>>
    PROVE  UNCHANGED Dual_Best!bestVars
BY DEF Dual_Best!bestVars

LEMMA DualStepRefines == DInv /\ [Next]_vars /\ Typed' => [Dual_Best!Next]_(Dual_Best!bestVars)
<1> SUFFICES ASSUME DInv, [Next]_vars, Typed'
             PROVE  [Dual_Best!Next]_(Dual_Best!bestVars)
  OBVIOUS
<1>1. CASE Reseed
  BY <1>1, ReseedRefines DEF Dual_Best!Next
<1>2. ASSUME NEW w \in Workers, Alternation(w)
      PROVE  [Dual_Best!Next]_(Dual_Best!bestVars)
  <2>1. CASE Publish(w)
    BY <2>1, PublishRefines
  <2>2. CASE ~Publish(w)
    <3>1. Alternating' = Alternating
      BY <1>2, AlternationFrame DEF Alternating
    <3>2. UNCHANGED published
      BY <1>2, <2>2 DEF Alternation, Copy, Enter, Head, Count, Exchange, Flip, Bump, Reread,
         Materialize, Migrate, Evaluate, Judge
    <3> QED
      BY <3>1, <3>2, QuietRefines DEF published
  <2> QED
    BY <2>1, <2>2
<1>3. CASE PreviewTake \/ PreviewShow \/ EndA \/ EndB
  <2>1. Booting
    BY <1>3 DEF PreviewTake, PreviewShow, EndA, EndB, Booting, DInv, PhasePlaces
  <2>2. phase' \in {"bootA", "bootB", "reseed"}
    BY <1>3, <2>1 DEF PreviewTake, PreviewShow, EndA, EndB, Booting, CopyB, GenerateB, control
  <2> QED
    BY <2>1, <2>2, QuietRefines DEF Booting, Alternating
<1>4. CASE \E w \in Workers : Bootstrap(w)
  <2>1. Booting /\ UNCHANGED phase
    BY <1>4 DEF Bootstrap, Try, Decide, control, DInv, PhasePlaces, Booting, Alternating, Typed
  <2> QED
    BY <2>1, QuietRefines DEF Booting, Alternating
<1>5. CASE Stop \/ Return \/ UNCHANGED vars
  BY <1>5, QuietRefines DEF Stop, Return, vars, published, control, Alternating, Booting
<1> QED
  BY <1>1, <1>2, <1>3, <1>4, <1>5 DEF Next, Worker, Driver, Terminated

\* The dual search implements PublishedBest.
THEOREM DualRefines == Spec => DualPublishes
<1>1. DInv /\ DInv' => Typed'
  BY DEF DInv
<1> QED
  BY <1>1, DualInitRefines, DualStepRefines, DInvHolds, PTL DEF Spec, DualPublishes, Dual_Best!Spec

=============================================================================
