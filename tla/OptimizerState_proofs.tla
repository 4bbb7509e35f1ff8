------------------------- MODULE OptimizerState_proofs -------------------------
(***************************************************************************)
(* What the operators of OptimizerState return and preserve, for a ring of *)
(* any length n and any set C of costs.                                    *)
(***************************************************************************)
EXTENDS OptimizerState, TLAPS, FiniteSetTheorems, WellFoundedInduction

\* A ring of n slots that remembers costs out of C.
Ring(n, C) == n \in Nat \ {0} /\ C \subseteq Nat

\* The ring has as many slots as it is long, and finitely many.
LEMMA SlotsFinite ==
    ASSUME NEW n \in Nat \ {0}
    PROVE  /\ IsFiniteSet(Slots(n))
           /\ Cardinality(Slots(n)) = n
           /\ 0 \in Slots(n)
           /\ \A i \in Slots(n) : NextIndex(i, n) \in Slots(n)
<1>1. IsFiniteSet(0 .. (n - 1)) /\ Cardinality(0 .. (n - 1)) = n
  BY FS_Interval
<1>2. \A i \in 0 .. (n - 1) : (i + 1) % n \in 0 .. (n - 1)
  OBVIOUS
<1> QED
  BY <1>1, <1>2 DEF Slots, NextIndex

\* Some slot of a ring holds its largest cost.  The provers take no induction
\* over an operator, so this goes through the well-founded order on finite
\* sets: the larger a slot's cost, the fewer slots hold a larger one.
LEMMA RingHasMaximum ==
    ASSUME NEW n, NEW C, Ring(n, C),
           NEW h \in [Slots(n) -> C]
    PROVE  \E i \in Slots(n) : \A j \in Slots(n) : h[j] <= h[i]
<1> n \in Nat \ {0} /\ C \subseteq Nat
  BY DEF Ring
<1> DEFINE Above(i) == {k \in Slots(n) : h[i] < h[k]}
           T == {Above(i) : i \in Slots(n)}
           R == StrictSubsetOrdering(Slots(n))
<1> \A i \in Slots(n) : h[i] \in Nat
  OBVIOUS
<1>1. T \subseteq FiniteSubsetsOf(Slots(n))
  BY SlotsFinite, FS_Subset DEF FiniteSubsetsOf
<1>2. PICK t \in T : \A u \in T : ~(<<u, t>> \in R)
  <2>1. Above(0) \in T
    BY SlotsFinite
  <2> HIDE DEF T
  <2> QED
    BY <1>1, <2>1, WFMin, FS_StrictSubsetOrderingWellFounded
<1>3. PICK i \in Slots(n) : t = Above(i)
  BY <1>2
<1>4. ASSUME NEW j \in Slots(n), ~(h[j] <= h[i])
      PROVE  FALSE
  <2>1. Above(j) \subseteq Above(i) /\ j \in Above(i) /\ j \notin Above(j)
    BY <1>4
  <2>2. <<Above(j), Above(i)>> \in R
    <3>1. Above(j) \in SUBSET Slots(n) /\ Above(i) \in SUBSET Slots(n)
      OBVIOUS
    <3> HIDE DEF Above
    <3> QED
      BY <2>1, <3>1 DEF StrictSubsetOrdering
  <2> QED
    BY <1>2, <1>3, <2>2
<1> QED
  BY <1>4

\* Recounting a ring finds its maximum and the number of slots that hold it.
LEMMA RecountCorrect ==
    ASSUME NEW n, NEW C, Ring(n, C),
           NEW h \in [Slots(n) -> C]
    PROVE  /\ Recounted(h).costMax \in C
           /\ IsMaximum(h, Recounted(h).costMax)
           /\ Recounted(h).maxCount = CountOf(h, Recounted(h).costMax)
<1> n \in Nat \ {0} /\ C \subseteq Nat
  BY DEF Ring
<1> DEFINE S == {h[i] : i \in DOMAIN h}
           top == CHOOSE c \in S : IsMaximum(h, c)
<1>1. S \in SUBSET C
  OBVIOUS
<1>2. \E c \in S : IsMaximum(h, c)
  BY RingHasMaximum DEF IsMaximum
<1>3. top \in S /\ IsMaximum(h, top)
  BY <1>2
<1>4. Recounted(h) = [costMax |-> top, maxCount |-> CountOf(h, top)]
  BY DEF Recounted
<1>5. top \in C
  BY <1>1, <1>3
<1> HIDE DEF S, top
<1> QED
  BY <1>3, <1>4, <1>5

\* The ring has finitely many slots, whichever of them hold a cost.
LEMMA HoldingFinite ==
    ASSUME NEW n \in Nat \ {0}, NEW h, DOMAIN h = Slots(n), NEW c
    PROVE  IsFiniteSet(Holding(h, c)) /\ CountOf(h, c) \in Nat
<1>1. Holding(h, c) \in SUBSET Slots(n)
  BY DEF Holding
<1> QED
  BY <1>1, SlotsFinite, FS_Subset, FS_CardinalityType DEF CountOf

\* The DLAS pair (costMax, maxCount) describes the ring of s exactly.
Exact(s) == IsMaximum(s.history, s.costMax) /\ s.maxCount = CountOf(s.history, s.costMax)

\* An initialized state has the type of a state, and an exact pair.
LEMMA InitializedCorrect ==
    ASSUME NEW n, NEW C, Ring(n, C),
           NEW cost \in C
    PROVE  /\ Initialized(cost, n) \in States(n, C)
           /\ Exact(Initialized(cost, n))
           /\ \E i \in DOMAIN Initialized(cost, n).history :
                Initialized(cost, n).currentCost
                    <= Initialized(cost, n).history[i]
<1> n \in Nat \ {0} /\ C \subseteq Nat
  BY DEF Ring
<1> DEFINE h == [i \in Slots(n) |-> cost]
<1>1. Initialized(cost, n) =
        [ history |-> h, historyIndex |-> 0, currentCost |-> cost,
          costMax |-> cost, maxCount |-> n, initialized |-> TRUE ]
  BY DEF Initialized
<1>2. h \in [Slots(n) -> C] /\ 0 \in Slots(n)
  BY SlotsFinite
<1>3. Holding(h, cost) = Slots(n)
  BY DEF Holding
<1>4. IsMaximum(h, cost)
  BY <1>2 DEF IsMaximum
<1>5. CountOf(h, cost) = n
  BY <1>3, SlotsFinite DEF CountOf
<1>6. h[0] = cost /\ DOMAIN h = Slots(n)
  BY <1>2
<1> HIDE DEF h
<1> QED
  BY <1>1, <1>2, <1>4, <1>5, <1>6 DEF States, Exact

\* The LAHC rule keeps the type, and the slot it wrote holds the new current
\* cost; it accepts exactly what is within the drift of one of its thresholds.
LEMMA LAHCStep ==
    ASSUME NEW n, NEW C, Ring(n, C),
           NEW s \in States(n, C), NEW c \in C, NEW d \in Nat,
           NEW out, out = ApplyLAHC(s, c, d)
    PROVE  LET t == out.state
           IN  /\ out.accepted \in BOOLEAN
               /\ t \in States(n, C)
               /\ t.currentCost = IF out.accepted THEN c ELSE s.currentCost
               /\ t.history = [s.history EXCEPT ![s.historyIndex] = t.currentCost]
               /\ out.accepted <=> \/ c <= s.currentCost + d
                                   \/ c <= s.history[s.historyIndex] + d
<1> n \in Nat \ {0} /\ C \subseteq Nat
  BY DEF Ring
<1>1. DOMAIN s.history = Slots(n) /\ Cardinality(DOMAIN s.history) = n
  BY SlotsFinite DEF States
<1>2. NextIndex(s.historyIndex, n) \in Slots(n)
  BY SlotsFinite DEF States
<1> QED
  BY <1>1, <1>2 DEF ApplyLAHC, LAHCRemembers, States

\* Writing v into slot i changes the number of slots that hold c by one at most.
LEMMA ReplaceCount ==
    ASSUME NEW n, NEW C, Ring(n, C),
           NEW h \in [Slots(n) -> C], NEW i \in Slots(n),
           NEW v \in C, NEW c \in C
    PROVE  CountOf([h EXCEPT ![i] = v], c) =
             IF v = c THEN IF h[i] = c THEN CountOf(h, c) ELSE CountOf(h, c) + 1
             ELSE IF h[i] = c THEN CountOf(h, c) - 1 ELSE CountOf(h, c)
<1> n \in Nat \ {0} /\ C \subseteq Nat
  BY DEF Ring
<1>1. IsFiniteSet(Holding(h, c)) /\ (i \in Holding(h, c) <=> h[i] = c)
  BY HoldingFinite DEF Holding
<1>2. CASE v = c
  <2>1. Holding([h EXCEPT ![i] = v], c) = Holding(h, c) \cup {i}
    BY <1>2 DEF Holding
  <2> QED
    BY <1>1, <1>2, <2>1, FS_AddElement DEF CountOf
<1>3. CASE v # c
  <2>1. Holding([h EXCEPT ![i] = v], c) = Holding(h, c) \ {i}
    BY <1>3 DEF Holding
  <2> QED
    BY <1>1, <1>3, <2>1, FS_RemoveElement, ZenonT(30) DEF CountOf
<1> QED
  BY <1>2, <1>3

\* A count is zero exactly when no slot holds the cost.
LEMMA CountZero ==
    ASSUME NEW n \in Nat \ {0}, NEW h, DOMAIN h = Slots(n), NEW c
    PROVE  CountOf(h, c) = 0 <=> \A i \in Slots(n) : h[i] # c
<1>1. IsFiniteSet(Holding(h, c)) /\ (Holding(h, c) = {} <=> \A i \in Slots(n) : h[i] # c)
  BY HoldingFinite DEF Holding
<1> QED
  BY <1>1, FS_EmptySet DEF CountOf

\* The three bookkeeping branches: on an exact state they yield the exact pair
\* of the new ring, unless they report that no slot holds the old maximum.
LEMMA DLASMaximaExact ==
    ASSUME NEW n, NEW C, Ring(n, C),
           NEW s \in States(n, C), Exact(s), NEW current \in C,
           NEW old, old = s.history[s.historyIndex],
           NEW history,
           history = IF DLASReplaces(current, old, s.currentCost)
                     THEN [s.history EXCEPT ![s.historyIndex] = current]
                     ELSE s.history
    PROVE  LET kept == DLASMaxima(s, current, old)
           IN  /\ kept.costMax \in C /\ kept.maxCount \in Nat
               /\ kept.maxCount = CountOf(history, kept.costMax)
               /\ \A i \in Slots(n) : history[i] <= kept.costMax
<1> n \in Nat \ {0} /\ C \subseteq Nat
  BY DEF Ring
<1> DEFINE i == s.historyIndex
           kept == DLASMaxima(s, current, old)
<1>1. /\ s.history \in [Slots(n) -> C] /\ i \in Slots(n)
      /\ s.costMax \in C /\ s.currentCost \in C /\ old \in C
      /\ {s.costMax, s.currentCost, old, current} \subseteq Nat
      /\ \A j \in Slots(n) : s.history[j] \in Nat
      /\ s.maxCount = CountOf(s.history, s.costMax)
      /\ \A j \in Slots(n) : s.history[j] <= s.costMax
      /\ \E j \in Slots(n) : s.history[j] = s.costMax
  BY DEF States, Exact, IsMaximum
<1>2. /\ history \in [Slots(n) -> C]
      /\ \A j \in Slots(n) : history[j] \in {s.history[j], current}
  BY <1>1
<1>3. \A c \in C : CountOf(s.history, c) \in Nat /\ CountOf(history, c) \in Nat
  BY <1>1, <1>2, HoldingFinite
<1>4. \A c \in C : CountOf([s.history EXCEPT ![i] = current], c) =
            IF current = c THEN IF old = c THEN CountOf(s.history, c) ELSE CountOf(s.history, c) + 1
            ELSE IF old = c THEN CountOf(s.history, c) - 1 ELSE CountOf(s.history, c)
  BY <1>1, ReplaceCount
<1>5. CASE current > old /\ current > s.costMax
  <2>1. kept = [costMax |-> current, maxCount |-> 1]
    BY <1>1, <1>5 DEF DLASMaxima
  <2>2. CountOf(s.history, current) = 0
    <3>1. \A j \in Slots(n) : s.history[j] # current
      BY <1>1, <1>5
    <3> QED
      BY <1>1, <3>1, CountZero
  <2>3. history = [s.history EXCEPT ![i] = current]
    BY <1>5 DEF DLASReplaces
  <2>4. CountOf(history, current) = 1
    BY <1>1, <1>4, <1>5, <2>2, <2>3
  <2>5. \A j \in Slots(n) : history[j] <= current
    BY <1>1, <1>2, <1>5
  <2> QED
    BY <2>1, <2>4, <2>5
<1>6. CASE current > old /\ current = s.costMax /\ old # s.costMax
  <2>1. kept = [costMax |-> s.costMax, maxCount |-> s.maxCount + 1]
    BY <1>1, <1>6 DEF DLASMaxima
  <2>2. history = [s.history EXCEPT ![i] = current]
    BY <1>6 DEF DLASReplaces
  <2>3. \A j \in Slots(n) : history[j] <= s.costMax
    BY <1>1, <1>2, <1>6
  <2> QED
    BY <1>1, <1>3, <1>4, <1>6, <2>1, <2>2, <2>3
<1>7. CASE /\ DLASReplaces(current, old, s.currentCost)
           /\ current < s.costMax /\ old = s.costMax
  <2>1. kept = [costMax |-> s.costMax, maxCount |-> s.maxCount - 1]
    BY <1>1, <1>7 DEF DLASMaxima
  <2>2. history = [s.history EXCEPT ![i] = current]
    BY <1>7
  <2>3. \A j \in Slots(n) : history[j] <= s.costMax
    BY <1>1, <1>2, <1>7
  <2>4. CountOf(history, s.costMax) = s.maxCount - 1
    BY <1>1, <1>4, <1>7, <2>2
  <2> QED
    BY <1>1, <1>3, <2>1, <2>3, <2>4
<1>8. CASE /\ ~(current > old /\ current > s.costMax)
           /\ ~(current > old /\ current = s.costMax /\ old # s.costMax)
           /\ ~(/\ DLASReplaces(current, old, s.currentCost)
                /\ current < s.costMax /\ old = s.costMax)
  <2>1. kept = [costMax |-> s.costMax, maxCount |-> s.maxCount]
    BY <1>8 DEF DLASMaxima
  <2>2. \A j \in Slots(n) : history[j] <= s.costMax
    BY <1>1, <1>2, <1>8 DEF DLASReplaces
  <2>3. CountOf(history, s.costMax) = s.maxCount
    BY <1>1, <1>4, <1>8 DEF DLASReplaces
  <2> QED
    BY <1>1, <1>3, <2>1, <2>2, <2>3
<1> QED
  BY <1>5, <1>6, <1>7, <1>8

\* The DLAS rule on an exact state yields an exact state, whose slot under the
\* old index is not below the new current cost.
LEMMA DLASStep ==
    ASSUME NEW n, NEW C, Ring(n, C),
           NEW s \in States(n, C), Exact(s),
           NEW c \in C, NEW d \in Nat,
           NEW out, out = ApplyDLAS(s, c, d)
    PROVE  LET t == out.state
           IN  /\ out.accepted \in BOOLEAN
               /\ t \in States(n, C)
               /\ Exact(t)
               /\ t.currentCost = IF out.accepted THEN c ELSE s.currentCost
               /\ t.currentCost <= t.history[s.historyIndex]
               /\ \A j \in Slots(n) : t.history[j] \in {s.history[j], t.currentCost}
               /\ out.accepted <=> c <= s.currentCost + d \/ c < s.costMax + d
<1> n \in Nat \ {0} /\ C \subseteq Nat
  BY DEF Ring
<1> DEFINE i        == s.historyIndex
           accepted == c <= s.currentCost + d \/ c < s.costMax + d
           current  == IF accepted THEN c ELSE s.currentCost
           old      == s.history[i]
           history  == IF DLASReplaces(current, old, s.currentCost)
                       THEN [s.history EXCEPT ![i] = current] ELSE s.history
           kept     == DLASMaxima(s, current, old)
           maxima   == IF kept.maxCount <= 0 THEN Recounted(history) ELSE kept
           next     == NextIndex(i, Cardinality(DOMAIN s.history))
           t        == [s EXCEPT !.historyIndex = next, !.currentCost = current,
                                 !.history = history, !.costMax = maxima.costMax,
                                 !.maxCount = maxima.maxCount]
<1>1. out = [accepted |-> accepted, state |-> t]
  BY DEF ApplyDLAS
<1>2. /\ s.history \in [Slots(n) -> C] /\ i \in Slots(n)
      /\ s.currentCost \in C /\ old \in C /\ current \in C
      /\ {s.currentCost, old, current} \subseteq Nat
      /\ next \in Slots(n)
  <2>1. Cardinality(DOMAIN s.history) = n
    BY SlotsFinite DEF States
  <2> QED
    BY <2>1, SlotsFinite DEF States
<1>3. /\ history \in [Slots(n) -> C]
      /\ \A j \in Slots(n) : history[j] \in {s.history[j], current}
      /\ current <= history[i]
  BY <1>2 DEF DLASReplaces
<1>4. /\ kept.costMax \in C /\ kept.maxCount \in Nat
      /\ kept.maxCount = CountOf(history, kept.costMax)
      /\ \A j \in Slots(n) : history[j] <= kept.costMax
  <2> HIDE DEF accepted, current
  <2> QED
    BY <1>2, DLASMaximaExact
<1>5. /\ maxima.costMax \in C /\ maxima.maxCount \in Int
      /\ IsMaximum(history, maxima.costMax)
      /\ maxima.maxCount = CountOf(history, maxima.costMax)
  <2> HIDE DEF history, kept
  <2>1. CASE kept.maxCount <= 0
    BY <1>3, <2>1, RecountCorrect, HoldingFinite
  <2>2. CASE kept.maxCount > 0
    <3>1. \E j \in Slots(n) : history[j] = kept.costMax
      BY <1>3, <1>4, <2>2, CountZero
    <3> QED
      BY <1>3, <1>4, <2>2, <3>1 DEF IsMaximum
  <2> QED
    BY <1>4, <2>1, <2>2
<1>6. /\ t \in States(n, C) /\ Exact(t)
      /\ t.currentCost = current /\ t.history = history
  <2> HIDE DEF history, current, maxima, next
  <2> QED
    BY <1>2, <1>3, <1>5 DEF States, Exact
<1>7. /\ out.accepted = accepted /\ out.state = t
      /\ accepted \in BOOLEAN
      /\ current = IF accepted THEN c ELSE s.currentCost
  <2>1. accepted \in BOOLEAN
    OBVIOUS
  <2> HIDE DEF accepted, t
  <2> QED
    BY <1>1, <2>1
<1>8. accepted <=> c <= s.currentCost + d \/ c < s.costMax + d
  OBVIOUS
<1> HIDE DEF t, history, accepted, current
<1> QED
  BY <1>3, <1>6, <1>7, <1>8

\* Whatever the ring holds, exact or not, either rule keeps the type, makes an
\* accepted candidate current and accepts every candidate that is no worse.
LEMMA ApplyTyped ==
    ASSUME NEW n, NEW C, Ring(n, C),
           NEW rule \in Kinds, NEW s \in States(n, C), NEW c \in C, NEW d \in Nat,
           NEW out, out = Apply(rule, s, c, d)
    PROVE  /\ out.accepted \in BOOLEAN
           /\ out.state \in States(n, C)
           /\ out.state.currentCost = IF out.accepted THEN c ELSE s.currentCost
           /\ c <= s.currentCost => out.accepted
<1> n \in Nat \ {0} /\ C \subseteq Nat
  BY DEF Ring
<1>1. c \in Nat /\ s.currentCost \in Nat
  BY DEF States
<1>2. CASE rule = "LAHC"
  <2> DEFINE t == out.state
  <2>1. out = ApplyLAHC(s, c, d) /\ t = out.state
    BY <1>2 DEF Apply
  <2> HIDE DEF t
  <2>2. /\ out.accepted \in BOOLEAN
        /\ t \in States(n, C)
        /\ t.currentCost = IF out.accepted THEN c ELSE s.currentCost
        /\ t.history = [s.history EXCEPT ![s.historyIndex] = t.currentCost]
        /\ out.accepted <=> \/ c <= s.currentCost + d
                            \/ c <= s.history[s.historyIndex] + d
    BY <2>1, LAHCStep
  <2> USE DEF t
  <2> QED
    BY <1>1, <2>2
<1>3. CASE rule = "DLAS"
  <2> DEFINE i        == s.historyIndex
             accepted == c <= s.currentCost + d \/ c < s.costMax + d
             current  == IF accepted THEN c ELSE s.currentCost
             old      == s.history[i]
             history  == IF DLASReplaces(current, old, s.currentCost)
                         THEN [s.history EXCEPT ![i] = current] ELSE s.history
             kept     == DLASMaxima(s, current, old)
             maxima   == IF kept.maxCount <= 0 THEN Recounted(history) ELSE kept
             next     == NextIndex(i, Cardinality(DOMAIN s.history))
             t        == [s EXCEPT !.historyIndex = next, !.currentCost = current,
                                   !.history = history, !.costMax = maxima.costMax,
                                   !.maxCount = maxima.maxCount]
  <2>1. out = [accepted |-> accepted, state |-> t]
    BY <1>3 DEF Apply, ApplyDLAS
  <2>2. /\ s.history \in [Slots(n) -> C] /\ i \in Slots(n) /\ next \in Slots(n)
        /\ current \in C /\ s.costMax \in C /\ s.maxCount \in Int
    <3>1. Cardinality(DOMAIN s.history) = n
      BY SlotsFinite DEF States
    <3> QED
      BY <3>1, SlotsFinite DEF States
  <2>3. history \in [Slots(n) -> C]
    BY <2>2
  <2>4. kept.costMax \in C /\ kept.maxCount \in Int
    <3> HIDE DEF current, old
    <3> QED
      BY <2>2 DEF DLASMaxima
  <2>5. maxima.costMax \in C /\ maxima.maxCount \in Int
    <3> HIDE DEF history, kept
    <3>1. Recounted(history).costMax \in C /\ Recounted(history).maxCount \in Int
      BY <2>3, RecountCorrect, HoldingFinite
    <3> QED
      BY <2>4, <3>1
  <2>6. t \in States(n, C) /\ t.currentCost = current
    <3> HIDE DEF history, current, maxima, next
    <3> QED
      BY <2>2, <2>3, <2>5 DEF States
  <2>7. accepted \in BOOLEAN /\ (c <= s.currentCost => accepted)
    BY <1>1
  <2>8. current = IF accepted THEN c ELSE s.currentCost
    OBVIOUS
  <2> HIDE DEF t, accepted, current
  <2> QED
    BY <2>1, <2>6, <2>7, <2>8
<1> QED
  BY <1>2, <1>3 DEF Kinds

\* One offer, from a state that is initialized: what the rules do to the three
\* properties, and how far the new ring can exceed the old one.
LEMMA OfferStep ==
    ASSUME NEW n, NEW C, Ring(n, C),
           NEW rule \in Kinds, NEW s \in States(n, C),
           rule = "DLAS" => Exact(s),
           \E i \in DOMAIN s.history : s.currentCost <= s.history[i],
           NEW c \in C, NEW d \in Nat,
           NEW out, out = Apply(rule, s, c, d)
    PROVE  LET t == out.state
           IN  /\ out.accepted \in BOOLEAN
               /\ t \in States(n, C)
               /\ rule = "DLAS" => Exact(t)
               /\ \E i \in DOMAIN t.history : t.currentCost <= t.history[i]
               /\ \A j \in DOMAIN t.history : \E i \in DOMAIN s.history :
                     t.history[j] <= s.history[i] + d
<1> n \in Nat \ {0} /\ C \subseteq Nat
  BY DEF Ring
<1> DEFINE t == out.state
<1>1. /\ s.history \in [Slots(n) -> C] /\ s.historyIndex \in Slots(n)
      /\ s.currentCost \in C /\ s.costMax \in C
      /\ {s.currentCost, s.costMax, c} \subseteq Nat
      /\ \A i \in Slots(n) : s.history[i] \in Nat
      /\ \E i \in Slots(n) : s.currentCost <= s.history[i]
  BY DEF States
<1>2. CASE rule = "LAHC"
  <2>1. out = ApplyLAHC(s, c, d) /\ t = out.state
    BY <1>2 DEF Apply
  <2> HIDE DEF t
  <2>2. /\ out.accepted \in BOOLEAN
        /\ t \in States(n, C)
        /\ t.currentCost = IF out.accepted THEN c ELSE s.currentCost
        /\ t.history = [s.history EXCEPT ![s.historyIndex] = t.currentCost]
        /\ out.accepted <=> \/ c <= s.currentCost + d
                            \/ c <= s.history[s.historyIndex] + d
    BY <2>1, LAHCStep
  <2>3. t.history[s.historyIndex] = t.currentCost /\ t.currentCost \in C
    BY <1>1, <2>2 DEF States
  <2>4. \E i \in Slots(n) : t.currentCost <= s.history[i] + d
    BY <1>1, <2>2
  <2>5. \A j \in Slots(n) : t.history[j] \in {s.history[j], t.currentCost}
    BY <1>1, <2>2
  <2>6. \A j \in Slots(n) : \E i \in Slots(n) :
           t.history[j] <= s.history[i] + d
    <3> TAKE j \in Slots(n)
    <3>1. CASE t.history[j] = s.history[j]
      <4>1. s.history[j] <= s.history[j] + d
        BY <1>1
      <4> QED
        BY <3>1, <4>1
    <3>2. CASE t.history[j] = t.currentCost
      BY <2>4, <3>2
    <3> QED
      BY <2>5, <3>1, <3>2
  <2>7. /\ DOMAIN t.history = Slots(n) /\ DOMAIN s.history = Slots(n)
        /\ \E i \in Slots(n) : t.currentCost <= t.history[i]
    BY <1>1, <2>2, <2>3 DEF States
  <2> USE DEF t
  <2> QED
    BY <1>2, <2>2, <2>6, <2>7
<1>3. CASE rule = "DLAS"
  <2>1. out = ApplyDLAS(s, c, d) /\ t = out.state /\ Exact(s)
    BY <1>3 DEF Apply
  <2> HIDE DEF t
  <2>2. /\ out.accepted \in BOOLEAN
        /\ t \in States(n, C)
        /\ Exact(t)
        /\ t.currentCost = IF out.accepted THEN c ELSE s.currentCost
        /\ t.currentCost <= t.history[s.historyIndex]
        /\ \A j \in Slots(n) : t.history[j] \in {s.history[j], t.currentCost}
        /\ out.accepted <=> c <= s.currentCost + d \/ c < s.costMax + d
    BY <2>1, DLASStep
  <2>3. \E i \in Slots(n) : s.history[i] = s.costMax
    BY <1>1, <1>3 DEF Exact, IsMaximum
  <2>4. \E i \in Slots(n) : t.currentCost <= s.history[i] + d
    BY <1>1, <2>2, <2>3
  <2>6. \A j \in Slots(n) : \E i \in Slots(n) :
           t.history[j] <= s.history[i] + d
    <3> TAKE j \in Slots(n)
    <3>1. CASE t.history[j] = s.history[j]
      <4>1. s.history[j] <= s.history[j] + d
        BY <1>1
      <4> QED
        BY <3>1, <4>1
    <3>2. CASE t.history[j] = t.currentCost
      BY <2>4, <3>2
    <3> QED
      BY <2>2, <3>1, <3>2
  <2>7. /\ DOMAIN t.history = Slots(n) /\ DOMAIN s.history = Slots(n)
        /\ \E i \in Slots(n) : t.currentCost <= t.history[i]
    BY <1>1, <2>2 DEF States
  <2> USE DEF t
  <2> QED
    BY <2>2, <2>6, <2>7
<1> QED
  BY <1>2, <1>3 DEF Kinds

\* Either rule moves on to the next slot of the ring, whatever it decides.
LEMMA IndexAdvances ==
    ASSUME NEW n, NEW C, Ring(n, C),
           NEW rule \in Kinds, NEW s \in States(n, C), NEW c, NEW d
    PROVE  Apply(rule, s, c, d).state.historyIndex = NextIndex(s.historyIndex, n)
<1> n \in Nat \ {0}
  BY DEF Ring
<1>1. DOMAIN s.history = Slots(n) /\ Cardinality(DOMAIN s.history) = n
  BY SlotsFinite DEF States
<1>2. ASSUME NEW j, NEW a, NEW b, NEW m, NEW k
      PROVE  [s EXCEPT !.historyIndex = j, !.currentCost = a, !.history = b,
                       !.costMax = m, !.maxCount = k].historyIndex = j
  BY DEF States
<1>3. ASSUME NEW j, NEW a, NEW i, NEW b
      PROVE  [s EXCEPT !.historyIndex = j, !.currentCost = a, !.history[i] = b].historyIndex = j
  BY DEF States
<1> QED
  BY <1>1, <1>2, <1>3 DEF Apply, ApplyLAHC, ApplyDLAS

=============================================================================
