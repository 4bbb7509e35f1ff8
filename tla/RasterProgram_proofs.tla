------------------------ MODULE RasterProgram_proofs ------------------------
(***************************************************************************)
(* Proofs about RasterProgram.                                             *)
(***************************************************************************)
EXTENDS RasterProgram, FiniteSetTheorems, SequenceTheorems, TLAPS

-----------------------------------------------------------------------------
(* Numbers.                                                                  *)

\* A set of numbers that is not empty has a least one.
LEMMA LeastNumber ==
    ASSUME NEW S \in SUBSET Nat, S # {}
    PROVE  \E a \in S : \A b \in S : a <= b
<1> DEFINE R == {ss \in Nat \X Nat : ss[1] < ss[2]}
<1>1. IsWellFoundedOn(R, Nat)
  BY NatLessThanWellFounded DEF OpToRel
<1>2. PICK a \in S : \A b \in S : ~(<<b, a>> \in R)
  <2> HIDE DEF R
  <2> QED
    BY <1>1, WFMin
<1>3. ASSUME NEW b \in S
      PROVE  a <= b
  <2>1. a \in Nat /\ b \in Nat
    OBVIOUS
  <2>2. <<b, a>>[1] = b /\ <<b, a>>[2] = a /\ <<b, a>> \in Nat \X Nat
    BY <2>1
  <2>3. ~(b < a)
    BY <1>2, <2>2
  <2> QED
    BY <2>1, <2>3
<1> QED
  BY <1>3

LEMMA MinIsLeast ==
    ASSUME NEW S \in SUBSET Nat, S # {}
    PROVE  Min(S) \in S /\ \A b \in S : Min(S) <= b
BY LeastNumber DEF Min

\* One that has a bound has a greatest.
LEMMA MaxIsGreatest ==
    ASSUME NEW S \in SUBSET Nat, S # {}, NEW n \in Nat, \A b \in S : b <= n
    PROVE  Max(S) \in S /\ \A b \in S : b <= Max(S)
<1> DEFINE T == {m \in Nat : \A b \in S : b <= m}
<1>1. PICK a \in T : \A b \in T : a <= b
  BY LeastNumber
<1>2. a \in S
  <2>1. CASE a = 0
    <3>1. PICK b \in S : TRUE
      OBVIOUS
    <3>2. b \in Nat /\ b <= a
      BY <1>1
    <3> QED
      BY <2>1, <3>1, <3>2
  <2>2. CASE a # 0
    <3>1. a - 1 \in Nat /\ a - 1 \notin T
      BY <1>1, <2>2
    <3>2. PICK b \in S : ~(b <= a - 1)
      BY <3>1
    <3> QED
      BY <3>1, <3>2, <1>1
  <2> QED
    BY <2>1, <2>2
<1> QED
  BY <1>1, <1>2 DEF Max

LEMMA IntervalCount ==
    ASSUME NEW n \in Nat
    PROVE  IsFiniteSet(1..n) /\ Cardinality(1..n) = n
<1>1. 1 \in Int /\ n \in Int
  OBVIOUS
<1> QED
  BY <1>1, FS_Interval

LEMMA ModuloRange ==
    ASSUME NEW a \in Nat, NEW n \in Nat, n >= 1
    PROVE  (a % n) + 1 \in 1..n
OBVIOUS

LEMMA HalfOfEven ==
    ASSUME NEW d \in Nat, d % 2 = 0
    PROVE  d \div 2 \in Nat /\ d = 2 * (d \div 2)
OBVIOUS

\* What holds at zero, and at a number if at the one before, holds at all.
LEMMA Induction ==
    ASSUME NEW N \in Nat, NEW B, 0 \in B, \A n \in 1..N : n - 1 \in B => n \in B
    PROVE  0..N \subseteq B
<1> DEFINE C == {n \in 0..N : n \notin B}
<1>1. CASE C = {}
  BY <1>1
<1>2. CASE C # {}
  <2>0. C \in SUBSET Nat
    OBVIOUS
  <2>1. PICK m \in C : \A c \in C : m <= c
    <3> HIDE DEF C
    <3> QED
      BY <1>2, <2>0, LeastNumber
  <2>2. m # 0 /\ m \in 1..N /\ m - 1 \in 0..N
    BY <2>1
  <2>3. m - 1 \notin C
    BY <2>1, <2>2
  <2> QED
    BY <2>1, <2>2, <2>3
<1> QED
  BY <1>1, <1>2

\* A function of numbers each of which follows from the one before.
LEMMA RecursionTyped ==
    ASSUME NEW N \in Nat, NEW X, NEW g, DOMAIN g = 0..N, g = [n \in 0..N |-> g[n]],
           g[0] \in X, \A n \in 1..N : g[n - 1] \in X => g[n] \in X
    PROVE  g \in [0..N -> X]
<1> DEFINE B == {n \in 0..N : g[n] \in X}
<1>1. 0 \in B /\ \A n \in 1..N : n - 1 \in B => n \in B
  OBVIOUS
<1> HIDE DEF B
<1>2. 0..N \subseteq B
  BY <1>1, Induction
<1>3. \A n \in 0..N : g[n] \in X
  BY <1>2 DEF B
<1> QED
  BY <1>3

Steps(N, X, x0, G) == N \in Nat /\ x0 \in X /\ G \in [1..N -> [X -> X]]

Recursive(N, X, x0, G) ==
    \E g \in [0..N -> X] : g[0] = x0 /\ \A n \in 1..N : g[n] = G[n][g[n - 1]]

\* There is one that starts as asked and takes the steps asked for.
LEMMA RecursionExists ==
    ASSUME NEW N, NEW X, NEW x0, NEW G, Steps(N, X, x0, G)
    PROVE  Recursive(N, X, x0, G)
<1> N \in Nat /\ x0 \in X /\ G \in [1..N -> [X -> X]]
  BY DEF Steps
<1> DEFINE Good(m, g) == g[0] = x0 /\ \A n \in 1..m : g[n] = G[n][g[n - 1]]
           B == {m \in 0..N : ~ \E g \in [0..m -> X] : Good(m, g)}
<1>1. CASE B = {}
  <2>1. N \in 0..N
    OBVIOUS
  <2>2. \E g \in [0..N -> X] : Good(N, g)
    BY <1>1, <2>1
  <2> QED
    BY <2>2 DEF Recursive
<1>2. CASE B # {}
  <2>0. B \in SUBSET Nat
    OBVIOUS
  <2>1. PICK m \in B : \A b \in B : m <= b
    <3> HIDE DEF B
    <3> QED
      BY <1>2, <2>0, LeastNumber
  <2>2. m # 0
    <3>1. ASSUME m = 0
          PROVE  FALSE
      <4> DEFINE f == [n \in 0..m |-> x0]
      <4>1. f \in [0..m -> X] /\ f[0] = x0
        BY <3>1
      <4>2. \A n \in 1..m : f[n] = G[n][f[n - 1]]
        BY <3>1
      <4> HIDE DEF f
      <4> QED
        BY <2>1, <4>1, <4>2
    <3> QED
      BY <3>1
  <2>3. m \in 1..N /\ m - 1 \in 0..N /\ m - 1 \notin B
    <3>1. m \in 0..N
      BY <2>1
    <3>2. m \in 1..N /\ m - 1 \in 0..N /\ ~(m <= m - 1)
      BY <2>2, <3>1
    <3> HIDE DEF B
    <3> QED
      BY <2>1, <3>2
  <2>4. PICK g \in [0..(m - 1) -> X] : Good(m - 1, g)
    BY <2>3
  <2> DEFINE f == [n \in 0..m |-> IF n = m THEN G[m][g[m - 1]] ELSE g[n]]
  <2>5. f \in [0..m -> X]
    <3>1. G[m] \in [X -> X] /\ g[m - 1] \in X
      BY <2>3
    <3>2. G[m][g[m - 1]] \in X
      BY <3>1
    <3>3. \A n \in 0..m : n # m => g[n] \in X
      BY <2>3
    <3> QED
      BY <3>2, <3>3
  <2>6. f[0] = x0
    BY <2>3, <2>4
  <2>7. ASSUME NEW n \in 1..m
        PROVE  f[n] = G[n][f[n - 1]]
    <3>1. n - 1 \in 0..m /\ n - 1 # m /\ f[n - 1] = g[n - 1]
      BY <2>3
    <3>2. CASE n = m
      BY <3>1, <3>2
    <3>3. CASE n # m
      <4>1. n \in 1..(m - 1)
        BY <2>3, <3>3
      <4>2. g[n] = G[n][g[n - 1]]
        BY <4>1, <2>4
      <4> QED
        BY <3>1, <3>3, <4>2, <2>3
    <3> QED
      BY <3>2, <3>3
  <2> HIDE DEF f
  <2> QED
    BY <2>1, <2>5, <2>6, <2>7
<1> QED
  BY <1>1, <1>2 DEF Recursive

-----------------------------------------------------------------------------
(* Instructions and their cycles.                                            *)

Stores(ins) == {n \in DOMAIN ins : ins[n].op = "store"}

LEMMA InstructionType ==
    /\ \A r \in Regs, v \in Bytes : Load(r, v) \in Instructions
    /\ \A r \in Regs, t \in Targets : Store(r, t) \in Instructions
    /\ Nop \in Instructions
BY DEF Instructions, Load, Store, Nop

LEMMA InstructionParts ==
    ASSUME NEW i \in Instructions
    PROVE  /\ i.op = "load" => i.reg \in Regs /\ i.value \in Bytes
           /\ i.op = "store" => i.reg \in Regs /\ i.target \in Targets
           /\ Cost(i) \in {2, 4}
BY DEF Instructions, Nop, Cost

LEMMA StoresFinite ==
    ASSUME NEW ins, NEW n \in Nat, DOMAIN ins = 1..n
    PROVE  /\ IsFiniteSet(Stores(ins)) /\ Cardinality(Stores(ins)) \in 0..n
<1>1. IsFiniteSet(1..n) /\ Cardinality(1..n) = n
  BY FS_Interval
<1>2. Stores(ins) \in SUBSET (1..n)
  BY DEF Stores
<1>3. IsFiniteSet(Stores(ins)) /\ Cardinality(Stores(ins)) <= n
  BY <1>1, <1>2, FS_Subset
<1> QED
  BY <1>3, FS_CardinalityType

\* Cycles are an even number, two at least for each instruction.
LEMMA CyclesEven ==
    ASSUME NEW ins \in Seq(Instructions)
    PROVE  /\ Cycles(ins) \in Nat /\ Cycles(ins) % 2 = 0
           /\ Cycles(ins) >= 2 * Len(ins)
           /\ Cycles(ins) = 2 * (Len(ins) + Cardinality(Stores(ins)))
<1>1. Len(ins) \in Nat /\ DOMAIN ins = 1..Len(ins)
  OBVIOUS
<1>2. Cardinality(Stores(ins)) \in 0..Len(ins)
  BY <1>1, StoresFinite
<1>3. Cycles(ins) = 2 * (Len(ins) + Cardinality(Stores(ins)))
  BY DEF Cycles, Stores
<1> QED
  BY <1>1, <1>2, <1>3

\* A line with nothing that another has not, but for one instruction.
TakenFrom(t, s, i) == \A k \in DOMAIN t : t[k] = i \/ \E m \in DOMAIN s : t[k] = s[m]

\* One more instruction, wherever it is, adds its cost.
LEMMA CyclesInsert ==
    ASSUME NEW s \in Seq(Instructions), NEW t \in Seq(Instructions),
           NEW n \in 1..Len(t), Len(t) = Len(s) + 1,
           \A m \in 1..Len(s) : t[IF m < n THEN m ELSE m + 1] = s[m]
    PROVE  Cycles(t) = Cycles(s) + Cost(t[n]) /\ TakenFrom(t, s, t[n])
<1> DEFINE place == [m \in Stores(s) |-> IF m < n THEN m ELSE m + 1]
           rest == Stores(t) \ {n}
<1>1. Len(s) \in Nat /\ DOMAIN s = 1..Len(s) /\ Len(t) \in Nat /\ DOMAIN t = 1..Len(t)
  OBVIOUS
<1>2. IsFiniteSet(Stores(s)) /\ IsFiniteSet(Stores(t))
  BY <1>1, StoresFinite
<1>3. \A m \in Stores(s) : m \in 1..Len(s) /\ s[m].op = "store"
  BY <1>1 DEF Stores
<1>4. place \in [Stores(s) -> rest]
  <2> SUFFICES ASSUME NEW m \in Stores(s)
               PROVE  (IF m < n THEN m ELSE m + 1) \in rest
    OBVIOUS
  <2>1. (IF m < n THEN m ELSE m + 1) \in 1..Len(t) \ {n}
    BY <1>1, <1>3
  <2> QED
    BY <1>1, <1>3, <2>1 DEF Stores
<1>5. \A a, b \in Stores(s) : place[a] = place[b] => a = b
  BY <1>1, <1>3
<1>6. \A k \in rest : \E m \in Stores(s) : place[m] = k
  <2> SUFFICES ASSUME NEW k \in rest
               PROVE  \E m \in Stores(s) : place[m] = k
    OBVIOUS
  <2>1. k \in 1..Len(t) /\ k # n /\ t[k].op = "store"
    BY <1>1 DEF Stores
  <2> DEFINE m == IF k < n THEN k ELSE k - 1
  <2>2. m \in 1..Len(s) /\ (IF m < n THEN m ELSE m + 1) = k
    BY <1>1, <2>1
  <2>3. m \in Stores(s)
    BY <1>1, <2>1, <2>2 DEF Stores
  <2> QED
    BY <2>2, <2>3
<1>7. place \in Bijection(Stores(s), rest)
  <2> HIDE DEF place, rest
  <2> QED
    BY <1>4, <1>5, <1>6 DEF Bijection, Injection, IsInjective, Surjection
<1>8. Cardinality(rest) = Cardinality(Stores(s))
  BY <1>2, <1>7, FS_Bijection DEF ExistsBijection
<1>9. Cardinality(rest) = IF n \in Stores(t) THEN Cardinality(Stores(t)) - 1
                          ELSE Cardinality(Stores(t))
  BY <1>2, FS_RemoveElement
<1>10. n \in Stores(t) <=> t[n].op = "store"
  BY <1>1 DEF Stores
<1>11. Cardinality(Stores(s)) \in Nat /\ Cardinality(Stores(t)) \in Nat
  BY <1>2, FS_CardinalityType
<1>12. /\ Cycles(s) = 2 * (Len(s) + Cardinality(Stores(s)))
       /\ Cycles(t) = 2 * (Len(t) + Cardinality(Stores(t)))
  BY CyclesEven
<1> HIDE DEF rest
<1>13. ASSUME t[n].op = "store"
       PROVE  Cycles(t) = Cycles(s) + Cost(t[n])
  <2>1. Cost(t[n]) = 4 /\ Cardinality(Stores(t)) = Cardinality(Stores(s)) + 1
    BY <1>8, <1>9, <1>10, <1>11, <1>13 DEF Cost
  <2> QED
    BY <1>1, <1>11, <1>12, <2>1
<1>14. ASSUME t[n].op # "store"
       PROVE  Cycles(t) = Cycles(s) + Cost(t[n])
  <2>1. Cost(t[n]) = 2 /\ Cardinality(Stores(t)) = Cardinality(Stores(s))
    BY <1>8, <1>9, <1>10, <1>11, <1>14 DEF Cost
  <2> QED
    BY <1>1, <1>11, <1>12, <2>1
<1>15. TakenFrom(t, s, t[n])
  <2> SUFFICES ASSUME NEW k \in 1..Len(t), k # n
               PROVE  \E m \in 1..Len(s) : t[k] = s[m]
    BY <1>1 DEF TakenFrom
  <2> DEFINE m == IF k < n THEN k ELSE k - 1
  <2>1. m \in 1..Len(s) /\ (IF m < n THEN m ELSE m + 1) = k
    BY <1>1
  <2> QED
    BY <2>1
<1> QED
  BY <1>13, <1>14, <1>15

LEMMA CyclesAppend ==
    ASSUME NEW s \in Seq(Instructions), NEW i \in Instructions
    PROVE  /\ Append(s, i) \in Seq(Instructions) /\ Append(s, i) # <<>>
           /\ Cycles(Append(s, i)) = Cycles(s) + Cost(i)
           /\ TakenFrom(Append(s, i), s, i)
<1> DEFINE t == Append(s, i)
           n == Len(s) + 1
<1>1. t \in Seq(Instructions) /\ Len(t) = Len(s) + 1 /\ n \in 1..Len(t) /\ t[n] = i
  OBVIOUS
<1>2. \A m \in 1..Len(s) : t[IF m < n THEN m ELSE m + 1] = s[m]
  OBVIOUS
<1>3. t # <<>>
  BY <1>1
<1> HIDE DEF t, n
<1>4. Cycles(t) = Cycles(s) + Cost(t[n]) /\ TakenFrom(t, s, t[n])
  BY <1>1, <1>2, CyclesInsert
<1> QED
  BY <1>1, <1>3, <1>4 DEF t

LEMMA CyclesInsertAt ==
    ASSUME NEW s \in Seq(Instructions), NEW n \in 1..Len(s), NEW i \in Instructions
    PROVE  /\ InsertAt(s, n, i) \in Seq(Instructions) /\ InsertAt(s, n, i) # <<>>
           /\ Cycles(InsertAt(s, n, i)) = Cycles(s) + Cost(i)
           /\ TakenFrom(InsertAt(s, n, i), s, i)
<1> DEFINE t == InsertAt(s, n, i)
<1>1. SubSeq(s, 1, n - 1) \in Seq(Instructions) /\ SubSeq(s, n, Len(s)) \in Seq(Instructions)
  OBVIOUS
<1>2. t \in Seq(Instructions) /\ Len(t) = Len(s) + 1
  BY <1>1 DEF InsertAt
<1>3. n \in 1..Len(t) /\ t[n] = i
  BY <1>1, <1>2 DEF InsertAt
<1>4. ASSUME NEW m \in 1..Len(s)
      PROVE  t[IF m < n THEN m ELSE m + 1] = s[m]
  <2>1. CASE m < n
    BY <1>1, <2>1 DEF InsertAt
  <2>2. CASE ~(m < n)
    BY <1>1, <2>2 DEF InsertAt
  <2> QED
    BY <2>1, <2>2
<1>5. t # <<>>
  BY <1>2
<1> HIDE DEF t
<1>6. Cycles(t) = Cycles(s) + Cost(t[n]) /\ TakenFrom(t, s, t[n])
  BY <1>2, <1>3, <1>4, CyclesInsert
<1> QED
  BY <1>2, <1>3, <1>5, <1>6 DEF t

LEMMA CyclesRemoveAt ==
    ASSUME NEW t \in Seq(Instructions), NEW n \in 1..Len(t)
    PROVE  /\ RemoveAt(t, n) \in Seq(Instructions)
           /\ Cycles(t) = Cycles(RemoveAt(t, n)) + Cost(t[n])
           /\ RemoveAt(t, n) = <<>> => Len(t) = 1
           /\ \A k \in DOMAIN RemoveAt(t, n) : \E m \in DOMAIN t : RemoveAt(t, n)[k] = t[m]
<1> DEFINE s == RemoveAt(t, n)
<1>1. SubSeq(t, 1, n - 1) \in Seq(Instructions)
      /\ SubSeq(t, n + 1, Len(t)) \in Seq(Instructions)
  OBVIOUS
<1>2. s \in Seq(Instructions) /\ Len(t) = Len(s) + 1
  <2>1. Len(SubSeq(t, 1, n - 1)) = n - 1 /\ Len(SubSeq(t, n + 1, Len(t))) = Len(t) - n
    OBVIOUS
  <2> DEFINE a == SubSeq(t, 1, n - 1)
             b == SubSeq(t, n + 1, Len(t))
  <2>2. a \in Seq(Instructions) /\ b \in Seq(Instructions) /\ s = a \o b
        /\ Len(a) = n - 1 /\ Len(b) = Len(t) - n
    BY <1>1, <2>1 DEF RemoveAt
  <2> HIDE DEF a, b, s
  <2>3. a \o b \in Seq(Instructions) /\ Len(a \o b) = Len(a) + Len(b)
    BY <2>2, ConcatProperties
  <2> QED
    BY <2>2, <2>3
<1>3. ASSUME NEW m \in 1..Len(s)
      PROVE  t[IF m < n THEN m ELSE m + 1] = s[m]
  <2>1. CASE m < n
    BY <1>1, <1>2, <2>1 DEF RemoveAt
  <2>2. CASE ~(m < n)
    <3>1. /\ Len(SubSeq(t, 1, n - 1)) = n - 1 /\ m \in 1..(Len(t) - 1)
          /\ Len(SubSeq(t, n + 1, Len(t))) = Len(t) - n
      BY <1>2
    <3>2. s[m] = SubSeq(t, n + 1, Len(t))[m - (n - 1)]
      BY <1>1, <2>2, <3>1 DEF RemoveAt
    <3>3. m - (n - 1) \in 1..Len(SubSeq(t, n + 1, Len(t)))
      BY <2>2, <3>1
    <3>4. SubSeq(t, n + 1, Len(t))[m - (n - 1)] = t[n + 1 + (m - (n - 1)) - 1]
      BY <2>2, <3>1, <3>3
    <3> QED
      BY <2>2, <3>1, <3>2, <3>4
  <2> QED
    BY <2>1, <2>2
<1>4. s = <<>> => Len(t) = 1
  BY <1>2
<1> HIDE DEF s
<1>5. Cycles(t) = Cycles(s) + Cost(t[n])
  BY <1>2, <1>3, CyclesInsert
<1>6. \A k \in DOMAIN s : \E m \in DOMAIN t : s[k] = t[m]
  <2>1. DOMAIN s = 1..Len(s) /\ DOMAIN t = 1..Len(t)
    BY <1>2
  <2>2. \A k \in 1..Len(s) : (IF k < n THEN k ELSE k + 1) \in 1..Len(t)
    BY <1>2
  <2> QED
    BY <1>3, <2>1, <2>2
<1> QED
  BY <1>2, <1>4, <1>5, <1>6 DEF s

\* An exchange of two instructions moves the cycles, a change of the target of a
\* store or of the value of a load leaves them.
LEMMA CyclesSwap ==
    ASSUME NEW s \in Seq(Instructions), NEW m \in 1..Len(s), NEW n \in 1..Len(s)
    PROVE  LET t == [s EXCEPT ![m] = s[n], ![n] = s[m]]
           IN  t \in Seq(Instructions) /\ Len(t) = Len(s) /\ Cycles(t) = Cycles(s)
<1> DEFINE t == [s EXCEPT ![m] = s[n], ![n] = s[m]]
           Other(k) == IF k = m THEN n ELSE IF k = n THEN m ELSE k
           place == [k \in Stores(s) |-> Other(k)]
<1>1. Len(s) \in Nat /\ DOMAIN s = 1..Len(s)
  OBVIOUS
<1>2. t \in Seq(Instructions) /\ Len(t) = Len(s) /\ DOMAIN t = 1..Len(s)
  OBVIOUS
<1>3. \A k \in 1..Len(s) : Other(k) \in 1..Len(s) /\ t[Other(k)] = s[k] /\ Other(Other(k)) = k
  BY <1>1
<1> HIDE DEF t, Other
<1>4. \A k \in 1..Len(s) : k \in Stores(s) <=> Other(k) \in Stores(t)
  BY <1>1, <1>2, <1>3 DEF Stores
<1>5. Stores(s) \subseteq 1..Len(s) /\ Stores(t) \subseteq 1..Len(s)
  BY <1>1, <1>2 DEF Stores
<1>6. place \in Bijection(Stores(s), Stores(t))
  <2>1. place \in [Stores(s) -> Stores(t)]
    BY <1>4, <1>5
  <2>2. \A a, b \in Stores(s) : place[a] = place[b] => a = b
    BY <1>3, <1>5
  <2>3. ASSUME NEW k \in Stores(t)
        PROVE  \E a \in Stores(s) : place[a] = k
    <3>1. Other(k) \in Stores(s) /\ Other(Other(k)) = k
      BY <1>3, <1>4, <1>5
    <3> QED
      BY <3>1
  <2> HIDE DEF place
  <2> QED
    BY <2>1, <2>2, <2>3 DEF Bijection, Injection, IsInjective, Surjection
<1>7. IsFiniteSet(Stores(s))
  BY <1>1, StoresFinite
<1>8. Cardinality(Stores(t)) = Cardinality(Stores(s))
  BY <1>6, <1>7, FS_Bijection DEF ExistsBijection
<1>9. Cycles(t) = Cycles(s)
  BY <1>2, <1>8, CyclesEven
<1> QED
  BY <1>2, <1>9 DEF t

LEMMA CyclesChange ==
    ASSUME NEW s \in Seq(Instructions), NEW n \in 1..Len(s), NEW i \in Instructions,
           i.op = s[n].op
    PROVE  LET t == [s EXCEPT ![n] = i]
           IN  t \in Seq(Instructions) /\ Len(t) = Len(s) /\ Cycles(t) = Cycles(s)
<1> DEFINE t == [s EXCEPT ![n] = i]
<1>1. t \in Seq(Instructions) /\ Len(t) = Len(s) /\ DOMAIN t = DOMAIN s
  OBVIOUS
<1>2. \A k \in DOMAIN s : t[k].op = s[k].op
  OBVIOUS
<1> HIDE DEF t
<1>3. Stores(t) = Stores(s)
  BY <1>1, <1>2 DEF Stores
<1>4. Cycles(t) = Cycles(s)
  BY <1>1, <1>3, CyclesEven
<1> QED
  BY <1>1, <1>4 DEF t

-----------------------------------------------------------------------------
(* Execution.                                                                *)

Cpus == [Regs -> Bytes]

LEMMA HeldType ==
    ASSUME NEW ins \in Seq(Instructions), NEW n \in 0..Len(ins), NEW r \in Regs,
           NEW cpu \in Cpus
    PROVE  Held(ins, n, r, cpu) \in Bytes
<1> DEFINE loads == {m \in 1..n : ins[m].op = "load" /\ ins[m].reg = r}
<1>1. Len(ins) \in Nat /\ n \in Nat /\ n <= Len(ins)
  OBVIOUS
<1>2. CASE loads = {}
  BY <1>2 DEF Held, Cpus
<1>3. CASE loads # {}
  <2>1. loads \in SUBSET Nat /\ \A m \in loads : m <= n
    OBVIOUS
  <2>2. Max(loads) \in loads
    <3> HIDE DEF loads
    <3> QED
      BY <1>1, <1>3, <2>1, MaxIsGreatest
  <2>3. Max(loads) \in 1..Len(ins) /\ ins[Max(loads)].op = "load"
    BY <1>1, <2>2
  <2>4. ins[Max(loads)].value \in Bytes
    BY <2>3, InstructionParts
  <2> QED
    BY <1>3, <2>4 DEF Held
<1> QED
  BY <1>2, <1>3

LEMMA AfterType ==
    ASSUME NEW ins \in Seq(Instructions), NEW cpu \in Cpus
    PROVE  After(ins, Len(ins), cpu) \in Cpus
<1>1. Len(ins) \in 0..Len(ins)
  OBVIOUS
<1> QED
  BY <1>1, HeldType DEF After, Cpus

\* One more instruction changes the register it loads.
LEMMA AppendAfter ==
    ASSUME NEW ins \in Seq(Instructions), NEW i \in Instructions, NEW cpu \in Cpus
    PROVE  After(Append(ins, i), Len(Append(ins, i)), cpu) =
             [r \in Regs |-> IF i.op = "load" /\ i.reg = r THEN i.value
                             ELSE After(ins, Len(ins), cpu)[r]]
<1> DEFINE t == Append(ins, i)
           n == Len(ins) + 1
           loads(s, k, r) == {m \in 1..k : s[m].op = "load" /\ s[m].reg = r}
<1>1. Len(t) = n /\ t[n] = i /\ n \in Nat /\ Len(ins) \in Nat
      /\ \A m \in 1..Len(ins) : t[m] = ins[m]
  OBVIOUS
<1>2. \A m \in 1..n : m \in 1..Len(ins) \/ m = n
  BY <1>1
<1>3. 1..Len(ins) \subseteq 1..n /\ n \in 1..n /\ n \notin 1..Len(ins)
  BY <1>1
<1> HIDE DEF t, n
<1>4. \A s, k, r : Held(s, k, r, cpu) =
                    IF loads(s, k, r) = {} THEN cpu[r] ELSE s[Max(loads(s, k, r))].value
  BY DEF Held
<1>5. ASSUME NEW r \in Regs
      PROVE  Held(t, n, r, cpu) = IF i.op = "load" /\ i.reg = r THEN i.value
                                  ELSE Held(ins, Len(ins), r, cpu)
  <2>1. loads(t, n, r) = loads(ins, Len(ins), r)
                          \cup {m \in {n} : i.op = "load" /\ i.reg = r}
    BY <1>1, <1>2, <1>3
  <2>2. \A m \in loads(ins, Len(ins), r) : t[m] = ins[m]
    BY <1>1
  <2>3. /\ loads(t, n, r) \in SUBSET Nat /\ \A m \in loads(t, n, r) : m <= n
        /\ loads(ins, Len(ins), r) \in SUBSET Nat
        /\ \A m \in loads(ins, Len(ins), r) : m <= Len(ins)
    BY <1>1
  <2> HIDE DEF loads
  <2>4. CASE i.op = "load" /\ i.reg = r
    <3>1. n \in loads(t, n, r)
      BY <2>1, <2>4
    <3>2. Max(loads(t, n, r)) \in loads(t, n, r)
          /\ \A m \in loads(t, n, r) : m <= Max(loads(t, n, r))
      BY <1>1, <2>3, <3>1, MaxIsGreatest
    <3>3. Max(loads(t, n, r)) = n
      <4>1. n <= Max(loads(t, n, r)) /\ Max(loads(t, n, r)) <= n
            /\ Max(loads(t, n, r)) \in Nat
        BY <2>3, <3>1, <3>2
      <4> QED
        BY <1>1, <4>1
    <3> QED
      BY <1>1, <1>4, <2>4, <3>1, <3>3
  <2>5. CASE ~(i.op = "load" /\ i.reg = r)
    <3>1. loads(t, n, r) = loads(ins, Len(ins), r)
      BY <2>1, <2>5
    <3>2. loads(ins, Len(ins), r) # {} =>
            Max(loads(ins, Len(ins), r)) \in loads(ins, Len(ins), r)
      BY <1>1, <2>3, MaxIsGreatest
    <3> QED
      BY <1>4, <2>2, <2>5, <3>1, <3>2
  <2> QED
    BY <2>4, <2>5
<1>6. After(t, n, cpu) = [r \in Regs |-> IF i.op = "load" /\ i.reg = r THEN i.value
                                          ELSE After(ins, Len(ins), cpu)[r]]
  BY <1>5 DEF After
<1> QED
  BY <1>1, <1>6 DEF t

\* The last instruction starts two cycles before the end, or earlier.
LEMMA StartsBefore ==
    ASSUME NEW ins \in Seq(Instructions), NEW n \in 1..Len(ins)
    PROVE  StartCycle(ins, n) \in Nat /\ StartCycle(ins, n) <= Cycles(ins) - 2
<1> DEFINE before == {m \in 1..(n - 1) : ins[m].op = "store"}
<1>1. Len(ins) \in Nat /\ n \in Nat /\ n <= Len(ins) /\ DOMAIN ins = 1..Len(ins)
  OBVIOUS
<1>2. before \in SUBSET Stores(ins)
  BY <1>1 DEF Stores
<1>3. IsFiniteSet(Stores(ins)) /\ Cardinality(Stores(ins)) \in Nat
  BY <1>1, StoresFinite
<1> HIDE DEF before
<1>4. Cardinality(before) \in Nat /\ Cardinality(before) <= Cardinality(Stores(ins))
  BY <1>2, <1>3, FS_Subset, FS_CardinalityType
<1>5. StartCycle(ins, n) = 2 * (n - 1 + Cardinality(before))
  BY DEF StartCycle, before
<1>6. Cycles(ins) = 2 * (Len(ins) + Cardinality(Stores(ins)))
  BY CyclesEven
<1> QED
  BY <1>1, <1>3, <1>4, <1>5, <1>6

\* A line that stores nothing writes nothing.
LEMMA NoStoresNoWrites ==
    ASSUME NEW ins \in Seq(Instructions), Stores(ins) = {}, NEW cpu
    PROVE  Writes(ins, Len(ins), cpu) = {}
<1>1. DOMAIN ins = 1..Len(ins)
  OBVIOUS
<1>2. {m \in 1..Len(ins) : ins[m].op = "store"} = {}
  BY <1>1 DEF Stores
<1> QED
  BY <1>2 DEF Writes

Lined(p, h) == h \in Nat /\ DOMAIN p.lines = 0..(h - 1)
               /\ \A y \in 0..(h - 1) : p.lines[y].ins \in Seq(Instructions)

LEMMA HeightOf ==
    ASSUME NEW p, NEW h, Lined(p, h)
    PROVE  Height(p) = h
<1>1. h \in Nat /\ 0 \in Int /\ h - 1 \in Int
  BY DEF Lined
<1>2. Cardinality(0..(h - 1)) = h
  BY <1>1, FS_Interval
<1> QED
  BY <1>2 DEF Lined, Height

\* The replay of the loads gives every line its registers.
LEMMA ReplayedIs ==
    ASSUME NEW p, NEW h, Lined(p, h)
    PROVE  /\ ReplayedCpu(p) \in [0..h -> Cpus] /\ ReplayedCpu(p)[0] = Zero
           /\ \A y \in 1..h : ReplayedCpu(p)[y] =
                After(p.lines[y - 1].ins, Len(p.lines[y - 1].ins), ReplayedCpu(p)[y - 1])
<1> DEFINE Out(y, cpu) == After(p.lines[y - 1].ins, Len(p.lines[y - 1].ins), cpu)
           G == [y \in 1..h |-> [cpu \in Cpus |-> Out(y, cpu)]]
           Is(g) == g = [y \in 0..h |-> IF y = 0 THEN Zero ELSE Out(y, g[y - 1])]
<1>1. h \in Nat
  BY DEF Lined
<1>2. Zero \in Cpus
  BY DEF Zero, Cpus, Bytes
<1>3. \A y \in 1..h : \A cpu \in Cpus : Out(y, cpu) \in Cpus
  <2> SUFFICES ASSUME NEW y \in 1..h, NEW cpu \in Cpus
               PROVE  Out(y, cpu) \in Cpus
    OBVIOUS
  <2>1. p.lines[y - 1].ins \in Seq(Instructions)
    BY <1>1 DEF Lined
  <2> QED
    BY <2>1, AfterType
<1> HIDE DEF Out
<1>4. G \in [1..h -> [Cpus -> Cpus]]
  BY <1>3
<1>5. PICK g \in [0..h -> Cpus] : g[0] = Zero /\ \A y \in 1..h : g[y] = G[y][g[y - 1]]
  <2>1. Steps(h, Cpus, Zero, G)
    BY <1>1, <1>2, <1>4 DEF Steps
  <2>2. Recursive(h, Cpus, Zero, G)
    BY <2>1, RecursionExists
  <2> QED
    BY <2>2 DEF Recursive
<1>6. Is(g)
  <2>1. ASSUME NEW y \in 0..h
        PROVE  g[y] = IF y = 0 THEN Zero ELSE Out(y, g[y - 1])
    <3>1. CASE y = 0
      BY <3>1, <1>5
    <3>2. CASE y # 0
      <4>1. y \in 1..h /\ y - 1 \in 0..h
        BY <1>1, <3>2
      <4>2. g[y - 1] \in Cpus
        BY <4>1
      <4> QED
        BY <1>5, <3>2, <4>1, <4>2
    <3> QED
      BY <3>1, <3>2
  <2>2. g = [y \in 0..h |-> g[y]]
    OBVIOUS
  <2> QED
    BY <2>1, <2>2
<1> DEFINE k == CHOOSE f : Is(f)
<1>7. Is(k)
  <2> HIDE DEF Is
  <2> QED
    BY <1>6
<1>8. k[0] = Zero /\ \A y \in 1..h : k[y] = Out(y, k[y - 1])
  <2>1. 0 \in 0..h /\ \A y \in 1..h : y \in 0..h /\ y # 0
    BY <1>1
  <2> QED
    BY <1>7, <2>1
<1>9. k \in [0..h -> Cpus]
  <2>1. DOMAIN k = 0..h /\ k = [y \in 0..h |-> k[y]]
    BY <1>7
  <2>2. k[0] \in Cpus
    BY <1>2, <1>8
  <2>3. ASSUME NEW y \in 1..h, k[y - 1] \in Cpus
        PROVE  k[y] \in Cpus
    BY <1>3, <1>8, <2>3
  <2> HIDE DEF k
  <2> QED
    BY <1>1, <2>1, <2>2, <2>3, RecursionTyped
<1>10. ReplayedCpu(p) = k
  BY HeightOf DEF ReplayedCpu, Out
<1> HIDE DEF k
<1> QED
  BY <1>8, <1>9, <1>10 DEF Out

-----------------------------------------------------------------------------
(* The writes of a line, in order.                                           *)

\* Of a set of places, there is an n-th.
LEMMA NthExists ==
    ASSUME NEW L \in Nat, NEW S \in SUBSET (1..L), NEW n \in 1..Cardinality(S)
    PROVE  \E m \in S : Cardinality({l \in S : l <= m}) = n
<1> DEFINE Upto(m) == {l \in S : l <= m}
           T == {m \in Nat : n <= Cardinality(Upto(m))}
<1>0. \A l \in S : l \in Nat /\ l >= 1 /\ l <= L
  OBVIOUS
<1>1. IsFiniteSet(S) /\ Cardinality(S) \in Nat
  <2>1. IsFiniteSet(1..L)
    BY FS_Interval
  <2> QED
    BY <2>1, FS_Subset, FS_CardinalityType
<1>2. \A m \in Nat : IsFiniteSet(Upto(m)) /\ Cardinality(Upto(m)) \in Nat
  <2> SUFFICES ASSUME NEW m \in Nat
               PROVE  IsFiniteSet(Upto(m)) /\ Cardinality(Upto(m)) \in Nat
    OBVIOUS
  <2>1. Upto(m) \in SUBSET S
    OBVIOUS
  <2> HIDE DEF Upto
  <2> QED
    BY <1>1, <2>1, FS_Subset, FS_CardinalityType
<1>3. L \in T
  <2>1. Upto(L) = S
    BY <1>0
  <2>2. n <= Cardinality(S)
    BY <1>1
  <2> HIDE DEF Upto
  <2> QED
    BY <2>1, <2>2
<1>4. T \in SUBSET Nat /\ T # {}
  BY <1>3
<1>5. PICK m \in T : \A b \in T : m <= b
  <2> HIDE DEF T
  <2> QED
    BY <1>4, LeastNumber
<1>6. m \in Nat /\ n <= Cardinality(Upto(m)) /\ n \in Nat /\ n >= 1
  <2>1. m \in Nat /\ n <= Cardinality(Upto(m))
    BY <1>5
  <2> QED
    BY <1>1, <2>1
<1>7. m # 0
  <2>1. Upto(0) = {}
    <3>1. \A l \in S : ~(l <= 0)
      BY <1>0
    <3> QED
      BY <3>1
  <2> HIDE DEF Upto
  <2>2. Cardinality(Upto(0)) = 0
    BY <2>1, FS_EmptySet
  <2> QED
    BY <1>6, <2>2
<1>8. m - 1 \in Nat /\ Cardinality(Upto(m - 1)) < n
  <2>1. m - 1 \in Nat /\ ~(m <= m - 1)
    BY <1>6, <1>7
  <2>2. m - 1 \notin T
    <3> HIDE DEF T
    <3> QED
      BY <1>5, <2>1
  <2>3. ~(n <= Cardinality(Upto(m - 1)))
    <3> HIDE DEF Upto
    <3> QED
      BY <2>1, <2>2
  <2>4. Cardinality(Upto(m - 1)) \in Nat
    BY <1>2, <2>1
  <2> HIDE DEF Upto
  <2> QED
    BY <1>6, <2>1, <2>3, <2>4
<1>9. m \in S /\ Upto(m) = Upto(m - 1) \cup {m} /\ m \notin Upto(m - 1)
  <2>1. m \in S
    <3>1. ASSUME m \notin S
          PROVE  Upto(m) = Upto(m - 1)
      <4>1. \A l \in S : l <= m <=> l <= m - 1
        BY <1>0, <1>6, <1>8, <3>1
      <4> QED
        BY <4>1
    <3>2. ASSUME m \notin S
          PROVE  FALSE
      <4> HIDE DEF Upto
      <4> QED
        BY <1>2, <1>6, <1>8, <3>1, <3>2
    <3> QED
      BY <3>2
  <2>2. \A l \in S : l <= m <=> l <= m - 1 \/ l = m
    BY <1>0, <1>6, <1>8
  <2>3. m <= m /\ ~(m <= m - 1)
    BY <1>6
  <2> QED
    BY <2>1, <2>2, <2>3
<1> HIDE DEF Upto
<1>10. Cardinality(Upto(m)) = Cardinality(Upto(m - 1)) + 1
  BY <1>2, <1>8, <1>9, FS_AddElement
<1>11. Cardinality(Upto(m)) = n
  BY <1>2, <1>6, <1>8, <1>10
<1> QED
  BY <1>9, <1>11 DEF Upto

\* No two places of a set have as many before them.
LEMMA NthUnique ==
    ASSUME NEW L \in Nat, NEW S \in SUBSET (1..L), NEW m \in S, NEW k \in S,
           Cardinality({l \in S : l <= m}) = Cardinality({l \in S : l <= k})
    PROVE  m = k
<1> DEFINE Upto(x) == {l \in S : l <= x}
<1>1. IsFiniteSet(S)
  <2>1. IsFiniteSet(1..L)
    BY FS_Interval
  <2> QED
    BY <2>1, FS_Subset
<1>2. ASSUME NEW a \in S, NEW b \in S, a < b, Cardinality(Upto(a)) = Cardinality(Upto(b))
      PROVE  FALSE
  <2>1. Upto(b) \in SUBSET S
    OBVIOUS
  <2>2. IsFiniteSet(Upto(b))
    <3> HIDE DEF Upto
    <3> QED
      BY <1>1, <2>1, FS_Subset
  <2>3. a \in Int /\ b \in Int /\ (\A l \in S : l <= a => l <= b) /\ b <= b /\ ~(b <= a)
    BY <1>2
  <2>4. Upto(a) \in SUBSET Upto(b) /\ b \in Upto(b) /\ b \notin Upto(a)
    BY <1>2, <2>3
  <2> HIDE DEF Upto
  <2>5. Upto(a) # Upto(b)
    BY <2>4
  <2> QED
    BY <1>2, <2>2, <2>4, <2>5, FS_Subset
<1>3. m \in Int /\ k \in Int
  OBVIOUS
<1>4. CASE m < k
  BY <1>2, <1>4
<1>5. CASE k < m
  BY <1>2, <1>5
<1> QED
  BY <1>3, <1>4, <1>5

\* The n-th store of a line.
NthStore(ins, n) ==
    CHOOSE m \in Stores(ins) : Cardinality({l \in Stores(ins) : l <= m}) = n

LEMMA NthStoreType ==
    ASSUME NEW ins \in Seq(Instructions), NEW n \in 1..Cardinality(Stores(ins))
    PROVE  /\ NthStore(ins, n) \in Stores(ins) /\ NthStore(ins, n) \in 1..Len(ins)
           /\ Cardinality({l \in Stores(ins) : l <= NthStore(ins, n)}) = n
<1>1. Len(ins) \in Nat /\ Stores(ins) \in SUBSET (1..Len(ins))
  BY DEF Stores
<1>2. \E m \in Stores(ins) : Cardinality({l \in Stores(ins) : l <= m}) = n
  BY <1>1, NthExists
<1> QED
  BY <1>1, <1>2 DEF NthStore

LEMMA NthStoreIs ==
    ASSUME NEW ins \in Seq(Instructions), NEW m \in Stores(ins), NEW n,
           Cardinality({l \in Stores(ins) : l <= m}) = n
    PROVE  NthStore(ins, n) = m
<1>1. Len(ins) \in Nat /\ Stores(ins) \in SUBSET (1..Len(ins))
  BY DEF Stores
<1> DEFINE k == NthStore(ins, n)
<1>2. k \in Stores(ins) /\ Cardinality({l \in Stores(ins) : l <= k}) = n
  BY DEF NthStore
<1> HIDE DEF k
<1>3. k = m
  BY <1>1, <1>2, NthUnique
<1> QED
  BY <1>3 DEF k

\* What the store at m writes, and when.
WriteAt(ins, m, cpu) ==
    [target |-> ins[m].target, start |-> StartCycle(ins, m),
     value |-> Held(ins, m, ins[m].reg, cpu)]

LEMMA RequestedIs ==
    ASSUME NEW ins, NEW cpu
    PROVE  Requested(ins, cpu) =
             [n \in 1..Cardinality(Stores(ins)) |-> WriteAt(ins, NthStore(ins, n), cpu)]
BY DEF Requested, Stores, NthStore, WriteAt

Asked == [target : Targets, start : Nat, value : Bytes]

LEMMA RequestedType ==
    ASSUME NEW ins \in Seq(Instructions), NEW cpu \in Cpus
    PROVE  /\ Requested(ins, cpu) \in Seq(Asked)
           /\ Len(Requested(ins, cpu)) = Cardinality(Stores(ins))
           /\ Requested(ins, cpu) = <<>> => Stores(ins) = {}
<1> DEFINE N == Cardinality(Stores(ins))
<1>1. Len(ins) \in Nat /\ DOMAIN ins = 1..Len(ins)
  OBVIOUS
<1>2. IsFiniteSet(Stores(ins)) /\ N \in Nat
  BY <1>1, StoresFinite
<1>3. ASSUME NEW n \in 1..N
      PROVE  WriteAt(ins, NthStore(ins, n), cpu) \in Asked
  <2> DEFINE m == NthStore(ins, n)
  <2>1. m \in 1..Len(ins) /\ m \in Stores(ins)
    BY NthStoreType
  <2> HIDE DEF m
  <2>2. m \in 0..Len(ins) /\ ins[m] \in Instructions /\ ins[m].op = "store"
    BY <1>1, <2>1 DEF Stores
  <2>3. ins[m].target \in Targets /\ ins[m].reg \in Regs
    BY <2>2, InstructionParts
  <2>4. StartCycle(ins, m) \in Nat
    BY <2>1, StartsBefore
  <2>5. Held(ins, m, ins[m].reg, cpu) \in Bytes
    BY <2>2, <2>3, HeldType
  <2> QED
    BY <2>3, <2>4, <2>5 DEF Asked, WriteAt, m
<1>4. Requested(ins, cpu) = [n \in 1..N |-> WriteAt(ins, NthStore(ins, n), cpu)]
  BY RequestedIs
<1> HIDE DEF N
<1>5. Requested(ins, cpu) \in [1..N -> Asked]
  BY <1>3, <1>4
<1>6. Requested(ins, cpu) \in Seq(Asked) /\ Len(Requested(ins, cpu)) = N
  BY <1>2, <1>5
<1>7. Requested(ins, cpu) = <<>> => Stores(ins) = {}
  BY <1>2, <1>6, FS_EmptySet DEF N
<1> QED
  BY <1>6, <1>7 DEF N

\* What is before an added instruction stays as it was.
LEMMA AppendBefore ==
    ASSUME NEW ins \in Seq(Instructions), NEW i \in Instructions, NEW m \in 1..Len(ins),
           NEW cpu
    PROVE  /\ Append(ins, i)[m] = ins[m]
           /\ StartCycle(Append(ins, i), m) = StartCycle(ins, m)
           /\ \A r : Held(Append(ins, i), m, r, cpu) = Held(ins, m, r, cpu)
           /\ WriteAt(Append(ins, i), m, cpu) = WriteAt(ins, m, cpu)
<1> DEFINE t == Append(ins, i)
<1>1. \A k \in 1..m : t[k] = ins[k]
  OBVIOUS
<1>2. m \in 1..m /\ \A k \in 1..(m - 1) : k \in 1..m
  OBVIOUS
<1> HIDE DEF t
<1>3. {k \in 1..(m - 1) : t[k].op = "store"} = {k \in 1..(m - 1) : ins[k].op = "store"}
  BY <1>1, <1>2
<1>4. StartCycle(t, m) = StartCycle(ins, m)
  BY <1>3 DEF StartCycle
<1>5. ASSUME NEW r
      PROVE  Held(t, m, r, cpu) = Held(ins, m, r, cpu)
  <2> DEFINE loads(s) == {k \in 1..m : s[k].op = "load" /\ s[k].reg = r}
  <2>1. loads(t) = loads(ins)
    BY <1>1
  <2>2. \A k \in loads(ins) : t[k] = ins[k]
    BY <1>1
  <2>3. loads(ins) # {} => Max(loads(ins)) \in loads(ins)
    <3>1. loads(ins) \in SUBSET Nat /\ m \in Nat /\ \A k \in loads(ins) : k <= m
      OBVIOUS
    <3> HIDE DEF loads
    <3> QED
      BY <3>1, MaxIsGreatest
  <2>4. \A s : Held(s, m, r, cpu) = IF loads(s) = {} THEN cpu[r] ELSE s[Max(loads(s))].value
    BY DEF Held
  <2> HIDE DEF loads
  <2> QED
    BY <2>1, <2>2, <2>3, <2>4
<1>6. t[m] = ins[m]
  BY <1>1, <1>2
<1>7. WriteAt(t, m, cpu) = WriteAt(ins, m, cpu)
  BY <1>4, <1>5, <1>6 DEF WriteAt
<1> QED
  BY <1>4, <1>5, <1>6, <1>7 DEF t

\* Of the stores of a longer line, the others are those of the line.
LEMMA StoresOfAppend ==
    ASSUME NEW ins \in Seq(Instructions), NEW i \in Instructions
    PROVE  Stores(Append(ins, i)) =
             IF i.op = "store" THEN Stores(ins) \cup {Len(ins) + 1} ELSE Stores(ins)
<1> DEFINE t == Append(ins, i)
           n == Len(ins) + 1
<1>1. DOMAIN t = 1..n /\ DOMAIN ins = 1..Len(ins) /\ t[n] = i
      /\ \A m \in 1..Len(ins) : t[m] = ins[m]
  OBVIOUS
<1>2. (\A m \in 1..n : m \in 1..Len(ins) \/ m = n) /\ 1..Len(ins) \subseteq 1..n
      /\ n \in 1..n
  OBVIOUS
<1> HIDE DEF t, n
<1>3. Stores(t) = IF i.op = "store" THEN Stores(ins) \cup {n} ELSE Stores(ins)
  BY <1>1, <1>2 DEF Stores
<1> QED
  BY <1>3 DEF t, n

\* An instruction that stores nothing adds no write.
LEMMA AppendQuiet ==
    ASSUME NEW ins \in Seq(Instructions), NEW i \in Instructions, i.op # "store", NEW cpu
    PROVE  Requested(Append(ins, i), cpu) = Requested(ins, cpu)
<1> DEFINE t == Append(ins, i)
<1>1. t \in Seq(Instructions) /\ Stores(t) = Stores(ins)
  BY StoresOfAppend
<1>2. \A n : NthStore(t, n) = NthStore(ins, n)
  BY <1>1 DEF NthStore
<1>3. \A m \in 1..Len(ins) : WriteAt(t, m, cpu) = WriteAt(ins, m, cpu)
  BY AppendBefore
<1> HIDE DEF t
<1>4. \A n \in 1..Cardinality(Stores(ins)) :
        WriteAt(t, NthStore(t, n), cpu) = WriteAt(ins, NthStore(ins, n), cpu)
  BY <1>2, <1>3, NthStoreType
<1>5. Requested(t, cpu) = Requested(ins, cpu)
  BY <1>1, <1>4, RequestedIs
<1> QED
  BY <1>5 DEF t

\* A store adds one, after those before it.
LEMMA AppendStore ==
    ASSUME NEW ins \in Seq(Instructions), NEW r \in Regs, NEW t \in Targets, NEW cpu \in Cpus
    PROVE  Requested(Append(ins, Store(r, t)), cpu) =
             Append(Requested(ins, cpu), [target |-> t, start |-> Cycles(ins),
                                          value |-> After(ins, Len(ins), cpu)[r]])
<1> DEFINE i == Store(r, t)
           s == Append(ins, i)
           L == Len(ins) + 1
           N == Cardinality(Stores(ins))
           w == [target |-> t, start |-> Cycles(ins), value |-> After(ins, Len(ins), cpu)[r]]
<1>1. i \in Instructions /\ i.op = "store" /\ i.reg = r /\ i.target = t
  BY InstructionType DEF Store
<1> HIDE DEF i
<1>2. s \in Seq(Instructions) /\ Len(s) = L /\ s[L] = i /\ L \in Nat /\ L - 1 = Len(ins)
      /\ DOMAIN ins = 1..Len(ins) /\ DOMAIN s = 1..L /\ Len(ins) \in Nat
  BY <1>1
<1>3. Stores(s) = Stores(ins) \cup {L}
  BY <1>1, StoresOfAppend
<1>4. \A m \in 1..Len(ins) : s[m] = ins[m] /\ WriteAt(s, m, cpu) = WriteAt(ins, m, cpu)
  BY <1>1, AppendBefore
<1> HIDE DEF s
<1>5. IsFiniteSet(Stores(ins)) /\ N \in Nat /\ Stores(ins) \subseteq 1..Len(ins)
  <2>1. IsFiniteSet(Stores(ins)) /\ Cardinality(Stores(ins)) \in 0..Len(ins)
    BY <1>2, StoresFinite
  <2>2. Stores(ins) \subseteq 1..Len(ins)
    BY <1>2 DEF Stores
  <2> QED
    BY <2>1, <2>2
<1> HIDE DEF L
<1>6. L \notin Stores(ins) /\ \A l \in Stores(ins) : l <= L
  BY <1>2, <1>5
<1>7. Cardinality(Stores(s)) = N + 1
  BY <1>3, <1>5, <1>6, FS_AddElement
<1>8. \A n \in 1..N : NthStore(s, n) = NthStore(ins, n)
  <2> SUFFICES ASSUME NEW n \in 1..N
               PROVE  NthStore(s, n) = NthStore(ins, n)
    OBVIOUS
  <2> DEFINE m == NthStore(ins, n)
  <2>1. m \in Stores(ins) /\ m \in 1..Len(ins)
        /\ Cardinality({l \in Stores(ins) : l <= m}) = n
    BY NthStoreType
  <2> HIDE DEF m
  <2>2. ~(L <= m) /\ m \in Stores(s)
    BY <1>2, <1>3, <2>1
  <2>3. {l \in Stores(s) : l <= m} = {l \in Stores(ins) : l <= m}
    BY <1>3, <2>2
  <2>4. NthStore(s, n) = m
    BY <1>2, <2>1, <2>2, <2>3, NthStoreIs
  <2> QED
    BY <2>4 DEF m
<1>9. NthStore(s, N + 1) = L
  <2>1. {l \in Stores(s) : l <= L} = Stores(s)
    BY <1>2, <1>3, <1>6
  <2>2. L \in Stores(s)
    BY <1>3
  <2> QED
    BY <1>2, <1>7, <2>1, <2>2, NthStoreIs
<1>10. WriteAt(s, L, cpu) = w
  <2>1. StartCycle(s, L) = Cycles(ins)
    <3>1. {m \in 1..(L - 1) : s[m].op = "store"} = {m \in DOMAIN ins : ins[m].op = "store"}
      BY <1>2, <1>4
    <3> QED
      BY <1>2, <3>1 DEF StartCycle, Cycles
  <2>2. Held(s, L, r, cpu) = After(ins, Len(ins), cpu)[r]
    <3>1. After(s, Len(s), cpu)[r] = After(ins, Len(ins), cpu)[r]
      <4>1. After(s, Len(s), cpu) = [x \in Regs |-> IF i.op = "load" /\ i.reg = x THEN i.value
                                                    ELSE After(ins, Len(ins), cpu)[x]]
        BY <1>1, AppendAfter DEF s
      <4> QED
        BY <1>1, <4>1
    <3> QED
      BY <1>2, <3>1 DEF After
  <2> QED
    BY <1>1, <1>2, <2>1, <2>2 DEF WriteAt
<1>11. Requested(s, cpu) = [n \in 1..(N + 1) |-> IF n = N + 1 THEN w ELSE Requested(ins, cpu)[n]]
  <2>1. Requested(s, cpu) = [n \in 1..(N + 1) |-> WriteAt(s, NthStore(s, n), cpu)]
    BY <1>7, RequestedIs
  <2>2. \A n \in 1..(N + 1) : n = N + 1 \/ n \in 1..N
    BY <1>5
  <2>3. ASSUME NEW n \in 1..N
        PROVE  WriteAt(s, NthStore(s, n), cpu) = Requested(ins, cpu)[n] /\ n # N + 1
    <3>1. NthStore(ins, n) \in 1..Len(ins)
      BY NthStoreType
    <3> QED
      BY <1>4, <1>5, <1>8, <3>1, RequestedIs
  <2> QED
    BY <1>9, <1>10, <2>1, <2>2, <2>3
<1>12. Requested(ins, cpu) \in Seq(Asked) /\ Len(Requested(ins, cpu)) = N
  <2>1. DOMAIN Requested(ins, cpu) = 1..N
    BY RequestedIs
  <2>2. Requested(ins, cpu) \in Seq(Asked)
    BY RequestedType
  <2> QED
    BY <1>5, <2>1, <2>2
<1> HIDE DEF w, N
<1>13. Requested(s, cpu) = Append(Requested(ins, cpu), w)
  <2> DEFINE q == Requested(ins, cpu)
  <2>1. q \in Seq(Asked) /\ Len(q) = N
    BY <1>12
  <2> HIDE DEF q
  <2>2. Requested(s, cpu) \in Seq(Asked)
    BY <1>2, RequestedType
  <2> DEFINE u == Requested(s, cpu)
  <2>3. DOMAIN u = 1..(N + 1) /\ u[N + 1] = w /\ \A n \in 1..N : u[n] = q[n]
    BY <1>5, <1>11 DEF q
  <2>4. u \in Seq(Asked) /\ Len(u) = N + 1 /\ u[N + 1] \in Asked
    BY <1>5, <2>2, <2>3
  <2> HIDE DEF u
  <2>5. /\ Append(q, w) \in Seq(Asked) /\ Len(Append(q, w)) = N + 1
        /\ \A n \in 1..N : Append(q, w)[n] = q[n]
        /\ Append(q, w)[N + 1] = w
    BY <2>1, <2>3, <2>4, AppendProperties
  <2>6. \A n \in 1..(N + 1) : n \in 1..N \/ n = N + 1
    BY <1>5
  <2>7. \A n \in 1..Len(u) : u[n] = Append(q, w)[n]
    BY <2>3, <2>4, <2>5, <2>6
  <2>8. u = Append(q, w)
    BY <2>4, <2>5, <2>7, SeqEqual
  <2> QED
    BY <2>8 DEF u, q
<1> QED
  BY <1>13 DEF s, i, w

Nops(n) == [i \in 1..n |-> Nop]

\* One line is another and c cycles more, and writes the same.
Longer(t, s, c, cpu) ==
    /\ t \in Seq(Instructions)
    /\ Cycles(t) = Cycles(s) + c
    /\ Requested(t, cpu) = Requested(s, cpu)

LEMMA ConcatOne ==
    ASSUME NEW s \in Seq(Instructions), NEW i \in Instructions
    PROVE  s \o <<i>> = Append(s, i)
BY AppendIsConcat

LEMMA NopsQuiet ==
    ASSUME NEW s \in Seq(Instructions), NEW gap \in Nat, NEW cpu \in Cpus
    PROVE  /\ Longer(s \o Nops(gap), s, 2 * gap, cpu)
           /\ After(s \o Nops(gap), Len(s \o Nops(gap)), cpu) = After(s, Len(s), cpu)
<1> DEFINE P(n) == /\ Longer(s \o Nops(n), s, 2 * n, cpu)
                   /\ After(s \o Nops(n), Len(s \o Nops(n)), cpu) = After(s, Len(s), cpu)
           B == {n \in Nat : P(n)}
<1>0. Nop \in Instructions /\ Nop.op = "nop" /\ Cost(Nop) = 2
  BY InstructionType DEF Nop, Cost
<1>1. 0 \in B
  <2>1. Nops(0) = <<>>
    BY DEF Nops
  <2>2. s \o Nops(0) = s
    BY <2>1, ConcatEmptySeq
  <2>3. Cycles(s) \in Nat
    BY CyclesEven
  <2>4. Cycles(s) = Cycles(s) + 2 * 0
    BY <2>3
  <2> QED
    BY <2>2, <2>4 DEF Longer
<1>2. ASSUME NEW n \in 1..gap, n - 1 \in B
      PROVE  n \in B
  <2> DEFINE t == s \o Nops(n - 1)
  <2>1. n - 1 \in Nat /\ n \in Nat /\ P(n - 1) /\ Cycles(s) \in Nat
    BY <1>2, CyclesEven
  <2>2. t \in Seq(Instructions)
    BY <2>1 DEF Longer
  <2>3. Nops(n) = Append(Nops(n - 1), Nop) /\ Nops(n - 1) \in Seq(Instructions)
    BY <1>0, <2>1 DEF Nops
  <2>4. s \o Nops(n) = Append(t, Nop)
    <3>1. Nops(n) = Nops(n - 1) \o <<Nop>> /\ <<Nop>> \in Seq(Instructions)
      BY <1>0, <2>3, ConcatOne
    <3>2. s \o (Nops(n - 1) \o <<Nop>>) = t \o <<Nop>>
      BY <2>3, <3>1, ConcatAssociative
    <3> QED
      BY <1>0, <2>2, <3>1, <3>2, ConcatOne
  <2> HIDE DEF t
  <2>5. Longer(t, s, 2 * (n - 1), cpu) /\ After(t, Len(t), cpu) = After(s, Len(s), cpu)
    BY <2>1 DEF t
  <2>6. Append(t, Nop) \in Seq(Instructions) /\ Cycles(Append(t, Nop)) = Cycles(t) + 2
    BY <1>0, <2>2, CyclesAppend
  <2>7. Requested(Append(t, Nop), cpu) = Requested(t, cpu)
    BY <1>0, <2>2, AppendQuiet
  <2>8. After(Append(t, Nop), Len(Append(t, Nop)), cpu) = After(t, Len(t), cpu)
    <3>1. After(Append(t, Nop), Len(Append(t, Nop)), cpu) =
            [r \in Regs |-> After(t, Len(t), cpu)[r]]
      BY <1>0, <2>2, AppendAfter
    <3> QED
      BY <3>1 DEF After
  <2>9. Longer(Append(t, Nop), s, 2 * n, cpu)
    BY <2>1, <2>5, <2>6, <2>7 DEF Longer
  <2> QED
    BY <2>1, <2>4, <2>5, <2>8, <2>9
<1> HIDE DEF B
<1>3. 0..gap \subseteq B
  BY <1>1, <1>2, Induction
<1>4. gap \in B
  BY <1>3
<1> QED
  BY <1>4 DEF B

Loading(cpu, r, v) == [cpu EXCEPT ![r] = v]

\* A load of what a register does not hold yet, or nothing.
LEMMA ReloadQuiet ==
    ASSUME NEW s \in Seq(Instructions), NEW r \in Regs, NEW v \in Bytes, NEW cpu \in Cpus,
           NEW load, load = IF After(s, Len(s), cpu)[r] = v THEN <<>> ELSE <<Load(r, v)>>
    PROVE  /\ Longer(s \o load, s, 2 * Len(load), cpu)
           /\ After(s \o load, Len(s \o load), cpu) = Loading(After(s, Len(s), cpu), r, v)
<1> DEFINE old == After(s, Len(s), cpu)
<1>0. old \in Cpus /\ Cycles(s) \in Nat
  BY AfterType, CyclesEven
<1>1. CASE old[r] = v
  <2>1. load = <<>> /\ s \o load = s /\ 2 * Len(load) = 0
    BY <1>1, ConcatEmptySeq
  <2>2. old = [old EXCEPT ![r] = v]
    <3> HIDE DEF old
    <3> QED
      BY <1>0, <1>1 DEF Cpus
  <2>3. Cycles(s) = Cycles(s) + 2 * Len(load)
    BY <1>0, <2>1
  <2>4. Longer(s \o load, s, 2 * Len(load), cpu)
    BY <2>1, <2>3 DEF Longer
  <2>5. After(s \o load, Len(s \o load), cpu) = old
    BY <2>1
  <2> HIDE DEF old
  <2> QED
    BY <2>2, <2>4, <2>5 DEF Loading, old
<1>2. CASE old[r] # v
  <2> DEFINE i == Load(r, v)
  <2>1. i \in Instructions /\ i.op = "load" /\ i.reg = r /\ i.value = v /\ Cost(i) = 2
    BY InstructionType DEF Load, Cost
  <2> HIDE DEF i
  <2>2. load = <<i>> /\ 2 * Len(load) = 2
    BY <1>2 DEF i
  <2>3. s \o load = Append(s, i)
    BY <2>1, <2>2, ConcatOne
  <2>4. Append(s, i) \in Seq(Instructions) /\ Cycles(Append(s, i)) = Cycles(s) + 2
    BY <2>1, CyclesAppend
  <2>5. Requested(Append(s, i), cpu) = Requested(s, cpu)
    BY <2>1, AppendQuiet
  <2>6. After(Append(s, i), Len(Append(s, i)), cpu) =
          [x \in Regs |-> IF i.op = "load" /\ i.reg = x THEN i.value ELSE old[x]]
    BY <2>1, AppendAfter
  <2> HIDE DEF old
  <2>7. [old EXCEPT ![r] = v] =
          [x \in Regs |-> IF i.op = "load" /\ i.reg = x THEN i.value ELSE old[x]]
    BY <1>0, <2>1 DEF Cpus
  <2> QED
    BY <2>2, <2>3, <2>4, <2>5, <2>6, <2>7 DEF Longer, Loading, old
<1> QED
  BY <1>1, <1>2

-----------------------------------------------------------------------------
(* The structured solver.                                                    *)

Builders == [ins : Seq(Instructions), cycles : Nat, cpu : Cpus]

LEMMA StartsType ==
    ASSUME NEW b \in Builders, NEW r \in Regs, NEW w \in Asked
    PROVE  /\ Starts(b, r, w) \in SUBSET Nat
           /\ \A c \in Starts(b, r, w) :
                /\ c <= 50
                /\ b.cycles + (IF b.cpu[r] = w.value THEN 0 ELSE 2) <= c
                /\ (c - b.cycles) % 2 = 0
                /\ c <= w.start /\ (w.target \in Playfield \/ c = w.start)
<1> DEFINE first == b.cycles + IF b.cpu[r] = w.value THEN 0 ELSE 2
           last  == Min({w.start, BuilderLimit - 4})
<1>1. b.cycles \in Nat /\ first \in Nat /\ w.start \in Nat
  BY DEF Builders, Asked
<1>2. last \in Nat /\ last <= 50 /\ last <= w.start
  <2>1. BuilderLimit - 4 = 50
    BY DEF BuilderLimit
  <2>2. {w.start, 50} \in SUBSET Nat /\ {w.start, 50} # {}
    BY <1>1
  <2>3. Min({w.start, 50}) \in {w.start, 50} /\ \A n \in {w.start, 50} : Min({w.start, 50}) <= n
    BY <2>2, MinIsLeast
  <2> QED
    BY <1>1, <2>1, <2>3
<1>3. Starts(b, r, w) = {c \in first..last : (c - first) % 2 = 0
                                            /\ (w.target \in Playfield \/ c = w.start)}
  BY DEF Starts
<1> HIDE DEF last
<1>4. ASSUME NEW c \in Starts(b, r, w)
      PROVE  c \in first..last /\ (c - first) % 2 = 0
             /\ (w.target \in Playfield \/ c = w.start)
  BY <1>3
<1>5. ASSUME NEW c \in Starts(b, r, w)
      PROVE  /\ c \in Nat /\ c <= 50 /\ first <= c /\ (c - b.cycles) % 2 = 0
             /\ c <= w.start /\ (w.target \in Playfield \/ c = w.start)
  <2>1. c \in Int /\ first <= c /\ c <= last
    BY <1>1, <1>2, <1>4
  <2>2. c \in Nat /\ c <= 50 /\ c <= w.start
    BY <1>1, <1>2, <2>1
  <2>3. (c - b.cycles) % 2 = 0
    BY <1>1, <1>4, <2>2
  <2> QED
    BY <1>4, <2>1, <2>2, <2>3
<1> QED
  BY <1>5

LEMMA SourcesType ==
    /\ Sources \in [1..3 -> Regs]
    /\ \A r \in Regs : \E k \in 1..3 : Sources[k] = r
<1>1. Sources \in [1..3 -> Regs]
  BY DEF Sources, Regs
<1>2. Sources[1] = "A" /\ Sources[2] = "X" /\ Sources[3] = "Y"
  BY DEF Sources
<1>3. 1 \in 1..3 /\ 2 \in 1..3 /\ 3 \in 1..3
  OBVIOUS
<1> QED
  BY <1>1, <1>2, <1>3 DEF Regs

\* The parts of a placed write: NOPs, the load if one is needed, the store.
Loaded(b, r, w) == IF b.cpu[r] = w.value THEN <<>> ELSE <<Load(r, w.value)>>

PlacedAt(b, w, c, from, at, gap) ==
    /\ from \in Regs /\ at \in Nat /\ gap \in Nat
    /\ at = b.cycles + 2 * (gap + Len(Loaded(b, from, w)))
    /\ at <= w.start /\ (w.target \in Playfield \/ at = w.start)
    /\ c = [ins |-> b.ins \o Nops(gap) \o Loaded(b, from, w) \o <<Store(from, w.target)>>,
            cycles |-> at + 4, cpu |-> [b.cpu EXCEPT ![from] = w.value]]

LEMMA PlaceParts ==
    ASSUME NEW b \in Builders, NEW w \in Asked, CanPlace(b, w)
    PROVE  \E from, at, gap : PlacedAt(b, w, Place(b, w), from, at, gap)
<1> DEFINE starts == [r \in Regs |-> Starts(b, r, w)]
           all    == UNION Range(starts)
           at     == Max(all)
           from   == Sources[Min({k \in 1..3 : at \in starts[Sources[k]]})]
           load   == IF b.cpu[from] = w.value THEN <<>> ELSE <<Load(from, w.value)>>
           gap    == (at - b.cycles) \div 2 - Len(load)
<1>1. b.ins \in Seq(Instructions) /\ b.cycles \in Nat /\ b.cpu \in Cpus
      /\ w.target \in Targets /\ w.value \in Bytes
  BY DEF Builders, Asked
<1>2. \A c \in all : \E r \in Regs : c \in Starts(b, r, w)
  BY DEF Range
<1>3. all # {}
  <2>1. PICK r \in Regs : Starts(b, r, w) # {}
    BY DEF CanPlace
  <2>2. Starts(b, r, w) \in Range(starts)
    BY DEF Range
  <2> QED
    BY <2>1, <2>2
<1>4. \A c \in all : c \in Nat /\ c <= 50
  BY <1>2, StartsType
<1>5. at \in all
  <2>1. all \in SUBSET Nat
    BY <1>4
  <2> HIDE DEF all
  <2> QED
    BY <1>3, <1>4, <2>1, MaxIsGreatest
<1> HIDE DEF at
<1>6. from \in Regs /\ at \in Starts(b, from, w)
  <2> DEFINE ks == {k \in 1..3 : at \in starts[Sources[k]]}
  <2>1. PICK r \in Regs : at \in Starts(b, r, w)
    BY <1>2, <1>5
  <2>2. PICK k \in 1..3 : Sources[k] = r
    BY SourcesType
  <2>3. k \in ks
    BY <2>1, <2>2
  <2>4. ks \in SUBSET Nat /\ ks # {}
    BY <2>3
  <2>5. Min(ks) \in ks
    <3> HIDE DEF ks
    <3> QED
      BY <2>4, MinIsLeast
  <2>6. Min(ks) \in 1..3 /\ at \in starts[Sources[Min(ks)]]
    BY <2>5
  <2>7. Sources[Min(ks)] \in Regs
    BY <2>6, SourcesType
  <2> QED
    BY <2>6, <2>7
<1> HIDE DEF from
<1>7. Len(load) = IF b.cpu[from] = w.value THEN 0 ELSE 1
  OBVIOUS
<1>8. /\ at \in Nat /\ gap \in Nat /\ at = b.cycles + 2 * (gap + Len(load))
      /\ at <= w.start /\ (w.target \in Playfield \/ at = w.start)
  <2>1. at \in Nat /\ (at - b.cycles) % 2 = 0
        /\ at <= w.start /\ (w.target \in Playfield \/ at = w.start)
        /\ b.cycles + (IF b.cpu[from] = w.value THEN 0 ELSE 2) <= at
    BY <1>4, <1>5, <1>6, StartsType
  <2>2. Len(load) \in {0, 1} /\ b.cycles + 2 * Len(load) <= at
    BY <1>1, <1>7, <2>1
  <2> DEFINE half == (at - b.cycles) \div 2
  <2>3. at - b.cycles = 2 * half /\ half \in Int
    <3>1. at - b.cycles \in Nat
      BY <1>1, <2>1, <2>2
    <3> QED
      BY <2>1, <3>1, HalfOfEven
  <2> HIDE DEF load, half
  <2>4. half - Len(load) \in Nat /\ at = b.cycles + 2 * (half - Len(load) + Len(load))
    BY <1>1, <2>1, <2>2, <2>3
  <2> QED
    BY <2>1, <2>4 DEF half
<1>9. load = Loaded(b, from, w)
  BY DEF Loaded
<1>10. Place(b, w) = [ins |-> b.ins \o Nops(gap) \o load \o <<Store(from, w.target)>>,
                      cycles |-> at + 4, cpu |-> [b.cpu EXCEPT ![from] = w.value]]
  BY DEF Place, at, from, Nops
<1> HIDE DEF load, gap
<1> QED
  BY <1>6, <1>8, <1>9, <1>10 DEF PlacedAt

\* A write that can be placed makes a longer line of the same kind.
LEMMA PlaceType ==
    ASSUME NEW b \in Builders, NEW w \in Asked, CanPlace(b, w)
    PROVE  Place(b, w) \in Builders /\ Place(b, w).ins # <<>>
<1>1. b.ins \in Seq(Instructions) /\ b.cpu \in Cpus /\ w.target \in Targets /\ w.value \in Bytes
  BY DEF Builders, Asked
<1>2. PICK from, at, gap : PlacedAt(b, w, Place(b, w), from, at, gap)
  BY PlaceParts
<1> DEFINE head == b.ins \o Nops(gap) \o Loaded(b, from, w)
           i    == Store(from, w.target)
           ins  == head \o <<i>>
<1>3. /\ from \in Regs /\ at \in Nat /\ gap \in Nat
      /\ Place(b, w) = [ins |-> ins, cycles |-> at + 4, cpu |-> [b.cpu EXCEPT ![from] = w.value]]
  BY <1>2 DEF PlacedAt
<1>4. head \in Seq(Instructions)
  <2>1. Nops(gap) \in Seq(Instructions)
    <3>1. Nop \in Instructions /\ gap \in Nat
      BY <1>3, InstructionType
    <3>2. [n \in 1..gap |-> Nop] \in [1..gap -> Instructions]
      BY <3>1
    <3> QED
      BY <3>1, <3>2 DEF Nops
  <2>2. Loaded(b, from, w) \in Seq(Instructions)
    <3>1. Load(from, w.value) \in Instructions
      BY <1>1, <1>3, InstructionType
    <3> QED
      BY <3>1 DEF Loaded
  <2>3. b.ins \o Nops(gap) \in Seq(Instructions)
    BY <1>1, <2>1, ConcatProperties
  <2> QED
    BY <2>2, <2>3, ConcatProperties
<1> HIDE DEF head
<1>5. i \in Instructions
  BY <1>1, <1>3, InstructionType
<1>6. ins = Append(head, i)
  BY <1>4, <1>5, ConcatOne
<1>7. ins \in Seq(Instructions) /\ ins # <<>>
  BY <1>4, <1>5, <1>6, CyclesAppend
<1>8. [b.cpu EXCEPT ![from] = w.value] \in Cpus
  BY <1>1, <1>3 DEF Cpus
<1> HIDE DEF ins
<1> QED
  BY <1>3, <1>7, <1>8 DEF Builders

\* The lines with one more write, from those of a set that can take it.
Placed(s, w) == {Place(b, w) : b \in {b \in s : CanPlace(b, w)}}

\* The builder of no line yet.
Started(cpu) == [ins |-> <<>>, cycles |-> 0, cpu |-> cpu]

\* The function that Built is the last value of.
BuiltBy(k, writes, cpu) ==
    /\ k \in [0..Len(writes) -> SUBSET Builders] /\ k[0] = {Started(cpu)}
    /\ \A n \in 1..Len(writes) : k[n] = Placed(k[n - 1], writes[n])
    /\ Built(writes, cpu) = k[Len(writes)]

LEMMA BuiltSteps ==
    ASSUME NEW writes \in Seq(Asked), NEW cpu \in Cpus
    PROVE  \E k : BuiltBy(k, writes, cpu)
<1> DEFINE X  == SUBSET Builders
           x0 == {Started(cpu)}
           N  == Len(writes)
           Out(n, s) == Placed(s, writes[n])
           G == [n \in 1..N |-> [s \in X |-> Out(n, s)]]
           Is(g) == g = [n \in 0..N |-> IF n = 0 THEN x0 ELSE Out(n, g[n - 1])]
<1>1. N \in Nat /\ DOMAIN writes = 1..N
  OBVIOUS
<1>2. x0 \in X
  BY DEF Builders, Started
<1>3. ASSUME NEW n \in 1..N, NEW s \in X
      PROVE  Out(n, s) \in X
  <2>1. writes[n] \in Asked
    OBVIOUS
  <2>2. \A b \in s : b \in Builders
    OBVIOUS
  <2>3. \A c \in Out(n, s) : c \in Builders
    BY <2>1, <2>2, PlaceType DEF Placed
  <2> QED
    BY <2>3
<1> HIDE DEF Out, x0, X, N
<1>4. G \in [1..N -> [X -> X]]
  BY <1>3
<1>5. PICK g \in [0..N -> X] : g[0] = x0 /\ \A n \in 1..N : g[n] = G[n][g[n - 1]]
  <2>1. Steps(N, X, x0, G)
    BY <1>1, <1>2, <1>4 DEF Steps
  <2>2. Recursive(N, X, x0, G)
    BY <2>1, RecursionExists
  <2> QED
    BY <2>2 DEF Recursive
<1>6. Is(g)
  <2>1. ASSUME NEW n \in 0..N
        PROVE  g[n] = IF n = 0 THEN x0 ELSE Out(n, g[n - 1])
    <3>1. CASE n = 0
      BY <3>1, <1>5
    <3>2. CASE n # 0
      <4>1. n \in 1..N /\ n - 1 \in 0..N
        BY <1>1, <3>2
      <4>2. g[n - 1] \in X
        BY <4>1
      <4> QED
        BY <1>5, <3>2, <4>1, <4>2
    <3> QED
      BY <3>1, <3>2
  <2>2. g = [n \in 0..N |-> g[n]]
    OBVIOUS
  <2> QED
    BY <2>1, <2>2
<1> DEFINE k == CHOOSE f : Is(f)
<1>7. Is(k)
  <2> HIDE DEF Is
  <2> QED
    BY <1>6
<1>8. k[0] = x0 /\ \A n \in 1..N : k[n] = Out(n, k[n - 1])
  <2>1. 0 \in 0..N /\ \A n \in 1..N : n \in 0..N /\ n # 0
    BY <1>1
  <2> QED
    BY <1>7, <2>1
<1>9. k \in [0..N -> X]
  <2>1. DOMAIN k = 0..N /\ k = [n \in 0..N |-> k[n]]
    BY <1>7
  <2>2. k[0] \in X
    BY <1>2, <1>8
  <2>3. ASSUME NEW n \in 1..N, k[n - 1] \in X
        PROVE  k[n] \in X
    BY <1>3, <1>8, <2>3
  <2> HIDE DEF k
  <2> QED
    BY <1>1, <2>1, <2>2, <2>3, RecursionTyped
<1>10. Built(writes, cpu) = k[N]
  BY DEF Built, Out, x0, N, Placed, Started
<1> HIDE DEF k
<1>11. BuiltBy(k, writes, cpu)
  BY <1>8, <1>9, <1>10 DEF BuiltBy, Out, x0, X, N
<1> QED
  BY <1>11

\* What is built is of that kind, and not empty if there was a write to place.
LEMMA BuiltType ==
    ASSUME NEW writes \in Seq(Asked), NEW cpu \in Cpus
    PROVE  /\ Built(writes, cpu) \in SUBSET Builders
           /\ writes # <<>> => \A b \in Built(writes, cpu) : b.ins # <<>>
<1> DEFINE N == Len(writes)
<1>1. PICK k : BuiltBy(k, writes, cpu)
  BY BuiltSteps
<1>2. N \in Nat /\ N \in 0..N /\ k[N] \in SUBSET Builders /\ Built(writes, cpu) = k[N]
  BY <1>1 DEF BuiltBy
<1>3. ASSUME writes # <<>>, NEW b \in k[N]
      PROVE  b.ins # <<>>
  <2>1. N \in 1..N /\ N - 1 \in 0..N /\ writes[N] \in Asked
    BY <1>3
  <2>2. k[N] = Placed(k[N - 1], writes[N]) /\ k[N - 1] \in SUBSET Builders
    BY <1>1, <2>1 DEF BuiltBy
  <2>3. PICK a \in k[N - 1] : CanPlace(a, writes[N]) /\ b = Place(a, writes[N])
    BY <1>3, <2>2 DEF Placed
  <2> QED
    BY <2>1, <2>2, <2>3, PlaceType
<1> QED
  BY <1>2, <1>3

\* A write as it was asked for: a playfield write perhaps earlier.
Obeys(q, w) ==
    /\ q.target = w.target /\ q.value = w.value
    /\ q.start <= w.start /\ (w.target \in Playfield \/ q.start = w.start)

\* A line that does the first n writes, and whose builder knows it.
Does(b, writes, n, cpu) ==
    /\ b \in Builders /\ b.cycles = Cycles(b.ins) /\ b.cpu = After(b.ins, Len(b.ins), cpu)
    /\ Len(Requested(b.ins, cpu)) = n
    /\ \A m \in 1..n : Obeys(Requested(b.ins, cpu)[m], writes[m])

LEMMA PlaceDoes ==
    ASSUME NEW writes \in Seq(Asked), NEW n \in 1..Len(writes), NEW cpu \in Cpus,
           NEW b, Does(b, writes, n - 1, cpu), CanPlace(b, writes[n])
    PROVE  Does(Place(b, writes[n]), writes, n, cpu)
<1> DEFINE w == writes[n]
           c == Place(b, w)
<1>1. b \in Builders /\ w \in Asked /\ CanPlace(b, w) /\ n \in Nat /\ n - 1 \in Nat
  BY DEF Does
<1> HIDE DEF w
<1>2. PICK from, at, gap : PlacedAt(b, w, c, from, at, gap)
  BY <1>1, PlaceParts
<1>3. c \in Builders
  BY <1>1, PlaceType
<1> DEFINE load == Loaded(b, from, w)
           s == b.ins
           t == s \o Nops(gap)
           u == t \o load
           i == Store(from, w.target)
<1>4. /\ s \in Seq(Instructions) /\ b.cycles \in Nat /\ b.cycles = Cycles(s)
      /\ b.cpu = After(s, Len(s), cpu) /\ b.cpu \in Cpus
      /\ w.target \in Targets /\ w.value \in Bytes /\ w.start \in Nat
  BY <1>1 DEF Does, Builders, Asked
<1>5. /\ from \in Regs /\ at \in Nat /\ gap \in Nat
      /\ at = b.cycles + 2 * (gap + Len(load))
      /\ at <= w.start /\ (w.target \in Playfield \/ at = w.start)
      /\ c = [ins |-> u \o <<i>>, cycles |-> at + 4, cpu |-> [b.cpu EXCEPT ![from] = w.value]]
  BY <1>2 DEF PlacedAt
<1>6. Len(load) \in Nat /\ load = IF b.cpu[from] = w.value THEN <<>> ELSE <<Load(from, w.value)>>
  BY DEF Loaded
<1>7. i \in Instructions /\ Cost(i) = 4
  BY <1>4, <1>5, InstructionType DEF Store, Cost
<1> HIDE DEF s, load, c
<1>8. Longer(t, s, 2 * gap, cpu) /\ After(t, Len(t), cpu) = After(s, Len(s), cpu)
  BY <1>4, <1>5, NopsQuiet
<1> HIDE DEF t
<1>9. t \in Seq(Instructions) /\ After(t, Len(t), cpu) = b.cpu
  BY <1>4, <1>8 DEF Longer
<1>10. /\ Longer(u, t, 2 * Len(load), cpu)
       /\ After(u, Len(u), cpu) = [b.cpu EXCEPT ![from] = w.value]
  <2>1. load = IF After(t, Len(t), cpu)[from] = w.value THEN <<>> ELSE <<Load(from, w.value)>>
    BY <1>6, <1>9
  <2>2. /\ Longer(t \o load, t, 2 * Len(load), cpu)
        /\ After(t \o load, Len(t \o load), cpu)
             = Loading(After(t, Len(t), cpu), from, w.value)
    <3>1. t \in Seq(Instructions) /\ from \in Regs /\ w.value \in Bytes
      BY <1>4, <1>5, <1>9
    <3> HIDE DEF u, i
    <3> QED
      BY <3>1, <2>1, ReloadQuiet, ZenonT(30)
  <2> QED
    BY <1>9, <2>2 DEF Loading
<1> HIDE DEF u
<1>11. u \in Seq(Instructions) /\ Cycles(u) = at /\ Requested(u, cpu) = Requested(s, cpu)
  <2>1. Cycles(u) = Cycles(s) + 2 * gap + 2 * Len(load)
    BY <1>8, <1>10 DEF Longer
  <2>2. u \in Seq(Instructions) /\ Requested(u, cpu) = Requested(s, cpu)
    BY <1>8, <1>10 DEF Longer
  <2> QED
    BY <1>4, <1>5, <1>6, <2>1, <2>2
<1>12. u \o <<i>> = Append(u, i)
  BY <1>7, <1>11, ConcatOne
<1>13. After(u, Len(u), cpu)[from] = w.value
  BY <1>4, <1>5, <1>10 DEF Cpus
<1> DEFINE q == Requested(s, cpu)
           x == [target |-> w.target, start |-> at, value |-> w.value]
<1>14. Requested(Append(u, i), cpu) = Append(q, x)
  BY <1>4, <1>5, <1>11, <1>13, AppendStore, ZenonT(30)
<1>15. /\ Cycles(Append(u, i)) = at + 4
       /\ After(Append(u, i), Len(Append(u, i)), cpu) = [b.cpu EXCEPT ![from] = w.value]
  <2>1. Cycles(Append(u, i)) = Cycles(u) + Cost(i)
    BY <1>7, <1>11, CyclesAppend
  <2>2. After(Append(u, i), Len(Append(u, i)), cpu) =
          [r \in Regs |-> After(u, Len(u), cpu)[r]]
    <3>1. i.op # "load"
      BY DEF Store
    <3> QED
      BY <1>7, <1>11, <3>1, AppendAfter
  <2>3. After(u, Len(u), cpu) = [r \in Regs |-> After(u, Len(u), cpu)[r]]
    BY DEF After
  <2> QED
    BY <1>7, <1>10, <1>11, <2>1, <2>2, <2>3
<1>16. q \in Seq(Asked) /\ Len(q) = n - 1 /\ x \in Asked
       /\ \A m \in 1..(n - 1) : Obeys(q[m], writes[m])
  BY <1>4, <1>5, RequestedType DEF Does, Asked, s
<1>17. Obeys(x, w)
  BY <1>5 DEF Obeys
<1> HIDE DEF q, x, i
<1>18. Len(Append(q, x)) = n /\ \A m \in 1..n : Obeys(Append(q, x)[m], writes[m])
  <2>1. Len(Append(q, x)) = n /\ Append(q, x)[n] = x
        /\ \A m \in 1..(n - 1) : Append(q, x)[m] = q[m]
    BY <1>1, <1>16, AppendProperties
  <2>2. \A m \in 1..n : m \in 1..(n - 1) \/ m = n
    BY <1>1
  <2>3. Obeys(x, writes[n])
    BY <1>17 DEF w
  <2> QED
    BY <1>16, <2>1, <2>2, <2>3
<1>19. c.ins = Append(u, i) /\ c.cycles = at + 4 /\ c.cpu = [b.cpu EXCEPT ![from] = w.value]
  BY <1>5, <1>12
<1>20. Does(c, writes, n, cpu)
  BY <1>3, <1>14, <1>15, <1>18, <1>19 DEF Does
<1> QED
  BY <1>20 DEF c, w

\* What is built does the writes, in their order.
LEMMA BuiltDoes ==
    ASSUME NEW writes \in Seq(Asked), NEW cpu \in Cpus, NEW b \in Built(writes, cpu)
    PROVE  Does(b, writes, Len(writes), cpu)
<1> DEFINE N == Len(writes)
<1>1. PICK k : BuiltBy(k, writes, cpu)
  BY BuiltSteps
<1> DEFINE B == {n \in 0..N : \A c \in k[n] : Does(c, writes, n, cpu)}
<1>2. N \in Nat /\ N \in 0..N /\ 0 \in 0..N
  OBVIOUS
<1>3. 0 \in B
  <2> DEFINE c == Started(cpu)
  <2>1. c.ins = <<>> /\ c.cycles = 0 /\ c.cpu = cpu /\ c \in Builders
        /\ Len(<<>>) = 0 /\ 1..0 = {}
    BY DEF Started, Builders
  <2>2. Stores(<<>>) = {} /\ Cardinality({}) = 0
    BY FS_EmptySet DEF Stores
  <2>3. Cycles(<<>>) = 0
    <3>1. {n \in DOMAIN <<>> : <<>>[n].op = "store"} = {}
      OBVIOUS
    <3> QED
      BY <2>1, <2>2, <3>1 DEF Cycles
  <2>4. After(<<>>, Len(<<>>), cpu) = cpu
    <3>1. \A r \in Regs : Held(<<>>, 0, r, cpu) = cpu[r]
      BY <2>1 DEF Held
    <3>2. cpu = [r \in Regs |-> cpu[r]]
      BY DEF Cpus
    <3> QED
      BY <2>1, <3>1, <3>2 DEF After
  <2>5. Len(Requested(<<>>, cpu)) = 0
    <3>1. DOMAIN Requested(<<>>, cpu) = 1..0
      BY <2>2, RequestedIs
    <3>2. Requested(<<>>, cpu) \in Seq(Asked)
      <4>1. <<>> \in Seq(Instructions)
        OBVIOUS
      <4> QED
        BY <4>1, RequestedType
    <3> QED
      BY <3>1, <3>2
  <2> HIDE DEF c
  <2>6. Does(c, writes, 0, cpu)
    BY <2>1, <2>3, <2>4, <2>5 DEF Does
  <2>7. k[0] = {c}
    BY <1>1 DEF BuiltBy, c
  <2> QED
    BY <1>2, <2>6, <2>7
<1>4. ASSUME NEW n \in 1..N, n - 1 \in B
      PROVE  n \in B
  <2>1. k[n] = Placed(k[n - 1], writes[n]) /\ n \in 0..N
    BY <1>1, <1>2 DEF BuiltBy
  <2>2. \A c \in k[n - 1] : Does(c, writes, n - 1, cpu)
    BY <1>4
  <2>3. ASSUME NEW c \in k[n]
        PROVE  Does(c, writes, n, cpu)
    <3>1. PICK a \in k[n - 1] : CanPlace(a, writes[n]) /\ c = Place(a, writes[n])
      BY <2>1 DEF Placed
    <3> QED
      BY <2>2, <3>1, PlaceDoes
  <2> QED
    BY <2>1, <2>3
<1> HIDE DEF B
<1>5. 0..N \subseteq B
  BY <1>2, <1>3, <1>4, Induction
<1>6. N \in B /\ b \in k[N]
  BY <1>1, <1>2, <1>5 DEF BuiltBy
<1> QED
  BY <1>6 DEF B

LEMMA RebuiltType ==
    ASSUME NEW writes \in Seq(Asked), NEW cpu \in Cpus, NEW required \in Cpus,
           NEW ins \in RebuiltLines(writes, cpu, required)
    PROVE  ins \in Seq(Instructions) /\ (ins = <<>> => writes = <<>>)
<1>1. PICK b \in Built(writes, cpu) : ins = Restored(b, required)
  BY DEF RebuiltLines
<1>2. b \in Builders /\ (writes # <<>> => b.ins # <<>>)
  BY <1>1, BuiltType
<1>3. b.ins \in Seq(Instructions) /\ b.cpu \in Cpus
  BY <1>2 DEF Builders
<1> DEFINE Reload(r) == IF b.cpu[r] = required[r] THEN <<>> ELSE <<Load(r, required[r])>>
<1>4. \A r \in Regs : Reload(r) \in Seq(Instructions)
  <2> SUFFICES ASSUME NEW r \in Regs
               PROVE  Reload(r) \in Seq(Instructions)
    OBVIOUS
  <2>1. required[r] \in Bytes
    BY DEF Cpus
  <2>2. Load(r, required[r]) \in Instructions
    BY <2>1, InstructionType
  <2> QED
    BY <2>2
<1>5. Reload("A") \in Seq(Instructions) /\ Reload("X") \in Seq(Instructions)
      /\ Reload("Y") \in Seq(Instructions)
  BY <1>4 DEF Regs
<1>6. ins = b.ins \o Reload("A") \o Reload("X") \o Reload("Y")
  BY <1>1 DEF Restored
<1> HIDE DEF Reload
<1>7. /\ b.ins \o Reload("A") \in Seq(Instructions)
      /\ b.ins \o Reload("A") = <<>> => b.ins = <<>>
  BY <1>3, <1>5, ConcatProperties, ConcatSimplifications
<1>8. /\ b.ins \o Reload("A") \o Reload("X") \in Seq(Instructions)
      /\ b.ins \o Reload("A") \o Reload("X") = <<>> => b.ins = <<>>
  BY <1>5, <1>7, ConcatProperties, ConcatSimplifications
<1>9. ins \in Seq(Instructions) /\ (ins = <<>> => b.ins = <<>>)
  BY <1>5, <1>6, <1>8, ConcatProperties, ConcatSimplifications
<1> QED
  BY <1>2, <1>9

\* The registers are restored, and nothing else is done.
LEMMA RestoredQuiet ==
    ASSUME NEW b \in Builders, NEW cpu \in Cpus, NEW required \in Cpus,
           b.cpu = After(b.ins, Len(b.ins), cpu)
    PROVE  LET ins == Restored(b, required)
           IN  /\ Requested(ins, cpu) = Requested(b.ins, cpu)
               /\ After(ins, Len(ins), cpu) = required
<1> DEFINE Reload(r) == IF b.cpu[r] = required[r] THEN <<>> ELSE <<Load(r, required[r])>>
           s == b.ins
           t == s \o Reload("A")
           u == t \o Reload("X")
           v == u \o Reload("Y")
<1>1. /\ s \in Seq(Instructions) /\ b.cpu \in Cpus /\ b.cpu = After(s, Len(s), cpu)
      /\ "A" \in Regs /\ "X" \in Regs /\ "Y" \in Regs
      /\ \A r \in Regs : required[r] \in Bytes
  BY DEF Builders, Regs, Cpus
<1>2. Restored(b, required) = v
  BY DEF Restored
<1>3. \A r : Reload(r) = IF b.cpu[r] = required[r] THEN <<>> ELSE <<Load(r, required[r])>>
  OBVIOUS
<1> HIDE DEF Reload, s
<1>4. /\ Longer(t, s, 2 * Len(Reload("A")), cpu)
      /\ After(t, Len(t), cpu) = [b.cpu EXCEPT !["A"] = required["A"]]
  BY <1>1, <1>3, ReloadQuiet DEF Loading
<1> HIDE DEF t
<1>5. t \in Seq(Instructions) /\ After(t, Len(t), cpu)["X"] = b.cpu["X"]
  BY <1>1, <1>4 DEF Longer, Cpus
<1>6. /\ Longer(u, t, 2 * Len(Reload("X")), cpu)
      /\ After(u, Len(u), cpu) = [After(t, Len(t), cpu) EXCEPT !["X"] = required["X"]]
  BY <1>1, <1>3, <1>5, ReloadQuiet DEF Loading
<1> HIDE DEF u
<1>7. u \in Seq(Instructions) /\ After(u, Len(u), cpu)["Y"] = b.cpu["Y"]
  BY <1>1, <1>4, <1>6 DEF Longer, Cpus
<1>8. /\ Longer(v, u, 2 * Len(Reload("Y")), cpu)
      /\ After(v, Len(v), cpu) = [After(u, Len(u), cpu) EXCEPT !["Y"] = required["Y"]]
  BY <1>1, <1>3, <1>7, ReloadQuiet DEF Loading
<1> HIDE DEF v
<1>9. Requested(v, cpu) = Requested(s, cpu)
  BY <1>4, <1>6, <1>8 DEF Longer
<1>10. After(v, Len(v), cpu) = required
  <2>1. \A r \in Regs : r = "A" \/ r = "X" \/ r = "Y"
    BY DEF Regs
  <2> QED
    BY <1>1, <1>4, <1>6, <1>8, <2>1 DEF Cpus
<1> QED
  BY <1>2, <1>9, <1>10 DEF s

\* Writes that differ from those asked for in what they store in the playfield.
Recoloured(writes, asked) ==
    /\ writes \in Seq(Asked) /\ Len(writes) = Len(asked)
    /\ \A n \in 1..Len(asked) :
         /\ writes[n].target = asked[n].target /\ writes[n].start = asked[n].start
         /\ asked[n].target \notin Playfield => writes[n].value = asked[n].value

LEMMA WindowParts ==
    ASSUME NEW p, NEW h, Lined(p, h), NEW y \in 0..(h - 1), NEW cpu \in Cpus,
           NEW required, NEW ins \in SourceWindow(p, y, cpu, required)
    PROVE  \E writes : /\ Recoloured(writes, Requested(p.lines[y].ins, cpu))
                       /\ ins \in RebuiltLines(writes, cpu, required)
<1> DEFINE asked == Requested(p.lines[y].ins, cpu)
           free  == {n \in DOMAIN asked : asked[n].target \in Playfield}
           recoloured(f) == [n \in DOMAIN asked |->
                              IF n \in free THEN [asked[n] EXCEPT !.value = f[n]] ELSE asked[n]]
<1>1. asked \in Seq(Asked)
  <2>1. p.lines[y].ins \in Seq(Instructions)
    BY DEF Lined
  <2> QED
    BY <2>1, RequestedType
<1>2. PICK f : /\ ins \in RebuiltLines(recoloured(f), cpu, required)
               /\ \A n \in free : f[n] \in Palette \cup {asked[n].value}
  BY DEF SourceWindow
<1> HIDE DEF asked
<1>3. Recoloured(recoloured(f), asked)
  <2>1. Len(asked) \in Nat /\ DOMAIN asked = 1..Len(asked)
    BY <1>1
  <2> DEFINE g(n) == IF n \in free THEN [asked[n] EXCEPT !.value = f[n]] ELSE asked[n]
  <2>2. ASSUME NEW n \in DOMAIN asked
        PROVE  /\ g(n) \in Asked
               /\ g(n).target = asked[n].target /\ g(n).start = asked[n].start
               /\ asked[n].target \notin Playfield => g(n).value = asked[n].value
    <3>1. asked[n] \in Asked
      BY <1>1, <2>1
    <3>2. CASE n \in free
      <4>1. f[n] \in Palette \/ f[n] = asked[n].value
        BY <1>2, <3>2
      <4>2. f[n] \in Bytes
        BY <3>1, <4>1, PaletteAssumption DEF Asked
      <4>3. g(n) = [target |-> asked[n].target, start |-> asked[n].start, value |-> f[n]]
        BY <3>1, <3>2 DEF Asked
      <4> QED
        BY <3>1, <3>2, <4>2, <4>3 DEF Asked
    <3>3. CASE n \notin free
      BY <3>1, <3>3
    <3> QED
      BY <3>2, <3>3
  <2>3. recoloured(f) = [n \in 1..Len(asked) |-> g(n)]
    BY <2>1
  <2> HIDE DEF recoloured, g
  <2>4. recoloured(f) \in [1..Len(asked) -> Asked]
    BY <2>1, <2>2, <2>3
  <2>5. recoloured(f) \in Seq(Asked) /\ Len(recoloured(f)) = Len(asked)
    BY <2>1, <2>4
  <2>6. \A n \in 1..Len(asked) : recoloured(f)[n] = g(n)
    BY <2>3
  <2> QED
    BY <2>1, <2>2, <2>5, <2>6 DEF Recoloured
<1> HIDE DEF recoloured, free
<1> QED
  BY <1>2, <1>3 DEF asked

\* Every line the solver offers is one of instructions, empty only in place of a
\* line that stores nothing.
LEMMA WindowType ==
    ASSUME NEW p, NEW h, Lined(p, h), NEW y \in 0..(h - 1), NEW cpu \in Cpus,
           NEW required \in Cpus, NEW ins \in SourceWindow(p, y, cpu, required)
    PROVE  ins \in Seq(Instructions) /\ (ins = <<>> => Stores(p.lines[y].ins) = {})
<1> DEFINE asked == Requested(p.lines[y].ins, cpu)
<1>1. /\ asked \in Seq(Asked) /\ Len(asked) = Cardinality(Stores(p.lines[y].ins))
      /\ asked = <<>> => Stores(p.lines[y].ins) = {}
  <2>1. p.lines[y].ins \in Seq(Instructions)
    BY DEF Lined
  <2> QED
    BY <2>1, RequestedType
<1>2. PICK writes : Recoloured(writes, asked) /\ ins \in RebuiltLines(writes, cpu, required)
  BY WindowParts
<1> HIDE DEF asked
<1>3. writes \in Seq(Asked) /\ (writes = <<>> => asked = <<>>)
  BY <1>1, <1>2 DEF Recoloured
<1> QED
  BY <1>1, <1>2, <1>3, RebuiltType

\* A line of the solver does what the line it replaces does.
LEMMA WindowKeeps ==
    ASSUME NEW p, NEW h, Lined(p, h), NEW y \in 0..(h - 1), NEW cpu \in Cpus,
           NEW old, old = p.lines[y].ins,
           NEW ins \in SourceWindow(p, y, cpu, After(old, Len(old), cpu))
    PROVE  Kept(old, ins, cpu)
<1> DEFINE was == Requested(old, cpu)
           is  == Requested(ins, cpu)
           required == After(old, Len(old), cpu)
<1>1. old \in Seq(Instructions) /\ required \in Cpus
  <2>1. old \in Seq(Instructions)
    BY DEF Lined
  <2> QED
    BY <2>1, AfterType
<1>2. PICK writes : Recoloured(writes, was) /\ ins \in RebuiltLines(writes, cpu, required)
  BY WindowParts
<1> HIDE DEF required
<1>3. PICK b \in Built(writes, cpu) : ins = Restored(b, required)
  BY <1>2 DEF RebuiltLines
<1>4. Does(b, writes, Len(writes), cpu)
  BY <1>2, BuiltDoes DEF Recoloured
<1>5. b \in Builders /\ b.cpu = After(b.ins, Len(b.ins), cpu)
      /\ b.ins \in Seq(Instructions)
  BY <1>4 DEF Does, Builders
<1>6. is = Requested(b.ins, cpu) /\ After(ins, Len(ins), cpu) = required
  BY <1>1, <1>3, <1>5, RestoredQuiet
<1>7. is \in Seq(Asked) /\ was \in Seq(Asked)
  BY <1>1, <1>5, <1>6, RequestedType
<1> HIDE DEF is, was
<1>8. Len(is) = Len(was) /\ Len(was) \in Nat
      /\ \A n \in 1..Len(was) : Obeys(is[n], writes[n])
  BY <1>2, <1>4, <1>6, <1>7 DEF Does, Recoloured
<1>9. DOMAIN is = DOMAIN was /\ DOMAIN was = 1..Len(was)
  BY <1>7, <1>8
<1>10. ASSUME NEW n \in 1..Len(was)
       PROVE  /\ is[n].target = was[n].target
              /\ IF was[n].target \in Playfield THEN is[n].start <= was[n].start
                 ELSE is[n] = was[n]
  <2>1. /\ writes[n].target = was[n].target /\ writes[n].start = was[n].start
        /\ was[n].target \notin Playfield => writes[n].value = was[n].value
    BY <1>2 DEF Recoloured
  <2>2. is[n] \in Asked /\ was[n] \in Asked
    BY <1>7, <1>8
  <2>3. Obeys(is[n], writes[n])
    BY <1>8
  <2>4. is[n].target = was[n].target /\ is[n].start <= was[n].start
    BY <2>1, <2>3 DEF Obeys
  <2>5. was[n].target \notin Playfield =>
          is[n].start = was[n].start /\ is[n].value = was[n].value
    BY <2>1, <2>3 DEF Obeys
  <2>6. was[n].target \notin Playfield => is[n] = was[n]
    BY <2>2, <2>4, <2>5 DEF Asked
  <2> QED
    BY <2>4, <2>6
<1> QED
  BY <1>6, <1>9, <1>10 DEF Kept, is, was, required

\* A line that stays keeps to the rules.
LEMMA KeptSelf ==
    ASSUME NEW ins \in Seq(Instructions), NEW cpu
    PROVE  Kept(ins, ins, cpu)
<1> DEFINE was == Requested(ins, cpu)
<1>1. was = [n \in 1..Cardinality(Stores(ins)) |-> WriteAt(ins, NthStore(ins, n), cpu)]
  BY RequestedIs
<1>2. ASSUME NEW n \in DOMAIN was
      PROVE  was[n].start <= was[n].start
  <2>1. n \in 1..Cardinality(Stores(ins))
    BY <1>1
  <2>2. NthStore(ins, n) \in 1..Len(ins)
    BY <2>1, NthStoreType
  <2>3. was[n].start = StartCycle(ins, NthStore(ins, n))
    BY <1>1, <2>1 DEF WriteAt
  <2>4. was[n].start \in Nat
    BY <2>2, <2>3, StartsBefore
  <2> QED
    BY <2>4
<1> QED
  BY <1>2 DEF Kept

-----------------------------------------------------------------------------
(* Programs.                                                                 *)

LineType == [ins : Seq(Instructions), cycles : Nat]

LimitAt(pc, y) == Schedule(pc.mode, pc.wide, y, pc.height).limit

\* A line that passes validation at row y.
Fits(pc, line, y) ==
    /\ line \in LineType /\ line.ins # <<>>
    /\ line.cycles = Cycles(line.ins)
    /\ line.cycles <= LimitAt(pc, y)
    /\ \A n \in Stores(line.ins) : line.ins[n].target \in Writable(pc.mode)

Rows(pc) == 0..(pc.height - 1)

Cells(pc) == IF pc.mode = "ANTIC4"
             THEN (0..(pc.height \div 8 - 1)) \X (0..(VisibleColumns(pc.wide) - 1)) ELSE {}

ProgramOf(pc, p) ==
    /\ p \in [mode : {pc.mode}, wide : {pc.wide}, attributes : SUBSET Cells(pc),
              mem : [Targets -> Bytes], lines : [Rows(pc) -> LineType]]
    /\ \A y \in Rows(pc) : Fits(pc, p.lines[y], y)

\* The inductive invariant.
PInv ==
    /\ picture \in Pictures /\ phase \in {"initializer", "search", "finalizer", "finished"}
    /\ row \in 0..picture.height /\ edits \in 0..MaxEdits[picture]
    /\ ProgramOf(picture, pic)

LEMMA PictureParts ==
    ASSUME NEW pc \in Pictures
    PROVE  /\ pc.mode \in {"E", "ANTIC4"} /\ pc.wide \in BOOLEAN
           /\ pc.height \in Nat /\ pc.height >= 1
           /\ pc.colors \in Seq(Bytes) /\ Len(pc.colors) \in Nat /\ Len(pc.colors) >= 1
           /\ pc.mode = "ANTIC4" => pc.init = "empty" /\ pc.height % 8 = 0
           /\ MaxEdits[pc] \in Nat
<1>1. pc \in [mode : {"E", "ANTIC4"}, wide : BOOLEAN, height : Nat \ {0},
              init : {"empty", "low color", "random", "smart"},
              colors : Seq(Bytes) \ {<<>>}]
  BY PicturesAssumption
<1>2. pc.colors \in Seq(Bytes) /\ pc.colors # <<>>
  BY <1>1
<1>3. Len(pc.colors) \in Nat /\ Len(pc.colors) >= 1
  BY <1>2
<1>4. pc.height \in Nat /\ pc.height >= 1
  <2>1. pc.height \in Nat \ {0}
    BY <1>1
  <2> QED
    BY <2>1
<1> QED
  BY <1>1, <1>2, <1>3, <1>4, PicturesAssumption, EditsAssumption

\* Every line has room for a load and a store; in mode E, a wide one for 46
\* cycles and a normal one for 54.
LEMMA LimitType ==
    ASSUME NEW pc \in Pictures, NEW y \in Nat
    PROVE  /\ LimitAt(pc, y) \in Nat /\ LimitAt(pc, y) >= 6
           /\ pc.mode = "E" => LimitAt(pc, y) = IF pc.wide THEN 46 ELSE 54
<1>1. /\ ENormal.limit = 54 /\ EWide.limit = 46 /\ NormalLms.limit = 20 /\ WideLms.limit = 6
      /\ NormalBadline.limit = 22 /\ WideBadline.limit = 8
      /\ NormalContinuation.limit = 56 /\ WideContinuation.limit = 48
      /\ WideAfterBadline.limit = 48
  BY DEF ENormal, EWide, NormalLms, WideLms, NormalBadline, WideBadline,
         NormalContinuation, WideContinuation, WideAfterBadline
<1>2. pc.mode \in {"E", "ANTIC4"} /\ pc.wide \in BOOLEAN
  BY PictureParts
<1>3. CASE pc.mode = "E"
  BY <1>1, <1>2, <1>3 DEF LimitAt, Schedule
<1>4. CASE pc.mode # "E"
  <2> DEFINE s == IF pc.wide THEN WideContinuation ELSE NormalContinuation
             t == [s EXCEPT !.transition = TRUE, !.limit = IF pc.wide THEN 44 ELSE 50,
                            !.suffix = IF pc.wide THEN 9 ELSE 10]
  <2>1. s.limit \in {48, 56} /\ t.limit \in {44, 50}
    <3>1. "limit" \in DOMAIN WideContinuation /\ "limit" \in DOMAIN NormalContinuation
      BY DEF WideContinuation, NormalContinuation
    <3> QED
      BY <1>1, <1>2, <3>1
  <2>2. LimitAt(pc, y) \in {20, 6, 22, 8, 48, s.limit, t.limit}
    BY <1>1, <1>2, <1>4 DEF LimitAt, Schedule
  <2> QED
    BY <1>4, <2>1, <2>2
<1> QED
  BY <1>3, <1>4

\* What the invariant says in the words of the model.
LEMMA ProgramLimits ==
    ASSUME NEW pc \in Pictures, NEW p, ProgramOf(pc, p)
    PROVE  /\ Lined(p, pc.height) /\ Height(p) = pc.height
           /\ p.mode = pc.mode /\ p.wide = pc.wide /\ DOMAIN p.lines = Rows(pc)
           /\ \A y : Limit(p, y) = LimitAt(pc, y)
<1>1. pc.height \in Nat
  BY PictureParts
<1>2. p.mode = pc.mode /\ p.wide = pc.wide /\ p.lines \in [Rows(pc) -> LineType]
  BY DEF ProgramOf
<1>3. Lined(p, pc.height)
  BY <1>1, <1>2 DEF Lined, Rows, LineType
<1>4. Height(p) = pc.height
  BY <1>3, HeightOf
<1> QED
  BY <1>2, <1>3, <1>4 DEF Limit, ScheduleOf, LimitAt

-----------------------------------------------------------------------------
(* Every store of a line of mode E is displayed, or at least executed.       *)

\* A bound on the numbers of two sequences is one on those of both.
UpTo(s, n) == s \in Seq(Int) /\ \A i \in 1..Len(s) : s[i] <= n

LEMMA UpToConcat ==
    ASSUME NEW s, NEW t, NEW n \in Int, UpTo(s, n), UpTo(t, n)
    PROVE  UpTo(s \o t, n) /\ Len(s \o t) = Len(s) + Len(t)
<1>1. s \in Seq(Int) /\ t \in Seq(Int)
  BY DEF UpTo
<1>2. /\ s \o t \in Seq(Int) /\ Len(s \o t) = Len(s) + Len(t)
      /\ \A i \in 1..(Len(s) + Len(t)) :
           (s \o t)[i] = IF i <= Len(s) THEN s[i] ELSE t[i - Len(s)]
  BY <1>1, ConcatProperties
<1>3. ASSUME NEW i \in 1..(Len(s) + Len(t))
      PROVE  (s \o t)[i] <= n
  <2>1. Len(s) \in Nat /\ Len(t) \in Nat
    BY <1>1
  <2>2. CASE i <= Len(s)
    <3>1. i \in 1..Len(s)
      BY <2>1, <2>2
    <3> QED
      BY <1>2, <2>2, <3>1 DEF UpTo
  <2>3. CASE ~(i <= Len(s))
    <3>1. i - Len(s) \in 1..Len(t)
      BY <2>1, <2>3
    <3> QED
      BY <1>2, <2>3, <3>1 DEF UpTo
  <2> QED
    BY <2>2, <2>3
<1> QED
  BY <1>2, <1>3 DEF UpTo

\* In mode E nothing that starts two cycles before the limit is displayed past
\* the right edge.
LEMMA SlotsShown ==
    /\ ENormal.start = 24 /\ ENormal.limit = 54 /\ ENormal.transition = FALSE
    /\ EWide.start = 22 /\ EWide.limit = 46 /\ EWide.transition = FALSE
    /\ \A i \in 1..53 : ENormal.slots[i] \in Int /\ ENormal.slots[i] <= 108
    /\ \A i \in 1..45 : EWide.slots[i] \in Int /\ EWide.slots[i] <= 112
<1> DEFINE near == 99
           far  == 112
<1>0. near \in Int /\ far \in Int
  OBVIOUS
<1>1. /\ ENormal.start = 24 /\ ENormal.limit = 54 /\ ENormal.transition = FALSE
      /\ EWide.start = 22 /\ EWide.limit = 46 /\ EWide.transition = FALSE
  BY DEF ENormal, EWide
<1> DEFINE n1 == Run(7, 19)
           n2 == <<21>>
           n3 == Every(4, 23, 59)
           n4 == Every(2, 61, 99)
           n5 == Run(100, 112)
           s  == n1 \o n2 \o n3 \o n4
<1>2. ENormal.slots = s \o n5
  BY DEF ENormal
<1>3. UpTo(n1, near) /\ UpTo(n2, near) /\ UpTo(n3, near) /\ UpTo(n4, near)
      /\ Len(n1) = 13 /\ Len(n2) = 1 /\ Len(n3) = 10 /\ Len(n4) = 20
  <2>1. UpTo(n1, near) /\ Len(n1) = 13
    BY DEF UpTo, Run
  <2>2. UpTo(n2, near) /\ Len(n2) = 1
    BY DEF UpTo
  <2>3. UpTo(n3, near) /\ Len(n3) = 10
    BY DEF UpTo, Every
  <2>4. UpTo(n4, near) /\ Len(n4) = 20
    BY DEF UpTo, Every
  <2> QED
    BY <2>1, <2>2, <2>3, <2>4
<1>4. n5 \in Seq(Int) /\ Len(n5) = 13 /\ \A i \in 1..13 : n5[i] = 99 + i
  BY DEF Run
<1> HIDE DEF n1, n2, n3, n4, n5, near, far
<1>5. UpTo(n1 \o n2, near) /\ Len(n1 \o n2) = 14
  <2>1. UpTo(n1 \o n2, near) /\ Len(n1 \o n2) = Len(n1) + Len(n2)
    BY <1>0, <1>3, UpToConcat
  <2> QED
    BY <1>3, <2>1
<1>6. UpTo(n1 \o n2 \o n3, near) /\ Len(n1 \o n2 \o n3) = 24
  <2>1. UpTo(n1 \o n2 \o n3, near) /\ Len(n1 \o n2 \o n3) = Len(n1 \o n2) + Len(n3)
    BY <1>0, <1>3, <1>5, UpToConcat
  <2> QED
    BY <1>3, <1>5, <2>1
<1>7. UpTo(s, near) /\ Len(s) = 44
  <2>1. UpTo(s, near) /\ Len(s) = Len(n1 \o n2 \o n3) + Len(n4)
    BY <1>0, <1>3, <1>6, UpToConcat
  <2> HIDE DEF s
  <2> QED
    BY <1>3, <1>6, <2>1
<1> HIDE DEF s
<1>8. ASSUME NEW i \in 1..53
      PROVE  ENormal.slots[i] \in Int /\ ENormal.slots[i] <= 108
  <2>1. s \in Seq(Int) /\ i \in 1..(Len(s) + Len(n5))
    BY <1>4, <1>7 DEF UpTo
  <2>2. (s \o n5)[i] = IF i <= Len(s) THEN s[i] ELSE n5[i - Len(s)]
    <3>1. s \in Seq(Int) /\ n5 \in Seq(Int)
      BY <1>4, <2>1
    <3>2. \A k \in 1..(Len(s) + Len(n5)) :
            (s \o n5)[k] = IF k <= Len(s) THEN s[k] ELSE n5[k - Len(s)]
      BY <3>1, ConcatProperties
    <3> QED
      BY <2>1, <3>2
  <2>3. CASE i <= 44
    <3>1. i \in 1..Len(s)
      BY <1>7, <2>3
    <3>2. s[i] \in Int /\ s[i] <= 99
      <4>1. s[i] \in Int
        BY <2>1, <3>1, ElementOfSeq
      <4> QED
        BY <1>7, <3>1, <4>1 DEF UpTo, near
    <3>3. ENormal.slots[i] = s[i]
      BY <1>2, <1>7, <2>2, <2>3
    <3> QED
      BY <3>2, <3>3
  <2>4. CASE ~(i <= 44)
    <3>1. i - 44 \in 1..13 /\ 99 + (i - 44) \in Int /\ 99 + (i - 44) <= 108
      BY <2>4
    <3>2. ENormal.slots[i] = n5[i - 44]
      BY <1>2, <1>7, <2>2, <2>4
    <3>3. n5[i - 44] = 99 + (i - 44)
      BY <1>4, <3>1
    <3> QED
      BY <3>1, <3>2, <3>3
  <2> QED
    BY <2>3, <2>4
<1> DEFINE w1 == Run(7, 11)
           w2 == Every(2, 13, 23)
           w3 == Every(4, 27, 59)
           w4 == Every(2, 61, 105)
           w5 == Run(106, 112)
           w  == w1 \o w2 \o w3 \o w4 \o w5
<1>9. EWide.slots = w
  BY DEF EWide
<1>10. UpTo(w1, far) /\ UpTo(w2, far) /\ UpTo(w3, far) /\ UpTo(w4, far) /\ UpTo(w5, far)
       /\ Len(w1) = 5 /\ Len(w2) = 6 /\ Len(w3) = 9 /\ Len(w4) = 23 /\ Len(w5) = 7
  <2>1. UpTo(w1, far) /\ Len(w1) = 5
    BY DEF UpTo, Run, far
  <2>2. UpTo(w2, far) /\ Len(w2) = 6
    BY DEF UpTo, Every, far
  <2>3. UpTo(w3, far) /\ Len(w3) = 9
    BY DEF UpTo, Every, far
  <2>4. UpTo(w4, far) /\ Len(w4) = 23
    BY DEF UpTo, Every, far
  <2>5. UpTo(w5, far) /\ Len(w5) = 7
    BY DEF UpTo, Run, far
  <2> QED
    BY <2>1, <2>2, <2>3, <2>4, <2>5
<1> HIDE DEF w1, w2, w3, w4, w5
<1>11. UpTo(w1 \o w2, far) /\ Len(w1 \o w2) = 11
  <2>1. UpTo(w1 \o w2, far) /\ Len(w1 \o w2) = Len(w1) + Len(w2)
    BY <1>0, <1>10, UpToConcat
  <2> QED
    BY <1>10, <2>1
<1>12. UpTo(w1 \o w2 \o w3, far) /\ Len(w1 \o w2 \o w3) = 20
  <2>1. UpTo(w1 \o w2 \o w3, far) /\ Len(w1 \o w2 \o w3) = Len(w1 \o w2) + Len(w3)
    BY <1>0, <1>10, <1>11, UpToConcat
  <2> QED
    BY <1>10, <1>11, <2>1
<1>13. UpTo(w1 \o w2 \o w3 \o w4, far) /\ Len(w1 \o w2 \o w3 \o w4) = 43
  <2>1. UpTo(w1 \o w2 \o w3 \o w4, far) /\ Len(w1 \o w2 \o w3 \o w4) = Len(w1 \o w2 \o w3) + Len(w4)
    BY <1>0, <1>10, <1>12, UpToConcat
  <2> QED
    BY <1>10, <1>12, <2>1
<1>14. UpTo(w, far) /\ Len(w) = 50
  <2>1. UpTo(w, far) /\ Len(w) = Len(w1 \o w2 \o w3 \o w4) + Len(w5)
    BY <1>0, <1>10, <1>13, UpToConcat
  <2> HIDE DEF w
  <2> QED
    BY <1>10, <1>13, <2>1
<1> HIDE DEF w
<1>15. ASSUME NEW i \in 1..45
       PROVE  EWide.slots[i] \in Int /\ EWide.slots[i] <= 112
  <2>1. i \in 1..Len(w) /\ w \in Seq(Int)
    BY <1>14 DEF UpTo
  <2>2. w[i] \in Int /\ w[i] <= 112
    <3>1. w[i] \in Int
      BY <2>1, ElementOfSeq
    <3> QED
      BY <1>14, <2>1, <3>1 DEF UpTo, far
  <2> QED
    BY <1>9, <2>2
<1> QED
  BY <1>1, <1>8, <1>15

\* In mode E all of a line is executed.
LEMMA AllExecuted ==
    ASSUME NEW pc \in Pictures, NEW p, ProgramOf(pc, p), p.mode = "E", NEW y \in Rows(pc)
    PROVE  Executed(p, y) = Len(p.lines[y].ins) /\ ~ScheduleOf(p, y).transition
<1> DEFINE ins == p.lines[y].ins
           s == ScheduleOf(p, y)
<1>1. p.wide = pc.wide /\ pc.wide \in BOOLEAN /\ pc.mode = "E" /\ y \in Nat
  BY ProgramLimits, PictureParts DEF Rows
<1>2. Fits(pc, p.lines[y], y)
  BY DEF ProgramOf
<1>3. ins \in Seq(Instructions) /\ Cycles(ins) <= IF pc.wide THEN 46 ELSE 54
  BY <1>1, <1>2, LimitType DEF Fits, LineType
<1>4. s = IF pc.wide THEN EWide ELSE ENormal
  BY <1>1 DEF ScheduleOf, Schedule
<1> HIDE DEF s, ins
<1>5. ASSUME NEW n \in 1..Len(ins)
      PROVE  Completion(p, s, ins[n], StartCycle(ins, n)) < VisibleWidth(p.wide) + 15
  <2> DEFINE c == StartCycle(ins, n)
  <2>1. c \in Nat /\ c <= Cycles(ins) - 2 /\ Cycles(ins) \in Nat
    BY <1>3, StartsBefore, CyclesEven
  <2> HIDE DEF c
  <2>2. Completion(p, s, ins[n], c) = (s.slots[c + 1] - s.start) * 2
    BY DEF Completion, Offset
  <2>3. CASE pc.wide
    <3>1. c + 1 \in 1..45
      BY <1>3, <2>1, <2>3
    <3>2. s.start = 22 /\ s.slots[c + 1] \in Int /\ s.slots[c + 1] <= 112
      BY <1>4, <2>3, <3>1, SlotsShown
    <3>3. (s.slots[c + 1] - s.start) * 2 < 168 + 15
      BY <3>2
    <3> QED
      BY <1>1, <2>2, <2>3, <3>3 DEF VisibleWidth, c
  <2>4. CASE ~pc.wide
    <3>1. c + 1 \in 1..53
      BY <1>3, <2>1, <2>4
    <3>2. s.start = 24 /\ s.slots[c + 1] \in Int /\ s.slots[c + 1] <= 108
      BY <1>4, <2>4, <3>1, SlotsShown
    <3>3. (s.slots[c + 1] - s.start) * 2 < 160 + 15
      BY <3>2
    <3> QED
      BY <1>1, <2>2, <2>4, <3>3 DEF VisibleWidth, c
  <2> QED
    BY <2>3, <2>4
<1>6. DOMAIN ins = 1..Len(ins) /\ Len(ins) \in Nat
  BY <1>3
<1>7. {n \in DOMAIN ins : Completion(p, s, ins[n], StartCycle(ins, n))
                             < VisibleWidth(p.wide) + 15} = 1..Len(ins)
  BY <1>5, <1>6
<1>8. Executed(p, y) = Len(ins)
  BY <1>6, <1>7, IntervalCount DEF Executed, ins, s
<1>9. ~s.transition
  BY <1>4, SlotsShown
<1> QED
  BY <1>8, <1>9 DEF ins, s

\* So the evaluator enters each line with the registers the replay finds.
LEMMA EntryIsReplayed ==
    ASSUME NEW pc \in Pictures, NEW p, ProgramOf(pc, p), p.mode = "E"
    PROVE  EntryCpu(p) = ReplayedCpu(p)
<1> DEFINE h == pc.height
           R == ReplayedCpu(p)
           Out(y, cpu) == LET out == After(p.lines[y - 1].ins, Executed(p, y - 1), cpu)
                          IN  IF ScheduleOf(p, y - 1).transition
                              THEN [out EXCEPT !["A"] = Charset(y - 1)] ELSE out
           Is(g) == g = [y \in 0..h |-> IF y = 0 THEN Zero ELSE Out(y, g[y - 1])]
<1>1. h \in Nat /\ Lined(p, h) /\ Height(p) = h
  BY ProgramLimits, PictureParts
<1>2. R \in [0..h -> Cpus] /\ R[0] = Zero
      /\ \A y \in 1..h : R[y] = After(p.lines[y - 1].ins, Len(p.lines[y - 1].ins), R[y - 1])
  BY <1>1, ReplayedIs
<1>3. ASSUME NEW y \in 1..h, NEW cpu
      PROVE  Out(y, cpu) = After(p.lines[y - 1].ins, Len(p.lines[y - 1].ins), cpu)
  <2>1. y - 1 \in Rows(pc)
    BY <1>1 DEF Rows
  <2>2. Executed(p, y - 1) = Len(p.lines[y - 1].ins) /\ ~ScheduleOf(p, y - 1).transition
    BY <2>1, AllExecuted
  <2> QED
    BY <2>2
<1> DEFINE k == CHOOSE f : Is(f)
<1>4. EntryCpu(p) = k
  BY <1>1 DEF EntryCpu
<1> HIDE DEF R, Out, h
<1>5. Is(R)
  <2>1. ASSUME NEW y \in 0..h
        PROVE  R[y] = IF y = 0 THEN Zero ELSE Out(y, R[y - 1])
    <3>1. y = 0 \/ y \in 1..h
      BY <1>1
    <3> QED
      BY <1>2, <1>3, <3>1
  <2>2. R = [y \in 0..h |-> R[y]]
    BY <1>2
  <2> QED
    BY <2>1, <2>2
<1>6. Is(k)
  <2> HIDE DEF Is
  <2> QED
    BY <1>5
<1>7. k[0] = Zero /\ \A y \in 1..h : k[y] = Out(y, k[y - 1])
  <2>1. 0 \in 0..h /\ \A y \in 1..h : y \in 0..h /\ y # 0
    BY <1>1
  <2> QED
    BY <1>6, <2>1
<1>8. DOMAIN k = 0..h /\ k = [y \in 0..h |-> k[y]]
  BY <1>6
<1> HIDE DEF k
<1> DEFINE B == {y \in 0..h : k[y] = R[y]}
<1>9. 0 \in B
  BY <1>1, <1>2, <1>7
<1>10. ASSUME NEW y \in 1..h, y - 1 \in B
       PROVE  y \in B
  <2>1. k[y - 1] = R[y - 1] /\ y \in 0..h
    BY <1>1, <1>10
  <2>2. k[y] = R[y]
    BY <1>2, <1>3, <1>7, <2>1
  <2> QED
    BY <2>1, <2>2
<1> HIDE DEF B
<1>11. 0..h \subseteq B
  BY <1>1, <1>9, <1>10, Induction
<1>12. \A y \in 0..h : k[y] = R[y]
  BY <1>11 DEF B
<1>13. k = R
  BY <1>2, <1>8, <1>12
<1> QED
  BY <1>4, <1>13 DEF R

-----------------------------------------------------------------------------
(* From the invariant to the property.                                       *)

LEMMA PInvIsLegal == PInv => ProgramsLegal
<1> SUFFICES ASSUME PInv
             PROVE  ProgramsLegal
  OBVIOUS
<1> USE DEF PInv
<1>1. /\ pic.mode = picture.mode /\ pic.wide = picture.wide /\ DOMAIN pic.lines = Rows(picture)
      /\ Height(pic) = picture.height /\ \A y : Limit(pic, y) = LimitAt(picture, y)
  BY ProgramLimits
<1>2. pic.mem \in [Targets -> Bytes] /\ pic.attributes \subseteq Cells(picture)
  BY DEF ProgramOf
<1>3. ASSUME NEW y \in Rows(picture)
      PROVE  /\ pic.lines[y].ins \in Seq(Instructions) /\ pic.lines[y].ins # <<>>
             /\ pic.lines[y].cycles \in Nat /\ pic.lines[y].cycles = Cycles(pic.lines[y].ins)
             /\ pic.lines[y].cycles <= LimitAt(picture, y)
             /\ \A n \in Stores(pic.lines[y].ins) :
                  pic.lines[y].ins[n].target \in Writable(picture.mode)
             /\ y \in Nat
  <2>1. Fits(picture, pic.lines[y], y)
    BY DEF ProgramOf
  <2>2. y \in Nat
    BY PictureParts DEF Rows
  <2> QED
    BY <2>1, <2>2 DEF Fits, LineType
<1>4. TypeOK
  <2>1. \A y \in Lines : Len(Line(y).ins) > 0
                        /\ \A n \in DOMAIN Line(y).ins : Line(y).ins[n] \in Instructions
    <3> SUFFICES ASSUME NEW y \in Rows(picture)
                 PROVE  Len(pic.lines[y].ins) > 0
                        /\ \A n \in DOMAIN pic.lines[y].ins : pic.lines[y].ins[n] \in Instructions
      BY <1>1 DEF Lines, Line
    <3>1. pic.lines[y].ins \in Seq(Instructions) /\ pic.lines[y].ins # <<>>
      BY <1>3
    <3> HIDE DEF PInv
    <3> QED
      BY <3>1
  <2> QED
    BY <1>1, <1>2, <2>1 DEF TypeOK, Rows
<1>5. ValidPicture(pic)
  <2>1. ASSUME NEW y \in Rows(picture)
        PROVE  ValidLine(pic.lines[y], Limit(pic, y), pic.mode)
    <3>1. pic.lines[y].cycles \in 0..Limit(pic, y)
      <4>1. LimitAt(picture, y) \in Nat
        BY <1>3, LimitType
      <4> QED
        BY <1>1, <1>3, <4>1
    <3> QED
      BY <1>1, <1>3, <3>1 DEF ValidLine, Stores
  <2>2. pic.mode = "ANTIC4" => Height(pic) % 8 = 0
    BY <1>1, PictureParts
  <2> QED
    BY <1>1, <1>2, <2>1, <2>2 DEF ValidPicture, Cells
<1>6. \A y \in Lines : Line(y).cycles % 2 = 0
  BY <1>1, <1>3, CyclesEven DEF Lines, Line
<1> QED
  BY <1>4, <1>5, <1>6 DEF ProgramsLegal

-----------------------------------------------------------------------------
(* The initializers.                                                         *)

\* Pairs of a load and a store take six cycles each.
LEMMA PairsCycles ==
    ASSUME NEW ins \in Seq(Instructions), NEW n \in Nat, Len(ins) = 2 * n,
           \A m \in 1..(2 * n) : ins[m].op = "store" <=> m % 2 = 0
    PROVE  Cycles(ins) = 6 * n
<1> DEFINE twice == [k \in 1..n |-> 2 * k]
<1>1. DOMAIN ins = 1..(2 * n)
  OBVIOUS
<1>2. \A m \in Stores(ins) : m \in 1..(2 * n) /\ m % 2 = 0
  BY <1>1 DEF Stores
<1>3. \A k \in 1..n : 2 * k \in Stores(ins)
  <2> SUFFICES ASSUME NEW k \in 1..n
               PROVE  2 * k \in Stores(ins)
    OBVIOUS
  <2>1. 2 * k \in 1..(2 * n) /\ (2 * k) % 2 = 0
    OBVIOUS
  <2> QED
    BY <1>1, <2>1 DEF Stores
<1>4. \A m \in Stores(ins) : m \div 2 \in 1..n /\ 2 * (m \div 2) = m
  BY <1>2
<1>5. twice \in Bijection(1..n, Stores(ins))
  <2>1. twice \in [1..n -> Stores(ins)]
    BY <1>3
  <2>2. \A a, b \in 1..n : twice[a] = twice[b] => a = b
    OBVIOUS
  <2>3. \A m \in Stores(ins) : \E k \in 1..n : twice[k] = m
    BY <1>4
  <2> HIDE DEF twice
  <2> QED
    BY <2>1, <2>2, <2>3 DEF Bijection, Injection, IsInjective, Surjection
<1>6. IsFiniteSet(1..n) /\ Cardinality(1..n) = n
  BY IntervalCount
<1>7. Cardinality(Stores(ins)) = n
  BY <1>5, <1>6, FS_Bijection DEF ExistsBijection
<1>8. Cycles(ins) = 2 * (Len(ins) + Cardinality(Stores(ins)))
  BY CyclesEven
<1>9. 2 * (2 * n + n) = 6 * n
  OBVIOUS
<1> QED
  BY <1>7, <1>8, <1>9

\* The line of some pairs fits if their cycles and targets do.
LEMMA PairsFit ==
    ASSUME NEW pc \in Pictures, NEW y \in Nat, NEW n \in Nat, n >= 1,
           NEW ins \in Seq(Instructions), Len(ins) = 2 * n,
           \A m \in 1..(2 * n) : ins[m].op = "store" <=> m % 2 = 0,
           \A m \in 1..(2 * n) : m % 2 = 0 => ins[m].target \in Writable(pc.mode),
           6 * n <= LimitAt(pc, y)
    PROVE  Fits(pc, LineOf(ins), y)
<1>1. Cycles(ins) = 6 * n
  BY PairsCycles
<1>2. LineOf(ins).ins = ins /\ LineOf(ins).cycles = Cycles(ins) /\ LineOf(ins) \in LineType
  BY CyclesEven DEF LineOf, LineType
<1>3. ins # <<>>
  OBVIOUS
<1>4. \A m \in Stores(ins) : ins[m].target \in Writable(pc.mode)
  <2>1. DOMAIN ins = 1..(2 * n)
    OBVIOUS
  <2> QED
    BY <2>1 DEF Stores
<1> QED
  BY <1>1, <1>2, <1>3, <1>4 DEF Fits

LEMMA NamesType ==
    \A k \in 1..12 : Names[k] \in Targets /\ Names[k] # "COLOR3"
<1>1. \A k \in 1..12 : k = 1 \/ k = 2 \/ k = 3 \/ k = 4 \/ k = 5 \/ k = 6 \/ k = 7 \/ k = 8
                       \/ k = 9 \/ k = 10 \/ k = 11 \/ k = 12
  OBVIOUS
<1>2. /\ Names[1] = "COLOR0" /\ Names[2] = "COLOR1" /\ Names[3] = "COLOR2" /\ Names[4] = "COLBAK"
      /\ Names[5] = "COLPM0" /\ Names[6] = "COLPM1" /\ Names[7] = "COLPM2" /\ Names[8] = "COLPM3"
      /\ Names[9] = "HPOSP0" /\ Names[10] = "HPOSP1" /\ Names[11] = "HPOSP2"
      /\ Names[12] = "HPOSP3"
  BY DEF Names
<1> QED
  BY <1>1, <1>2 DEF Targets, Playfield, Colors, Positions

LEMMA EmptyLineFits ==
    ASSUME NEW pc \in Pictures, NEW y \in Nat
    PROVE  Fits(pc, EmptyLine, y)
<1> DEFINE ins == <<Nop>>
<1>1. ins \in Seq(Instructions) /\ Len(ins) = 1 /\ ins # <<>> /\ DOMAIN ins = 1..1
  BY InstructionType
<1>2. Stores(ins) = {}
  BY <1>1 DEF Stores, Nop
<1>3. Cycles(ins) = 2
  <2>1. Cycles(ins) = 2 * (Len(ins) + Cardinality(Stores(ins)))
    BY <1>1, CyclesEven
  <2>2. Cardinality(Stores(ins)) = 0
    BY <1>2, FS_EmptySet
  <2> QED
    BY <1>1, <2>1, <2>2
<1>4. EmptyLine = LineOf(ins)
  BY DEF EmptyLine
<1> HIDE DEF ins
<1>5. EmptyLine.ins = ins /\ EmptyLine.cycles = 2 /\ EmptyLine \in LineType
  BY <1>1, <1>3, <1>4 DEF LineOf, LineType
<1>6. LimitAt(pc, y) \in Nat /\ LimitAt(pc, y) >= 6
  BY LimitType
<1> QED
  BY <1>1, <1>2, <1>3, <1>5, <1>6 DEF Fits

LEMMA RegisterOfPair ==
    \A k \in Nat : k >= 1 => Sources[((k - 1) % 3) + 1] \in Regs
BY SourcesType

LEMMA RandomLineFits ==
    ASSUME picture \in Pictures, picture.mode = "E", NEW y \in Nat
    PROVE  Fits(picture, RandomLine, y)
<1> DEFINE k(n) == (n + 1) \div 2
           r(n) == Sources[((k(n) - 1) % 3) + 1]
           c(n) == picture.colors[((k(n) - 1) % Len(picture.colors)) + 1]
           i(n) == IF n % 2 = 0 THEN Store(r(n), Names[k(n)]) ELSE Load(r(n), c(n))
           ins  == [n \in 1..8 |-> i(n)]
<1>1. picture.colors \in Seq(Bytes) /\ Len(picture.colors) \in Nat /\ Len(picture.colors) >= 1
  BY PictureParts
<1>2. ASSUME NEW n \in 1..8
      PROVE  /\ i(n) \in Instructions
             /\ i(n).op = "store" <=> n % 2 = 0
             /\ n % 2 = 0 => i(n).target \in Writable("E")
  <2>1. k(n) \in 1..12 /\ k(n) \in Nat /\ k(n) >= 1
    OBVIOUS
  <2>2. r(n) \in Regs
    BY <2>1, RegisterOfPair
  <2>3. c(n) \in Bytes
    <3> HIDE DEF k
    <3>1. k(n) - 1 \in Nat
      BY <2>1
    <3>2. ((k(n) - 1) % Len(picture.colors)) + 1 \in 1..Len(picture.colors)
      BY <1>1, <3>1, ModuloRange
    <3> QED
      BY <1>1, <3>2
  <2>4. Names[k(n)] \in Targets /\ Names[k(n)] # "COLOR3"
    BY <2>1, NamesType
  <2> HIDE DEF k, r, c
  <2>5. Store(r(n), Names[k(n)]) \in Instructions /\ Load(r(n), c(n)) \in Instructions
    BY <2>2, <2>3, <2>4, InstructionType
  <2> QED
    BY <2>4, <2>5 DEF Store, Load, Writable
<1>3. RandomLine = LineOf(ins)
  BY DEF RandomLine
<1> HIDE DEF i
<1>4. ins \in Seq(Instructions) /\ Len(ins) = 2 * 4 /\ \A n \in 1..8 : ins[n] = i(n)
  <2>1. ins \in [1..8 -> Instructions]
    BY <1>2
  <2> QED
    BY <2>1
<1>5. 6 * 4 <= LimitAt(picture, y)
  BY LimitType
<1> HIDE DEF ins
<1>6. 4 \in Nat /\ 4 >= 1
  OBVIOUS
<1>7. Fits(picture, LineOf(ins), y)
  <2>1. \A m \in 1..(2 * 4) : /\ ins[m].op = "store" <=> m % 2 = 0
                              /\ m % 2 = 0 => ins[m].target \in Writable(picture.mode)
    <3>1. 2 * 4 = 8
      OBVIOUS
    <3> QED
      BY <1>2, <1>4, <3>1
  <2> QED
    BY <1>4, <1>5, <1>6, <2>1, PairsFit
<1> QED
  BY <1>3, <1>7

LEMMA SmartLineFits ==
    ASSUME picture \in Pictures, picture.mode = "E", NEW y \in Nat
    PROVE  Fits(picture, SmartLine(y), y)
<1> DEFINE pairs == Min({8, LimitAt(picture, y) \div 6, Len(picture.colors)})
           player(k) == k > 4 /\ y % 2 = 1
           k(n) == (n + 1) \div 2
           r(n) == Sources[((k(n) - 1) % 3) + 1]
           name(n) == Names[IF player(k(n)) THEN k(n) + 4 ELSE k(n)]
           value(n) == IF player(k(n)) THEN SpriteStart(picture.wide) ELSE picture.colors[k(n)]
           i(n) == IF n % 2 = 0 THEN Store(r(n), name(n)) ELSE Load(r(n), value(n))
           ins  == [n \in 1..(2 * pairs) |-> i(n)]
<1>1. picture.colors \in Seq(Bytes) /\ Len(picture.colors) \in Nat /\ Len(picture.colors) >= 1
  BY PictureParts
<1>2. LimitAt(picture, y) \in Nat /\ LimitAt(picture, y) >= 6
  BY LimitType
<1>3. /\ pairs \in Nat /\ pairs >= 1 /\ pairs <= 8 /\ pairs <= Len(picture.colors)
      /\ 6 * pairs <= LimitAt(picture, y)
  <2> DEFINE S == {8, LimitAt(picture, y) \div 6, Len(picture.colors)}
  <2>1. LimitAt(picture, y) \div 6 \in Nat /\ LimitAt(picture, y) \div 6 >= 1
        /\ 6 * (LimitAt(picture, y) \div 6) <= LimitAt(picture, y)
    BY <1>2
  <2>2. S \in SUBSET Nat /\ S # {}
    BY <1>1, <2>1
  <2>3. Min(S) \in S /\ \A b \in S : Min(S) <= b
    <3> HIDE DEF S
    <3> QED
      BY <2>2, MinIsLeast
  <2>4. pairs \in S /\ pairs <= 8 /\ pairs <= LimitAt(picture, y) \div 6
        /\ pairs <= Len(picture.colors)
    BY <2>3
  <2>5. pairs \in Nat /\ pairs >= 1
    BY <1>1, <2>1, <2>4
  <2> HIDE DEF pairs
  <2> QED
    BY <1>2, <2>1, <2>4, <2>5
<1> HIDE DEF pairs
<1>4. ASSUME NEW n \in 1..(2 * pairs)
      PROVE  /\ i(n) \in Instructions
             /\ i(n).op = "store" <=> n % 2 = 0
             /\ n % 2 = 0 => i(n).target \in Writable("E")
  <2>1. k(n) \in Nat /\ k(n) >= 1 /\ k(n) <= pairs
    BY <1>3
  <2> HIDE DEF k
  <2>2. r(n) \in Regs
    BY <2>1, RegisterOfPair
  <2>3. value(n) \in Bytes
    <3>1. picture.colors[k(n)] \in Bytes
      <4>1. k(n) <= Len(picture.colors)
        BY <1>1, <1>3, <2>1
      <4>2. k(n) \in 1..Len(picture.colors)
        BY <1>1, <2>1, <4>1
      <4> QED
        BY <1>1, <4>2
    <3>2. SpriteStart(picture.wide) \in Bytes
      BY DEF SpriteStart, Bytes
    <3> QED
      BY <3>1, <3>2
  <2>4. name(n) \in Targets /\ name(n) # "COLOR3"
    <3>1. k(n) \in Nat /\ k(n) >= 1 /\ k(n) <= 8
      BY <1>3, <2>1
    <3>2. (IF player(k(n)) THEN k(n) + 4 ELSE k(n)) \in 1..12
      BY <3>1
    <3> QED
      BY <3>2, NamesType
  <2> HIDE DEF r, value, name
  <2>5. Store(r(n), name(n)) \in Instructions /\ Load(r(n), value(n)) \in Instructions
    BY <2>2, <2>3, <2>4, InstructionType
  <2> QED
    BY <2>4, <2>5 DEF Store, Load, Writable
<1>5. SmartLine(y) = LineOf(ins)
  BY DEF SmartLine, LimitAt, pairs
<1> HIDE DEF i
<1>6. ins \in Seq(Instructions) /\ Len(ins) = 2 * pairs /\ \A n \in 1..(2 * pairs) : ins[n] = i(n)
  <2>1. ins \in [1..(2 * pairs) -> Instructions]
    BY <1>4
  <2>2. 2 * pairs \in Nat
    BY <1>3
  <2> QED
    BY <2>1, <2>2
<1> HIDE DEF ins
<1>7. Fits(picture, LineOf(ins), y)
  <2>1. \A m \in 1..(2 * pairs) : /\ ins[m].op = "store" <=> m % 2 = 0
                                  /\ m % 2 = 0 => ins[m].target \in Writable(picture.mode)
    BY <1>4, <1>6
  <2> QED
    BY <1>3, <1>6, <2>1, PairsFit
<1> QED
  BY <1>5, <1>7

LEMMA MemoryType ==
    ASSUME picture \in Pictures, NEW targets \in Seq(Targets)
    PROVE  Memory(targets) \in [Targets -> Bytes]
<1>1. picture.colors \in Seq(Bytes) /\ Len(picture.colors) \in Nat
  BY PictureParts
<1>2. ASSUME NEW t \in Targets
      PROVE  LET places == {n \in DOMAIN targets \cap DOMAIN picture.colors : targets[n] = t}
             IN  (IF places = {} THEN 0 ELSE picture.colors[Min(places)]) \in Bytes
  <2> DEFINE places == {n \in DOMAIN targets \cap DOMAIN picture.colors : targets[n] = t}
  <2>1. CASE places = {}
    BY <2>1 DEF Bytes
  <2>2. CASE places # {}
    <3>1. places \in SUBSET Nat /\ places \in SUBSET (1..Len(picture.colors))
      BY <1>1
    <3>2. Min(places) \in places
      <4> HIDE DEF places
      <4> QED
        BY <2>2, <3>1, MinIsLeast
    <3>3. Min(places) \in 1..Len(picture.colors)
      BY <3>1, <3>2
    <3>4. picture.colors[Min(places)] \in Bytes
      <4> HIDE DEF places
      <4> QED
        BY <1>1, <3>3
    <3> QED
      BY <2>2, <3>4
  <2> QED
    BY <2>1, <2>2
<1> QED
  BY <1>2 DEF Memory

LEMMA InitialMemoryType ==
    ASSUME picture \in Pictures
    PROVE  InitialMemory \in [Targets -> Bytes]
<1>1. 0 \in Bytes /\ SpriteStart(picture.wide) \in Bytes
  BY DEF Bytes, SpriteStart
<1>2. picture.colors[1] \in Bytes
  <2>1. picture.colors \in Seq(Bytes) /\ Len(picture.colors) \in Nat /\ Len(picture.colors) >= 1
    BY PictureParts
  <2> QED
    BY <2>1
<1>3. <<"COLOR0", "COLOR1", "COLOR2", "COLBAK", "COLOR3">> \in Seq(Targets)
  BY DEF Targets, Playfield
<1>4. SubSeq(Names, 1, 4) \in Seq(Targets)
  BY DEF Names, Targets, Playfield, Colors, Positions
<1>5. /\ Memory(<<"COLOR0", "COLOR1", "COLOR2", "COLBAK", "COLOR3">>) \in [Targets -> Bytes]
      /\ Memory(SubSeq(Names, 1, 4)) \in [Targets -> Bytes]
  BY <1>3, <1>4, MemoryType
<1> QED
  BY <1>1, <1>2, <1>5 DEF InitialMemory

LEMMA InitPInv == Init => PInv
<1> SUFFICES ASSUME Init
             PROVE  PInv
  OBVIOUS
<1>1. picture \in Pictures /\ phase = "initializer" /\ row = 0 /\ edits = 0
  BY DEF Init
<1>2. picture.height \in Nat /\ picture.mode \in {"E", "ANTIC4"} /\ MaxEdits[picture] \in Nat
      /\ (picture.mode = "ANTIC4" => picture.init = "empty")
  BY <1>1, PictureParts
<1>3. ASSUME NEW y \in Rows(picture)
      PROVE  Fits(picture, InitialLine(y), y)
  <2>1. y \in Nat
    BY <1>2 DEF Rows
  <2>2. picture.init = "smart" \/ picture.init = "random" => picture.mode = "E"
    BY <1>2
  <2> QED
    BY <1>1, <2>1, <2>2, SmartLineFits, RandomLineFits, EmptyLineFits DEF InitialLine
<1>4. pic = [mode |-> picture.mode, wide |-> picture.wide, attributes |-> {},
             mem |-> InitialMemory, lines |-> [y \in Rows(picture) |-> InitialLine(y)]]
  BY DEF Init, Rows
<1>5. [y \in Rows(picture) |-> InitialLine(y)] \in [Rows(picture) -> LineType]
  BY <1>3 DEF Fits
<1>6. ProgramOf(picture, pic)
  BY <1>1, <1>3, <1>4, <1>5, InitialMemoryType DEF ProgramOf
<1> QED
  BY <1>1, <1>2, <1>6 DEF PInv

-----------------------------------------------------------------------------
(* The steps.                                                                *)

\* What the invariant says of a line.
LEMMA LineParts ==
    ASSUME PInv, NEW y \in Rows(picture)
    PROVE  /\ Fits(picture, Line(y), y)
           /\ Line(y) \in LineType /\ Line(y).ins \in Seq(Instructions) /\ Line(y).ins # <<>>
           /\ Line(y).cycles \in Nat /\ Line(y).cycles = Cycles(Line(y).ins)
           /\ Line(y).cycles <= LimitAt(picture, y)
           /\ \A n \in Stores(Line(y).ins) : Line(y).ins[n].target \in Writable(picture.mode)
           /\ DOMAIN Line(y).ins = 1..Len(Line(y).ins) /\ Len(Line(y).ins) \in Nat
           /\ \A n \in DOMAIN Line(y).ins : Line(y).ins[n] \in Instructions
<1>1. Fits(picture, Line(y), y)
  BY DEF PInv, ProgramOf, Line
<1>2. Line(y).ins \in Seq(Instructions) /\ Line(y).cycles \in Nat
  BY <1>1 DEF Fits, LineType
<1>3. /\ DOMAIN Line(y).ins = 1..Len(Line(y).ins) /\ Len(Line(y).ins) \in Nat
      /\ \A n \in DOMAIN Line(y).ins : Line(y).ins[n] \in Instructions
  BY <1>2
<1> QED
  BY <1>1, <1>2, <1>3 DEF Fits

\* And of the picture and its limits.
LEMMA PictureHere ==
    ASSUME PInv
    PROVE  /\ picture \in Pictures /\ picture.height \in Nat /\ picture.height >= 1
           /\ Lines = Rows(picture) /\ LastRow = picture.height - 1
           /\ pic.mode = picture.mode /\ pic.wide = picture.wide
           /\ pic.lines \in [Rows(picture) -> LineType] /\ Lined(pic, picture.height)
           /\ \A y : Limit(pic, y) = LimitAt(picture, y)
           /\ \A y \in Rows(picture) : y \in Nat /\ LimitAt(picture, y) \in Nat
           /\ MaxEdits[picture] \in Nat
<1>1. picture \in Pictures /\ ProgramOf(picture, pic)
  BY DEF PInv
<1>2. picture.height \in Nat /\ picture.height >= 1 /\ MaxEdits[picture] \in Nat
  BY <1>1, PictureParts
<1>3. \A y \in Rows(picture) : y \in Nat
  BY <1>2 DEF Rows
<1>4. pic.lines \in [Rows(picture) -> LineType]
  BY <1>1 DEF ProgramOf
<1>5. /\ DOMAIN pic.lines = Rows(picture) /\ Height(pic) = picture.height
      /\ pic.mode = picture.mode /\ pic.wide = picture.wide /\ Lined(pic, picture.height)
      /\ \A y : Limit(pic, y) = LimitAt(picture, y)
  BY <1>1, ProgramLimits
<1> QED
  BY <1>1, <1>2, <1>3, <1>4, <1>5, LimitType DEF Lines, LastRow

\* A change to lines that fit leads to a program that does.
LEMMA EditKeeps ==
    ASSUME PInv, edits < MaxEdits[picture],
           NEW lines \in [Rows(picture) -> LineType],
           \A y \in Rows(picture) : Fits(picture, lines[y], y),
           Edit(lines)
    PROVE  PInv'
<1>1. pic' = [pic EXCEPT !.lines = lines] /\ edits' = edits + 1
      /\ picture' = picture /\ phase' = phase /\ row' = row
  BY DEF Edit
<1>2. edits' \in 0..MaxEdits[picture]
  BY <1>1, PictureHere DEF PInv
<1>3. ProgramOf(picture, pic')
  <2>1. ProgramOf(picture, pic)
    BY DEF PInv
  <2>2. pic' \in [mode : {picture.mode}, wide : {picture.wide}, attributes : SUBSET Cells(picture),
                  mem : [Targets -> Bytes], lines : [Rows(picture) -> LineType]]
        /\ pic'.lines = lines
    BY <1>1, <2>1 DEF ProgramOf
  <2> QED
    BY <2>2 DEF ProgramOf
<1>4. ProgramOf(picture', pic')
  BY <1>1, <1>3
<1> QED
  BY <1>1, <1>2, <1>4 DEF PInv

LEMMA EditLineKeeps ==
    ASSUME PInv, edits < MaxEdits[picture], NEW y \in Rows(picture),
           NEW ins \in Seq(Instructions), ins # <<>>,
           NEW cycles, cycles = Cycles(ins), cycles <= LimitAt(picture, y),
           \A n \in Stores(ins) : ins[n].target \in Writable(picture.mode),
           EditLine(y, ins, cycles)
    PROVE  PInv'
<1> DEFINE line  == [ins |-> ins, cycles |-> cycles]
           lines == [pic.lines EXCEPT ![y] = line]
<1>1. line \in LineType /\ line.ins = ins /\ line.cycles = cycles
  BY CyclesEven DEF LineType
<1>2. Fits(picture, line, y)
  BY <1>1 DEF Fits
<1>3. lines \in [Rows(picture) -> LineType]
  BY <1>1, PictureHere
<1>4. \A x \in Rows(picture) : Fits(picture, lines[x], x)
  <2> SUFFICES ASSUME NEW x \in Rows(picture)
               PROVE  Fits(picture, lines[x], x)
    OBVIOUS
  <2>1. pic.lines \in [Rows(picture) -> LineType] /\ Fits(picture, pic.lines[x], x)
    BY PictureHere, LineParts DEF Line
  <2> HIDE DEF line
  <2> QED
    BY <1>2, <2>1
<1>5. Edit(lines)
  BY DEF EditLine
<1> HIDE DEF lines
<1> QED
  BY <1>3, <1>4, <1>5, EditKeeps

LEMMA CopyFromNextKeeps ==
    ASSUME PInv, NEW y \in Rows(picture), CopyFromNext(y)
    PROVE  PInv'
<1> DEFINE lines == [pic.lines EXCEPT ![y] = Line(y + 1)]
<1>1. edits < MaxEdits[picture] /\ y < LastRow /\ Line(y + 1).cycles <= Limit(pic, y)
      /\ Edit(lines)
  BY DEF CopyFromNext, CanEdit
<1>2. y + 1 \in Rows(picture)
  BY <1>1, PictureHere DEF Rows
<1>3. Fits(picture, Line(y + 1), y) /\ Line(y + 1) \in LineType
  BY <1>1, <1>2, LineParts, PictureHere DEF Fits
<1>4. lines \in [Rows(picture) -> LineType]
  BY <1>3, PictureHere
<1>5. \A x \in Rows(picture) : Fits(picture, lines[x], x)
  <2> SUFFICES ASSUME NEW x \in Rows(picture)
               PROVE  Fits(picture, lines[x], x)
    OBVIOUS
  <2>1. pic.lines \in [Rows(picture) -> LineType] /\ Fits(picture, pic.lines[x], x)
    BY PictureHere, LineParts DEF Line
  <2> QED
    BY <1>3, <2>1
<1> HIDE DEF lines
<1> QED
  BY <1>1, <1>4, <1>5, EditKeeps

LEMMA SwapWithPrevKeeps ==
    ASSUME PInv, NEW y \in Rows(picture), SwapWithPrev(y)
    PROVE  PInv'
<1> DEFINE lines == [pic.lines EXCEPT ![y] = Line(y - 1), ![y - 1] = Line(y)]
<1>1. edits < MaxEdits[picture] /\ y > 0 /\ Line(y).cycles <= Limit(pic, y - 1)
      /\ Line(y - 1).cycles <= Limit(pic, y) /\ Edit(lines)
  BY DEF SwapWithPrev, CanEdit
<1>2. y - 1 \in Rows(picture)
  BY <1>1, PictureHere DEF Rows
<1>3. /\ Fits(picture, Line(y - 1), y) /\ Line(y - 1) \in LineType
      /\ Fits(picture, Line(y), y - 1) /\ Line(y) \in LineType
  BY <1>1, <1>2, LineParts, PictureHere DEF Fits
<1>4. lines \in [Rows(picture) -> LineType]
  BY <1>3, PictureHere
<1>5. \A x \in Rows(picture) : Fits(picture, lines[x], x)
  <2> SUFFICES ASSUME NEW x \in Rows(picture)
               PROVE  Fits(picture, lines[x], x)
    OBVIOUS
  <2>1. pic.lines \in [Rows(picture) -> LineType] /\ Fits(picture, pic.lines[x], x)
    BY PictureHere, LineParts DEF Line
  <2>2. lines[x] = IF x = y - 1 THEN Line(y) ELSE IF x = y THEN Line(y - 1) ELSE pic.lines[x]
    BY <2>1
  <2> HIDE DEF lines
  <2> QED
    BY <1>3, <2>1, <2>2
<1> HIDE DEF lines
<1> QED
  BY <1>1, <1>4, <1>5, EditKeeps

\* Every store of a line taken from legal ones is legal.
LEMMA TakenWritable ==
    ASSUME NEW s \in Seq(Instructions), NEW t \in Seq(Instructions), NEW i, NEW mode,
           TakenFrom(t, s, i), i.op = "store" => i.target \in Writable(mode),
           \A n \in Stores(s) : s[n].target \in Writable(mode)
    PROVE  \A n \in Stores(t) : t[n].target \in Writable(mode)
BY DEF TakenFrom, Stores

LEMMA PushBackToPrevKeeps ==
    ASSUME PInv, NEW y \in Rows(picture), PushBackToPrev(y)
    PROVE  PInv'
<1>1. edits < MaxEdits[picture] /\ y > 0
  BY DEF PushBackToPrev, CanEdit
<1>2. y - 1 \in Rows(picture)
  BY <1>1, PictureHere DEF Rows
<1> DEFINE s == Line(y - 1).ins
<1>3. PICK n \in DOMAIN Line(y).ins :
        /\ FitsPrev(y, Line(y).ins[n])
        /\ EditLine(y - 1, Append(s, Line(y).ins[n]), Line(y - 1).cycles + Cost(Line(y).ins[n]))
  BY DEF PushBackToPrev
<1> DEFINE i == Line(y).ins[n]
           t == Append(s, i)
<1>4. i \in Instructions /\ (i.op = "store" => i.target \in Writable(picture.mode))
  BY <1>3, LineParts DEF Stores
<1>5. s \in Seq(Instructions) /\ Line(y - 1).cycles = Cycles(s)
      /\ \A k \in Stores(s) : s[k].target \in Writable(picture.mode)
  BY <1>2, LineParts
<1> HIDE DEF i, s
<1>6. t \in Seq(Instructions) /\ t # <<>> /\ Cycles(t) = Cycles(s) + Cost(i) /\ TakenFrom(t, s, i)
  BY <1>4, <1>5, CyclesAppend
<1> HIDE DEF t
<1>7. \A k \in Stores(t) : t[k].target \in Writable(picture.mode)
  BY <1>4, <1>5, <1>6, TakenWritable
<1>8. Cycles(t) <= LimitAt(picture, y - 1)
  BY <1>3, <1>5, <1>6, PictureHere DEF FitsPrev, i
<1>9. EditLine(y - 1, t, Cycles(t))
  BY <1>3, <1>5, <1>6 DEF i, t
<1> QED
  BY <1>1, <1>2, <1>6, <1>7, <1>8, <1>9, EditLineKeeps

LEMMA AddInstructionKeeps ==
    ASSUME PInv, NEW y \in Rows(picture), AddInstruction(y)
    PROVE  PInv'
<1> DEFINE s == Line(y).ins
           news == {Store(r, t) : r \in Regs, t \in TargetsHere}
                     \cup {Load(r, v) : r \in Regs, v \in Palette} \cup {Nop}
<1>1. edits < MaxEdits[picture]
  BY DEF AddInstruction, CanEdit
<1>2. PICK n \in DOMAIN s, i \in news :
        /\ Line(y).cycles + Cost(i) <= Limit(pic, y)
        /\ EditLine(y, InsertAt(s, n, i), Line(y).cycles + Cost(i))
  BY DEF AddInstruction
<1>3. i \in Instructions /\ (i.op = "store" => i.target \in Writable(picture.mode))
  <2>1. TargetsHere \subseteq Targets /\ TargetsHere \subseteq Writable(picture.mode)
    BY PictureHere, SamplesAssumption DEF TargetsHere
  <2>2. CASE i \in {Store(r, t) : r \in Regs, t \in TargetsHere}
    BY <2>1, <2>2, InstructionType DEF Store
  <2>3. CASE i \in {Load(r, v) : r \in Regs, v \in Palette}
    BY <2>3, InstructionType, PaletteAssumption DEF Load
  <2>4. CASE i = Nop
    BY <2>4, InstructionType DEF Nop
  <2> QED
    BY <1>2, <2>2, <2>3, <2>4
<1>4. s \in Seq(Instructions) /\ Line(y).cycles = Cycles(s) /\ n \in 1..Len(s)
      /\ \A k \in Stores(s) : s[k].target \in Writable(picture.mode)
  BY <1>2, LineParts
<1> DEFINE t == InsertAt(s, n, i)
<1> HIDE DEF s
<1>5. t \in Seq(Instructions) /\ t # <<>> /\ Cycles(t) = Cycles(s) + Cost(i) /\ TakenFrom(t, s, i)
  BY <1>3, <1>4, CyclesInsertAt
<1> HIDE DEF t
<1>6. \A k \in Stores(t) : t[k].target \in Writable(picture.mode)
  <2> HIDE DEF news
  <2>1. TakenFrom(t, s, i)
    BY <1>5
  <2> QED
    BY <1>3, <1>4, <1>5, <2>1, TakenWritable
<1>7. Cycles(t) <= LimitAt(picture, y)
  BY <1>2, <1>4, <1>5, PictureHere
<1>8. EditLine(y, t, Cycles(t))
  BY <1>2, <1>4, <1>5 DEF t
<1> QED
  BY <1>1, <1>5, <1>6, <1>7, <1>8, EditLineKeeps

\* A line left with no instruction would have had one, and no cycles over.
LEMMA RemoveInstructionKeeps ==
    ASSUME PInv, NEW y \in Rows(picture), RemoveInstruction(y)
    PROVE  PInv'
<1> DEFINE s == Line(y).ins
<1>1. edits < MaxEdits[picture]
  BY DEF RemoveInstruction, CanEdit
<1>2. PICK n \in DOMAIN s :
        /\ Removable(y, n)
        /\ EditLine(y, RemoveAt(s, n), Line(y).cycles - Cost(s[n]))
  BY DEF RemoveInstruction
<1>3. s \in Seq(Instructions) /\ Line(y).cycles = Cycles(s) /\ n \in 1..Len(s)
      /\ s[n] \in Instructions /\ Line(y).cycles <= LimitAt(picture, y)
      /\ \A k \in Stores(s) : s[k].target \in Writable(picture.mode)
  BY <1>2, LineParts
<1>4. Line(y).cycles - Cost(s[n]) > 0
  BY <1>2 DEF Removable
<1> DEFINE t == RemoveAt(s, n)
<1> HIDE DEF s
<1>5. t \in Seq(Instructions) /\ Cycles(s) = Cycles(t) + Cost(s[n])
      /\ \A k \in DOMAIN t : \E m \in DOMAIN s : t[k] = s[m]
  BY <1>3, CyclesRemoveAt
<1> HIDE DEF t
<1>6. Cost(s[n]) \in {2, 4} /\ Cycles(t) \in Nat /\ LimitAt(picture, y) \in Nat
  BY <1>3, <1>5, InstructionParts, CyclesEven, PictureHere
<1>7. t # <<>>
  <2>1. ASSUME t = <<>>
        PROVE  Cycles(t) = 0
    <3>1. Len(t) = 0 /\ Stores(t) = {}
      BY <2>1 DEF Stores
    <3>2. Cardinality(Stores(t)) = 0
      BY <3>1, FS_EmptySet
    <3>3. Cycles(t) = 2 * (Len(t) + Cardinality(Stores(t)))
      BY <1>5, CyclesEven
    <3> QED
      BY <3>1, <3>2, <3>3
  <2> QED
    BY <1>3, <1>4, <1>5, <1>6, <2>1
<1>8. \A k \in Stores(t) : t[k].target \in Writable(picture.mode)
  BY <1>3, <1>5 DEF Stores
<1>9. Cycles(t) <= LimitAt(picture, y) /\ Cycles(t) = Line(y).cycles - Cost(s[n])
  BY <1>3, <1>5, <1>6
<1>10. EditLine(y, t, Cycles(t))
  BY <1>2, <1>9 DEF t, s
<1> QED
  BY <1>1, <1>5, <1>7, <1>8, <1>9, <1>10, EditLineKeeps

LEMMA SwapInstructionKeeps ==
    ASSUME PInv, NEW y \in Rows(picture), SwapInstruction(y)
    PROVE  PInv'
<1> DEFINE s == Line(y).ins
<1>1. edits < MaxEdits[picture]
  BY DEF SwapInstruction, CanEdit
<1>2. PICK m \in DOMAIN s, n \in DOMAIN s :
        EditLine(y, [s EXCEPT ![m] = s[n], ![n] = s[m]], Line(y).cycles)
  BY DEF SwapInstruction
<1>3. s \in Seq(Instructions) /\ s # <<>> /\ Line(y).cycles = Cycles(s)
      /\ m \in 1..Len(s) /\ n \in 1..Len(s) /\ DOMAIN s = 1..Len(s)
      /\ Line(y).cycles <= LimitAt(picture, y)
      /\ \A k \in Stores(s) : s[k].target \in Writable(picture.mode)
  BY <1>2, LineParts
<1> DEFINE t == [s EXCEPT ![m] = s[n], ![n] = s[m]]
<1> HIDE DEF s
<1>4. t \in Seq(Instructions) /\ Len(t) = Len(s) /\ Cycles(t) = Cycles(s)
  BY <1>3, CyclesSwap
<1>5. \A k \in DOMAIN t : \E j \in DOMAIN s : t[k] = s[j]
  <2>1. DOMAIN t = DOMAIN s
    OBVIOUS
  <2>2. \A k \in DOMAIN s : t[k] = IF k = n THEN s[m] ELSE IF k = m THEN s[n] ELSE s[k]
    BY <1>3
  <2> HIDE DEF t
  <2> QED
    BY <1>3, <2>1, <2>2
<1> HIDE DEF t
<1>6. t # <<>>
  BY <1>3, <1>4
<1>7. \A k \in Stores(t) : t[k].target \in Writable(picture.mode)
  BY <1>3, <1>5 DEF Stores
<1>8. EditLine(y, t, Cycles(t))
  BY <1>2, <1>3, <1>4 DEF t, s
<1> QED
  BY <1>1, <1>3, <1>4, <1>6, <1>7, <1>8, EditLineKeeps

\* One instruction replaced by another of its kind.
LEMMA ReplacedKeeps ==
    ASSUME PInv, edits < MaxEdits[picture], NEW y \in Rows(picture),
           NEW n \in DOMAIN Line(y).ins, NEW i \in Instructions,
           i.op = Line(y).ins[n].op, i.op = "store" => i.target \in Writable(picture.mode),
           EditLine(y, [Line(y).ins EXCEPT ![n] = i], Line(y).cycles)
    PROVE  PInv'
<1> DEFINE s == Line(y).ins
           t == [s EXCEPT ![n] = i]
<1>1. s \in Seq(Instructions) /\ s # <<>> /\ Line(y).cycles = Cycles(s)
      /\ n \in 1..Len(s) /\ DOMAIN s = 1..Len(s)
      /\ Line(y).cycles <= LimitAt(picture, y)
      /\ \A k \in Stores(s) : s[k].target \in Writable(picture.mode)
  BY LineParts
<1>2. i.op = s[n].op /\ EditLine(y, t, Line(y).cycles)
  OBVIOUS
<1> HIDE DEF s
<1>3. t \in Seq(Instructions) /\ Len(t) = Len(s) /\ Cycles(t) = Cycles(s)
  BY <1>1, <1>2, CyclesChange
<1>4. TakenFrom(t, s, i)
  BY <1>1 DEF TakenFrom
<1> HIDE DEF t
<1>5. t # <<>>
  BY <1>1, <1>3
<1>6. \A k \in Stores(t) : t[k].target \in Writable(picture.mode)
  BY <1>1, <1>3, <1>4, TakenWritable
<1> QED
  BY <1>1, <1>2, <1>3, <1>5, <1>6, EditLineKeeps

LEMMA ChangeTargetKeeps ==
    ASSUME PInv, NEW y \in Rows(picture), ChangeTarget(y)
    PROVE  PInv'
<1>1. edits < MaxEdits[picture]
  BY DEF ChangeTarget, CanEdit
<1>2. PICK n \in DOMAIN Line(y).ins, t \in TargetsHere :
        /\ Line(y).ins[n].op = "store"
        /\ EditLine(y, [Line(y).ins EXCEPT ![n].target = t], Line(y).cycles)
  BY DEF ChangeTarget
<1> DEFINE i == [Line(y).ins[n] EXCEPT !.target = t]
<1>3. t \in Targets /\ t \in Writable(picture.mode)
  BY PictureHere, SamplesAssumption DEF TargetsHere
<1>4. i \in Instructions /\ i.op = "store" /\ i.target = t
  <2>1. Line(y).ins[n] \in Instructions
    BY LineParts
  <2>2. Line(y).ins[n] \in [op : {"store"}, reg : Regs, target : Targets]
    BY <1>2, <2>1 DEF Instructions, Nop
  <2>3. i \in [op : {"store"}, reg : Regs, target : Targets] /\ i.target = t
    BY <1>3, <2>2
  <2> QED
    BY <2>3 DEF Instructions
<1>5. [Line(y).ins EXCEPT ![n].target = t] = [Line(y).ins EXCEPT ![n] = i]
  OBVIOUS
<1> HIDE DEF i
<1> QED
  BY <1>1, <1>2, <1>3, <1>4, <1>5, ReplacedKeeps

LEMMA ChangeValueKeeps ==
    ASSUME PInv, NEW y \in Rows(picture), ChangeValue(y)
    PROVE  PInv'
<1>1. edits < MaxEdits[picture]
  BY DEF ChangeValue, CanEdit
<1>2. PICK n \in DOMAIN Line(y).ins, v \in Values :
        /\ Line(y).ins[n].op = "load"
        /\ EditLine(y, [Line(y).ins EXCEPT ![n].value = v], Line(y).cycles)
  BY DEF ChangeValue
<1> DEFINE i == [Line(y).ins[n] EXCEPT !.value = v]
<1>3. v \in Bytes
  BY SamplesAssumption
<1>4. i \in Instructions /\ i.op = "load"
  <2>1. Line(y).ins[n] \in Instructions
    BY LineParts
  <2>2. Line(y).ins[n] \in [op : {"load"}, reg : Regs, value : Bytes]
    BY <1>2, <2>1 DEF Instructions, Nop
  <2>3. i \in [op : {"load"}, reg : Regs, value : Bytes]
    BY <1>3, <2>2
  <2> QED
    BY <2>3 DEF Instructions
<1>5. [Line(y).ins EXCEPT ![n].value = v] = [Line(y).ins EXCEPT ![n] = i]
  OBVIOUS
<1> HIDE DEF i
<1> QED
  BY <1>1, <1>2, <1>3, <1>4, <1>5, ReplacedKeeps

\* A change that leaves the lines, and what else the program has of its picture.
LEMMA ElsewhereKeeps ==
    ASSUME PInv, edits < MaxEdits[picture],
           pic' \in [mode : {picture.mode}, wide : {picture.wide},
                     attributes : SUBSET Cells(picture), mem : [Targets -> Bytes],
                     lines : {pic.lines}],
           edits' = edits + 1, UNCHANGED <<picture, phase, row>>
    PROVE  PInv'
<1>1. ProgramOf(picture, pic)
  BY DEF PInv
<1>2. ProgramOf(picture, pic')
  BY <1>1 DEF ProgramOf
<1>3. edits' \in 0..MaxEdits[picture]
  BY PictureHere DEF PInv
<1>4. ProgramOf(picture', pic')
  BY <1>2
<1> QED
  BY <1>3, <1>4 DEF PInv

LEMMA ChangeMemoryKeeps ==
    ASSUME PInv, ChangeMemory
    PROVE  PInv'
<1>1. PICK t \in SampleTargets, d \in {1, -1, 16, -16} :
        /\ t = "COLOR3" => pic.mode = "ANTIC4"
        /\ pic' = [pic EXCEPT !.mem[t] = (@ + d) % 256]
  BY ZenonT(30) DEF ChangeMemory
<1>2. edits < MaxEdits[picture] /\ edits' = edits + 1 /\ UNCHANGED <<picture, phase, row>>
  BY DEF ChangeMemory
<1>3. pic \in [mode : {picture.mode}, wide : {picture.wide}, attributes : SUBSET Cells(picture),
               mem : [Targets -> Bytes], lines : {pic.lines}]
  BY DEF PInv, ProgramOf
<1>4. t \in Targets /\ pic.mem \in [Targets -> Bytes]
  BY <1>1, <1>3, SamplesAssumption
<1>5. (pic.mem[t] + d) % 256 \in Bytes
  <2>1. pic.mem[t] \in 0..255
    BY <1>4 DEF Bytes
  <2> QED
    BY <2>1 DEF Bytes
<1>6. [pic.mem EXCEPT ![t] = (pic.mem[t] + d) % 256] \in [Targets -> Bytes]
  BY <1>4, <1>5
<1>7. pic' = [pic EXCEPT !.mem = [pic.mem EXCEPT ![t] = (pic.mem[t] + d) % 256]]
  BY <1>1
<1> HIDE DEF PInv
<1>8. pic' \in [mode : {picture.mode}, wide : {picture.wide}, attributes : SUBSET Cells(picture),
                mem : [Targets -> Bytes], lines : {pic.lines}]
  BY <1>3, <1>6, <1>7
<1> QED
  BY <1>2, <1>8, ElsewhereKeeps

LEMMA ToggleAttributeKeeps ==
    ASSUME PInv, ToggleAttribute
    PROVE  PInv'
<1>1. PICK cell \in {0, Height(pic) \div 8 - 1} \X {0, VisibleColumns(pic.wide) - 1} :
        pic' = [pic EXCEPT !.attributes = IF cell \in @ THEN @ \ {cell} ELSE @ \cup {cell}]
  BY DEF ToggleAttribute
<1>2. edits < MaxEdits[picture] /\ edits' = edits + 1 /\ UNCHANGED <<picture, phase, row>>
      /\ picture.mode = "ANTIC4"
  BY PictureHere DEF ToggleAttribute
<1>3. pic \in [mode : {picture.mode}, wide : {picture.wide}, attributes : SUBSET Cells(picture),
               mem : [Targets -> Bytes], lines : {pic.lines}]
  BY DEF PInv, ProgramOf
<1>4. cell \in Cells(picture)
  <2>1. picture.height \in Nat /\ picture.height >= 1 /\ picture.height % 8 = 0
        /\ Height(pic) = picture.height /\ pic.wide = picture.wide
    BY <1>2, PictureHere, PictureParts, ProgramLimits DEF PInv
  <2>2. picture.height \div 8 - 1 \in Nat
    BY <2>1
  <2>3. VisibleColumns(picture.wide) - 1 \in Nat
    BY DEF VisibleColumns
  <2>4. \A a \in {0, picture.height \div 8 - 1} : a \in 0..(picture.height \div 8 - 1)
    BY <2>2
  <2>5. \A a \in {0, VisibleColumns(picture.wide) - 1} : a \in 0..(VisibleColumns(picture.wide) - 1)
    BY <2>3
  <2> QED
    BY <1>1, <1>2, <2>1, <2>4, <2>5 DEF Cells
<1>5. (IF cell \in pic.attributes THEN pic.attributes \ {cell} ELSE pic.attributes \cup {cell})
        \in SUBSET Cells(picture)
  BY <1>3, <1>4
<1>6. pic' \in [mode : {picture.mode}, wide : {picture.wide}, attributes : SUBSET Cells(picture),
                mem : [Targets -> Bytes], lines : {pic.lines}]
  BY <1>1, <1>3, <1>5
<1> QED
  BY <1>2, <1>6, ElsewhereKeeps

\* The guard of the rebuilt line is the validation of the whole program; that
\* it is a line of instructions, and not empty, is up to the solver.
LEMMA StructureRowKeeps ==
    ASSUME PInv, StructureRow
    PROVE  PInv'
<1> DEFINE entry == ReplayedCpu(pic)
           better(ins) == Writes(ins, Len(ins), entry[row])
                            # Writes(Line(row).ins, Len(Line(row).ins), entry[row])
<1>1. row <= LastRow /\ row' = row + 1 /\ UNCHANGED <<picture, phase>> /\ pic.mode = "E"
  BY DEF StructureRow
<1>2. row \in Rows(picture) /\ row + 1 \in 0..picture.height /\ row \in 0..picture.height
      /\ row \in 0..(picture.height - 1)
  BY <1>1, PictureHere DEF PInv, Rows
<1>3. CASE UNCHANGED <<pic, edits>>
  <2>1. ProgramOf(picture', pic') /\ edits' \in 0..MaxEdits[picture']
    BY <1>1, <1>3 DEF PInv
  <2> QED
    BY <1>1, <1>2, <2>1 DEF PInv
<1>4. CASE ~UNCHANGED <<pic, edits>>
  <2>1. PICK ins \in SourceWindow(pic, row, entry[row], entry[row + 1]) :
          /\ ValidPicture(Rebuild(pic, row, ins)) /\ better(ins)
          /\ pic' = Rebuild(pic, row, ins)
          /\ edits < MaxEdits[picture] /\ edits' = edits + 1
    BY <1>4 DEF StructureRow
  <2> DEFINE lines == [pic.lines EXCEPT ![row] = LineOf(ins)]
  <2>2. entry[row] \in Cpus /\ entry[row + 1] \in Cpus
    BY <1>2, PictureHere, ReplayedIs
  <2> HIDE DEF entry
  <2>3. ins \in Seq(Instructions) /\ (ins = <<>> => Stores(Line(row).ins) = {})
    BY <1>2, <2>1, <2>2, PictureHere, WindowType DEF Line
  <2>4. ins # <<>>
    <3>1. ASSUME ins = <<>>
          PROVE  FALSE
      <4>1. Stores(ins) = {}
        BY <3>1 DEF Stores
      <4>2. Writes(ins, Len(ins), entry[row]) = {}
        BY <2>3, <4>1, NoStoresNoWrites
      <4>3. Line(row).ins \in Seq(Instructions) /\ Stores(Line(row).ins) = {}
        BY <1>2, <2>3, <3>1, LineParts
      <4>4. Writes(Line(row).ins, Len(Line(row).ins), entry[row]) = {}
        BY <4>3, NoStoresNoWrites
      <4> QED
        BY <2>1, <4>2, <4>4
    <3> QED
      BY <3>1
  <2>5. LineOf(ins).ins = ins /\ LineOf(ins).cycles = Cycles(ins) /\ LineOf(ins) \in LineType
    BY <2>3, CyclesEven DEF LineOf, LineType
  <2>6. pic' = [pic EXCEPT !.lines = lines]
    BY <2>1 DEF Rebuild
  <2>7. lines \in [Rows(picture) -> LineType]
    BY <2>5, PictureHere
  <2>8. ProgramOf(picture, pic)
    BY DEF PInv
  <2>9. pic' \in [mode : {picture.mode}, wide : {picture.wide}, attributes : SUBSET Cells(picture),
                  mem : [Targets -> Bytes], lines : [Rows(picture) -> LineType]]
        /\ pic'.lines = lines
    <3> HIDE DEF lines
    <3> QED
      BY <2>6, <2>7, <2>8 DEF ProgramOf
  <2>10. Fits(picture, LineOf(ins), row)
    <3>1. ValidLine(pic'.lines[row], Limit(pic', row), pic'.mode)
      <4>1. row \in DOMAIN pic'.lines
        BY <1>2, <2>7, <2>9
      <4> QED
        BY <2>1, <4>1 DEF ValidPicture
    <3>2. pic'.lines[row] = LineOf(ins) /\ pic'.mode = picture.mode
      BY <1>2, <2>9, PictureHere
    <3>3. Limit(pic', row) = LimitAt(picture, row)
      <4>1. pic'.mode = picture.mode /\ pic'.wide = picture.wide
            /\ DOMAIN pic'.lines = DOMAIN pic.lines
        BY <2>7, <2>9, PictureHere
      <4>2. Height(pic') = Height(pic)
        BY <4>1 DEF Height
      <4>3. Limit(pic', row) = Limit(pic, row)
        BY <4>1, <4>2, PictureHere DEF Limit, ScheduleOf
      <4> QED
        BY <4>3, PictureHere
    <3>4. ValidLine(LineOf(ins), LimitAt(picture, row), picture.mode)
      BY <3>1, <3>2, <3>3
    <3>5. LineOf(ins).cycles <= LimitAt(picture, row)
      BY <1>2, <3>4, PictureHere DEF ValidLine
    <3> QED
      BY <2>4, <2>5, <3>4, <3>5 DEF ValidLine, Fits, Stores
  <2>11. \A x \in Rows(picture) : Fits(picture, lines[x], x)
    <3> SUFFICES ASSUME NEW x \in Rows(picture)
                 PROVE  Fits(picture, lines[x], x)
      OBVIOUS
    <3>1. pic.lines \in [Rows(picture) -> LineType] /\ Fits(picture, pic.lines[x], x)
      BY PictureHere, LineParts DEF Line
    <3> QED
      BY <2>10, <3>1
  <2> HIDE DEF lines
  <2>12. ProgramOf(picture, pic')
    BY <2>9, <2>11 DEF ProgramOf
  <2>13. ProgramOf(picture', pic')
    BY <1>1, <2>12
  <2>14. edits' \in 0..MaxEdits[picture]
    BY <2>1, PictureHere DEF PInv
  <2> QED
    BY <1>1, <1>2, <2>13, <2>14 DEF PInv
<1> QED
  BY <1>3, <1>4

LEMMA PhaseKeeps ==
    ASSUME PInv, EndPass \/ EndSearch \/ UNCHANGED vars
    PROVE  PInv'
<1>1. UNCHANGED <<picture, pic, edits>> /\ row' \in {0, row}
      /\ phase' \in {"initializer", "search", "finalizer", "finished"}
  BY DEF EndPass, EndSearch, vars, PInv
<1>2. row' \in 0..picture.height
  BY <1>1, PictureHere DEF PInv
<1>3. ProgramOf(picture', pic') /\ edits' \in 0..MaxEdits[picture']
  BY <1>1 DEF PInv
<1> QED
  BY <1>1, <1>2, <1>3 DEF PInv

LEMMA NextPInv == PInv /\ [Next]_vars => PInv'
<1> SUFFICES ASSUME PInv, [Next]_vars
             PROVE  PInv'
  OBVIOUS
<1>1. ASSUME NEW y \in Lines, SelectMutation(y)
      PROVE  PInv'
  <2>1. y \in Rows(picture)
    BY PictureHere
  <2> QED
    BY <1>1, <2>1, CopyFromNextKeeps, PushBackToPrevKeeps, SwapWithPrevKeeps,
       AddInstructionKeeps, RemoveInstructionKeeps, SwapInstructionKeeps,
       ChangeTargetKeeps, ChangeValueKeeps DEF SelectMutation
<1>2. CASE ChangeMemory
  BY <1>2, ChangeMemoryKeeps
<1>3. CASE ToggleAttribute
  BY <1>3, ToggleAttributeKeeps
<1>4. CASE StructureRow
  BY <1>4, StructureRowKeeps
<1>5. CASE EndPass \/ EndSearch \/ UNCHANGED vars
  BY <1>5, PhaseKeeps
<1> QED
  BY <1>1, <1>2, <1>3, <1>4, <1>5 DEF Next

\* However a picture is converted, whatever the search changes and whatever the
\* structured passes rebuild, its program passes validation after every step:
\* every line within its own limit by cached cycles that are those of its
\* instructions, none empty, and every store to a register its mode may change
\* (ProgramsLegal: the assertion that ends MutateRasterProgram).
THEOREM ProgramsLegalCorrect == Spec => []ProgramsLegal
<1>1. Spec => []PInv
  BY InitPInv, NextPInv, PTL DEF Spec
<1> QED
  BY <1>1, PInvIsLegal, PTL

-----------------------------------------------------------------------------
(* What the structured passes may do.                                        *)

Contract ==
    InPass => \A y \in Lines :
         IF y # row THEN pic'.lines[y] = Line(y)
         ELSE Kept(Line(y).ins, pic'.lines[y].ins, EntryCpu(pic)[y])

LEMMA UnchangedContract ==
    ASSUME PInv, UNCHANGED pic
    PROVE  Contract
<1> SUFFICES ASSUME NEW y \in Lines
             PROVE  Kept(Line(y).ins, Line(y).ins, EntryCpu(pic)[y])
  BY DEF Contract, Line
<1>1. y \in Rows(picture)
  BY PictureHere
<1>2. Line(y).ins \in Seq(Instructions)
  BY <1>1, LineParts
<1> QED
  BY <1>2, KeptSelf

LEMMA StructureRowContract ==
    ASSUME PInv, StructureRow
    PROVE  Contract
<1>1. CASE UNCHANGED <<pic, edits>>
  BY <1>1, UnchangedContract
<1>2. CASE ~UNCHANGED <<pic, edits>>
  <2> DEFINE entry == ReplayedCpu(pic)
             old == Line(row).ins
             h == picture.height
  <2>1. PICK ins \in SourceWindow(pic, row, entry[row], entry[row + 1]) :
          pic' = Rebuild(pic, row, ins)
    BY <1>2 DEF StructureRow
  <2>2. row <= LastRow /\ pic.mode = "E"
    BY DEF StructureRow
  <2>3. picture \in Pictures /\ ProgramOf(picture, pic) /\ row \in 0..picture.height
    BY DEF PInv
  <2>4. Lined(pic, h) /\ Height(pic) = h /\ h \in Nat /\ DOMAIN pic.lines = Rows(picture)
    BY <2>3, ProgramLimits, PictureParts
  <2>5. row \in 0..(h - 1) /\ row + 1 \in 1..h /\ row + 1 - 1 = row /\ row \in 0..h
    BY <2>2, <2>3, <2>4 DEF LastRow
  <2>6. /\ entry[row] \in Cpus
        /\ entry[row + 1] = After(old, Len(old), entry[row])
    <3>1. entry \in [0..h -> Cpus]
          /\ \A y \in 1..h : entry[y] =
               After(pic.lines[y - 1].ins, Len(pic.lines[y - 1].ins), entry[y - 1])
      BY <2>4, ReplayedIs
    <3> HIDE DEF entry, h
    <3> QED
      BY <2>5, <3>1 DEF Line
  <2>7. EntryCpu(pic) = entry
    BY <2>2, <2>3, EntryIsReplayed
  <2> HIDE DEF entry, h
  <2>8. Kept(old, ins, entry[row])
    <3>1. ins \in SourceWindow(pic, row, entry[row], After(old, Len(old), entry[row]))
      BY <2>1, <2>6
    <3> QED
      BY <2>4, <2>5, <2>6, <3>1, WindowKeeps DEF Line
  <2>9. pic' = [pic EXCEPT !.lines = [pic.lines EXCEPT ![row] = LineOf(ins)]]
    BY <2>1 DEF Rebuild
  <2>10. pic'.lines = [pic.lines EXCEPT ![row] = LineOf(ins)]
    BY <2>3, <2>9 DEF ProgramOf
  <2>11. /\ \A y \in Lines : y # row => pic'.lines[y] = Line(y)
         /\ pic'.lines[row].ins = ins
    <3>1. row \in DOMAIN pic.lines
      BY <2>4, <2>5 DEF Rows, h
    <3> QED
      BY <2>10, <3>1 DEF Lines, Line, LineOf
  <2> QED
    BY <2>7, <2>8, <2>11 DEF Contract
<1> QED
  BY <1>1, <1>2

\* Whatever picture, whatever the search did to it, and whatever is recoloured: a
\* line that the structured solver replaces leaves A, X and Y as the one it
\* replaces, with as many writes to the same registers in the same order, each
\* playfield write no later and every other one the same at the same cycle; and
\* the other lines stay as they are (SolverKeepsContract: the rules at the head
\* of StructuredSolver.h).
THEOREM SolverContract == Spec => SolverKeepsContract
<1>1. ASSUME PInv, [Next]_vars
      PROVE  [Contract]_vars
  <2>1. CASE UNCHANGED vars
    BY <2>1
  <2>2. CASE StructureRow
    BY <1>1, <2>2, StructureRowContract
  <2>3. CASE EndPass
    BY <1>1, <2>3, UnchangedContract DEF EndPass
  <2>4. CASE EndSearch
    BY <1>1, <2>4, UnchangedContract DEF EndSearch
  <2>5. CASE ChangeMemory \/ ToggleAttribute \/ \E y \in Lines : SelectMutation(y)
    <3>1. CASE ChangeMemory \/ ToggleAttribute
      BY <3>1 DEF ChangeMemory, ToggleAttribute, Contract, InPass
    <3>2. CASE \E y \in Lines : SelectMutation(y)
      <4>1. PICK y \in Lines : SelectMutation(y)
        BY <3>2
      <4>2. CanEdit(y)
        BY <4>1 DEF SelectMutation, CopyFromNext, PushBackToPrev, SwapWithPrev, AddInstruction,
           RemoveInstruction, SwapInstruction, ChangeTarget, ChangeValue
      <4> QED
        BY <4>2 DEF CanEdit, Contract, InPass
    <3> QED
      BY <2>5, <3>1, <3>2
  <2> QED
    BY <1>1, <2>1, <2>2, <2>3, <2>4, <2>5 DEF Next
<1>2. Spec => []PInv
  BY InitPInv, NextPInv, PTL DEF Spec
<1>3. Spec => [][Contract]_vars
  BY <1>1, <1>2, PTL DEF Spec
<1> QED
  BY <1>3 DEF SolverKeepsContract, Contract

-----------------------------------------------------------------------------
(* What ANTIC's schedules have room for.                                     *)

\* As many slots as the limit and the suffix that follows it, none after c.
Slotted(s, limit, suffix, c) ==
    /\ s.limit = limit /\ s.suffix = suffix
    /\ UpTo(s.slots, c) /\ Len(s.slots) = limit + suffix

LEMMA ENormalSlotted == Slotted(ENormal, 54, 3, 112) /\ ENormal.transition = FALSE
<1> DEFINE p1 == Run(7, 19)
           p2 == <<21>>
           p3 == Every(4, 23, 59)
           p4 == Every(2, 61, 99)
           p5 == Run(100, 112)
           last == 112
<1>1. ENormal.slots = p1 \o p2 \o p3 \o p4 \o p5 /\ ENormal.limit = 54 /\ ENormal.suffix = 3
      /\ ENormal.transition = FALSE
  BY DEF ENormal
<1>2. UpTo(p1, last) /\ Len(p1) = 13
  BY DEF UpTo, Run
<1>3. UpTo(p2, last) /\ Len(p2) = 1
  BY DEF UpTo
<1>4. UpTo(p3, last) /\ Len(p3) = 10
  BY DEF UpTo, Every
<1>5. UpTo(p4, last) /\ Len(p4) = 20
  BY DEF UpTo, Every
<1>6. UpTo(p5, last) /\ Len(p5) = 13
  BY DEF UpTo, Run
<1>7. last \in Int
  OBVIOUS
<1> HIDE DEF p1, p2, p3, p4, p5, last
<1>8. UpTo(p1 \o p2, last) /\ Len(p1 \o p2) = 14
  <2>1. UpTo(p1 \o p2, last)
        /\ Len(p1 \o p2) = Len(p1) + Len(p2)
    BY <1>7, <1>2, <1>3, UpToConcat
  <2> QED
    BY <1>2, <1>3, <2>1
<1>9. UpTo(p1 \o p2 \o p3, last) /\ Len(p1 \o p2 \o p3) = 24
  <2>1. UpTo(p1 \o p2 \o p3, last)
        /\ Len(p1 \o p2 \o p3) = Len(p1 \o p2) + Len(p3)
    BY <1>7, <1>8, <1>4, UpToConcat
  <2> QED
    BY <1>8, <1>4, <2>1
<1>10. UpTo(p1 \o p2 \o p3 \o p4, last) /\ Len(p1 \o p2 \o p3 \o p4) = 44
  <2>1. UpTo(p1 \o p2 \o p3 \o p4, last)
        /\ Len(p1 \o p2 \o p3 \o p4) = Len(p1 \o p2 \o p3) + Len(p4)
    BY <1>7, <1>9, <1>5, UpToConcat
  <2> QED
    BY <1>9, <1>5, <2>1
<1>11. UpTo(p1 \o p2 \o p3 \o p4 \o p5, last) /\ Len(p1 \o p2 \o p3 \o p4 \o p5) = 57
  <2>1. UpTo(p1 \o p2 \o p3 \o p4 \o p5, last)
        /\ Len(p1 \o p2 \o p3 \o p4 \o p5) = Len(p1 \o p2 \o p3 \o p4) + Len(p5)
    BY <1>7, <1>10, <1>6, UpToConcat
  <2> QED
    BY <1>10, <1>6, <2>1
<1> QED
  BY <1>1, <1>11 DEF Slotted, last

LEMMA EWideSlotted == Slotted(EWide, 46, 4, 112) /\ EWide.transition = FALSE
<1> DEFINE p1 == Run(7, 11)
           p2 == Every(2, 13, 23)
           p3 == Every(4, 27, 59)
           p4 == Every(2, 61, 105)
           p5 == Run(106, 112)
           last == 112
<1>1. EWide.slots = p1 \o p2 \o p3 \o p4 \o p5 /\ EWide.limit = 46 /\ EWide.suffix = 4
      /\ EWide.transition = FALSE
  BY DEF EWide
<1>2. UpTo(p1, last) /\ Len(p1) = 5
  BY DEF UpTo, Run
<1>3. UpTo(p2, last) /\ Len(p2) = 6
  BY DEF UpTo, Every
<1>4. UpTo(p3, last) /\ Len(p3) = 9
  BY DEF UpTo, Every
<1>5. UpTo(p4, last) /\ Len(p4) = 23
  BY DEF UpTo, Every
<1>6. UpTo(p5, last) /\ Len(p5) = 7
  BY DEF UpTo, Run
<1>7. last \in Int
  OBVIOUS
<1> HIDE DEF p1, p2, p3, p4, p5, last
<1>8. UpTo(p1 \o p2, last) /\ Len(p1 \o p2) = 11
  <2>1. UpTo(p1 \o p2, last)
        /\ Len(p1 \o p2) = Len(p1) + Len(p2)
    BY <1>7, <1>2, <1>3, UpToConcat
  <2> QED
    BY <1>2, <1>3, <2>1
<1>9. UpTo(p1 \o p2 \o p3, last) /\ Len(p1 \o p2 \o p3) = 20
  <2>1. UpTo(p1 \o p2 \o p3, last)
        /\ Len(p1 \o p2 \o p3) = Len(p1 \o p2) + Len(p3)
    BY <1>7, <1>8, <1>4, UpToConcat
  <2> QED
    BY <1>8, <1>4, <2>1
<1>10. UpTo(p1 \o p2 \o p3 \o p4, last) /\ Len(p1 \o p2 \o p3 \o p4) = 43
  <2>1. UpTo(p1 \o p2 \o p3 \o p4, last)
        /\ Len(p1 \o p2 \o p3 \o p4) = Len(p1 \o p2 \o p3) + Len(p4)
    BY <1>7, <1>9, <1>5, UpToConcat
  <2> QED
    BY <1>9, <1>5, <2>1
<1>11. UpTo(p1 \o p2 \o p3 \o p4 \o p5, last) /\ Len(p1 \o p2 \o p3 \o p4 \o p5) = 50
  <2>1. UpTo(p1 \o p2 \o p3 \o p4 \o p5, last)
        /\ Len(p1 \o p2 \o p3 \o p4 \o p5) = Len(p1 \o p2 \o p3 \o p4) + Len(p5)
    BY <1>7, <1>10, <1>6, UpToConcat
  <2> QED
    BY <1>10, <1>6, <2>1
<1> QED
  BY <1>1, <1>11 DEF Slotted, last

LEMMA NormalLmsSlotted == Slotted(NormalLms, 20, 5, 105) /\ NormalLms.transition = FALSE
<1> DEFINE p1 == Before
           p2 == Run(8, 17)
           p3 == <<19>>
           p4 == Run(100, 105)
           last == 105
<1>1. NormalLms.slots = p1 \o p2 \o p3 \o p4 /\ NormalLms.limit = 20 /\ NormalLms.suffix = 5
      /\ NormalLms.transition = FALSE
  BY DEF NormalLms
<1>2. UpTo(p1, last) /\ Len(p1) = 8
  BY DEF UpTo, Run, Before
<1>3. UpTo(p2, last) /\ Len(p2) = 10
  BY DEF UpTo, Run
<1>4. UpTo(p3, last) /\ Len(p3) = 1
  BY DEF UpTo
<1>5. UpTo(p4, last) /\ Len(p4) = 6
  BY DEF UpTo, Run
<1>6. last \in Int
  OBVIOUS
<1> HIDE DEF p1, p2, p3, p4, last
<1>7. UpTo(p1 \o p2, last) /\ Len(p1 \o p2) = 18
  <2>1. UpTo(p1 \o p2, last)
        /\ Len(p1 \o p2) = Len(p1) + Len(p2)
    BY <1>6, <1>2, <1>3, UpToConcat
  <2> QED
    BY <1>2, <1>3, <2>1
<1>8. UpTo(p1 \o p2 \o p3, last) /\ Len(p1 \o p2 \o p3) = 19
  <2>1. UpTo(p1 \o p2 \o p3, last)
        /\ Len(p1 \o p2 \o p3) = Len(p1 \o p2) + Len(p3)
    BY <1>6, <1>7, <1>4, UpToConcat
  <2> QED
    BY <1>7, <1>4, <2>1
<1>9. UpTo(p1 \o p2 \o p3 \o p4, last) /\ Len(p1 \o p2 \o p3 \o p4) = 25
  <2>1. UpTo(p1 \o p2 \o p3 \o p4, last)
        /\ Len(p1 \o p2 \o p3 \o p4) = Len(p1 \o p2 \o p3) + Len(p4)
    BY <1>6, <1>8, <1>5, UpToConcat
  <2> QED
    BY <1>8, <1>5, <2>1
<1> QED
  BY <1>1, <1>9 DEF Slotted, last

LEMMA NormalBadlineSlotted == Slotted(NormalBadline, 22, 5, 105) /\ NormalBadline.transition = FALSE
<1> DEFINE p1 == Before
           p2 == Run(6, 17)
           p3 == <<19>>
           p4 == Run(100, 105)
           last == 105
<1>1. NormalBadline.slots = p1 \o p2 \o p3 \o p4 /\ NormalBadline.limit = 22 /\ NormalBadline.suffix = 5
      /\ NormalBadline.transition = FALSE
  BY DEF NormalBadline
<1>2. UpTo(p1, last) /\ Len(p1) = 8
  BY DEF UpTo, Run, Before
<1>3. UpTo(p2, last) /\ Len(p2) = 12
  BY DEF UpTo, Run
<1>4. UpTo(p3, last) /\ Len(p3) = 1
  BY DEF UpTo
<1>5. UpTo(p4, last) /\ Len(p4) = 6
  BY DEF UpTo, Run
<1>6. last \in Int
  OBVIOUS
<1> HIDE DEF p1, p2, p3, p4, last
<1>7. UpTo(p1 \o p2, last) /\ Len(p1 \o p2) = 20
  <2>1. UpTo(p1 \o p2, last)
        /\ Len(p1 \o p2) = Len(p1) + Len(p2)
    BY <1>6, <1>2, <1>3, UpToConcat
  <2> QED
    BY <1>2, <1>3, <2>1
<1>8. UpTo(p1 \o p2 \o p3, last) /\ Len(p1 \o p2 \o p3) = 21
  <2>1. UpTo(p1 \o p2 \o p3, last)
        /\ Len(p1 \o p2 \o p3) = Len(p1 \o p2) + Len(p3)
    BY <1>6, <1>7, <1>4, UpToConcat
  <2> QED
    BY <1>7, <1>4, <2>1
<1>9. UpTo(p1 \o p2 \o p3 \o p4, last) /\ Len(p1 \o p2 \o p3 \o p4) = 27
  <2>1. UpTo(p1 \o p2 \o p3 \o p4, last)
        /\ Len(p1 \o p2 \o p3 \o p4) = Len(p1 \o p2 \o p3) + Len(p4)
    BY <1>6, <1>8, <1>5, UpToConcat
  <2> QED
    BY <1>8, <1>5, <2>1
<1> QED
  BY <1>1, <1>9 DEF Slotted, last

LEMMA NormalContinuationSlotted == Slotted(NormalContinuation, 56, 4, 105) /\ NormalContinuation.transition = FALSE
<1> DEFINE p1 == Before
           p2 == <<1>>
           p3 == Run(6, 20)
           p4 == <<22>>
           p5 == Every(4, 24, 60)
           p6 == Every(2, 62, 100)
           p7 == Run(101, 105)
           last == 105
<1>1. NormalContinuation.slots = p1 \o p2 \o p3 \o p4 \o p5 \o p6 \o p7 /\ NormalContinuation.limit = 56 /\ NormalContinuation.suffix = 4
      /\ NormalContinuation.transition = FALSE
  BY DEF NormalContinuation
<1>2. UpTo(p1, last) /\ Len(p1) = 8
  BY DEF UpTo, Run, Before
<1>3. UpTo(p2, last) /\ Len(p2) = 1
  BY DEF UpTo
<1>4. UpTo(p3, last) /\ Len(p3) = 15
  BY DEF UpTo, Run
<1>5. UpTo(p4, last) /\ Len(p4) = 1
  BY DEF UpTo
<1>6. UpTo(p5, last) /\ Len(p5) = 10
  BY DEF UpTo, Every
<1>7. UpTo(p6, last) /\ Len(p6) = 20
  BY DEF UpTo, Every
<1>8. UpTo(p7, last) /\ Len(p7) = 5
  BY DEF UpTo, Run
<1>9. last \in Int
  OBVIOUS
<1> HIDE DEF p1, p2, p3, p4, p5, p6, p7, last
<1>10. UpTo(p1 \o p2, last) /\ Len(p1 \o p2) = 9
  <2>1. UpTo(p1 \o p2, last)
        /\ Len(p1 \o p2) = Len(p1) + Len(p2)
    BY <1>9, <1>2, <1>3, UpToConcat
  <2> QED
    BY <1>2, <1>3, <2>1
<1>11. UpTo(p1 \o p2 \o p3, last) /\ Len(p1 \o p2 \o p3) = 24
  <2>1. UpTo(p1 \o p2 \o p3, last)
        /\ Len(p1 \o p2 \o p3) = Len(p1 \o p2) + Len(p3)
    BY <1>9, <1>10, <1>4, UpToConcat
  <2> QED
    BY <1>10, <1>4, <2>1
<1>12. UpTo(p1 \o p2 \o p3 \o p4, last) /\ Len(p1 \o p2 \o p3 \o p4) = 25
  <2>1. UpTo(p1 \o p2 \o p3 \o p4, last)
        /\ Len(p1 \o p2 \o p3 \o p4) = Len(p1 \o p2 \o p3) + Len(p4)
    BY <1>9, <1>11, <1>5, UpToConcat
  <2> QED
    BY <1>11, <1>5, <2>1
<1>13. UpTo(p1 \o p2 \o p3 \o p4 \o p5, last) /\ Len(p1 \o p2 \o p3 \o p4 \o p5) = 35
  <2>1. UpTo(p1 \o p2 \o p3 \o p4 \o p5, last)
        /\ Len(p1 \o p2 \o p3 \o p4 \o p5) = Len(p1 \o p2 \o p3 \o p4) + Len(p5)
    BY <1>9, <1>12, <1>6, UpToConcat
  <2> QED
    BY <1>12, <1>6, <2>1
<1>14. UpTo(p1 \o p2 \o p3 \o p4 \o p5 \o p6, last) /\ Len(p1 \o p2 \o p3 \o p4 \o p5 \o p6) = 55
  <2>1. UpTo(p1 \o p2 \o p3 \o p4 \o p5 \o p6, last)
        /\ Len(p1 \o p2 \o p3 \o p4 \o p5 \o p6) = Len(p1 \o p2 \o p3 \o p4 \o p5) + Len(p6)
    BY <1>9, <1>13, <1>7, UpToConcat
  <2> QED
    BY <1>13, <1>7, <2>1
<1>15. UpTo(p1 \o p2 \o p3 \o p4 \o p5 \o p6 \o p7, last) /\ Len(p1 \o p2 \o p3 \o p4 \o p5 \o p6 \o p7) = 60
  <2>1. UpTo(p1 \o p2 \o p3 \o p4 \o p5 \o p6 \o p7, last)
        /\ Len(p1 \o p2 \o p3 \o p4 \o p5 \o p6 \o p7) = Len(p1 \o p2 \o p3 \o p4 \o p5 \o p6) + Len(p7)
    BY <1>9, <1>14, <1>8, UpToConcat, ZenonT(30)
  <2> QED
    BY <1>14, <1>8, <2>1
<1> QED
  BY <1>1, <1>15 DEF Slotted, last

LEMMA WideLmsSlotted == Slotted(WideLms, 6, 5, 105) /\ WideLms.transition = FALSE
<1> DEFINE p1 == Before
           p2 == <<8, 9, 11>>
           last == 105
<1>1. WideLms.slots = p1 \o p2 /\ WideLms.limit = 6 /\ WideLms.suffix = 5
      /\ WideLms.transition = FALSE
  BY DEF WideLms
<1>2. UpTo(p1, last) /\ Len(p1) = 8
  BY DEF UpTo, Run, Before
<1>3. UpTo(p2, last) /\ Len(p2) = 3
  BY DEF UpTo
<1>4. last \in Int
  OBVIOUS
<1> HIDE DEF p1, p2, last
<1>5. UpTo(p1 \o p2, last) /\ Len(p1 \o p2) = 11
  <2>1. UpTo(p1 \o p2, last)
        /\ Len(p1 \o p2) = Len(p1) + Len(p2)
    BY <1>4, <1>2, <1>3, UpToConcat
  <2> QED
    BY <1>2, <1>3, <2>1
<1> QED
  BY <1>1, <1>5 DEF Slotted, last

LEMMA WideBadlineSlotted == Slotted(WideBadline, 8, 5, 105) /\ WideBadline.transition = FALSE
<1> DEFINE p1 == Before
           p2 == <<6, 7, 8, 9, 11>>
           last == 105
<1>1. WideBadline.slots = p1 \o p2 /\ WideBadline.limit = 8 /\ WideBadline.suffix = 5
      /\ WideBadline.transition = FALSE
  BY DEF WideBadline
<1>2. UpTo(p1, last) /\ Len(p1) = 8
  BY DEF UpTo, Run, Before
<1>3. UpTo(p2, last) /\ Len(p2) = 5
  BY DEF UpTo
<1>4. last \in Int
  OBVIOUS
<1> HIDE DEF p1, p2, last
<1>5. UpTo(p1 \o p2, last) /\ Len(p1 \o p2) = 13
  <2>1. UpTo(p1 \o p2, last)
        /\ Len(p1 \o p2) = Len(p1) + Len(p2)
    BY <1>4, <1>2, <1>3, UpToConcat
  <2> QED
    BY <1>2, <1>3, <2>1
<1> QED
  BY <1>1, <1>5 DEF Slotted, last

LEMMA WideContinuationSlotted == Slotted(WideContinuation, 48, 5, 105) /\ WideContinuation.transition = FALSE
<1> DEFINE p1 == Before
           p2 == <<1>>
           p3 == Run(6, 12)
           p4 == Every(2, 14, 24)
           p5 == Every(4, 28, 60)
           p6 == Every(2, 62, 104)
           last == 105
<1>1. WideContinuation.slots = p1 \o p2 \o p3 \o p4 \o p5 \o p6 /\ WideContinuation.limit = 48 /\ WideContinuation.suffix = 5
      /\ WideContinuation.transition = FALSE
  BY DEF WideContinuation
<1>2. UpTo(p1, last) /\ Len(p1) = 8
  BY DEF UpTo, Run, Before
<1>3. UpTo(p2, last) /\ Len(p2) = 1
  BY DEF UpTo
<1>4. UpTo(p3, last) /\ Len(p3) = 7
  BY DEF UpTo, Run
<1>5. UpTo(p4, last) /\ Len(p4) = 6
  BY DEF UpTo, Every
<1>6. UpTo(p5, last) /\ Len(p5) = 9
  BY DEF UpTo, Every
<1>7. UpTo(p6, last) /\ Len(p6) = 22
  BY DEF UpTo, Every
<1>8. last \in Int
  OBVIOUS
<1> HIDE DEF p1, p2, p3, p4, p5, p6, last
<1>9. UpTo(p1 \o p2, last) /\ Len(p1 \o p2) = 9
  <2>1. UpTo(p1 \o p2, last)
        /\ Len(p1 \o p2) = Len(p1) + Len(p2)
    BY <1>8, <1>2, <1>3, UpToConcat
  <2> QED
    BY <1>2, <1>3, <2>1
<1>10. UpTo(p1 \o p2 \o p3, last) /\ Len(p1 \o p2 \o p3) = 16
  <2>1. UpTo(p1 \o p2 \o p3, last)
        /\ Len(p1 \o p2 \o p3) = Len(p1 \o p2) + Len(p3)
    BY <1>8, <1>9, <1>4, UpToConcat
  <2> QED
    BY <1>9, <1>4, <2>1
<1>11. UpTo(p1 \o p2 \o p3 \o p4, last) /\ Len(p1 \o p2 \o p3 \o p4) = 22
  <2>1. UpTo(p1 \o p2 \o p3 \o p4, last)
        /\ Len(p1 \o p2 \o p3 \o p4) = Len(p1 \o p2 \o p3) + Len(p4)
    BY <1>8, <1>10, <1>5, UpToConcat
  <2> QED
    BY <1>10, <1>5, <2>1
<1>12. UpTo(p1 \o p2 \o p3 \o p4 \o p5, last) /\ Len(p1 \o p2 \o p3 \o p4 \o p5) = 31
  <2>1. UpTo(p1 \o p2 \o p3 \o p4 \o p5, last)
        /\ Len(p1 \o p2 \o p3 \o p4 \o p5) = Len(p1 \o p2 \o p3 \o p4) + Len(p5)
    BY <1>8, <1>11, <1>6, UpToConcat
  <2> QED
    BY <1>11, <1>6, <2>1
<1>13. UpTo(p1 \o p2 \o p3 \o p4 \o p5 \o p6, last) /\ Len(p1 \o p2 \o p3 \o p4 \o p5 \o p6) = 53
  <2>1. UpTo(p1 \o p2 \o p3 \o p4 \o p5 \o p6, last)
        /\ Len(p1 \o p2 \o p3 \o p4 \o p5 \o p6) = Len(p1 \o p2 \o p3 \o p4 \o p5) + Len(p6)
    BY <1>8, <1>12, <1>7, UpToConcat
  <2> QED
    BY <1>12, <1>7, <2>1
<1> QED
  BY <1>1, <1>13 DEF Slotted, last

LEMMA UpToTail ==
    ASSUME NEW s, NEW n \in Int, UpTo(s, n), Len(s) > 0
    PROVE  UpTo(Tail(s), n) /\ Len(Tail(s)) = Len(s) - 1
<1>1. s \in Seq(Int) /\ s # <<>> /\ Len(s) \in Nat
  BY DEF UpTo
<1>2. /\ Tail(s) \in Seq(Int) /\ Len(Tail(s)) = Len(s) - 1
      /\ \A i \in 1..(Len(s) - 1) : Tail(s)[i] = s[i + 1]
  BY <1>1, HeadTailProperties
<1>3. ASSUME NEW i \in 1..(Len(s) - 1)
      PROVE  Tail(s)[i] <= n
  <2>1. i + 1 \in 1..Len(s)
    BY <1>1
  <2> QED
    BY <1>2, <2>1 DEF UpTo
<1> QED
  BY <1>2, <1>3 DEF UpTo

LEMMA WideAfterBadlineSlotted ==
    Slotted(WideAfterBadline, 48, 4, 105) /\ WideAfterBadline.transition = FALSE
<1> DEFINE w == WideContinuation
           slots == w.slots
           last == 105
<1>1. /\ WideAfterBadline.slots = Tail(slots) /\ WideAfterBadline.suffix = 4
      /\ WideAfterBadline.limit = w.limit /\ WideAfterBadline.transition = w.transition
  BY DEF WideAfterBadline, WideContinuation
<1>2. w.limit = 48 /\ UpTo(slots, last) /\ Len(slots) = 53 /\ Len(slots) > 0 /\ w.transition = FALSE
  BY WideContinuationSlotted DEF Slotted
<1>3. last \in Int
  OBVIOUS
<1> HIDE DEF last, w, slots
<1>4. UpTo(Tail(slots), last) /\ Len(Tail(slots)) = 52
  <2>1. UpTo(Tail(slots), last) /\ Len(Tail(slots)) = Len(slots) - 1
    BY <1>2, <1>3, UpToTail
  <2> QED
    BY <1>2, <2>1
<1> QED
  BY <1>1, <1>2, <1>4 DEF Slotted, last

\* What a schedule is: the limit of a line is even, and its instructions, filler
\* and suffix take all slots; in ANTIC 4 none is displayed past the right edge.
Roomy(s) ==
    /\ s.limit \in Nat /\ s.limit % 2 = 0 /\ s.suffix \in Nat
    /\ Len(s.slots) = s.limit + s.suffix

Shaped(s, mode, wide) ==
    /\ s.transition \in {TRUE, FALSE}
    /\ mode = "E" => s.suffix \in {3, 4} /\ s.transition = FALSE
    /\ mode # "E" => /\ s.suffix \in IF s.transition = TRUE THEN {9, 10} ELSE {4, 5}
                     /\ s.start = IF wide THEN 22 ELSE 24
                     /\ UpTo(s.slots, 105)

LEMMA ScheduleFits ==
    ASSUME NEW mode \in {"E", "ANTIC4"}, NEW wide \in BOOLEAN, NEW y \in Nat, NEW h
    PROVE  Roomy(Schedule(mode, wide, y, h)) /\ Shaped(Schedule(mode, wide, y, h), mode, wide)
<1>1. CASE mode = "E"
  <2>1. Schedule(mode, wide, y, h) = IF wide THEN EWide ELSE ENormal
    BY <1>1 DEF Schedule
  <2>2. Roomy(ENormal) /\ Shaped(ENormal, mode, wide)
    <3>1. Roomy(ENormal)
      BY ENormalSlotted DEF Slotted, Roomy
    <3>2. Shaped(ENormal, mode, wide)
      BY <1>1, ENormalSlotted DEF Slotted, Shaped
    <3> QED
      BY <3>1, <3>2
  <2>3. Roomy(EWide) /\ Shaped(EWide, mode, wide)
    <3>1. Roomy(EWide)
      BY EWideSlotted DEF Slotted, Roomy
    <3>2. Shaped(EWide, mode, wide)
      BY <1>1, EWideSlotted DEF Slotted, Shaped
    <3> QED
      BY <3>1, <3>2
  <2> QED
    BY <2>1, <2>2, <2>3
<1>2. CASE mode # "E"
  <2> DEFINE s == IF wide THEN WideContinuation ELSE NormalContinuation
             t == [s EXCEPT !.transition = TRUE, !.limit = IF wide THEN 44 ELSE 50,
                            !.suffix = IF wide THEN 9 ELSE 10]
  <2>1. /\ Schedule(mode, wide, y, h) \in
             {WideLms, WideBadline, WideAfterBadline, s, t} \/ ~wide
        /\ Schedule(mode, wide, y, h) \in {NormalLms, NormalBadline, s, t} \/ wide
    BY <1>2 DEF Schedule
  <2>2. wide => /\ WideLms.start = 22 /\ WideBadline.start = 22
                /\ WideAfterBadline.start = 22 /\ WideContinuation.start = 22
    BY DEF WideLms, WideBadline, WideAfterBadline, WideContinuation
  <2>3. ~wide => /\ NormalLms.start = 24 /\ NormalBadline.start = 24
                 /\ NormalContinuation.start = 24
    BY DEF NormalLms, NormalBadline, NormalContinuation
  <2>4. CASE wide
    <3>1. Roomy(WideLms) /\ Shaped(WideLms, mode, wide)
      <4>1. Roomy(WideLms)
        BY WideLmsSlotted DEF Slotted, Roomy
      <4>2. Shaped(WideLms, mode, wide)
        BY <1>2, <2>2, <2>4, WideLmsSlotted DEF Slotted, Shaped
      <4> QED
        BY <4>1, <4>2
    <3>2. Roomy(WideBadline) /\ Shaped(WideBadline, mode, wide)
      <4>1. Roomy(WideBadline)
        BY WideBadlineSlotted DEF Slotted, Roomy
      <4>2. Shaped(WideBadline, mode, wide)
        BY <1>2, <2>2, <2>4, WideBadlineSlotted DEF Slotted, Shaped
      <4> QED
        BY <4>1, <4>2
    <3>3. Roomy(WideAfterBadline) /\ Shaped(WideAfterBadline, mode, wide)
      <4>1. Roomy(WideAfterBadline)
        BY WideAfterBadlineSlotted DEF Slotted, Roomy
      <4>2. Shaped(WideAfterBadline, mode, wide)
        BY <1>2, <2>2, <2>4, WideAfterBadlineSlotted DEF Slotted, Shaped
      <4> QED
        BY <4>1, <4>2
    <3>4. Roomy(WideContinuation) /\ Shaped(WideContinuation, mode, wide)
      <4>1. Roomy(WideContinuation)
        BY WideContinuationSlotted DEF Slotted, Roomy
      <4>2. Shaped(WideContinuation, mode, wide)
        BY <1>2, <2>2, <2>4, WideContinuationSlotted DEF Slotted, Shaped
      <4> QED
        BY <4>1, <4>2
    <3>5. /\ t.limit = 44 /\ t.suffix = 9 /\ t.transition = TRUE
          /\ t.slots = s.slots /\ t.start = s.start
      BY <2>4, ZenonT(30) DEF WideContinuation
    <3>6. /\ s.start = 22 /\ Len(s.slots) = 53 /\ UpTo(s.slots, 105)
      BY <2>2, <2>4, WideContinuationSlotted DEF Slotted
    <3> HIDE DEF t
    <3>7. Roomy(t) /\ Shaped(t, mode, wide)
      <4>1. Roomy(t)
        BY <1>2, <2>4, <3>5, <3>6 DEF Roomy
      <4>2. Shaped(t, mode, wide)
        BY <1>2, <2>4, <3>5, <3>6 DEF Shaped
      <4> QED
        BY <4>1, <4>2
    <3> QED
      BY <2>1, <2>4, <3>1, <3>2, <3>3, <3>4, <3>7
  <2>5. CASE ~wide
    <3>1. Roomy(NormalLms) /\ Shaped(NormalLms, mode, wide)
      <4>1. Roomy(NormalLms)
        BY NormalLmsSlotted DEF Slotted, Roomy
      <4>2. Shaped(NormalLms, mode, wide)
        BY <1>2, <2>3, <2>5, NormalLmsSlotted DEF Slotted, Shaped
      <4> QED
        BY <4>1, <4>2
    <3>2. Roomy(NormalBadline) /\ Shaped(NormalBadline, mode, wide)
      <4>1. Roomy(NormalBadline)
        BY NormalBadlineSlotted DEF Slotted, Roomy
      <4>2. Shaped(NormalBadline, mode, wide)
        BY <1>2, <2>3, <2>5, NormalBadlineSlotted DEF Slotted, Shaped
      <4> QED
        BY <4>1, <4>2
    <3>4. Roomy(NormalContinuation) /\ Shaped(NormalContinuation, mode, wide)
      <4>1. Roomy(NormalContinuation)
        BY NormalContinuationSlotted DEF Slotted, Roomy
      <4>2. Shaped(NormalContinuation, mode, wide)
        BY <1>2, <2>3, <2>5, NormalContinuationSlotted DEF Slotted, Shaped
      <4> QED
        BY <4>1, <4>2
    <3>5. /\ t.limit = 50 /\ t.suffix = 10 /\ t.transition = TRUE
          /\ t.slots = s.slots /\ t.start = s.start
      BY <2>5, ZenonT(30) DEF NormalContinuation
    <3>6. /\ s.start = 24 /\ Len(s.slots) = 60 /\ UpTo(s.slots, 105)
      BY <2>3, <2>5, NormalContinuationSlotted DEF Slotted
    <3> HIDE DEF t
    <3>7. Roomy(t) /\ Shaped(t, mode, wide)
      <4>1. Roomy(t)
        BY <1>2, <2>5, <3>5, <3>6 DEF Roomy
      <4>2. Shaped(t, mode, wide)
        BY <1>2, <2>5, <3>5, <3>6 DEF Shaped
      <4> QED
        BY <4>1, <4>2
    <3> QED
      BY <2>1, <2>5, <3>1, <3>2, <3>4, <3>7
  <2> QED
    BY <2>4, <2>5
<1> QED
  BY <1>1, <1>2

-----------------------------------------------------------------------------
(* The text of a kernel: its cycles and its instructions.                    *)

Words == {"line", "instruction", "filler", "cmp byt2", "bit $ffff, mode E end",
          "chbase begin", "bit byt2", "bit $ffff", "lda charset", "sta CHBASE", "chbase end",
          "bit byt2, ANTIC 4 end", "nop, ANTIC 4 end", "bit $ffff, ANTIC 4 end"}

Texts == [what : Words, cycles : Nat, ins : Instructions, charset : Nat]

\* The cycles of each part of a text, and the instructions in it.
Sums(text, t) ==
    /\ t \in [0..Len(text) -> Nat] /\ t[0] = 0
    /\ \A n \in 1..Len(text) : t[n] = t[n - 1] + text[n].cycles

Codes(text, c) ==
    /\ c \in [0..Len(text) -> Seq(Instructions)] /\ c[0] = <<>>
    /\ \A n \in 1..Len(text) :
         c[n] = IF text[n].what = "instruction" THEN Append(c[n - 1], text[n].ins) ELSE c[n - 1]

\* The time and the code of a text are what its parts add up to.
LEMMA TimeIs ==
    ASSUME NEW text \in Seq(Texts)
    PROVE  \E t : Sums(text, t) /\ Time(text) = t[Len(text)]
<1> DEFINE N == Len(text)
           Out(n, x) == x + text[n].cycles
           G == [n \in 1..N |-> [x \in Nat |-> Out(n, x)]]
           Is(g) == g = [n \in 0..N |-> IF n = 0 THEN 0 ELSE Out(n, g[n - 1])]
<1>1. N \in Nat /\ \A n \in 1..N : text[n] \in Texts
  BY ElementOfSeq
<1>2. \A n \in 1..N : \A x \in Nat : Out(n, x) \in Nat
  BY <1>1 DEF Texts
<1> DEFINE k == CHOOSE f : Is(f)
<1>3. Time(text) = k[N]
  BY DEF Time
<1> HIDE DEF Out, N
<1>4. G \in [1..N -> [Nat -> Nat]]
  BY <1>2
<1>5. PICK g \in [0..N -> Nat] : g[0] = 0 /\ \A n \in 1..N : g[n] = G[n][g[n - 1]]
  <2>1. 0 \in Nat
    OBVIOUS
  <2>2. Steps(N, Nat, 0, G)
    BY <1>1, <1>4, <2>1 DEF Steps
  <2>3. Recursive(N, Nat, 0, G)
    BY <2>2, RecursionExists
  <2> QED
    BY <2>3 DEF Recursive
<1>6. Is(g)
  <2>1. ASSUME NEW n \in 0..N
        PROVE  g[n] = IF n = 0 THEN 0 ELSE Out(n, g[n - 1])
    <3>1. CASE n = 0
      BY <3>1, <1>5
    <3>2. CASE n # 0
      <4>1. n \in 1..N /\ n - 1 \in 0..N
        BY <1>1, <3>2
      <4>2. g[n - 1] \in Nat
        BY <4>1
      <4> QED
        BY <1>5, <3>2, <4>1, <4>2
    <3> QED
      BY <3>1, <3>2
  <2>2. g = [n \in 0..N |-> g[n]]
    OBVIOUS
  <2> QED
    BY <2>1, <2>2
<1>7. Is(k)
  <2> HIDE DEF Is
  <2> QED
    BY <1>6
<1>8. k[0] = 0 /\ \A n \in 1..N : k[n] = Out(n, k[n - 1])
  <2>1. 0 \in 0..N /\ \A n \in 1..N : n \in 0..N /\ n # 0
    BY <1>1
  <2> QED
    BY <1>7, <2>1
<1>9. k \in [0..N -> Nat]
  <2>1. DOMAIN k = 0..N /\ k = [n \in 0..N |-> k[n]]
    BY <1>7
  <2>2. k[0] \in Nat
    BY <1>8
  <2>3. ASSUME NEW n \in 1..N, k[n - 1] \in Nat
        PROVE  k[n] \in Nat
    BY <1>2, <1>8, <2>3
  <2> HIDE DEF k
  <2> QED
    BY <1>1, <2>1, <2>2, <2>3, RecursionTyped
<1> HIDE DEF k
<1>10. Sums(text, k)
  BY <1>8, <1>9 DEF Sums, Out, N
<1> QED
  BY <1>3, <1>10 DEF N

LEMMA CodeIs ==
    ASSUME NEW text \in Seq(Texts)
    PROVE  \E c : Codes(text, c) /\ Code(text) = c[Len(text)]
<1> DEFINE N == Len(text)
           X == Seq(Instructions)
           Out(n, x) == IF text[n].what = "instruction" THEN Append(x, text[n].ins) ELSE x
           G == [n \in 1..N |-> [x \in X |-> Out(n, x)]]
           Is(g) == g = [n \in 0..N |-> IF n = 0 THEN <<>> ELSE Out(n, g[n - 1])]
<1>1. N \in Nat /\ \A n \in 1..N : text[n] \in Texts
  BY ElementOfSeq
<1>2. \A n \in 1..N : \A x \in X : Out(n, x) \in X
  <2> SUFFICES ASSUME NEW n \in 1..N, NEW x \in X
               PROVE  Out(n, x) \in X
    OBVIOUS
  <2>1. text[n].ins \in Instructions
    BY <1>1 DEF Texts
  <2>2. Append(x, text[n].ins) \in X
    BY <2>1
  <2> QED
    BY <2>2
<1> DEFINE k == CHOOSE f : Is(f)
<1>3. Code(text) = k[N]
  BY DEF Code
<1>0. <<>> \in X
  OBVIOUS
<1> HIDE DEF Out, N, X
<1>4. G \in [1..N -> [X -> X]]
  BY <1>2
<1>5. PICK g \in [0..N -> X] : g[0] = <<>> /\ \A n \in 1..N : g[n] = G[n][g[n - 1]]
  <2>2. Steps(N, X, <<>>, G)
    BY <1>0, <1>1, <1>4 DEF Steps
  <2>3. Recursive(N, X, <<>>, G)
    BY <2>2, RecursionExists
  <2> QED
    BY <2>3 DEF Recursive
<1>6. Is(g)
  <2>1. ASSUME NEW n \in 0..N
        PROVE  g[n] = IF n = 0 THEN <<>> ELSE Out(n, g[n - 1])
    <3>1. CASE n = 0
      BY <3>1, <1>5
    <3>2. CASE n # 0
      <4>1. n \in 1..N /\ n - 1 \in 0..N
        BY <1>1, <3>2
      <4>2. g[n - 1] \in X
        BY <4>1
      <4> QED
        BY <1>5, <3>2, <4>1, <4>2
    <3> QED
      BY <3>1, <3>2
  <2>2. g = [n \in 0..N |-> g[n]]
    OBVIOUS
  <2> QED
    BY <2>1, <2>2
<1>7. Is(k)
  <2> HIDE DEF Is
  <2> QED
    BY <1>6
<1>8. k[0] = <<>> /\ \A n \in 1..N : k[n] = Out(n, k[n - 1])
  <2>1. 0 \in 0..N /\ \A n \in 1..N : n \in 0..N /\ n # 0
    BY <1>1
  <2> QED
    BY <1>7, <2>1
<1>9. k \in [0..N -> X]
  <2>1. DOMAIN k = 0..N /\ k = [n \in 0..N |-> k[n]]
    BY <1>7
  <2>2. k[0] \in X
    BY <1>0, <1>8
  <2>3. ASSUME NEW n \in 1..N, k[n - 1] \in X
        PROVE  k[n] \in X
    BY <1>2, <1>8, <2>3
  <2> HIDE DEF k
  <2> QED
    BY <1>1, <2>1, <2>2, <2>3, RecursionTyped
<1> HIDE DEF k
<1>10. Codes(text, k)
  BY <1>8, <1>9 DEF Codes, Out, N, X
<1> QED
  BY <1>3, <1>10 DEF N

\* The time and the code of two texts, one after the other.
LEMMA AppendConcat ==
    ASSUME NEW x \in Seq(Instructions), NEW y \in Seq(Instructions), NEW e \in Instructions
    PROVE  Append(x \o y, e) = x \o Append(y, e)
<1>1. <<e>> \in Seq(Instructions)
  OBVIOUS
<1>2. (x \o y) \o <<e>> = x \o (y \o <<e>>)
  BY <1>1, ConcatAssociative
<1>3. y \o <<e>> = Append(y, e) /\ x \o y \in Seq(Instructions) /\ (x \o y) \o <<e>> = Append(x \o y, e)
  BY AppendIsConcat, ConcatProperties
<1> QED
  BY <1>2, <1>3

\* The texts of two parts, one after the other.
LEMMA Joined ==
    ASSUME NEW a \in Seq(Texts), NEW b \in Seq(Texts)
    PROVE  /\ a \o b \in Seq(Texts) /\ Len(a \o b) = Len(a) + Len(b)
           /\ Len(a) \in Nat /\ Len(b) \in Nat
           /\ \A n \in 1..Len(a) : (a \o b)[n] = a[n]
           /\ \A n \in 1..Len(b) : (a \o b)[Len(a) + n] = b[n]
<1>1. /\ a \o b \in Seq(Texts) /\ Len(a \o b) = Len(a) + Len(b)
      /\ \A i \in 1..(Len(a) + Len(b)) :
           (a \o b)[i] = IF i <= Len(a) THEN a[i] ELSE b[i - Len(a)]
  BY ConcatProperties
<1>2. Len(a) \in Nat /\ Len(b) \in Nat
  OBVIOUS
<1>3. ASSUME NEW n \in 1..Len(a)
      PROVE  (a \o b)[n] = a[n]
  BY <1>1, <1>2
<1>4. ASSUME NEW n \in 1..Len(b)
      PROVE  (a \o b)[Len(a) + n] = b[n]
  <2>1. Len(a) + n \in 1..(Len(a) + Len(b)) /\ ~(Len(a) + n <= Len(a))
        /\ (Len(a) + n) - Len(a) = n
    BY <1>2
  <2> QED
    BY <1>1, <2>1
<1> QED
  BY <1>1, <1>2, <1>3, <1>4

LEMMA TimeConcat ==
    ASSUME NEW a \in Seq(Texts), NEW b \in Seq(Texts)
    PROVE  Time(a \o b) = Time(a) + Time(b) /\ Time(a) \in Nat
<1> DEFINE t == a \o b
           M == Len(a)
           N == Len(b)
<1>1. /\ t \in Seq(Texts) /\ Len(t) = M + N /\ M \in Nat /\ N \in Nat
      /\ \A n \in 1..M : t[n] = a[n]
      /\ \A n \in 1..N : t[M + n] = b[n]
  BY Joined
<1>2. PICK ta : Sums(a, ta) /\ Time(a) = ta[M]
  BY TimeIs
<1>3. PICK tb : Sums(b, tb) /\ Time(b) = tb[N]
  BY TimeIs
<1> HIDE DEF t
<1>4. PICK tt : Sums(t, tt) /\ Time(t) = tt[M + N]
  BY <1>1, TimeIs
<1>5. /\ ta \in [0..M -> Nat] /\ ta[0] = 0 /\ \A n \in 1..M : ta[n] = ta[n - 1] + a[n].cycles
      /\ tb \in [0..N -> Nat] /\ tb[0] = 0 /\ \A n \in 1..N : tb[n] = tb[n - 1] + b[n].cycles
      /\ tt[0] = 0 /\ \A n \in 1..(M + N) : tt[n] = tt[n - 1] + t[n].cycles
  BY <1>1, <1>2, <1>3, <1>4 DEF Sums
<1>c. (\A n \in 1..M : a[n].cycles \in Nat) /\ (\A n \in 1..N : b[n].cycles \in Nat)
  <2>1. (\A n \in 1..M : a[n] \in Texts) /\ (\A n \in 1..N : b[n] \in Texts)
    BY ElementOfSeq
  <2> QED
    BY <2>1 DEF Texts
<1> HIDE DEF M, N
<1> DEFINE A == {n \in 0..M : tt[n] = ta[n]}
           B == {n \in 0..N : tt[M + n] = ta[M] + tb[n]}
<1>6. 0..M \subseteq A
  <2>1. 0 \in A
    BY <1>1, <1>5
  <2>2. ASSUME NEW n \in 1..M, n - 1 \in A
        PROVE  n \in A
    <3>1. n \in 1..(M + N) /\ n \in 0..M /\ n - 1 \in 0..M
      BY <1>1
    <3>2. tt[n] = tt[n - 1] + a[n].cycles /\ ta[n] = ta[n - 1] + a[n].cycles /\ tt[n - 1] = ta[n - 1]
      BY <1>1, <1>5, <2>2, <3>1
    <3> QED
      BY <3>1, <3>2
  <2> HIDE DEF A
  <2> QED
    BY <1>1, <2>1, <2>2, Induction
<1>7. tt[M] = ta[M] /\ ta[M] \in Nat
  BY <1>1, <1>5, <1>6
<1>8. 0..N \subseteq B
  <2>1. 0 \in B
    BY <1>1, <1>5, <1>7
  <2>2. ASSUME NEW n \in 1..N, n - 1 \in B
        PROVE  n \in B
    <3>1. M + n \in 1..(M + N) /\ n \in 0..N /\ n - 1 \in 0..N /\ (M + n) - 1 = M + (n - 1)
      BY <1>1
    <3>2. tt[M + n] = tt[M + (n - 1)] + b[n].cycles /\ tb[n] = tb[n - 1] + b[n].cycles
      BY <1>1, <1>5, <3>1
    <3>3. tt[M + (n - 1)] = ta[M] + tb[n - 1]
      BY <2>2
    <3>4. tb[n - 1] \in Nat /\ ta[M] \in Nat /\ b[n].cycles \in Nat
      BY <1>5, <1>7, <1>c, <3>1
    <3>5. tt[M + n] = ta[M] + tb[n]
      BY <3>2, <3>3, <3>4
    <3> QED
      BY <3>1, <3>5
  <2> HIDE DEF B
  <2> QED
    BY <1>1, <2>1, <2>2, Induction
<1>9. tt[M + N] = ta[M] + tb[N]
  <2>1. N \in B
    BY <1>1, <1>8
  <2> QED
    BY <2>1
<1> QED
  BY <1>2, <1>3, <1>4, <1>7, <1>9 DEF t, M, N

LEMMA CodeConcat ==
    ASSUME NEW a \in Seq(Texts), NEW b \in Seq(Texts)
    PROVE  Code(a \o b) = Code(a) \o Code(b) /\ Code(a) \in Seq(Instructions)
<1> DEFINE t == a \o b
           M == Len(a)
           N == Len(b)
           X == Seq(Instructions)
<1>1. /\ t \in Seq(Texts) /\ Len(t) = M + N /\ M \in Nat /\ N \in Nat
      /\ \A n \in 1..M : t[n] = a[n]
      /\ \A n \in 1..N : t[M + n] = b[n]
  BY Joined
<1>2. PICK ca : Codes(a, ca) /\ Code(a) = ca[M]
  BY CodeIs
<1>3. PICK cb : Codes(b, cb) /\ Code(b) = cb[N]
  BY CodeIs
<1> HIDE DEF t
<1>4. PICK ct : Codes(t, ct) /\ Code(t) = ct[M + N]
  BY <1>1, CodeIs
<1> DEFINE Step(x, e) == IF e.what = "instruction" THEN Append(x, e.ins) ELSE x
<1>5. /\ ca \in [0..M -> X] /\ ca[0] = <<>> /\ \A n \in 1..M : ca[n] = Step(ca[n - 1], a[n])
      /\ cb \in [0..N -> X] /\ cb[0] = <<>> /\ \A n \in 1..N : cb[n] = Step(cb[n - 1], b[n])
      /\ ct[0] = <<>> /\ \A n \in 1..(M + N) : ct[n] = Step(ct[n - 1], t[n])
  BY <1>1, <1>2, <1>3, <1>4 DEF Codes
<1>6. ASSUME NEW x \in X, NEW y \in X, NEW e \in Texts
      PROVE  Step(x \o y, e) = x \o Step(y, e)
  <2>1. e.ins \in Instructions /\ x \in Seq(Instructions) /\ y \in Seq(Instructions)
    BY DEF Texts
  <2>2. Append(x \o y, e.ins) = x \o Append(y, e.ins)
    <3> DEFINE i == e.ins
    <3>1. i \in Instructions
      BY <2>1
    <3> HIDE DEF X, i
    <3>2. Append(x \o y, i) = x \o Append(y, i)
      BY <2>1, <3>1, AppendConcat
    <3> QED
      BY <3>2 DEF i
  <2> QED
    BY <2>2
<1>7. \A n \in 1..N : b[n] \in Texts
  BY ElementOfSeq
<1>8. \A x \in X : x \o <<>> = x
  BY ConcatEmptySeq
<1> HIDE DEF M, N, Step, X
<1> DEFINE A == {n \in 0..M : ct[n] = ca[n]}
           B == {n \in 0..N : ct[M + n] = ca[M] \o cb[n]}
<1>9. 0..M \subseteq A
  <2>1. 0 \in A
    BY <1>1, <1>5
  <2>2. ASSUME NEW n \in 1..M, n - 1 \in A
        PROVE  n \in A
    <3>1. n \in 1..(M + N) /\ n \in 0..M /\ n - 1 \in 0..M
      BY <1>1
    <3>2. ct[n] = Step(ct[n - 1], a[n]) /\ ca[n] = Step(ca[n - 1], a[n]) /\ ct[n - 1] = ca[n - 1]
      BY <1>1, <1>5, <2>2, <3>1
    <3> QED
      BY <3>1, <3>2
  <2> HIDE DEF A
  <2> QED
    BY <1>1, <2>1, <2>2, Induction
<1>10. ct[M] = ca[M] /\ ca[M] \in X
  BY <1>1, <1>5, <1>9
<1>11. 0..N \subseteq B
  <2>1. 0 \in B
    <3>1. M + 0 = M /\ 0 \in 0..N
      BY <1>1
    <3>2. ca[M] \o cb[0] = ca[M]
      BY <1>5, <1>8, <1>10
    <3> QED
      BY <1>10, <3>1, <3>2
  <2>2. ASSUME NEW n \in 1..N, n - 1 \in B
        PROVE  n \in B
    <3>1. M + n \in 1..(M + N) /\ n \in 0..N /\ n - 1 \in 0..N /\ (M + n) - 1 = M + (n - 1)
      BY <1>1
    <3>2. ct[M + n] = Step(ct[M + (n - 1)], b[n]) /\ cb[n] = Step(cb[n - 1], b[n])
      BY <1>1, <1>5, <3>1
    <3>3. ct[M + (n - 1)] = ca[M] \o cb[n - 1]
      BY <2>2
    <3>4. cb[n - 1] \in X
      BY <1>5, <3>1
    <3>5. ct[M + n] = ca[M] \o cb[n]
      BY <1>6, <1>7, <1>10, <3>2, <3>3, <3>4
    <3> QED
      BY <3>1, <3>5
  <2> HIDE DEF B
  <2> QED
    BY <1>1, <2>1, <2>2, Induction
<1>12. ct[M + N] = ca[M] \o cb[N]
  <2>1. N \in 0..N
    BY <1>1
  <2> QED
    BY <1>11, <2>1
<1> QED
  BY <1>2, <1>3, <1>4, <1>10, <1>12 DEF t, M, N, X

\* The next instruction starts when the one before has taken its cycles.
LEMMA StartStep ==
    ASSUME NEW ins \in Seq(Instructions), NEW n \in 1..Len(ins)
    PROVE  /\ StartCycle(ins, n + 1) = StartCycle(ins, n) + Cost(ins[n])
           /\ StartCycle(ins, n) \in Nat
<1> DEFINE before(k) == {m \in 1..(k - 1) : ins[m].op = "store"}
           D == before(n)
           E == before(n + 1)
<1>1. n \in Nat /\ n >= 1 /\ (n + 1) - 1 = n
  OBVIOUS
<1>2. StartCycle(ins, n) = 2 * (n - 1 + Cardinality(D))
      /\ StartCycle(ins, n + 1) = 2 * (n + Cardinality(E))
  BY <1>1 DEF StartCycle
<1>3. D \in SUBSET (1..n) /\ n \notin D /\ IsFiniteSet(1..n)
  BY <1>1, IntervalCount
<1>4. E = IF ins[n].op = "store" THEN D \cup {n} ELSE D
  BY <1>1
<1> HIDE DEF D, E
<1>5. IsFiniteSet(D) /\ Cardinality(D) \in Nat
  BY <1>3, FS_Subset, FS_CardinalityType
<1>6. Cardinality(D \cup {n}) = Cardinality(D) + 1
  BY <1>3, <1>5, FS_AddElement
<1>7. Cardinality(E) = IF ins[n].op = "store" THEN Cardinality(D) + 1 ELSE Cardinality(D)
  BY <1>4, <1>6
<1>8. Cost(ins[n]) = IF ins[n].op = "store" THEN 4 ELSE 2
  BY DEF Cost
<1> QED
  BY <1>1, <1>2, <1>5, <1>7, <1>8, SMTT(30)

LEMMA StartEnds ==
    ASSUME NEW ins \in Seq(Instructions)
    PROVE  StartCycle(ins, 1) = 0 /\ StartCycle(ins, Len(ins) + 1) = Cycles(ins)
<1>1. Len(ins) \in Nat /\ DOMAIN ins = 1..Len(ins) /\ (Len(ins) + 1) - 1 = Len(ins)
  OBVIOUS
<1>2. {m \in 1..(1 - 1) : ins[m].op = "store"} = {}
  OBVIOUS
<1>3. StartCycle(ins, 1) = 0
  BY <1>2, FS_EmptySet DEF StartCycle
<1> QED
  BY <1>1, <1>3 DEF StartCycle, Cycles

\* The text of an instruction takes its cycles.
LEMMA TextTyped ==
    /\ \A what \in Words, cycles \in Nat : Text(what, cycles) \in Texts
         /\ Text(what, cycles).what = what /\ Text(what, cycles).cycles = cycles
    /\ \A i \in Instructions : InsText(i) \in Texts /\ InsText(i).what = "instruction"
         /\ InsText(i).cycles = Cost(i) /\ InsText(i).ins = i
<1>1. \A i \in Instructions : Cost(i) \in Nat
  BY DEF Cost
<1>2. Nop \in Instructions
  BY InstructionType
<1>3. ASSUME NEW what \in Words, NEW cycles \in Nat
      PROVE  /\ Text(what, cycles) \in Texts
             /\ Text(what, cycles).what = what /\ Text(what, cycles).cycles = cycles
  BY <1>2 DEF Text, Texts
<1>4. ASSUME NEW i \in Instructions
      PROVE  InsText(i) = [what |-> "instruction", cycles |-> Cost(i), ins |-> i, charset |-> 0]
  BY DEF InsText, Text
<1>5. ASSUME NEW i \in Instructions
      PROVE  /\ InsText(i) \in Texts /\ InsText(i).what = "instruction"
             /\ InsText(i).cycles = Cost(i) /\ InsText(i).ins = i
  <2> DEFINE t == InsText(i)
  <2>1. t = [what |-> "instruction", cycles |-> Cost(i), ins |-> i, charset |-> 0]
    BY <1>4
  <2>2. Cost(i) \in Nat /\ "instruction" \in Words /\ 0 \in Nat
    BY <1>1 DEF Words
  <2> HIDE DEF t
  <2>3. t.what = "instruction" /\ t.cycles = Cost(i) /\ t.ins = i
    BY <2>1
  <2>4. t \in Texts
    BY <2>1, <2>2 DEF Texts
  <2> QED
    BY <2>3, <2>4 DEF t
<1> QED
  BY <1>3, <1>5

\* A text without instructions is no code.
LEMMA PlainCode ==
    ASSUME NEW text \in Seq(Texts), \A n \in 1..Len(text) : text[n].what # "instruction"
    PROVE  Code(text) = <<>>
<1>1. PICK c : Codes(text, c) /\ Code(text) = c[Len(text)]
  BY CodeIs
<1>2. Len(text) \in Nat
  OBVIOUS
<1> DEFINE B == {n \in 0..Len(text) : c[n] = <<>>}
<1>3. 0 \in B
  BY <1>1, <1>2 DEF Codes
<1>4. ASSUME NEW n \in 1..Len(text), n - 1 \in B
      PROVE  n \in B
  BY <1>1, <1>4 DEF Codes
<1> HIDE DEF B
<1>5. 0..Len(text) \subseteq B
  BY <1>2, <1>3, <1>4, Induction
<1> QED
  BY <1>1, <1>2, <1>5 DEF B

\* The time of the short texts that lines begin and end with.
LEMMA ShortTimes ==
    /\ Time(<<>>) = 0
    /\ \A a \in Texts : Time(<<a>>) = a.cycles
    /\ \A a, b \in Texts : Time(<<a, b>>) = a.cycles + b.cycles
    /\ \A a, b, c, d, e \in Texts :
         Time(<<a, b, c, d, e>>) = a.cycles + b.cycles + c.cycles + d.cycles + e.cycles
<1>0. \A a \in Texts : a.cycles \in Nat
  BY DEF Texts
<1>1. Time(<<>>) = 0
  <2>1. <<>> \in Seq(Texts)
    OBVIOUS
  <2>2. PICK t : Sums(<<>>, t) /\ Time(<<>>) = t[Len(<<>>)]
    BY <2>1, TimeIs
  <2> QED
    BY <2>2 DEF Sums
<1>2. ASSUME NEW a \in Texts
      PROVE  Time(<<a>>) = a.cycles
  <2> DEFINE s == <<a>>
  <2>1. s \in Seq(Texts) /\ Len(s) = 1 /\ s[1] = a
    OBVIOUS
  <2> HIDE DEF s
  <2>2. PICK t : Sums(s, t) /\ Time(s) = t[Len(s)]
    BY <2>1, TimeIs
  <2>3. t[0] = 0 /\ t[1] = t[0] + s[1].cycles
    BY <2>1, <2>2 DEF Sums
  <2> QED
    BY <1>0, <2>1, <2>2, <2>3 DEF s
<1>3. ASSUME NEW a \in Texts, NEW b \in Texts
      PROVE  Time(<<a, b>>) = a.cycles + b.cycles
  <2> DEFINE s == <<a, b>>
  <2>1. s \in Seq(Texts) /\ Len(s) = 2 /\ s[1] = a /\ s[2] = b
    OBVIOUS
  <2> HIDE DEF s
  <2>2. PICK t : Sums(s, t) /\ Time(s) = t[Len(s)]
    BY <2>1, TimeIs
  <2>3. t[0] = 0 /\ t[1] = t[0] + s[1].cycles /\ t[2] = t[1] + s[2].cycles
    BY <2>1, <2>2 DEF Sums
  <2> QED
    BY <1>0, <2>1, <2>2, <2>3 DEF s
<1>4. ASSUME NEW a \in Texts, NEW b \in Texts, NEW c \in Texts, NEW d \in Texts, NEW e \in Texts
      PROVE  Time(<<a, b, c, d, e>>) = a.cycles + b.cycles + c.cycles + d.cycles + e.cycles
  <2> DEFINE s == <<a, b, c, d, e>>
  <2>1. s \in Seq(Texts) /\ Len(s) = 5 /\ s[1] = a /\ s[2] = b /\ s[3] = c /\ s[4] = d /\ s[5] = e
    OBVIOUS
  <2> HIDE DEF s
  <2>2. PICK t : Sums(s, t) /\ Time(s) = t[Len(s)]
    BY <2>1, TimeIs
  <2>3. /\ t[0] = 0 /\ t[1] = t[0] + s[1].cycles /\ t[2] = t[1] + s[2].cycles
        /\ t[3] = t[2] + s[3].cycles /\ t[4] = t[3] + s[4].cycles /\ t[5] = t[4] + s[5].cycles
    BY <2>1, <2>2 DEF Sums
  <2> QED
    BY <1>0, <2>1, <2>2, <2>3 DEF s
<1> QED
  BY <1>1, <1>2, <1>3, <1>4

InsTexts(ins) == [n \in DOMAIN ins |-> InsText(ins[n])]

\* The text of instructions takes their cycles and is their code.
LEMMA InsTextsAre ==
    ASSUME NEW ins \in Seq(Instructions)
    PROVE  /\ InsTexts(ins) \in Seq(Texts) /\ Len(InsTexts(ins)) = Len(ins)
           /\ Time(InsTexts(ins)) = Cycles(ins) /\ Code(InsTexts(ins)) = ins
           /\ \A n \in 1..Len(ins) : InsTexts(ins)[n] = InsText(ins[n])
<1> DEFINE N == Len(ins)
           text == InsTexts(ins)
<1>1. N \in Nat /\ DOMAIN ins = 1..N /\ \A n \in 1..N : ins[n] \in Instructions
  BY ElementOfSeq
<1>2. text = [n \in 1..N |-> InsText(ins[n])]
  BY <1>1 DEF InsTexts
<1> HIDE DEF text
<1>3. text \in Seq(Texts) /\ Len(text) = N
  <2>1. \A n \in 1..N : InsText(ins[n]) \in Texts
    BY <1>1, TextTyped
  <2> HIDE DEF N
  <2> QED
    BY <1>1, <1>2, <2>1
<1>4. \A n \in 1..N : /\ text[n].what = "instruction" /\ text[n].ins = ins[n]
                      /\ text[n].cycles = Cost(ins[n])
  BY <1>1, <1>2, TextTyped
<1>5. Time(text) = Cycles(ins)
  <2>1. PICK t : Sums(text, t) /\ Time(text) = t[N]
    BY <1>3, TimeIs
  <2>2. t[0] = 0 /\ \A n \in 1..N : t[n] = t[n - 1] + Cost(ins[n])
    BY <1>3, <1>4, <2>1 DEF Sums
  <2>3. \A n \in 1..N : StartCycle(ins, n + 1) = StartCycle(ins, n) + Cost(ins[n])
    BY StartStep
  <2> DEFINE B == {n \in 0..N : t[n] = StartCycle(ins, n + 1)}
  <2>4. 0 \in B
    BY <1>1, <2>2, StartEnds
  <2>5. ASSUME NEW n \in 1..N, n - 1 \in B
        PROVE  n \in B
    <3>1. (n - 1) + 1 = n /\ n \in 0..N
      BY <1>1
    <3>2. t[n - 1] = StartCycle(ins, n)
      BY <2>5, <3>1
    <3> QED
      BY <2>2, <2>3, <3>1, <3>2
  <2> HIDE DEF B, N
  <2>6. 0..N \subseteq B
    BY <1>1, <2>4, <2>5, Induction
  <2>7. N \in 0..N
    BY <1>1
  <2>8. t[N] = StartCycle(ins, N + 1)
    BY <2>6, <2>7 DEF B
  <2> QED
    BY <2>1, <2>8, StartEnds DEF N
<1>6. Code(text) = ins
  <2>1. PICK c : Codes(text, c) /\ Code(text) = c[N]
    BY <1>3, CodeIs
  <2>2. c[0] = <<>> /\ \A n \in 1..N : c[n] = Append(c[n - 1], ins[n])
    BY <1>3, <1>4, <2>1 DEF Codes
  <2>3. \A n \in 1..N : SubSeq(ins, 1, n) = Append(SubSeq(ins, 1, n - 1), ins[n])
    <3> TAKE n \in 1..N
    <3> QED
      BY <1>1
  <2>4. SubSeq(ins, 1, 0) = <<>> /\ SubSeq(ins, 1, N) = ins
    BY <1>1
  <2> DEFINE B == {n \in 0..N : c[n] = SubSeq(ins, 1, n)}
  <2>5. 0 \in B
    <3>1. 0 \in 0..N /\ c[0] = SubSeq(ins, 1, 0)
      BY <1>1, <2>2, <2>4
    <3> QED
      BY <3>1
  <2>6. ASSUME NEW n \in 1..N, n - 1 \in B
        PROVE  n \in B
    <3>1. n \in 0..N
      BY <1>1
    <3> HIDE DEF N
    <3> QED
      BY <2>2, <2>3, <2>6, <3>1
  <2> HIDE DEF B, N
  <2>7. 0..N \subseteq B
    BY <1>1, <2>5, <2>6, Induction
  <2>8. N \in 0..N
    BY <1>1
  <2> QED
    BY <2>1, <2>4, <2>7, <2>8 DEF B
<1> QED
  BY <1>2, <1>3, <1>5, <1>6 DEF text

\* Every place in two parts is one in either.
LEMMA JoinedPlaces ==
    ASSUME NEW a \in Seq(Texts), NEW b \in Seq(Texts), NEW n \in 1..Len(a \o b)
    PROVE  \/ n \in 1..Len(a) /\ (a \o b)[n] = a[n]
           \/ \E m \in 1..Len(b) : n = Len(a) + m /\ (a \o b)[n] = b[m]
<1>1. /\ Len(a \o b) = Len(a) + Len(b) /\ Len(a) \in Nat /\ Len(b) \in Nat
      /\ \A k \in 1..Len(a) : (a \o b)[k] = a[k]
      /\ \A k \in 1..Len(b) : (a \o b)[Len(a) + k] = b[k]
  BY Joined
<1>2. n \in 1..(Len(a) + Len(b))
  BY <1>1
<1>3. CASE n <= Len(a)
  BY <1>1, <1>2, <1>3
<1>4. CASE ~(n <= Len(a))
  <2>1. n - Len(a) \in 1..Len(b) /\ n = Len(a) + (n - Len(a))
    BY <1>1, <1>2, <1>4
  <2> QED
    BY <1>1, <2>1
<1> QED
  BY <1>3, <1>4

Charsets(text) == {n \in DOMAIN text : text[n].what = "lda charset"}

\* Text before the end of a line: of some time and code, without a change of
\* character set.
Body(text, time, code) ==
    /\ text \in Seq(Texts) /\ Time(text) = time /\ Code(text) = code
    /\ \A n \in 1..Len(text) : text[n].what # "lda charset"

LEMMA BodyJoined ==
    ASSUME NEW a, NEW b, NEW ta, NEW tb, NEW ca, NEW cb, Body(a, ta, ca), Body(b, tb, cb)
    PROVE  Body(a \o b, ta + tb, ca \o cb)
<1>1. a \in Seq(Texts) /\ b \in Seq(Texts)
  BY DEF Body
<1>2. a \o b \in Seq(Texts)
  BY <1>1, Joined
<1>3. Time(a \o b) = ta + tb /\ Code(a \o b) = ca \o cb
  BY <1>1, TimeConcat, CodeConcat DEF Body
<1>4. ASSUME NEW n \in 1..Len(a \o b)
      PROVE  (a \o b)[n].what # "lda charset"
  <2>1. CASE n \in 1..Len(a) /\ (a \o b)[n] = a[n]
    BY <2>1 DEF Body
  <2>2. CASE \E m \in 1..Len(b) : n = Len(a) + m /\ (a \o b)[n] = b[m]
    BY <2>2 DEF Body
  <2> QED
    BY <1>1, <2>1, <2>2, JoinedPlaces
<1> QED
  BY <1>2, <1>3, <1>4 DEF Body

\* A line begins with no time.
LEMMA LineStarts == Body(<<Text("line", 0)>>, 0, <<>>)
<1> DEFINE t == Text("line", 0)
           s == <<t>>
<1>1. t \in Texts /\ t.what = "line" /\ t.cycles = 0
  BY TextTyped DEF Words
<1> HIDE DEF t
<1>2. s \in Seq(Texts) /\ Len(s) = 1 /\ s[1] = t
  BY <1>1
<1>3. Time(s) = 0
  BY <1>1, ShortTimes
<1> HIDE DEF s
<1>4. \A n \in 1..Len(s) : s[n] = t
  BY <1>2
<1>5. Code(s) = <<>>
  BY <1>1, <1>2, <1>4, PlainCode
<1>6. Body(s, 0, <<>>)
  BY <1>1, <1>2, <1>3, <1>4, <1>5 DEF Body
<1> QED
  BY <1>6 DEF s, t

\* Its instructions take the cycles of the line and are its code.
LEMMA InsTextsBody ==
    ASSUME NEW ins \in Seq(Instructions)
    PROVE  Body(InsTexts(ins), Cycles(ins), ins)
<1>1. /\ InsTexts(ins) \in Seq(Texts) /\ Len(InsTexts(ins)) = Len(ins)
      /\ Time(InsTexts(ins)) = Cycles(ins) /\ Code(InsTexts(ins)) = ins
      /\ \A n \in 1..Len(ins) : InsTexts(ins)[n] = InsText(ins[n])
  BY InsTextsAre
<1>2. \A n \in 1..Len(ins) : ins[n] \in Instructions
  BY ElementOfSeq
<1>3. \A n \in 1..Len(ins) : InsTexts(ins)[n].what = "instruction"
  BY <1>1, <1>2, TextTyped
<1> QED
  BY <1>1, <1>3 DEF Body

\* An even number of cycles is completed to an even limit.
LEMMA FillerBody ==
    ASSUME NEW line, NEW limit \in Nat, limit % 2 = 0,
           line.cycles \in Nat, line.cycles % 2 = 0, line.cycles <= limit
    PROVE  Body(Filler(line, limit), limit - line.cycles, <<>>)
<1> DEFINE c == line.cycles
           d == (limit - c + 1) \div 2
           t == Text("filler", 2 * d)
<1>0. c \in Nat /\ c % 2 = 0 /\ c <= limit
  OBVIOUS
<1>1. Filler(line, limit) = IF c >= limit THEN <<>> ELSE <<t>>
  BY DEF Filler
<1> HIDE DEF c
<1>2. CASE c >= limit
  <2>1. limit - c = 0 /\ Filler(line, limit) = <<>>
    BY <1>0, <1>1, <1>2
  <2> DEFINE e == <<>>
  <2>2. e \in Seq(Texts) /\ Len(e) = 0 /\ e = <<>>
    OBVIOUS
  <2> HIDE DEF e
  <2>3. \A n \in 1..Len(e) : e[n].what \notin {"instruction", "lda charset"}
    <3>1. 1..Len(e) = {}
      BY <2>2
    <3> QED
      BY <3>1
  <2>5. Code(e) = <<>>
    BY <2>2, <2>3, PlainCode
  <2>4. Body(<<>>, 0, <<>>)
    BY <2>2, <2>3, <2>5, ShortTimes DEF Body
  <2> QED
    BY <2>1, <2>4 DEF c
<1>3. CASE ~(c >= limit)
  <2>1. 2 * d = limit - c /\ limit - c \in Nat /\ 2 * d \in Nat
    BY <1>0
  <2> HIDE DEF d
  <2>2. t \in Texts /\ t.what = "filler" /\ t.cycles = limit - c
    <3>1. "filler" \in Words
      BY DEF Words
    <3> DEFINE w == 2 * d
    <3> HIDE DEF w
    <3>2. w \in Nat /\ w = limit - c
      BY <2>1 DEF w
    <3>3. Text("filler", w) \in Texts /\ Text("filler", w).what = "filler"
          /\ Text("filler", w).cycles = w
      BY <3>1, <3>2, TextTyped
    <3> QED
      BY <3>2, <3>3 DEF w
  <2> HIDE DEF t
  <2> DEFINE s == <<t>>
  <2>3. s \in Seq(Texts) /\ Len(s) = 1 /\ s[1] = t
    BY <2>2
  <2>4. Time(s) = limit - c
    BY <2>2, ShortTimes
  <2>5. Filler(line, limit) = s
    BY <1>1, <1>3
  <2> HIDE DEF s
  <2>6. \A n \in 1..Len(s) : s[n] = t
    BY <2>3
  <2>7. Code(s) = <<>>
    BY <2>2, <2>3, <2>6, PlainCode
  <2> QED
    BY <2>2, <2>3, <2>4, <2>5, <2>6, <2>7 DEF Body, c
<1> QED
  BY <1>2, <1>3

\* The end of a line takes its suffix; it changes the character set where that
\* changes, and to the one of the next line.
Ends(text, y, suffix, change) ==
    /\ text \in Seq(Texts) /\ Time(text) = suffix /\ Code(text) = <<>>
    /\ change = (\E n \in 1..Len(text) : text[n].what = "lda charset")
    /\ \A n \in 1..Len(text) : text[n].what = "lda charset" => text[n].charset = y \div 24 + 1

\* Text that is no instruction and changes no character set, and text that does.
Quiet(e) == e \in Texts /\ e.what # "instruction" /\ e.what # "lda charset"

ChangesTo(e, charset) == e \in Texts /\ e.what = "lda charset" /\ e.charset = charset

LEMMA OneEnd ==
    ASSUME NEW e, Quiet(e), NEW y
    PROVE  Ends(<<e>>, y, e.cycles, FALSE)
<1> DEFINE t == <<e>>
<1>0. e.what # "instruction" /\ e.what # "lda charset"
  BY DEF Quiet
<1>t. e \in Texts
  BY DEF Quiet
<1>1. t \in Seq(Texts) /\ Len(t) = 1 /\ t[1] = e
  BY <1>t
<1>2. Time(t) = e.cycles
  BY <1>t, ShortTimes
<1> HIDE DEF t
<1>3. \A m \in 1..Len(t) : t[m] = e
  BY <1>1
<1>4. Code(t) = <<>>
  BY <1>0, <1>1, <1>3, PlainCode
<1>5. Ends(t, y, e.cycles, FALSE)
  BY <1>0, <1>1, <1>2, <1>3, <1>4 DEF Ends
<1> QED
  BY <1>5 DEF t

LEMMA TwoEnds ==
    ASSUME NEW e, NEW f, Quiet(e), Quiet(f), NEW y
    PROVE  Ends(<<e, f>>, y, e.cycles + f.cycles, FALSE)
<1> DEFINE t == <<e, f>>
<1>0. /\ e.what # "instruction" /\ e.what # "lda charset"
      /\ f.what # "instruction" /\ f.what # "lda charset"
  BY DEF Quiet
<1>t. e \in Texts /\ f \in Texts
  BY DEF Quiet
<1>1. t \in Seq(Texts) /\ Len(t) = 2 /\ t[1] = e /\ t[2] = f
  BY <1>t
<1>2. Time(t) = e.cycles + f.cycles
  BY <1>t, ShortTimes
<1> HIDE DEF t
<1>3. \A m \in 1..Len(t) : t[m] = e \/ t[m] = f
  BY <1>1
<1>4. Code(t) = <<>>
  BY <1>0, <1>1, <1>3, PlainCode
<1>5. Ends(t, y, e.cycles + f.cycles, FALSE)
  BY <1>0, <1>1, <1>2, <1>3, <1>4 DEF Ends
<1> QED
  BY <1>5 DEF t

LEMMA FiveEnds ==
    ASSUME NEW a, NEW b, NEW c, NEW d, NEW e, Quiet(a), Quiet(b), Quiet(d), Quiet(e), NEW y,
           ChangesTo(c, y \div 24 + 1)
    PROVE  Ends(<<a, b, c, d, e>>, y, a.cycles + b.cycles + c.cycles + d.cycles + e.cycles, TRUE)
<1> DEFINE t == <<a, b, c, d, e>>
           C == y \div 24 + 1
           N == a.cycles + b.cycles + c.cycles + d.cycles + e.cycles
<1>t. a \in Texts /\ b \in Texts /\ c \in Texts /\ d \in Texts /\ e \in Texts
  BY DEF Quiet, ChangesTo
<1>0. /\ \A x \in {a, b, d, e} : x.what # "instruction" /\ x.what # "lda charset"
  BY DEF Quiet
<1>q. c.what # "instruction" /\ c.charset = C
  BY DEF ChangesTo
<1> HIDE DEF C
<1>1. /\ t \in Seq(Texts) /\ Len(t) = 5 /\ t[1] = a /\ t[2] = b /\ t[3] = c
      /\ t[4] = d /\ t[5] = e
  BY <1>t
<1>2. Time(t) = N
  BY <1>t, ShortTimes
<1> HIDE DEF t, N
<1>d. 1..Len(t) = {1, 2, 3, 4, 5}
  BY <1>1
<1>3. \A m \in 1..Len(t) : t[m] \in {a, b, d, e} \/ t[m] = c
  BY <1>1, <1>d
<1>4. \A m \in 1..Len(t) : t[m].what # "instruction"
  BY <1>0, <1>3, <1>q
<1>5. Code(t) = <<>>
  BY <1>1, <1>4, PlainCode
<1>6. \A m \in 1..Len(t) : t[m].what = "lda charset" => t[m].charset = C
  BY <1>0, <1>3, <1>q
<1>7. \E m \in 1..Len(t) : t[m].what = "lda charset"
  <2>1. 3 \in 1..Len(t)
    BY <1>d
  <2>2. c.what = "lda charset"
    BY DEF ChangesTo
  <2> QED
    BY <1>1, <2>1, <2>2
<1>8. Ends(t, y, N, TRUE)
  BY <1>1, <1>2, <1>5, <1>6, <1>7 DEF Ends, C
<1> QED
  BY <1>8 DEF t, N

LEMMA EndWords ==
    /\ Quiet(Text("cmp byt2", 3)) /\ Text("cmp byt2", 3).cycles = 3
    /\ Quiet(Text("bit $ffff, mode E end", 4)) /\ Text("bit $ffff, mode E end", 4).cycles = 4
    /\ Quiet(Text("chbase begin", 0)) /\ Text("chbase begin", 0).cycles = 0
    /\ Quiet(Text("bit byt2", 3)) /\ Text("bit byt2", 3).cycles = 3
    /\ Quiet(Text("bit $ffff", 4)) /\ Text("bit $ffff", 4).cycles = 4
    /\ Quiet(Text("sta CHBASE", 4)) /\ Text("sta CHBASE", 4).cycles = 4
    /\ Quiet(Text("chbase end", 0)) /\ Text("chbase end", 0).cycles = 0
    /\ Quiet(Text("bit byt2, ANTIC 4 end", 3)) /\ Text("bit byt2, ANTIC 4 end", 3).cycles = 3
    /\ Quiet(Text("nop, ANTIC 4 end", 2)) /\ Text("nop, ANTIC 4 end", 2).cycles = 2
    /\ Quiet(Text("bit $ffff, ANTIC 4 end", 4)) /\ Text("bit $ffff, ANTIC 4 end", 4).cycles = 4
<1>1. ASSUME NEW what \in Words, NEW n \in Nat, what # "instruction", what # "lda charset"
      PROVE  Quiet(Text(what, n)) /\ Text(what, n).cycles = n
  BY <1>1, TextTyped DEF Quiet
<1>2. /\ "cmp byt2" \in Words /\ "bit $ffff, mode E end" \in Words /\ "chbase begin" \in Words
      /\ "bit byt2" \in Words /\ "bit $ffff" \in Words /\ "sta CHBASE" \in Words
      /\ "chbase end" \in Words /\ "bit byt2, ANTIC 4 end" \in Words
      /\ "nop, ANTIC 4 end" \in Words /\ "bit $ffff, ANTIC 4 end" \in Words
  BY DEF Words
<1>3. 0 \in Nat /\ 2 \in Nat /\ 3 \in Nat /\ 4 \in Nat
  OBVIOUS
<1> QED
  BY <1>1, <1>2, <1>3

\* Whatever the schedule, the end of a line takes exactly the suffix.
LEMMA LineEndIs ==
    ASSUME NEW s, NEW y \in Nat, NEW mode, NEW wide, Shaped(s, mode, wide)
    PROVE  Ends(LineEnd(s, y, mode), y, s.suffix, s.transition)
<1> DEFINE C == y \div 24 + 1
           charset == [Text("lda charset", 2) EXCEPT !.charset = C]
<1>0. C \in Nat
  OBVIOUS
<1>1. charset \in Texts /\ charset.what = "lda charset" /\ charset.cycles = 2 /\ charset.charset = C
  <2> HIDE DEF C
  <2> DEFINE base == Text("lda charset", 2)
  <2>0. base = [what |-> "lda charset", cycles |-> 2, ins |-> Nop, charset |-> 0]
    BY DEF Text
  <2>b. charset = [base EXCEPT !.charset = C]
    OBVIOUS
  <2> HIDE DEF base, charset
  <2>1. charset = [what |-> "lda charset", cycles |-> 2, ins |-> Nop, charset |-> C]
    BY <2>0, <2>b
  <2>2. "lda charset" \in Words /\ 2 \in Nat /\ Nop \in Instructions
    BY InstructionType DEF Words
  <2>3. charset \in Texts
    BY <1>0, <2>1, <2>2 DEF Texts
  <2> QED
    BY <2>1, <2>3
<1> DEFINE cmp == Text("cmp byt2", 3)
           bit == Text("bit $ffff, mode E end", 4)
           begin == Text("chbase begin", 0)
           byt2 == Text("bit byt2", 3)
           ffff == Text("bit $ffff", 4)
           sta == Text("sta CHBASE", 4)
           end == Text("chbase end", 0)
           byt2End == Text("bit byt2, ANTIC 4 end", 3)
           nopEnd == Text("nop, ANTIC 4 end", 2)
           ffffEnd == Text("bit $ffff, ANTIC 4 end", 4)
<1>5. /\ Quiet(cmp) /\ Quiet(bit) /\ Quiet(begin) /\ Quiet(byt2) /\ Quiet(ffff) /\ Quiet(sta)
      /\ Quiet(end) /\ Quiet(byt2End) /\ Quiet(nopEnd) /\ Quiet(ffffEnd)
      /\ cmp.cycles = 3 /\ bit.cycles = 4 /\ begin.cycles = 0 /\ byt2.cycles = 3
      /\ ffff.cycles = 4 /\ sta.cycles = 4 /\ end.cycles = 0 /\ byt2End.cycles = 3
      /\ nopEnd.cycles = 2 /\ ffffEnd.cycles = 4
  BY EndWords
<1>6. LineEnd(s, y, mode) =
        IF mode = "E" THEN IF s.suffix = 3 THEN <<cmp>> ELSE <<bit>>
        ELSE IF s.transition
        THEN <<begin, IF s.suffix = 9 THEN byt2 ELSE ffff, charset, sta, end>>
        ELSE IF s.suffix = 5 THEN <<byt2End, nopEnd>> ELSE <<ffffEnd>>
  BY DEF LineEnd
<1> HIDE DEF cmp, bit, begin, byt2, ffff, sta, end, byt2End, nopEnd, ffffEnd, charset, C
<1>7. CASE mode = "E"
  <2>1. s.suffix \in {3, 4} /\ s.transition = FALSE
    BY <1>7 DEF Shaped
  <2>2. Ends(<<cmp>>, y, cmp.cycles, FALSE) /\ Ends(<<bit>>, y, bit.cycles, FALSE)
    BY <1>5, OneEnd
  <2>3. CASE s.suffix = 3
    BY <1>5, <1>6, <1>7, <2>1, <2>2, <2>3
  <2>4. CASE s.suffix = 4
    BY <1>5, <1>6, <1>7, <2>1, <2>2, <2>4
  <2> QED
    BY <2>1, <2>3, <2>4
<1>8. CASE mode # "E" /\ s.transition = TRUE
  <2>1. s.suffix \in {9, 10}
    BY <1>8 DEF Shaped
  <2>2. Ends(<<begin, byt2, charset, sta, end>>, y,
             begin.cycles + byt2.cycles + charset.cycles + sta.cycles + end.cycles, TRUE)
    BY <1>1, <1>5, FiveEnds DEF C, ChangesTo
  <2>3. Ends(<<begin, ffff, charset, sta, end>>, y,
             begin.cycles + ffff.cycles + charset.cycles + sta.cycles + end.cycles, TRUE)
    BY <1>1, <1>5, FiveEnds DEF C, ChangesTo
  <2>4. begin.cycles + byt2.cycles + charset.cycles + sta.cycles + end.cycles = 9
    <3>1. /\ begin.cycles = 0 /\ byt2.cycles = 3 /\ charset.cycles = 2
          /\ sta.cycles = 4 /\ end.cycles = 0
      BY <1>1, <1>5
    <3> QED
      BY <3>1
  <2>5. begin.cycles + ffff.cycles + charset.cycles + sta.cycles + end.cycles = 10
    <3>1. /\ begin.cycles = 0 /\ ffff.cycles = 4 /\ charset.cycles = 2
          /\ sta.cycles = 4 /\ end.cycles = 0
      BY <1>1, <1>5
    <3> QED
      BY <3>1
  <2>6. CASE s.suffix = 9
    <3>1. Ends(<<begin, byt2, charset, sta, end>>, y, 9, TRUE)
      BY <2>2, <2>4
    <3>2. LineEnd(s, y, mode) = <<begin, byt2, charset, sta, end>>
      BY <1>6, <1>8, <2>6
    <3> QED
      BY <1>8, <2>6, <3>1, <3>2
  <2>7. CASE s.suffix = 10
    <3>1. Ends(<<begin, ffff, charset, sta, end>>, y, 10, TRUE)
      BY <2>3, <2>5
    <3>2. LineEnd(s, y, mode) = <<begin, ffff, charset, sta, end>>
      BY <1>6, <1>8, <2>7
    <3> QED
      BY <1>8, <2>7, <3>1, <3>2
  <2> QED
    BY <2>1, <2>6, <2>7
<1>9. CASE mode # "E" /\ s.transition = FALSE
  <2>1. s.suffix \in {4, 5}
    BY <1>9 DEF Shaped
  <2>2. Ends(<<byt2End, nopEnd>>, y, byt2End.cycles + nopEnd.cycles, FALSE)
        /\ Ends(<<ffffEnd>>, y, ffffEnd.cycles, FALSE)
    BY <1>5, OneEnd, TwoEnds
  <2>3. byt2End.cycles + nopEnd.cycles = 5
    BY <1>5
  <2>e. ffffEnd.cycles = 4
    BY <1>5
  <2>4. CASE s.suffix = 5
    BY <1>6, <1>9, <2>2, <2>3, <2>4
  <2>5. CASE s.suffix = 4
    <3>1. LineEnd(s, y, mode) = <<ffffEnd>>
      BY <1>6, <1>9, <2>5
    <3>2. Ends(<<ffffEnd>>, y, 4, FALSE)
      BY <2>2, <2>e
    <3> QED
      BY <1>9, <2>5, <3>1, <3>2
  <2> QED
    BY <2>1, <2>4, <2>5
<1> QED
  BY <1>7, <1>8, <1>9 DEF Shaped

\* A whole text, with its time, its code and its change of character set.
Whole(text, y, time, code, change) ==
    /\ text \in Seq(Texts) /\ Time(text) = time /\ Code(text) = code
    /\ change = (\E n \in 1..Len(text) : text[n].what = "lda charset")
    /\ \A n \in 1..Len(text) : text[n].what = "lda charset" => text[n].charset = y \div 24 + 1

\* A body and an end.
LEMMA EndsAfter ==
    ASSUME NEW a, NEW b, NEW time, NEW code, NEW y, NEW suffix, NEW change,
           Body(a, time, code), Ends(b, y, suffix, change)
    PROVE  Whole(a \o b, y, time + suffix, code \o <<>>, change)
<1> DEFINE C == y \div 24 + 1
<1>1. /\ a \in Seq(Texts) /\ Time(a) = time /\ Code(a) = code
      /\ \A n \in 1..Len(a) : a[n].what # "lda charset"
  BY DEF Body
<1>2. /\ b \in Seq(Texts) /\ Time(b) = suffix /\ Code(b) = <<>>
      /\ change = (\E n \in 1..Len(b) : b[n].what = "lda charset")
      /\ \A n \in 1..Len(b) : b[n].what = "lda charset" => b[n].charset = C
  BY DEF Ends
<1> HIDE DEF C
<1>3. a \o b \in Seq(Texts) /\ Time(a \o b) = time + suffix /\ Code(a \o b) = code \o <<>>
  <2>1. a \in Seq(Texts) /\ b \in Seq(Texts)
    BY <1>1, <1>2
  <2>2. a \o b \in Seq(Texts)
    BY <2>1, Joined
  <2>3. Time(a \o b) = Time(a) + Time(b) /\ Code(a \o b) = Code(a) \o Code(b)
    BY <2>1, TimeConcat, CodeConcat
  <2> QED
    BY <1>1, <1>2, <2>2, <2>3
<1>4. \A n \in 1..Len(a \o b) : \/ (a \o b)[n].what # "lda charset"
                                \/ \E m \in 1..Len(b) : (a \o b)[n] = b[m]
  BY <1>1, <1>2, JoinedPlaces
<1>5. \A m \in 1..Len(b) : Len(a) + m \in 1..Len(a \o b) /\ (a \o b)[Len(a) + m] = b[m]
  <2>1. /\ Len(a \o b) = Len(a) + Len(b) /\ Len(a) \in Nat /\ Len(b) \in Nat
        /\ \A n \in 1..Len(b) : (a \o b)[Len(a) + n] = b[n]
    BY <1>1, <1>2, Joined
  <2> QED
    BY <2>1
<1>6. change = (\E n \in 1..Len(a \o b) : (a \o b)[n].what = "lda charset")
  BY <1>2, <1>4, <1>5, ZenonT(30)
<1>7. \A n \in 1..Len(a \o b) :
        (a \o b)[n].what = "lda charset" => (a \o b)[n].charset = C
  BY <1>2, <1>4
<1> QED
  BY <1>3, <1>6, <1>7 DEF C, Whole

\* What the text of a line does, if the line is legal.
TextDoes(text, y, s, ins) ==
    /\ text \in Seq(Texts) /\ Time(text) = Len(s.slots) /\ Code(text) = ins
    /\ (Charsets(text) # {}) = s.transition
    /\ Charsets(text) # {} => text[Max(Charsets(text))].charset = y \div 24 + 1

\* A legal line's text takes every slot of its line, runs the line's instructions
\* and changes the character set where the schedule says so.
LEMMA LineTextDoes ==
    ASSUME NEW p, NEW y \in Nat, NEW s, s = ScheduleOf(p, y),
           Roomy(s), Shaped(s, p.mode, p.wide),
           NEW ins \in Seq(Instructions), p.lines[y].ins = ins,
           p.lines[y].cycles = Cycles(ins), Cycles(ins) <= s.limit
    PROVE  TextDoes(LineText(p, y), y, s, ins)
<1> DEFINE line == p.lines[y]
           a == <<Text("line", 0)>>
           b == InsTexts(ins)
           c == Filler(line, s.limit)
           d == LineEnd(s, y, p.mode)
           C == y \div 24 + 1
           time == (0 + Cycles(ins)) + (s.limit - Cycles(ins))
<1>1. LineText(p, y) = ((a \o b) \o c) \o d
  BY DEF LineText, InsTexts
<1>2. Body(a, 0, <<>>)
  BY LineStarts
<1>3. Body(b, Cycles(ins), ins)
  BY InsTextsBody
<1>4. Cycles(ins) \in Nat /\ Cycles(ins) % 2 = 0
  BY CyclesEven
<1>5. s.limit \in Nat /\ s.limit % 2 = 0 /\ s.suffix \in Nat /\ Len(s.slots) = s.limit + s.suffix
  BY DEF Roomy
<1>6. Body(c, s.limit - Cycles(ins), <<>>)
  <2> DEFINE limit == s.limit
  <2>1. /\ limit \in Nat /\ limit % 2 = 0 /\ line.cycles \in Nat /\ line.cycles % 2 = 0
        /\ line.cycles <= limit /\ line.cycles = Cycles(ins)
    BY <1>4, <1>5
  <2> HIDE DEF limit, line
  <2>2. Body(Filler(line, limit), limit - line.cycles, <<>>)
    BY <2>1, FillerBody
  <2> QED
    BY <2>1, <2>2 DEF limit
<1>7. Ends(d, y, s.suffix, s.transition)
  BY LineEndIs
<1> HIDE DEF a, b, c, d, line
<1>8. Body((a \o b) \o c, time, (<<>> \o ins) \o <<>>)
  <2>1. Body(a \o b, 0 + Cycles(ins), <<>> \o ins)
    BY <1>2, <1>3, BodyJoined
  <2> QED
    BY <1>6, <2>1, BodyJoined
<1>9. ((<<>> \o ins) \o <<>>) \o <<>> = ins
  <2>1. <<>> \o ins = ins /\ ins \o <<>> = ins
    BY ConcatEmptySeq
  <2> QED
    BY <2>1
<1>10. time + s.suffix = Len(s.slots)
  BY <1>4, <1>5
<1> DEFINE body == (a \o b) \o c
           code == (<<>> \o ins) \o <<>>
           text == body \o d
<1>11. Body(body, time, code)
  BY <1>8
<1> HIDE DEF body, code, time
<1>12. /\ text \in Seq(Texts) /\ Time(text) = time + s.suffix /\ Code(text) = code \o <<>>
       /\ s.transition = (\E n \in 1..Len(text) : text[n].what = "lda charset")
       /\ \A n \in 1..Len(text) : text[n].what = "lda charset" => text[n].charset = C
  <2> DEFINE suffix == s.suffix
             change == s.transition
  <2>1. Ends(d, y, suffix, change)
    BY <1>7
  <2> HIDE DEF suffix, change
  <2>2. Whole(body \o d, y, time + suffix, code \o <<>>, change)
    BY <1>11, <2>1, EndsAfter
  <2> QED
    BY <2>2 DEF suffix, change, Whole, C
<1> HIDE DEF text, C
<1>s. text \in Seq(Texts)
  BY <1>12
<1>13. DOMAIN text = 1..Len(text) /\ Len(text) \in Nat
  BY <1>s
<1>14. (Charsets(text) # {}) = s.transition
  BY <1>12, <1>13 DEF Charsets
<1>15. ASSUME Charsets(text) # {}
       PROVE  text[Max(Charsets(text))].charset = C
  <2>1. Charsets(text) \in SUBSET Nat /\ \A n \in Charsets(text) : n <= Len(text)
    <3>1. Charsets(text) \subseteq DOMAIN text
      BY DEF Charsets
    <3> QED
      BY <1>13, <3>1
  <2>2. Max(Charsets(text)) \in Charsets(text)
    BY <1>13, <1>15, <2>1, MaxIsGreatest
  <2> QED
    BY <1>12, <1>13, <2>2 DEF Charsets
<1>16. TextDoes(text, y, s, ins)
  <2>1. Time(text) = Len(s.slots) /\ Code(text) = ins
    BY <1>9, <1>10, <1>12 DEF code
  <2> QED
    BY <1>12, <1>14, <1>15, <2>1 DEF TextDoes, C
<1> QED
  BY <1>1, <1>16 DEF text, body

\* What a line of a legal program is.
LEMMA LineOfProgram ==
    ASSUME NEW pc \in Pictures, NEW p, ProgramOf(pc, p), NEW y \in Rows(pc)
    PROVE  /\ y \in Nat /\ p.mode = pc.mode /\ p.wide = pc.wide
           /\ p.lines[y].ins \in Seq(Instructions)
           /\ p.lines[y].cycles = Cycles(p.lines[y].ins)
           /\ Cycles(p.lines[y].ins) <= ScheduleOf(p, y).limit
           /\ Roomy(ScheduleOf(p, y)) /\ Shaped(ScheduleOf(p, y), p.mode, p.wide)
<1>1. y \in Nat /\ pc.mode \in {"E", "ANTIC4"} /\ pc.wide \in BOOLEAN
  BY PictureParts DEF Rows
<1>2. p.mode = pc.mode /\ p.wide = pc.wide /\ Limit(p, y) = LimitAt(pc, y)
  BY ProgramLimits
<1>3. Fits(pc, p.lines[y], y)
  BY DEF ProgramOf
<1>4. /\ p.lines[y].ins \in Seq(Instructions) /\ p.lines[y].cycles = Cycles(p.lines[y].ins)
      /\ p.lines[y].cycles <= LimitAt(pc, y)
  BY <1>3 DEF Fits, LineType
<1>5. Roomy(ScheduleOf(p, y)) /\ Shaped(ScheduleOf(p, y), p.mode, p.wide)
  <2>1. p.mode \in {"E", "ANTIC4"} /\ p.wide \in BOOLEAN
    BY <1>1, <1>2
  <2> QED
    BY <1>1, <2>1, ScheduleFits DEF ScheduleOf
<1> QED
  BY <1>1, <1>2, <1>4, <1>5 DEF Limit

\* No instruction takes longer than the line.
LEMMA StepEnds ==
    ASSUME NEW ins \in Seq(Instructions), NEW n \in 1..Len(ins)
    PROVE  StartCycle(ins, n) + Cost(ins[n]) <= Cycles(ins)
<1>1. StartCycle(ins, n + 1) = StartCycle(ins, n) + Cost(ins[n])
  BY StartStep
<1>2. Len(ins) \in Nat
  OBVIOUS
<1>3. Cycles(ins) \in Nat
  BY CyclesEven
<1>4. CASE n = Len(ins)
  <2>1. StartCycle(ins, n + 1) = Cycles(ins)
    BY <1>4, StartEnds
  <2> QED
    BY <1>1, <1>3, <2>1
<1>5. CASE n # Len(ins)
  <2> DEFINE m == n + 1
  <2>1. m \in 1..Len(ins)
    BY <1>2, <1>5
  <2> HIDE DEF m
  <2>2. StartCycle(ins, m) \in Nat /\ StartCycle(ins, m) <= Cycles(ins) - 2
    BY <2>1, StartsBefore
  <2>3. StartCycle(ins, m) = StartCycle(ins, n) + Cost(ins[n])
    BY <1>1 DEF m
  <2> QED
    BY <1>3, <2>2, <2>3
<1> QED
  BY <1>4, <1>5

\* In ANTIC 4, too, the right edge cuts nothing off.
LEMMA EveryExecuted ==
    ASSUME NEW pc \in Pictures, NEW p, ProgramOf(pc, p), NEW y \in Rows(pc)
    PROVE  Executed(p, y) = Len(p.lines[y].ins)
<1> DEFINE ins == p.lines[y].ins
           s == ScheduleOf(p, y)
<1>1. /\ y \in Nat /\ p.mode = pc.mode /\ p.wide = pc.wide /\ ins \in Seq(Instructions)
      /\ Cycles(ins) <= s.limit /\ Roomy(s) /\ Shaped(s, p.mode, p.wide)
  BY LineOfProgram
<1>2. CASE p.mode = "E"
  BY <1>2, AllExecuted
<1>3. CASE p.mode # "E"
  <2>1. p.mode = "ANTIC4" /\ p.wide \in BOOLEAN
    BY <1>1, <1>3, PictureParts
  <2> HIDE DEF s, ins
  <2>2. s.start = (IF p.wide THEN 22 ELSE 24) /\ UpTo(s.slots, 105)
    BY <1>1, <1>3 DEF Shaped
  <2>3. s.limit \in Nat /\ s.suffix \in Nat /\ Len(s.slots) = s.limit + s.suffix
    BY <1>1 DEF Roomy
  <2>4. ASSUME NEW n \in 1..Len(ins)
        PROVE  Completion(p, s, ins[n], StartCycle(ins, n)) < VisibleWidth(p.wide) + 15
    <3> DEFINE c == StartCycle(ins, n)
               k == Cost(ins[n])
               slots == s.slots
               v == slots[c + k]
    <3>1. c \in Nat /\ c + k <= Cycles(ins) /\ Cycles(ins) \in Nat
      BY <1>1, StartStep, StepEnds, CyclesEven
    <3>2. k \in {2, 4}
      <4>1. ins[n] \in Instructions
        BY <1>1, ElementOfSeq
      <4> QED
        BY <4>1, InstructionParts
    <3>3. Completion(p, s, ins[n], c) = (slots[(c + k - 1) + 1] - s.start) * 2
      BY <2>1 DEF Completion, Offset
    <3> HIDE DEF c, k, slots
    <3>4. c + k \in 1..Len(slots) /\ (c + k - 1) + 1 = c + k
      BY <1>1, <2>3, <3>1, <3>2 DEF slots
    <3>5. v \in Int /\ v <= 105
      <4>1. slots \in Seq(Int) /\ \A i \in 1..Len(slots) : slots[i] <= 105
        BY <2>2 DEF UpTo, slots
      <4>2. slots[c + k] \in Int
        BY <3>4, <4>1, ElementOfSeq
      <4> QED
        BY <3>4, <4>1, <4>2
    <3>6. Completion(p, s, ins[n], c) = (v - s.start) * 2
      BY <3>3, <3>4
    <3> HIDE DEF v
    <3>7. CASE p.wide
      BY <2>2, <3>5, <3>6, <3>7 DEF VisibleWidth, c
    <3>8. CASE ~p.wide
      BY <2>2, <3>5, <3>6, <3>8 DEF VisibleWidth, c
    <3> QED
      BY <3>7, <3>8
  <2>5. DOMAIN ins = 1..Len(ins) /\ Len(ins) \in Nat
    BY <1>1
  <2>6. {n \in DOMAIN ins : Completion(p, s, ins[n], StartCycle(ins, n))
                              < VisibleWidth(p.wide) + 15} = 1..Len(ins)
    BY <2>4, <2>5
  <2>7. Executed(p, y) = Cardinality(1..Len(ins))
    BY <2>6 DEF Executed, ins, s
  <2> QED
    BY <2>5, <2>7, IntervalCount DEF ins
<1> QED
  BY <1>2, <1>3

-----------------------------------------------------------------------------
(* The next use of each register, from the last line back to the first.      *)

UseKinds == {"none", "load", "store"}
Uses == [Regs -> UseKinds]

\* The next use of a register is one of three kinds.
LEMMA FirstUseType ==
    ASSUME NEW ins \in Seq(Instructions), NEW n \in Nat, n >= 1, NEW r \in Regs,
           NEW otherwise \in UseKinds
    PROVE  FirstUse(ins, n, r, otherwise) \in UseKinds
<1> DEFINE uses == {m \in n..Len(ins) : ins[m].op # "nop" /\ ins[m].reg = r}
<1>1. Len(ins) \in Nat
  OBVIOUS
<1>2. CASE uses = {}
  BY <1>2 DEF FirstUse
<1>3. CASE uses # {}
  <2>1. uses \in SUBSET Nat /\ \A m \in uses : m \in 1..Len(ins) /\ ins[m].op # "nop"
    BY <1>1
  <2> HIDE DEF uses
  <2>2. Min(uses) \in uses
    BY <1>3, <2>1, MinIsLeast
  <2>3. ins[Min(uses)] \in Instructions /\ ins[Min(uses)].op # "nop"
    BY <2>1, <2>2, ElementOfSeq
  <2>4. ins[Min(uses)].op \in {"load", "store"}
    BY <2>3 DEF Instructions, Nop
  <2>5. FirstUse(ins, n, r, otherwise) = ins[Min(uses)].op
    BY <1>3 DEF FirstUse, uses
  <2> QED
    BY <2>4, <2>5 DEF UseKinds
<1> QED
  BY <1>2, <1>3

NextUses(p, h, next) ==
    /\ next \in [0..h -> Uses]
    /\ \A y \in 0..(h - 1) : \A r \in Regs :
         next[y][r] = FirstUse(p.lines[y].ins, 1, r, next[y + 1][r])

\* A line without the loads whose value nothing uses, if the lines that follow
\* use the registers so.
DeadIn(ins, then, n) ==
    ins[n].op = "load" /\ FirstUse(ins, n + 1, ins[n].reg, then[ins[n].reg]) = "load"

Cleared(ins, then) == [n \in DOMAIN ins |-> IF DeadIn(ins, then, n) THEN Nop ELSE ins[n]]

Without(p, next) ==
    [p EXCEPT !.lines = [y \in DOMAIN p.lines |->
        [p.lines[y] EXCEPT !.ins = Cleared(p.lines[y].ins, next[y + 1])]]]

\* There are next uses, from the last line back, and the optimized program is
\* the program without the loads that are dead by them.
LEMMA OptimizedIs ==
    ASSUME NEW p, NEW h, Lined(p, h)
    PROVE  \E next : NextUses(p, h, next) /\ Optimized(p) = Without(p, next)
<1> DEFINE H == Height(p)
           X == Uses
           Out(y, x) == [r \in Regs |-> FirstUse(p.lines[y].ins, 1, r, x[r])]
           none == [r \in Regs |-> "none"]
           G == [n \in 1..H |-> [x \in X |-> Out(H - n, x)]]
           Is(g) == g = [y \in 0..H |-> [r \in Regs |-> IF y = H THEN "none"
                           ELSE FirstUse(p.lines[y].ins, 1, r, g[y + 1][r])]]
           k == CHOOSE f : Is(f)
<1>0. H \in Nat /\ H = h
  BY HeightOf DEF Lined
<1>1. Optimized(p) = Without(p, k)
  BY DEF Optimized, Without, Cleared, DeadIn
<1> HIDE DEF H
<1>2. ASSUME NEW y \in 0..(H - 1), NEW x \in X
      PROVE  Out(y, x) \in X
  <2>1. p.lines[y].ins \in Seq(Instructions)
    BY <1>0 DEF Lined
  <2>2. 1 \in Nat /\ 1 >= 1
    OBVIOUS
  <2>3. \A r \in Regs : FirstUse(p.lines[y].ins, 1, r, x[r]) \in UseKinds
    BY <2>1, <2>2, FirstUseType DEF Uses
  <2> QED
    BY <2>3 DEF Uses
<1>3. none \in X
  BY DEF Uses, UseKinds
<1>o. \A g : \A y \in 0..H : [r \in Regs |-> IF y = H THEN "none"
               ELSE FirstUse(p.lines[y].ins, 1, r, g[y + 1][r])]
             = IF y = H THEN none ELSE Out(y, g[y + 1])
  OBVIOUS
<1>4. \E g \in [0..H -> X] : Is(g)
  <2> HIDE DEF Out, X, none
  <2>1. G \in [1..H -> [X -> X]]
    <3>1. \A n \in 1..H : H - n \in 0..(H - 1)
      BY <1>0
    <3> QED
      BY <1>2, <3>1
  <2>2. PICK f \in [0..H -> X] : f[0] = none /\ \A n \in 1..H : f[n] = G[n][f[n - 1]]
    <3>1. Steps(H, X, none, G)
      BY <1>0, <1>3, <2>1 DEF Steps
    <3>2. Recursive(H, X, none, G)
      BY <3>1, RecursionExists
    <3> QED
      BY <3>2 DEF Recursive
  <2> DEFINE g == [y \in 0..H |-> f[H - y]]
  <2>3. \A y \in 0..H : H - y \in 0..H
    BY <1>0
  <2>4. g \in [0..H -> X]
    BY <2>3
  <2>5. ASSUME NEW y \in 0..H
        PROVE  g[y] = IF y = H THEN none ELSE Out(y, g[y + 1])
    <3>1. CASE y = H
      BY <1>0, <2>2, <3>1
    <3>2. CASE y # H
      <4>1. H - y \in 1..H /\ H - (H - y) = y /\ (H - y) - 1 = H - (y + 1) /\ y + 1 \in 0..H
            /\ (H - y) - 1 \in 0..H
        BY <1>0, <3>2
      <4>2. f[(H - y) - 1] \in X /\ g[y + 1] = f[(H - y) - 1]
        BY <4>1
      <4>3. f[H - y] = G[H - y][f[(H - y) - 1]]
        BY <2>2, <4>1
      <4>4. f[H - y] = Out(y, f[(H - y) - 1])
        BY <4>1, <4>2, <4>3
      <4> QED
        BY <3>2, <4>2, <4>4
    <3> QED
      BY <3>1, <3>2
  <2>6. Is(g)
    <3>1. \A y \in 0..H : g[y] = [r \in Regs |-> IF y = H THEN "none"
               ELSE FirstUse(p.lines[y].ins, 1, r, g[y + 1][r])]
      BY <1>o, <2>5
    <3>2. g = [y \in 0..H |-> g[y]]
      OBVIOUS
    <3> HIDE DEF g
    <3> QED
      BY <3>1, <3>2
  <2> HIDE DEF Is, g
  <2> QED
    BY <2>4, <2>6
<1>5. Is(k)
  <2> HIDE DEF Is
  <2> QED
    BY <1>4
<1>6. PICK g \in [0..H -> X] : Is(g)
  BY <1>4
<1> DEFINE B == {m \in 0..H : k[H - m] = g[H - m]}
<1>7. 0..H \subseteq B
  <2>1. \A y \in 0..H : k[y] = IF y = H THEN none ELSE Out(y, k[y + 1])
    <3>1. \A y \in 0..H : k[y] = [r \in Regs |-> IF y = H THEN "none"
               ELSE FirstUse(p.lines[y].ins, 1, r, k[y + 1][r])]
      BY <1>5
    <3> HIDE DEF k, Out, none, Is
    <3> QED
      BY <1>o, <3>1
  <2>2. \A y \in 0..H : g[y] = IF y = H THEN none ELSE Out(y, g[y + 1])
    <3>1. \A y \in 0..H : g[y] = [r \in Regs |-> IF y = H THEN "none"
               ELSE FirstUse(p.lines[y].ins, 1, r, g[y + 1][r])]
      BY <1>6
    <3> HIDE DEF k, Out, none, Is
    <3> QED
      BY <1>o, <3>1
  <2> HIDE DEF k, Out, none, Is
  <2>3. 0 \in B
    <3>1. H - 0 = H /\ H \in 0..H /\ 0 \in 0..H
      BY <1>0
    <3> QED
      BY <2>1, <2>2, <3>1
  <2>4. ASSUME NEW m \in 1..H, m - 1 \in B
        PROVE  m \in B
    <3>1. H - m \in 0..H /\ H - m # H /\ (H - m) + 1 = H - (m - 1) /\ m \in 0..H
      BY <1>0
    <3>2. k[(H - m) + 1] = g[(H - m) + 1]
      BY <2>4, <3>1
    <3>3. k[H - m] = Out(H - m, k[(H - m) + 1]) /\ g[H - m] = Out(H - m, g[(H - m) + 1])
      BY <2>1, <2>2, <3>1
    <3> QED
      BY <3>1, <3>2, <3>3
  <2> HIDE DEF B
  <2> QED
    BY <1>0, <2>3, <2>4, Induction
<1>8. k \in [0..H -> X]
  <2>1. DOMAIN k = 0..H /\ k = [y \in 0..H |-> k[y]]
    BY <1>5
  <2> HIDE DEF k, Is
  <2>2. \A y \in 0..H : k[y] = g[y]
    <3> TAKE y \in 0..H
    <3>1. H - y \in 0..H /\ H - (H - y) = y
      BY <1>0
    <3>2. H - y \in B
      BY <1>7, <3>1
    <3> QED
      BY <3>1, <3>2
  <2> QED
    BY <2>1, <2>2
<1>9. NextUses(p, H, k)
  <2>1. \A y \in 0..(H - 1) : \A r \in Regs :
          k[y][r] = FirstUse(p.lines[y].ins, 1, r, k[y + 1][r])
    <3> TAKE y \in 0..(H - 1)
    <3>1. y \in 0..H /\ y # H
      BY <1>0
    <3>2. k[y] = Out(y, k[y + 1])
      <4>1. k[y] = [r \in Regs |-> IF y = H THEN "none"
               ELSE FirstUse(p.lines[y].ins, 1, r, k[y + 1][r])]
        BY <1>5, <3>1
      <4> HIDE DEF k, Out, none, Is
      <4> QED
        BY <1>o, <3>1, <4>1
    <3> HIDE DEF k
    <3> QED
      BY <3>2
  <2> HIDE DEF k
  <2> QED
    BY <1>8, <2>1 DEF NextUses
<1> HIDE DEF k
<1> QED
  BY <1>0, <1>1, <1>9

\* Clearing dead loads moves nothing: a NOP takes as long as a load.
LEMMA ClearedKeeps ==
    ASSUME NEW ins \in Seq(Instructions), NEW then, NEW t, t = Cleared(ins, then)
    PROVE  /\ t \in Seq(Instructions) /\ Len(t) = Len(ins)
           /\ \A n \in 1..Len(ins) : \/ t[n] = ins[n] /\ ~DeadIn(ins, then, n)
                                     \/ t[n] = Nop /\ DeadIn(ins, then, n) /\ ins[n].op = "load"
           /\ \A n \in 1..Len(ins) : t[n].op = "store" <=> ins[n].op = "store"
           /\ \A n \in 1..Len(ins) : ins[n].op = "store" => t[n] = ins[n]
           /\ Cycles(t) = Cycles(ins)
           /\ \A n \in 1..Len(ins) : StartCycle(t, n) = StartCycle(ins, n)
<1>1. Len(ins) \in Nat /\ DOMAIN ins = 1..Len(ins) /\ \A n \in 1..Len(ins) : ins[n] \in Instructions
  BY ElementOfSeq
<1>2. t = [n \in 1..Len(ins) |-> IF DeadIn(ins, then, n) THEN Nop ELSE ins[n]]
  BY <1>1 DEF Cleared
<1>3. \A n \in 1..Len(ins) : \/ t[n] = ins[n] /\ ~DeadIn(ins, then, n)
                             \/ t[n] = Nop /\ DeadIn(ins, then, n) /\ ins[n].op = "load"
  BY <1>2 DEF DeadIn
<1>4. t \in Seq(Instructions) /\ Len(t) = Len(ins)
  <2> DEFINE e(n) == IF DeadIn(ins, then, n) THEN Nop ELSE ins[n]
             N == Len(ins)
  <2>1. \A n \in 1..N : e(n) \in Instructions
    BY <1>1, InstructionType
  <2>2. t = [n \in 1..N |-> e(n)] /\ N \in Nat
    BY <1>1, <1>2
  <2> HIDE DEF e, N
  <2>3. t \in Seq(Instructions) /\ Len(t) = N
    BY <2>1, <2>2
  <2> QED
    BY <2>3 DEF N
<1>5. \A n \in 1..Len(ins) : t[n].op = "store" <=> ins[n].op = "store"
  BY <1>3 DEF Nop
<1>6. \A n \in 1..Len(ins) : ins[n].op = "store" => t[n] = ins[n]
  BY <1>3
<1>7. Cycles(t) = Cycles(ins)
  <2>1. DOMAIN t = DOMAIN ins
    BY <1>1, <1>2
  <2>2. {n \in DOMAIN t : t[n].op = "store"} = {n \in DOMAIN ins : ins[n].op = "store"}
    BY <1>1, <1>5, <2>1
  <2> QED
    BY <1>4, <2>2 DEF Cycles
<1>8. ASSUME NEW n \in 1..Len(ins)
      PROVE  StartCycle(t, n) = StartCycle(ins, n)
  <2>1. \A m \in 1..(n - 1) : m \in 1..Len(ins)
    BY <1>1
  <2>2. {m \in 1..(n - 1) : t[m].op = "store"} = {m \in 1..(n - 1) : ins[m].op = "store"}
    BY <1>5, <2>1
  <2> QED
    BY <2>2 DEF StartCycle
<1> QED
  BY <1>3, <1>4, <1>5, <1>6, <1>7, <1>8

\* What a register holds, and its next use, instruction by instruction.
LEMMA HeldStep ==
    ASSUME NEW ins \in Seq(Instructions), NEW n \in 1..Len(ins), NEW r, NEW cpu
    PROVE  Held(ins, n, r, cpu) = IF ins[n].op = "load" /\ ins[n].reg = r THEN ins[n].value
                                  ELSE Held(ins, n - 1, r, cpu)
<1> DEFINE loads(k) == {m \in 1..k : ins[m].op = "load" /\ ins[m].reg = r}
           D == loads(n)
           E == loads(n - 1)
<1>1. n \in Nat /\ n >= 1 /\ n - 1 \in Nat
  OBVIOUS
<1>2. /\ Held(ins, n, r, cpu) = IF D = {} THEN cpu[r] ELSE ins[Max(D)].value
      /\ Held(ins, n - 1, r, cpu) = IF E = {} THEN cpu[r] ELSE ins[Max(E)].value
  BY DEF Held
<1>3. D \in SUBSET Nat /\ \A m \in D : m <= n
  BY <1>1
<1>4. CASE ins[n].op = "load" /\ ins[n].reg = r
  <2>1. n \in D
    BY <1>1, <1>4
  <2> HIDE DEF D, E
  <2>2. Max(D) \in D /\ \A m \in D : m <= Max(D)
    BY <1>1, <1>3, <2>1, MaxIsGreatest
  <2>3. Max(D) = n
    <3>1. n <= Max(D) /\ Max(D) <= n /\ Max(D) \in Nat
      BY <1>3, <2>1, <2>2
    <3> QED
      BY <1>1, <3>1
  <2> QED
    BY <1>2, <1>4, <2>1, <2>3
<1>5. CASE ~(ins[n].op = "load" /\ ins[n].reg = r)
  <2>1. D = E
    BY <1>1, <1>5
  <2> HIDE DEF D, E
  <2> QED
    BY <1>2, <1>5, <2>1
<1> QED
  BY <1>4, <1>5

LEMMA HeldFirst ==
    ASSUME NEW ins, NEW r, NEW cpu
    PROVE  Held(ins, 0, r, cpu) = cpu[r]
<1>1. {m \in 1..0 : ins[m].op = "load" /\ ins[m].reg = r} = {}
  OBVIOUS
<1> QED
  BY <1>1 DEF Held

LEMMA FirstUseStep ==
    ASSUME NEW ins \in Seq(Instructions), NEW n \in 1..Len(ins), NEW r, NEW otherwise
    PROVE  FirstUse(ins, n, r, otherwise) =
             IF ins[n].op # "nop" /\ ins[n].reg = r THEN ins[n].op
             ELSE FirstUse(ins, n + 1, r, otherwise)
<1> DEFINE uses(k) == {m \in k..Len(ins) : ins[m].op # "nop" /\ ins[m].reg = r}
           D == uses(n)
           E == uses(n + 1)
<1>1. n \in Nat /\ n >= 1 /\ n + 1 \in Nat /\ Len(ins) \in Nat
  OBVIOUS
<1>2. /\ FirstUse(ins, n, r, otherwise) = IF D = {} THEN otherwise ELSE ins[Min(D)].op
      /\ FirstUse(ins, n + 1, r, otherwise) = IF E = {} THEN otherwise ELSE ins[Min(E)].op
  BY DEF FirstUse
<1>3. D \in SUBSET Nat /\ \A m \in D : n <= m
  BY <1>1
<1>4. CASE ins[n].op # "nop" /\ ins[n].reg = r
  <2>1. n \in D
    BY <1>1, <1>4
  <2> HIDE DEF D, E
  <2>2. Min(D) \in D /\ \A m \in D : Min(D) <= m
    BY <1>3, <2>1, MinIsLeast
  <2>3. Min(D) = n
    <3>1. n <= Min(D) /\ Min(D) <= n /\ Min(D) \in Nat
      BY <1>3, <2>1, <2>2
    <3> QED
      BY <1>1, <3>1
  <2> QED
    BY <1>2, <1>4, <2>1, <2>3
<1>5. CASE ~(ins[n].op # "nop" /\ ins[n].reg = r)
  <2>1. D = E
    BY <1>1, <1>5
  <2> HIDE DEF D, E
  <2> QED
    BY <1>2, <1>5, <2>1
<1> QED
  BY <1>4, <1>5

LEMMA FirstUseLast ==
    ASSUME NEW ins \in Seq(Instructions), NEW r, NEW otherwise
    PROVE  FirstUse(ins, Len(ins) + 1, r, otherwise) = otherwise
<1>1. Len(ins) \in Nat
  OBVIOUS
<1>2. {m \in (Len(ins) + 1)..Len(ins) : ins[m].op # "nop" /\ ins[m].reg = r} = {}
  BY <1>1
<1> QED
  BY <1>2 DEF FirstUse

\* Two states of the registers that agree on every one a line, or what follows
\* it, uses before loading it; and on every one that what follows uses so.
Agreeing(ins, then, cpu, kcpu) ==
    \A r \in Regs : FirstUse(ins, 1, r, then[r]) # "load" => kcpu[r] = cpu[r]

\* While a register's next use is no load, the two lines agree on what it holds.
LEMMA ClearedHolds ==
    ASSUME NEW ins \in Seq(Instructions), NEW then, NEW t, t = Cleared(ins, then),
           NEW cpu, NEW kcpu, Agreeing(ins, then, cpu, kcpu)
    PROVE  \A n \in 0..Len(ins) : \A r \in Regs :
             FirstUse(ins, n + 1, r, then[r]) # "load" =>
               Held(t, n, r, kcpu) = Held(ins, n, r, cpu)
<1> DEFINE N == Len(ins)
           B == {n \in 0..N : \A r \in Regs : FirstUse(ins, n + 1, r, then[r]) # "load" =>
                                 Held(t, n, r, kcpu) = Held(ins, n, r, cpu)}
<1>1. N \in Nat
  OBVIOUS
<1>2. /\ t \in Seq(Instructions) /\ Len(t) = N
      /\ \A n \in 1..N : \/ t[n] = ins[n] /\ ~DeadIn(ins, then, n)
                         \/ t[n] = Nop /\ DeadIn(ins, then, n) /\ ins[n].op = "load"
  BY ClearedKeeps
<1>3. 0 \in B
  <2>1. 0 + 1 = 1 /\ 0 \in 0..N
    BY <1>1
  <2> QED
    BY <2>1, HeldFirst DEF Agreeing
<1>4. ASSUME NEW n \in 1..N, n - 1 \in B
      PROVE  n \in B
  <2>0. n \in 0..N /\ (n - 1) + 1 = n
    BY <1>1
  <2>1. ASSUME NEW r \in Regs, FirstUse(ins, n + 1, r, then[r]) # "load"
        PROVE  Held(t, n, r, kcpu) = Held(ins, n, r, cpu)
    <3> DEFINE was == Held(ins, n - 1, r, cpu)
               kept == Held(t, n - 1, r, kcpu)
    <3>1. Held(ins, n, r, cpu) =
            IF ins[n].op = "load" /\ ins[n].reg = r THEN ins[n].value ELSE was
      BY HeldStep
    <3>2. Held(t, n, r, kcpu) =
            IF t[n].op = "load" /\ t[n].reg = r THEN t[n].value ELSE kept
      BY <1>2, HeldStep
    <3>3. FirstUse(ins, n, r, then[r]) # "load" => kept = was
      BY <1>4, <2>0
    <3>4. FirstUse(ins, n, r, then[r]) = IF ins[n].op # "nop" /\ ins[n].reg = r THEN ins[n].op
                                         ELSE FirstUse(ins, n + 1, r, then[r])
      BY FirstUseStep
    <3>5. Nop.op = "nop"
      BY DEF Nop
    <3> HIDE DEF was, kept, B, N
    <3>6. CASE ins[n].op = "load" /\ ins[n].reg = r
      <4>1. ~DeadIn(ins, then, n)
        BY <2>1, <3>6 DEF DeadIn
      <4>2. t[n] = ins[n]
        BY <1>2, <4>1
      <4> QED
        BY <3>1, <3>2, <3>6, <4>2
    <3>7. CASE ~(ins[n].op = "load" /\ ins[n].reg = r)
      <4>1. kept = was
        BY <2>1, <3>3, <3>4, <3>7
      <4>2. ~(t[n].op = "load" /\ t[n].reg = r)
        BY <1>2, <3>5, <3>7
      <4> QED
        BY <3>1, <3>2, <3>7, <4>1, <4>2
    <3> QED
      BY <3>6, <3>7
  <2> QED
    BY <2>0, <2>1
<1> HIDE DEF B
<1>5. 0..N \subseteq B
  BY <1>1, <1>3, <1>4, Induction
<1> QED
  BY <1>5 DEF B, N

\* So they write the same, and what the next lines use is the same.
Agreed(then, cpu, kcpu) == \A r \in Regs : then[r] # "load" => kcpu[r] = cpu[r]

LEMMA ClearedWrites ==
    ASSUME NEW ins \in Seq(Instructions), NEW then, NEW t, t = Cleared(ins, then),
           NEW cpu, NEW kcpu, Agreeing(ins, then, cpu, kcpu)
    PROVE  /\ Writes(t, Len(t), kcpu) = Writes(ins, Len(ins), cpu)
           /\ Agreed(then, After(ins, Len(ins), cpu), After(t, Len(t), kcpu))
<1> DEFINE N == Len(ins)
<1>1. N \in Nat
  OBVIOUS
<1>2. /\ t \in Seq(Instructions) /\ Len(t) = N
      /\ \A n \in 1..N : t[n].op = "store" <=> ins[n].op = "store"
      /\ \A n \in 1..N : ins[n].op = "store" => t[n] = ins[n]
      /\ \A n \in 1..N : StartCycle(t, n) = StartCycle(ins, n)
  BY ClearedKeeps
<1>3. \A n \in 0..N : \A r \in Regs : FirstUse(ins, n + 1, r, then[r]) # "load" =>
                                 Held(t, n, r, kcpu) = Held(ins, n, r, cpu)
  BY ClearedHolds
<1>4. ASSUME NEW m \in 1..N, ins[m].op = "store"
      PROVE  Held(t, m, ins[m].reg, kcpu) = Held(ins, m, ins[m].reg, cpu)
  <2> DEFINE r == ins[m].reg
  <2>1. r \in Regs
    <3>1. ins[m] \in Instructions
      BY ElementOfSeq
    <3> QED
      BY <1>4, <3>1, InstructionParts
  <2>2. FirstUse(ins, m, r, then[r]) = "store"
    BY <1>4, FirstUseStep
  <2>3. m - 1 \in 0..N /\ (m - 1) + 1 = m
    BY <1>1
  <2>4. Held(t, m - 1, r, kcpu) = Held(ins, m - 1, r, cpu)
    <3> HIDE DEF r, N
    <3>1. FirstUse(ins, (m - 1) + 1, r, then[r]) # "load"
      BY <2>2, <2>3
    <3> QED
      BY <1>3, <2>1, <2>3, <3>1
  <2>5. Held(t, m, r, kcpu) = Held(t, m - 1, r, kcpu)
    BY <1>2, <1>4, HeldStep
  <2>6. Held(ins, m, r, cpu) = Held(ins, m - 1, r, cpu)
    BY <1>4, HeldStep
  <2> QED
    BY <2>4, <2>5, <2>6
<1>5. Writes(t, N, kcpu) = Writes(ins, N, cpu)
  <2> DEFINE S == {m \in 1..N : ins[m].op = "store"}
             V(m) == [start |-> StartCycle(ins, m), target |-> ins[m].target,
                      value |-> Held(ins, m, ins[m].reg, cpu)]
             W(m) == [start |-> StartCycle(t, m), target |-> t[m].target,
                      value |-> Held(t, m, t[m].reg, kcpu)]
  <2>1. {m \in 1..N : t[m].op = "store"} = S
    BY <1>2
  <2>2. Writes(t, N, kcpu) = {W(m) : m \in S} /\ Writes(ins, N, cpu) = {V(m) : m \in S}
    BY <2>1 DEF Writes
  <2>3. \A m \in S : W(m) = V(m)
    BY <1>2, <1>4
  <2> HIDE DEF V, W, S
  <2> QED
    BY <2>2, <2>3
<1>6. ASSUME NEW r \in Regs, then[r] # "load"
      PROVE  After(t, Len(t), kcpu)[r] = After(ins, Len(ins), cpu)[r]
  <2>1. FirstUse(ins, N + 1, r, then[r]) # "load"
    BY <1>6, FirstUseLast
  <2>2. N \in 0..N
    BY <1>1
  <2>3. Held(t, N, r, kcpu) = Held(ins, N, r, cpu)
    BY <1>3, <2>1, <2>2
  <2> QED
    BY <1>2, <2>3 DEF After
<1> QED
  BY <1>2, <1>5, <1>6 DEF Agreed

-----------------------------------------------------------------------------
(* The registers, line by line.                                              *)

Registers == [Regs -> Nat]

\* A line passes the registers on; its end may change A.
Passed(ins, change, y, cpu) ==
    LET out == After(ins, Len(ins), cpu)
    IN  IF change THEN [out EXCEPT !["A"] = Charset(y)] ELSE out

\* A change of character set leaves no byte in A if there are too many lines,
\* but always a number.
LEMMA PassedType ==
    ASSUME NEW ins \in Seq(Instructions), NEW change, NEW y \in Nat, NEW cpu \in Registers
    PROVE  Passed(ins, change, y, cpu) \in Registers
<1> DEFINE out == After(ins, Len(ins), cpu)
<1>1. Len(ins) \in Nat
  OBVIOUS
<1>2. ASSUME NEW r \in Regs
      PROVE  Held(ins, Len(ins), r, cpu) \in Nat
  <2> DEFINE loads == {m \in 1..Len(ins) : ins[m].op = "load" /\ ins[m].reg = r}
  <2>1. loads \in SUBSET Nat /\ (\A m \in loads : m <= Len(ins))
        /\ \A m \in loads : m \in 1..Len(ins) /\ ins[m].op = "load"
    BY <1>1
  <2>2. Held(ins, Len(ins), r, cpu) = IF loads = {} THEN cpu[r] ELSE ins[Max(loads)].value
    BY DEF Held
  <2> HIDE DEF loads
  <2>3. CASE loads = {}
    BY <2>2, <2>3 DEF Registers
  <2>4. CASE loads # {}
    <3>1. Max(loads) \in loads
      BY <1>1, <2>1, <2>4, MaxIsGreatest
    <3>2. ins[Max(loads)] \in Instructions /\ ins[Max(loads)].op = "load"
      BY <2>1, <3>1, ElementOfSeq
    <3>3. ins[Max(loads)].value \in Bytes
      BY <3>2, InstructionParts
    <3> QED
      <4>1. \A v \in Bytes : v \in Nat
        BY DEF Bytes
      <4>2. ins[Max(loads)].value \in Nat
        BY <3>3, <4>1
      <4> QED
        BY <2>2, <2>4, <4>2
  <2> QED
    BY <2>3, <2>4
<1>3. out \in Registers
  BY <1>2 DEF After, Registers
<1>4. Charset(y) \in Nat
  <2>1. y \div 24 \in Nat
    OBVIOUS
  <2> QED
    BY <2>1 DEF Charset
<1> HIDE DEF out
<1>5. [out EXCEPT !["A"] = Charset(y)] \in Registers
  BY <1>3, <1>4 DEF Registers
<1> QED
  BY <1>3, <1>5 DEF Passed, out

\* Registers that every line passes on to the next.
LineByLine(h, line, change, cpu) ==
    /\ cpu[0] = Zero
    /\ \A y \in 1..h : cpu[y] = Passed(line[y - 1], change[y - 1], y - 1, cpu[y - 1])

\* Any lines pass registers on.
LEMMA LineByLineExists ==
    ASSUME NEW h \in Nat, NEW line, NEW change, \A y \in 0..(h - 1) : line[y] \in Seq(Instructions)
    PROVE  \E g \in [0..h -> Registers] : LineByLine(h, line, change, g)
<1> DEFINE X == Registers
           Out(y, cpu) == Passed(line[y - 1], change[y - 1], y - 1, cpu)
           G == [y \in 1..h |-> [cpu \in X |-> Out(y, cpu)]]
<1>1. \A y \in 1..h : \A cpu \in X : Out(y, cpu) \in X
  <2> SUFFICES ASSUME NEW y \in 1..h, NEW cpu \in X
               PROVE  Out(y, cpu) \in X
    OBVIOUS
  <2>1. y - 1 \in 0..(h - 1) /\ y - 1 \in Nat
    OBVIOUS
  <2>2. line[y - 1] \in Seq(Instructions)
    BY <2>1
  <2> QED
    BY <2>1, <2>2, PassedType
<1>2. Zero \in X
  BY DEF Zero, Registers
<1> HIDE DEF Out, X
<1>3. G \in [1..h -> [X -> X]]
  BY <1>1
<1>4. PICK g \in [0..h -> X] : g[0] = Zero /\ \A y \in 1..h : g[y] = G[y][g[y - 1]]
  <2>1. Steps(h, X, Zero, G)
    BY <1>2, <1>3 DEF Steps
  <2>2. Recursive(h, X, Zero, G)
    BY <2>1, RecursionExists
  <2> QED
    BY <2>2 DEF Recursive
<1>5. \A y \in 1..h : g[y] = Out(y, g[y - 1])
  <2>1. \A y \in 1..h : y - 1 \in 0..h
    OBVIOUS
  <2> QED
    BY <1>4, <2>1
<1> QED
  BY <1>4, <1>5 DEF LineByLine, Out, X

\* The evaluator's.
LEMMA EntryRuns ==
    ASSUME NEW pc \in Pictures, NEW p, ProgramOf(pc, p)
    PROVE  LineByLine(pc.height, [y \in Rows(pc) |-> p.lines[y].ins],
                [y \in Rows(pc) |-> ScheduleOf(p, y).transition], EntryCpu(p))
<1> DEFINE h == pc.height
           line == [y \in Rows(pc) |-> p.lines[y].ins]
           change == [y \in Rows(pc) |-> ScheduleOf(p, y).transition]
           Out(y, cpu) == LET out == After(p.lines[y - 1].ins, Executed(p, y - 1), cpu)
                          IN  IF ScheduleOf(p, y - 1).transition
                              THEN [out EXCEPT !["A"] = Charset(y - 1)] ELSE out
           Is(g) == g = [y \in 0..h |-> IF y = 0 THEN Zero ELSE Out(y, g[y - 1])]
           k == CHOOSE f : Is(f)
<1>1. h \in Nat /\ Lined(p, h) /\ Height(p) = h
  BY ProgramLimits, PictureParts
<1>2. EntryCpu(p) = k
  BY <1>1 DEF EntryCpu
<1>3. Rows(pc) = 0..(h - 1)
  BY DEF Rows
<1>4. \A y \in 0..(h - 1) : line[y] \in Seq(Instructions)
  BY <1>1, <1>3 DEF Lined
<1>5. ASSUME NEW y \in 1..h, NEW cpu
      PROVE  Out(y, cpu) = Passed(line[y - 1], change[y - 1], y - 1, cpu)
  <2>1. y - 1 \in Rows(pc)
    BY <1>1, <1>3
  <2>2. Executed(p, y - 1) = Len(p.lines[y - 1].ins)
    BY <2>1, EveryExecuted
  <2> QED
    BY <2>1, <2>2 DEF Passed
<1> HIDE DEF Out, h, line, change
<1>6. PICK g \in [0..h -> Registers] : LineByLine(h, line, change, g)
  BY <1>1, <1>4, LineByLineExists
<1>7. Is(g)
  <2>1. ASSUME NEW y \in 0..h
        PROVE  g[y] = IF y = 0 THEN Zero ELSE Out(y, g[y - 1])
    <3>1. y = 0 \/ y \in 1..h
      BY <1>1
    <3> QED
      BY <1>5, <1>6, <3>1 DEF LineByLine
  <2>2. g = [y \in 0..h |-> g[y]]
    OBVIOUS
  <2> QED
    BY <2>1, <2>2
<1>8. Is(k)
  <2> HIDE DEF Is
  <2> QED
    BY <1>7
<1>9. k[0] = Zero /\ \A y \in 1..h : k[y] = Out(y, k[y - 1])
  <2>1. 0 \in 0..h /\ \A y \in 1..h : y \in 0..h /\ y # 0
    BY <1>1
  <2> QED
    BY <1>8, <2>1
<1> HIDE DEF k
<1>10. LineByLine(h, line, change, k)
  BY <1>5, <1>9 DEF LineByLine
<1> QED
  BY <1>2, <1>10 DEF h, line, change

\* What removing the dead loads leaves alone.
LEMMA WithoutIs ==
    ASSUME NEW pc \in Pictures, NEW p, ProgramOf(pc, p), NEW next, NEW q, q = Without(p, next)
    PROVE  /\ q.mode = p.mode /\ q.wide = p.wide /\ Height(q) = pc.height
           /\ \A y : ScheduleOf(q, y) = ScheduleOf(p, y)
           /\ \A y \in Rows(pc) : /\ q.lines[y].ins = Cleared(p.lines[y].ins, next[y + 1])
                                  /\ q.lines[y].cycles = p.lines[y].cycles
<1>1. /\ p \in [mode : {pc.mode}, wide : {pc.wide}, attributes : SUBSET Cells(pc),
                mem : [Targets -> Bytes], lines : [Rows(pc) -> LineType]]
      /\ Height(p) = pc.height /\ DOMAIN p.lines = Rows(pc)
  BY ProgramLimits DEF ProgramOf
<1> DEFINE lines == [y \in DOMAIN p.lines |->
                        [p.lines[y] EXCEPT !.ins = Cleared(p.lines[y].ins, next[y + 1])]]
<1>2. q = [p EXCEPT !.lines = lines]
  BY DEF Without
<1>3. ASSUME NEW y \in Rows(pc)
      PROVE  /\ lines[y].ins = Cleared(p.lines[y].ins, next[y + 1])
             /\ lines[y].cycles = p.lines[y].cycles
  <2>1. p.lines[y] \in LineType
    BY <1>1
  <2> QED
    BY <1>1, <2>1 DEF LineType
<1>4. DOMAIN lines = DOMAIN p.lines
  OBVIOUS
<1> HIDE DEF lines
<1>5. q.mode = p.mode /\ q.wide = p.wide /\ q.lines = lines
  BY <1>1, <1>2
<1>6. Height(q) = Height(p)
  BY <1>4, <1>5 DEF Height
<1> QED
  BY <1>1, <1>3, <1>5, <1>6 DEF ScheduleOf

\* The text of every line of the kernel.
LEMMA KernelTexts ==
    ASSUME NEW pc \in Pictures, NEW p, ProgramOf(pc, p), NEW next, NEW q, q = Without(p, next),
           NEW y \in Rows(pc)
    PROVE  TextDoes(LineText(q, y), y, ScheduleOf(p, y), Cleared(p.lines[y].ins, next[y + 1]))
<1> DEFINE ins == p.lines[y].ins
           t == Cleared(ins, next[y + 1])
           s == ScheduleOf(p, y)
<1>1. /\ y \in Nat /\ ins \in Seq(Instructions) /\ p.lines[y].cycles = Cycles(ins)
      /\ Cycles(ins) <= s.limit /\ Roomy(s) /\ Shaped(s, p.mode, p.wide)
  BY LineOfProgram
<1>2. /\ q.mode = p.mode /\ q.wide = p.wide /\ ScheduleOf(q, y) = s
      /\ q.lines[y].ins = t /\ q.lines[y].cycles = p.lines[y].cycles
  BY WithoutIs
<1> HIDE DEF ins, s
<1>3. t \in Seq(Instructions) /\ Cycles(t) = Cycles(ins)
  BY <1>1, ClearedKeeps
<1> HIDE DEF t
<1>4. /\ Shaped(s, q.mode, q.wide) /\ q.lines[y].cycles = Cycles(t) /\ Cycles(t) <= s.limit
  BY <1>1, <1>2, <1>3
<1>5. TextDoes(LineText(q, y), y, s, t)
  BY <1>1, <1>2, <1>3, <1>4, LineTextDoes
<1> QED
  BY <1>5 DEF s, t, ins

\* The kernel's.
LEMMA KernelRuns ==
    ASSUME NEW pc \in Pictures, NEW p, ProgramOf(pc, p), NEW next, NEW q, q = Without(p, next)
    PROVE  LineByLine(pc.height, [y \in Rows(pc) |-> Cleared(p.lines[y].ins, next[y + 1])],
                      [y \in Rows(pc) |-> ScheduleOf(p, y).transition], KernelCpu(q))
<1> DEFINE h == pc.height
           line == [y \in Rows(pc) |-> Cleared(p.lines[y].ins, next[y + 1])]
           change == [y \in Rows(pc) |-> ScheduleOf(p, y).transition]
           Out(y, cpu) ==
              LET text == LineText(q, y - 1)
                  out  == After(Code(text), Len(Code(text)), cpu)
                  sets == {n \in DOMAIN text : text[n].what = "lda charset"}
              IN  IF sets = {} THEN out
                  ELSE [out EXCEPT !["A"] = 128 + 4 * text[Max(sets)].charset]
           Is(g) == g = [y \in 0..h |-> IF y = 0 THEN Zero ELSE Out(y, g[y - 1])]
           k == CHOOSE f : Is(f)
<1>1. h \in Nat /\ Lined(p, h) /\ Height(q) = h
  BY ProgramLimits, PictureParts, WithoutIs
<1>2. KernelCpu(q) = k
  BY <1>1 DEF KernelCpu
<1>3. Rows(pc) = 0..(h - 1)
  BY DEF Rows
<1>4. ASSUME NEW y \in 0..(h - 1)
      PROVE  line[y] \in Seq(Instructions)
  <2>1. p.lines[y].ins \in Seq(Instructions)
    BY <1>1 DEF Lined
  <2> QED
    BY <1>3, <2>1, ClearedKeeps
<1>5. ASSUME NEW y \in 1..h, NEW cpu
      PROVE  Out(y, cpu) = Passed(line[y - 1], change[y - 1], y - 1, cpu)
  <2> DEFINE x == y - 1
             text == LineText(q, x)
             ins == Cleared(p.lines[x].ins, next[x + 1])
             out == After(ins, Len(ins), cpu)
             trans == ScheduleOf(p, x).transition
  <2>1. x \in Rows(pc)
    BY <1>1, <1>3
  <2>2. TextDoes(text, x, ScheduleOf(p, x), ins)
    <3> HIDE DEF x
    <3> QED
      BY <2>1, KernelTexts
  <2>3. /\ Code(text) = ins /\ (Charsets(text) # {}) = trans
        /\ Charsets(text) # {} => text[Max(Charsets(text))].charset = x \div 24 + 1
    BY <2>2 DEF TextDoes
  <2>4. Out(y, cpu) = IF Charsets(text) = {} THEN After(Code(text), Len(Code(text)), cpu)
                      ELSE [After(Code(text), Len(Code(text)), cpu)
                              EXCEPT !["A"] = 128 + 4 * text[Max(Charsets(text))].charset]
    BY DEF Charsets
  <2>5. Passed(line[x], change[x], x, cpu) =
          IF trans THEN [out EXCEPT !["A"] = 128 + 4 * (x \div 24 + 1)] ELSE out
    BY <2>1 DEF Passed, Charset
  <2> HIDE DEF Out, text, ins, trans, line, change, x
  <2>6. CASE Charsets(text) = {}
    BY <2>3, <2>4, <2>5, <2>6 DEF x
  <2>7. CASE Charsets(text) # {}
    BY <2>3, <2>4, <2>5, <2>7 DEF x
  <2> QED
    BY <2>6, <2>7
<1> HIDE DEF Out, h, line, change
<1>6. PICK g \in [0..h -> Registers] : LineByLine(h, line, change, g)
  BY <1>1, <1>4, LineByLineExists
<1>7. Is(g)
  <2>1. ASSUME NEW y \in 0..h
        PROVE  g[y] = IF y = 0 THEN Zero ELSE Out(y, g[y - 1])
    <3>1. y = 0 \/ y \in 1..h
      BY <1>1
    <3> QED
      BY <1>5, <1>6, <3>1 DEF LineByLine
  <2>2. g = [y \in 0..h |-> g[y]]
    OBVIOUS
  <2> QED
    BY <2>1, <2>2
<1>8. Is(k)
  <2> HIDE DEF Is
  <2> QED
    BY <1>7
<1>9. k[0] = Zero /\ \A y \in 1..h : k[y] = Out(y, k[y - 1])
  <2>1. 0 \in 0..h /\ \A y \in 1..h : y \in 0..h /\ y # 0
    BY <1>1
  <2> QED
    BY <1>8, <2>1
<1> HIDE DEF k
<1>10. LineByLine(h, line, change, k)
  BY <1>5, <1>9 DEF LineByLine
<1> QED
  BY <1>2, <1>10 DEF h, line, change

\* Line by line, every register that is not about to be loaded holds the same.
LEMMA RegistersAgree ==
    ASSUME NEW pc \in Pictures, NEW p, ProgramOf(pc, p), NEW next, NextUses(p, pc.height, next),
           NEW q, q = Without(p, next), NEW y \in 0..pc.height, NEW r \in Regs,
           next[y][r] # "load"
    PROVE  KernelCpu(q)[y][r] = EntryCpu(p)[y][r]
<1> DEFINE h == pc.height
           E == EntryCpu(p)
           K == KernelCpu(q)
           ins(x) == p.lines[x].ins
           kept(x) == Cleared(ins(x), next[x + 1])
           change(x) == ScheduleOf(p, x).transition
           Agree(x) == \A s \in Regs : next[x][s] # "load" => K[x][s] = E[x][s]
<1>1. h \in Nat /\ Rows(pc) = 0..(h - 1) /\ Lined(p, h)
  BY ProgramLimits, PictureParts DEF Rows
<1>2. E[0] = Zero /\ \A x \in 1..h : E[x] = Passed(ins(x - 1), change(x - 1), x - 1, E[x - 1])
  <2>1. \A x \in 1..h : x - 1 \in Rows(pc)
    BY <1>1
  <2> QED
    BY <2>1, EntryRuns DEF LineByLine
<1>3. K[0] = Zero /\ \A x \in 1..h : K[x] = Passed(kept(x - 1), change(x - 1), x - 1, K[x - 1])
  <2>1. \A x \in 1..h : x - 1 \in Rows(pc)
    BY <1>1
  <2>2. LineByLine(h, [x \in Rows(pc) |-> kept(x)], [x \in Rows(pc) |-> change(x)], K)
    BY KernelRuns
  <2> HIDE DEF kept, change, K
  <2> QED
    BY <2>1, <2>2 DEF LineByLine
<1>4. \A x \in 0..(h - 1) : \A s \in Regs :
        next[x][s] = FirstUse(ins(x), 1, s, next[x + 1][s])
  BY DEF NextUses
<1>5. \A x \in 0..(h - 1) : ins(x) \in Seq(Instructions)
  BY <1>1 DEF Lined
<1> DEFINE B == {x \in 0..h : Agree(x)}
<1>6. 0 \in B
  BY <1>1, <1>2, <1>3
<1>7. ASSUME NEW x \in 1..h, x - 1 \in B
      PROVE  x \in B
  <2> DEFINE z == x - 1
             was == After(ins(z), Len(ins(z)), E[z])
             is  == After(kept(z), Len(kept(z)), K[z])
  <2>1. x \in 0..h /\ z \in 0..(h - 1) /\ z + 1 = x
    BY <1>1
  <2>2. \A s \in Regs : FirstUse(ins(z), 1, s, next[z + 1][s]) # "load" => K[z][s] = E[z][s]
    BY <1>4, <1>7, <2>1
  <2>3. \A s \in Regs : next[z + 1][s] # "load" => is[s] = was[s]
    <3> DEFINE i == ins(z)
               then == next[z + 1]
               t == Cleared(i, then)
               cpu == E[z]
               kcpu == K[z]
    <3>1. i \in Seq(Instructions)
      BY <1>5, <2>1
    <3>2. Agreeing(i, then, cpu, kcpu)
      BY <2>2 DEF Agreeing
    <3> HIDE DEF i, then, cpu, kcpu
    <3>3. Agreed(then, After(i, Len(i), cpu), After(t, Len(t), kcpu))
      BY <3>1, <3>2, ClearedWrites
    <3> QED
      BY <3>3 DEF Agreed, i, then, cpu, kcpu
  <2>4. E[x] = Passed(ins(z), change(z), z, E[z]) /\ K[x] = Passed(kept(z), change(z), z, K[z])
    BY <1>2, <1>3
  <2>5. E[x] = IF change(z) THEN [was EXCEPT !["A"] = Charset(z)] ELSE was
    BY <2>4 DEF Passed
  <2>6. K[x] = IF change(z) THEN [is EXCEPT !["A"] = Charset(z)] ELSE is
    BY <2>4 DEF Passed
  <2>7. DOMAIN was = Regs /\ DOMAIN is = Regs
    BY DEF After
  <2> HIDE DEF was, is, E, K, z, change
  <2>8. Agree(x)
    <3> SUFFICES ASSUME NEW s \in Regs, next[x][s] # "load"
                 PROVE  K[x][s] = E[x][s]
      OBVIOUS
    <3>1. is[s] = was[s]
      BY <2>1, <2>3
    <3> QED
      BY <2>5, <2>6, <2>7, <3>1
  <2> QED
    BY <2>1, <2>8
<1> HIDE DEF B
<1>8. 0..h \subseteq B
  BY <1>1, <1>6, <1>7, Induction
<1> QED
  BY <1>8 DEF B

\* The invariant that keeps programs legal keeps the kernel's time.
LEMMA PInvKeepsTime == PInv => KernelKeepsTime
<1> SUFFICES ASSUME PInv
             PROVE  KernelKeepsTime
  OBVIOUS
<1> DEFINE h == picture.height
           q == Optimized(pic)
           E == EntryCpu(pic)
           K == KernelCpu(q)
<1>1. picture \in Pictures /\ ProgramOf(picture, pic) /\ h \in Nat
      /\ Lines = Rows(picture) /\ Rows(picture) = 0..(h - 1) /\ Lined(pic, h)
  BY PictureHere DEF PInv, Rows
<1>2. PICK next : NextUses(pic, h, next) /\ q = Without(pic, next)
  BY <1>1, OptimizedIs
<1> HIDE DEF q, h
<1>3. ASSUME NEW y \in Rows(picture)
      PROVE  /\ Time(LineText(q, y)) = Len(ScheduleOf(pic, y).slots)
             /\ KernelWrites(q, y, K[y]) = EvaluatedWrites(pic, y, E[y])
  <2> DEFINE ins == pic.lines[y].ins
             then == next[y + 1]
             t == Cleared(ins, then)
             text == LineText(q, y)
             cpu == E[y]
             kcpu == K[y]
  <2>1. TextDoes(text, y, ScheduleOf(pic, y), t)
    BY <1>1, <1>2, KernelTexts
  <2>2. Time(text) = Len(ScheduleOf(pic, y).slots) /\ Code(text) = t
    BY <2>1 DEF TextDoes
  <2>3. ins \in Seq(Instructions) /\ y \in 0..(h - 1)
    BY <1>1 DEF Lined
  <2>4. Agreeing(ins, then, cpu, kcpu)
    <3> SUFFICES \A r \in Regs : FirstUse(ins, 1, r, then[r]) # "load" => kcpu[r] = cpu[r]
      BY DEF Agreeing
    <3> TAKE r \in Regs
    <3>1. next[y][r] = FirstUse(ins, 1, r, then[r])
      BY <1>2, <2>3 DEF NextUses
    <3>2. y \in 0..h
      BY <1>1, <2>3
    <3> QED
      BY <1>1, <1>2, <3>1, <3>2, RegistersAgree DEF h
  <2>5. Executed(pic, y) = Len(ins)
    BY <1>1, EveryExecuted
  <2>6. KernelWrites(q, y, kcpu) = Writes(t, Len(t), kcpu)
    BY <2>2 DEF KernelWrites
  <2>7. EvaluatedWrites(pic, y, cpu) = Writes(ins, Len(ins), cpu)
    BY <2>5 DEF EvaluatedWrites
  <2> HIDE DEF text, cpu, kcpu, ins, then
  <2>8. Writes(t, Len(t), kcpu) = Writes(ins, Len(ins), cpu)
    BY <2>3, <2>4, ClearedWrites
  <2> QED
    BY <2>2, <2>6, <2>7, <2>8 DEF text, cpu, kcpu
<1> QED
  BY <1>1, <1>3 DEF KernelKeepsTime, q

\* Whatever the search and the solver do, the kernel that would be saved takes
\* exactly the cycles ANTIC leaves on every line and writes what the evaluator
\* saw, at the same cycles (OptimizeRasterProgram, SaveRasterProgram):
\* KernelKeepsTime, for every picture.
THEOREM KernelCorrect == Spec => []KernelKeepsTime
<1>1. Spec => []PInv
  BY InitPInv, NextPInv, PTL DEF Spec
<1> QED
  BY <1>1, PInvKeepsTime, PTL

-----------------------------------------------------------------------------
(* Reading back what was saved.                                              *)

\* A reader.
At(at, lines, ins, block, blocks) ==
    [at |-> at, lines |-> lines, ins |-> ins, block |-> block, blocks |-> blocks]

\* A word takes the reader from s to t.
Takes(s, e, mode, wide, t) == ReadText(s, e, mode, wide) = t

\* What each word of a text does.
LEMMA ReadLine ==
    ASSUME NEW l, NEW i, NEW b, NEW bs, NEW e, e.what = "line", NEW mode, NEW wide
    PROVE  Takes(At("between", l, i, b, bs), e, mode, wide, At("line", l, i, b, bs))
BY DEF Takes, ReadText, ReadBetween, ReadInLine, ReadInBlock, LineEnds, At

LEMMA ReadInstruction ==
    ASSUME NEW l, NEW i, NEW b, NEW bs, NEW e, e.what = "instruction", NEW mode, NEW wide
    PROVE  Takes(At("line", l, i, b, bs), e, mode, wide, At("line", l, Append(i, e.ins), b, bs))
BY DEF Takes, ReadText, ReadBetween, ReadInLine, ReadInBlock, LineEnds, At

LEMMA ReadFiller ==
    ASSUME NEW l, NEW i, NEW b, NEW bs, NEW e, e.what = "filler", NEW mode, NEW wide
    PROVE  Takes(At("line", l, i, b, bs), e, mode, wide, At("line", l, i, b, bs))
BY DEF Takes, ReadText, ReadBetween, ReadInLine, ReadInBlock, LineEnds, At

\* The words that end a line; that of mode E only after an instruction.
EndsLine(e, ins) ==
    \/ e.what \in {"bit byt2, ANTIC 4 end", "bit $ffff, ANTIC 4 end", "bit $ffff, mode E end"}
    \/ e.what = "cmp byt2" /\ ins # <<>>

LEMMA ReadEnd ==
    ASSUME NEW l, NEW i, NEW b, NEW bs, NEW e, NEW mode, NEW wide,
           EndsLine(e, i)
    PROVE  Takes(At("line", l, i, b, bs), e, mode, wide,
                 At("between", Append(l, LineOf(i)), <<>>, b, bs))
BY DEF EndsLine, Takes, ReadText, ReadInLine, LineEnds, At, EndLine

LEMMA ReadNop ==
    ASSUME NEW l, NEW i, NEW b, NEW bs, NEW e, e.what = "nop, ANTIC 4 end", NEW mode, NEW wide
    PROVE  Takes(At("between", l, i, b, bs), e, mode, wide, At("between", l, i, b, bs))
BY DEF Takes, ReadText, ReadBetween, ReadInLine, ReadInBlock, LineEnds, At

LEMMA ReadBegin ==
    ASSUME NEW l, NEW i, NEW b, NEW bs, NEW e, e.what = "chbase begin", NEW wide
    PROVE  Takes(At("line", l, i, b, bs), e, "ANTIC4", wide, At("block", l, i, <<>>, bs))
BY DEF Takes, ReadText, ReadBetween, ReadInLine, ReadInBlock, LineEnds, At

BlockWords == {"bit byt2", "bit $ffff", "lda charset", "sta CHBASE"}

LEMMA ReadBlock ==
    ASSUME NEW l, NEW i, NEW b, NEW bs, NEW e, NEW mode, NEW wide,
           e.what \in BlockWords
    PROVE  Takes(At("block", l, i, b, bs), e, mode, wide,
                 At("block", l, i, Append(b, [what |-> e.what, charset |-> e.charset]), bs))
BY DEF BlockWords, Takes, ReadText, ReadBetween, ReadInLine, ReadInBlock, LineEnds, At

LEMMA ReadBlockEnd ==
    ASSUME NEW l, NEW i, NEW b, NEW bs, NEW e, e.what = "chbase end", NEW mode, NEW wide,
           Len(l) % 24 = 23, b = ExpectedBlock(Len(l), wide)
    PROVE  Takes(At("block", l, i, b, bs), e, mode, wide,
                 At("between", Append(l, LineOf(i)), <<>>, b, bs \cup {Len(l)}))
BY DEF Takes, ReadText, ReadInLine, ReadInBlock, LineEnds, At, EndLine

\* A text takes the reader from s to t, a word at a time.
Readers(f, s, text, mode, wide, t) ==
    /\ DOMAIN f = 0..Len(text) /\ f[0] = s /\ f[Len(text)] = t
    /\ \A n \in 1..Len(text) : f[n] = ReadText(f[n - 1], text[n], mode, wide)

Reads(s, text, mode, wide, t) == \E f : Readers(f, s, text, mode, wide, t)

LEMMA ReadAllIs ==
    ASSUME NEW text \in Seq(Texts), NEW s, s.at # "error", NEW mode, NEW wide, NEW t,
           Reads(s, text, mode, wide, t)
    PROVE  ReadAll(s, text, mode, wide) = t
<1> DEFINE N == Len(text)
           Out(n, x) == ReadText(x, text[n], mode, wide)
           Is(g) == g = [n \in 0..N |-> IF n = 0 THEN s ELSE Out(n, g[n - 1])]
           k == CHOOSE g : Is(g)
<1>1. N \in Nat
  OBVIOUS
<1>2. ReadAll(s, text, mode, wide) = k[N]
  BY DEF ReadAll
<1>3. PICK f : Readers(f, s, text, mode, wide, t)
  BY DEF Reads
<1>4. f[0] = s /\ f[N] = t /\ \A n \in 1..N : f[n] = Out(n, f[n - 1])
  BY <1>3 DEF Readers
<1> HIDE DEF Out, N
<1> DEFINE g == [n \in 0..N |-> f[n]]
<1>5. Is(g)
  <2>1. ASSUME NEW n \in 0..N
        PROVE  g[n] = IF n = 0 THEN s ELSE Out(n, g[n - 1])
    <3>1. CASE n = 0
      BY <3>1, <1>4
    <3>2. CASE n # 0
      <4>1. n \in 1..N /\ n - 1 \in 0..N
        BY <1>1, <3>2
      <4> QED
        BY <1>4, <3>2, <4>1
    <3> QED
      BY <3>1, <3>2
  <2> QED
    BY <2>1
<1>6. Is(k)
  <2> HIDE DEF Is
  <2> QED
    BY <1>5
<1>7. k[0] = s /\ \A n \in 1..N : k[n] = Out(n, k[n - 1])
  <2>1. 0 \in 0..N /\ \A n \in 1..N : n \in 0..N /\ n # 0
    BY <1>1
  <2> QED
    BY <1>6, <2>1
<1> HIDE DEF k
<1> DEFINE B == {n \in 0..N : k[n] = f[n]}
<1>8. 0 \in B
  BY <1>1, <1>4, <1>7
<1>9. ASSUME NEW n \in 1..N, n - 1 \in B
      PROVE  n \in B
  <2>1. n \in 0..N
    BY <1>1
  <2> QED
    BY <1>4, <1>7, <1>9, <2>1
<1>10. 0..N \subseteq B
  <2> HIDE DEF B
  <2> QED
    BY <1>1, <1>8, <1>9, Induction
<1>11. N \in 0..N
  BY <1>1
<1> QED
  BY <1>2, <1>4, <1>10, <1>11

\* A text after a text is read from where the first one led.
LEMMA ReadsConcat ==
    ASSUME NEW a \in Seq(Texts), NEW b \in Seq(Texts), NEW s, NEW t, NEW u, NEW mode, NEW wide,
           Reads(s, a, mode, wide, t), Reads(t, b, mode, wide, u)
    PROVE  Reads(s, a \o b, mode, wide, u)
<1> DEFINE M == Len(a)
           N == Len(b)
           c == a \o b
<1>1. PICK f : Readers(f, s, a, mode, wide, t)
  BY DEF Reads
<1>2. PICK g : Readers(g, t, b, mode, wide, u)
  BY DEF Reads
<1>3. /\ c \in Seq(Texts) /\ Len(c) = M + N /\ M \in Nat /\ N \in Nat
      /\ \A n \in 1..M : c[n] = a[n]
      /\ \A n \in 1..N : c[M + n] = b[n]
  BY Joined
<1>4. f[0] = s /\ f[M] = t /\ \A n \in 1..M : f[n] = ReadText(f[n - 1], a[n], mode, wide)
  BY <1>1 DEF Readers
<1>5. g[0] = t /\ g[N] = u /\ \A n \in 1..N : g[n] = ReadText(g[n - 1], b[n], mode, wide)
  BY <1>2 DEF Readers
<1> HIDE DEF M, N, c
<1> DEFINE h == [n \in 0..(M + N) |-> IF n <= M THEN f[n] ELSE g[n - M]]
<1>6. h[0] = s /\ h[M + N] = u
  <2>1. 0 \in 0..(M + N) /\ M + N \in 0..(M + N) /\ 0 <= M
    BY <1>3
  <2>2. CASE N = 0
    BY <1>3, <1>4, <1>5, <2>1, <2>2
  <2>3. CASE N # 0
    <3>1. ~(M + N <= M) /\ (M + N) - M = N
      BY <1>3, <2>3
    <3> QED
      BY <1>4, <1>5, <2>1, <3>1
  <2> QED
    BY <2>2, <2>3
<1>7. ASSUME NEW n \in 1..(M + N)
      PROVE  h[n] = ReadText(h[n - 1], c[n], mode, wide)
  <2>1. n \in 0..(M + N) /\ n - 1 \in 0..(M + N) /\ n \in Nat
    BY <1>3
  <2>2. CASE n <= M
    <3>1. n \in 1..M /\ n - 1 <= M
      BY <1>3, <2>1, <2>2
    <3> QED
      BY <1>3, <1>4, <2>1, <2>2, <3>1
  <2>3. CASE ~(n <= M)
    <3> DEFINE m == n - M
    <3>1. m \in 1..N /\ n = M + m /\ (n - 1) - M = m - 1
      BY <1>3, <2>1, <2>3
    <3>2. h[n] = g[m] /\ c[n] = b[m]
      BY <1>3, <2>1, <2>3, <3>1
    <3>3. h[n - 1] = g[m - 1]
      <4>1. CASE m = 1
        <5>1. n - 1 = M /\ M <= M
          BY <1>3, <3>1, <4>1
        <5>2. h[n - 1] = f[M]
          BY <2>1, <5>1
        <5> QED
          BY <1>4, <1>5, <4>1, <5>2
      <4>2. CASE m # 1
        <5>1. ~(n - 1 <= M)
          BY <1>3, <3>1, <4>2
        <5> QED
          BY <2>1, <3>1, <5>1
      <4> QED
        BY <4>1, <4>2
    <3> HIDE DEF h, m
    <3> QED
      BY <1>5, <3>1, <3>2, <3>3
  <2> QED
    BY <2>2, <2>3
<1>8. DOMAIN h = 0..(M + N)
  OBVIOUS
<1> HIDE DEF h
<1>9. Readers(h, s, c, mode, wide, u)
  BY <1>3, <1>6, <1>7, <1>8 DEF Readers
<1> QED
  BY <1>9 DEF Reads, c

\* Texts of one word and of none.
LEMMA ReadsOne ==
    ASSUME NEW e \in Texts, NEW s, NEW t, NEW mode, NEW wide, Takes(s, e, mode, wide, t)
    PROVE  Reads(s, <<e>>, mode, wide, t)
<1> DEFINE f == [n \in 0..1 |-> IF n = 0 THEN s ELSE t]
           text == <<e>>
<1>1. Len(text) = 1 /\ text[1] = e
  OBVIOUS
<1>2. f[0] = s /\ f[1] = t /\ DOMAIN f = 0..1
  OBVIOUS
<1> HIDE DEF f, text
<1>3. Readers(f, s, text, mode, wide, t)
  <2>1. ASSUME NEW n \in 1..1
        PROVE  f[n] = ReadText(f[n - 1], text[n], mode, wide)
    <3>1. n = 1 /\ n - 1 = 0
      OBVIOUS
    <3> QED
      BY <1>1, <1>2, <3>1 DEF Takes
  <2> QED
    BY <1>1, <1>2, <2>1 DEF Readers
<1> QED
  BY <1>3 DEF Reads, text

LEMMA ReadsNothing ==
    ASSUME NEW s, NEW mode, NEW wide
    PROVE  Reads(s, <<>>, mode, wide, s)
<1> DEFINE f == [n \in 0..0 |-> s]
<1>1. Readers(f, s, <<>>, mode, wide, s)
  BY DEF Readers
<1> QED
  BY <1>1 DEF Reads

\* Instructions are appended.
LEMMA ReadsInsTexts ==
    ASSUME NEW ins \in Seq(Instructions), NEW l, NEW b, NEW bs, NEW mode, NEW wide
    PROVE  Reads(At("line", l, <<>>, b, bs), InsTexts(ins), mode, wide, At("line", l, ins, b, bs))
<1> DEFINE N == Len(ins)
           text == InsTexts(ins)
           Part(n) == SubSeq(ins, 1, n)
           f == [n \in 0..N |-> At("line", l, Part(n), b, bs)]
<1>1. N \in Nat /\ Len(text) = N /\ \A n \in 1..N : text[n] = InsText(ins[n])
  BY InsTextsAre
<1>2. \A n \in 1..N : ins[n] \in Instructions
  BY ElementOfSeq
<1>3. \A n \in 1..N : text[n].what = "instruction" /\ text[n].ins = ins[n]
  BY <1>1, <1>2, TextTyped
<1>4. \A n \in 1..N : Part(n) = Append(Part(n - 1), ins[n])
  <2> TAKE n \in 1..N
  <2> QED
    OBVIOUS
<1>5. Part(0) = <<>> /\ Part(N) = ins
  OBVIOUS
<1> HIDE DEF N, text, Part
<1>6. ASSUME NEW n \in 1..N
      PROVE  f[n] = ReadText(f[n - 1], text[n], mode, wide)
  <2>1. n \in 0..N /\ n - 1 \in 0..N
    BY <1>1
  <2> DEFINE e == text[n]
             i == Part(n - 1)
  <2>2. f[n] = At("line", l, Append(i, e.ins), b, bs) /\ f[n - 1] = At("line", l, i, b, bs)
    BY <1>3, <1>4, <2>1
  <2>3. e.what = "instruction"
    BY <1>3
  <2> HIDE DEF e, i, f
  <2>4. Takes(At("line", l, i, b, bs), e, mode, wide, At("line", l, Append(i, e.ins), b, bs))
    BY <2>3, ReadInstruction
  <2> QED
    BY <2>2, <2>4 DEF e, Takes
<1>7. DOMAIN f = 0..N /\ f[0] = At("line", l, <<>>, b, bs) /\ f[N] = At("line", l, ins, b, bs)
  BY <1>1, <1>5
<1> HIDE DEF f
<1>8. Readers(f, At("line", l, <<>>, b, bs), text, mode, wide, At("line", l, ins, b, bs))
  BY <1>1, <1>6, <1>7 DEF Readers
<1> QED
  BY <1>8 DEF Reads, text

\* Where a schedule changes the character set, and with which delay.
Changing(s, wide, y, h) ==
    IF Transition(y, h)
    THEN s.transition = TRUE /\ s.suffix = (IF wide THEN 9 ELSE 10) /\ y % 24 = 23
    ELSE s.transition = FALSE

\* A schedule does, on the lines before the next character set and nowhere else.
LEMMA ScheduleChanges ==
    ASSUME NEW mode, mode # "E", NEW wide \in BOOLEAN, NEW y \in Nat, NEW h \in Nat
    PROVE  Changing(Schedule(mode, wide, y, h), wide, y, h)
<1> DEFINE c == IF wide THEN WideContinuation ELSE NormalContinuation
           t == [c EXCEPT !.transition = TRUE, !.limit = IF wide THEN 44 ELSE 50,
                          !.suffix = IF wide THEN 9 ELSE 10]
           s == Schedule(mode, wide, y, h)
<1>1. CASE Transition(y, h)
  <2>1. y % 24 = 23
    BY <1>1 DEF Transition
  <2>2. y # 0 /\ y % 8 # 0 /\ y % 8 # 1
    BY <2>1
  <2>3. s = t
    BY <1>1, <2>2 DEF Schedule
  <2>4. t.transition = TRUE /\ t.suffix = IF wide THEN 9 ELSE 10
    <3>1. CASE wide
      BY <3>1 DEF WideContinuation
    <3>2. CASE ~wide
      BY <3>2 DEF NormalContinuation
    <3> QED
      BY <3>1, <3>2
  <2> HIDE DEF s, t
  <2> QED
    BY <1>1, <2>1, <2>3, <2>4 DEF Changing, s
<1>2. CASE ~Transition(y, h)
  <2>1. s \in {WideLms, NormalLms, WideBadline, NormalBadline, WideAfterBadline,
               WideContinuation, NormalContinuation}
    BY <1>2 DEF Schedule
  <2> HIDE DEF s
  <2>2. s.transition = FALSE
    BY <2>1, NormalLmsSlotted, NormalBadlineSlotted, NormalContinuationSlotted, WideLmsSlotted,
       WideBadlineSlotted, WideContinuationSlotted, WideAfterBadlineSlotted
  <2> QED
    BY <1>2, <2>2 DEF Changing, s
<1> QED
  BY <1>1, <1>2

\* One word more.
LEMMA ReadsAppend ==
    ASSUME NEW a \in Seq(Texts), NEW e \in Texts, NEW mode, NEW wide, NEW s, NEW t, NEW u,
           Reads(s, a, mode, wide, t), Takes(t, e, mode, wide, u)
    PROVE  Reads(s, Append(a, e), mode, wide, u)
<1>1. Reads(t, <<e>>, mode, wide, u)
  BY ReadsOne
<1>2. <<e>> \in Seq(Texts)
  OBVIOUS
<1>3. Reads(s, a \o <<e>>, mode, wide, u)
  BY <1>1, <1>2, ReadsConcat
<1>4. Append(a, e) = a \o <<e>>
  BY AppendIsConcat
<1> QED
  BY <1>3, <1>4

\* A sequence with one element more is the shorter one with that appended.
LEMMA LongerIsAppend ==
    ASSUME NEW S, NEW s \in Seq(S), NEW t \in Seq(S), NEW e \in S, Len(t) = Len(s) + 1,
           \A i \in 1..Len(s) : t[i] = s[i], t[Len(s) + 1] = e
    PROVE  Append(s, e) = t
<1>1. /\ Append(s, e) \in Seq(S) /\ Len(Append(s, e)) = Len(s) + 1
      /\ \A i \in 1..Len(s) : Append(s, e)[i] = s[i]
      /\ Append(s, e)[Len(s) + 1] = e
  BY AppendProperties
<1>2. Len(s) \in Nat
  OBVIOUS
<1>3. ASSUME NEW i \in 1..Len(t)
      PROVE  Append(s, e)[i] = t[i]
  <2>1. i \in 1..Len(s) \/ i = Len(s) + 1
    BY <1>2
  <2> QED
    BY <1>1, <2>1
<1> QED
  BY <1>1, <1>3, SeqEqual

LEMMA AppendOne ==
    ASSUME NEW S, NEW a \in S
    PROVE  Append(<<>>, a) = <<a>>
BY LongerIsAppend

LEMMA AppendTwo ==
    ASSUME NEW S, NEW a \in S, NEW b \in S
    PROVE  Append(<<a>>, b) = <<a, b>>
<1> DEFINE s == <<a>>
           t == <<a, b>>
<1>1. s \in Seq(S) /\ t \in Seq(S) /\ Len(s) = 1 /\ Len(t) = Len(s) + 1
  OBVIOUS
<1>2. \A i \in 1..Len(s) : t[i] = s[i]
  OBVIOUS
<1>3. t[Len(s) + 1] = b
  OBVIOUS
<1> HIDE DEF s, t
<1>4. Append(s, b) = t
  BY <1>1, <1>2, <1>3, LongerIsAppend
<1> QED
  BY <1>4 DEF s, t

LEMMA AppendThree ==
    ASSUME NEW S, NEW a \in S, NEW b \in S, NEW c \in S
    PROVE  Append(<<a, b>>, c) = <<a, b, c>>
<1> DEFINE s == <<a, b>>
           t == <<a, b, c>>
<1>1. s \in Seq(S) /\ t \in Seq(S) /\ Len(s) = 2 /\ Len(t) = Len(s) + 1
  OBVIOUS
<1>2. \A i \in 1..Len(s) : t[i] = s[i]
  OBVIOUS
<1>3. t[Len(s) + 1] = c
  OBVIOUS
<1> HIDE DEF s, t
<1>4. Append(s, c) = t
  BY <1>1, <1>2, <1>3, LongerIsAppend, ZenonT(30)
<1> QED
  BY <1>4 DEF s, t

LEMMA AppendFour ==
    ASSUME NEW S, NEW a \in S, NEW b \in S, NEW c \in S, NEW d \in S
    PROVE  Append(<<a, b, c>>, d) = <<a, b, c, d>>
<1> DEFINE s == <<a, b, c>>
           t == <<a, b, c, d>>
<1>1. s \in Seq(S) /\ t \in Seq(S) /\ Len(s) = 3 /\ Len(t) = Len(s) + 1
  OBVIOUS
<1>2. \A i \in 1..Len(s) : t[i] = s[i]
  OBVIOUS
<1>3. t[Len(s) + 1] = d
  OBVIOUS
<1> HIDE DEF s, t
<1>4. Append(s, d) = t
  BY <1>1, <1>2, <1>3, LongerIsAppend, ZenonT(30)
<1> QED
  BY <1>4 DEF s, t

LEMMA AppendFive ==
    ASSUME NEW S, NEW a \in S, NEW b \in S, NEW c \in S, NEW d \in S, NEW e \in S
    PROVE  Append(<<a, b, c, d>>, e) = <<a, b, c, d, e>>
<1> DEFINE s == <<a, b, c, d>>
           t == <<a, b, c, d, e>>
<1>1. s \in Seq(S) /\ t \in Seq(S) /\ Len(s) = 4 /\ Len(t) = Len(s) + 1
  OBVIOUS
<1>2. \A i \in 1..Len(s) : t[i] = s[i]
  OBVIOUS
<1>3. t[Len(s) + 1] = e
  OBVIOUS
<1> HIDE DEF s, t
<1>4. Append(s, e) = t
  BY <1>1, <1>2, <1>3, LongerIsAppend, ZenonT(30)
<1> QED
  BY <1>4 DEF s, t

\* Texts of two and of five words, word by word.
LEMMA ReadsTwo ==
    ASSUME NEW a \in Texts, NEW b \in Texts, NEW mode, NEW wide, NEW s, NEW t, NEW u,
           Takes(s, a, mode, wide, t), Takes(t, b, mode, wide, u)
    PROVE  Reads(s, <<a, b>>, mode, wide, u)
<1>1. Reads(s, <<a>>, mode, wide, t)
  BY ReadsOne
<1>2. <<a>> \in Seq(Texts)
  OBVIOUS
<1>3. Reads(s, Append(<<a>>, b), mode, wide, u)
  BY <1>1, <1>2, ReadsAppend
<1>4. Append(<<a>>, b) = <<a, b>>
  BY AppendTwo
<1> QED
  BY <1>3, <1>4

LEMMA ReadsFive ==
    ASSUME NEW a \in Texts, NEW b \in Texts, NEW c \in Texts, NEW d \in Texts, NEW e \in Texts,
           NEW mode, NEW wide, NEW s, NEW t, NEW u, NEW v, NEW w, NEW x,
           Takes(s, a, mode, wide, t), Takes(t, b, mode, wide, u),
           Takes(u, c, mode, wide, v), Takes(v, d, mode, wide, w),
           Takes(w, e, mode, wide, x)
    PROVE  Reads(s, <<a, b, c, d, e>>, mode, wide, x)
<1>1. Reads(s, <<a, b>>, mode, wide, u)
  BY ReadsTwo
<1>2. <<a, b>> \in Seq(Texts) /\ <<a, b, c>> \in Seq(Texts) /\ <<a, b, c, d>> \in Seq(Texts)
  OBVIOUS
<1>3. /\ Append(<<a, b>>, c) = <<a, b, c>> /\ Append(<<a, b, c>>, d) = <<a, b, c, d>>
      /\ Append(<<a, b, c, d>>, e) = <<a, b, c, d, e>>
  BY AppendThree, AppendFour, AppendFive
<1>4. Reads(s, Append(<<a, b>>, c), mode, wide, v)
  BY <1>1, <1>2, ReadsAppend
<1>5. Reads(s, Append(<<a, b, c>>, d), mode, wide, w)
  BY <1>2, <1>3, <1>4, ReadsAppend
<1>6. Reads(s, Append(<<a, b, c, d>>, e), mode, wide, x)
  BY <1>2, <1>3, <1>5, ReadsAppend
<1> QED
  BY <1>3, <1>6

\* What the end of a line does, by its words.
LEMMA ReadsEnd ==
    ASSUME NEW e \in Texts,
           e.what \in {"cmp byt2", "bit $ffff, mode E end", "bit $ffff, ANTIC 4 end"},
           NEW l, NEW i, i # <<>>, NEW b, NEW bs, NEW mode, NEW wide
    PROVE  Reads(At("line", l, i, b, bs), <<e>>, mode, wide,
                 At("between", Append(l, LineOf(i)), <<>>, b, bs))
<1>1. EndsLine(e, i)
  BY DEF EndsLine
<1>2. Takes(At("line", l, i, b, bs), e, mode, wide,
            At("between", Append(l, LineOf(i)), <<>>, b, bs))
  BY <1>1, ReadEnd
<1> QED
  BY <1>2, ReadsOne

LEMMA ReadsEndNop ==
    ASSUME NEW e \in Texts, e.what = "bit byt2, ANTIC 4 end",
           NEW f \in Texts, f.what = "nop, ANTIC 4 end",
           NEW l, NEW i, NEW b, NEW bs, NEW mode, NEW wide
    PROVE  Reads(At("line", l, i, b, bs), <<e, f>>, mode, wide,
                 At("between", Append(l, LineOf(i)), <<>>, b, bs))
<1> DEFINE t == At("between", Append(l, LineOf(i)), <<>>, b, bs)
<1>1. Takes(At("line", l, i, b, bs), e, mode, wide, t)
  <2>1. EndsLine(e, i)
    BY DEF EndsLine
  <2> QED
    BY <2>1, ReadEnd
<1>2. Takes(t, f, mode, wide, t)
  BY ReadNop
<1> HIDE DEF t
<1>3. Reads(At("line", l, i, b, bs), <<e, f>>, mode, wide, t)
  BY <1>1, <1>2, ReadsTwo
<1> QED
  BY <1>3 DEF t

\* A word of the fixed block.
IsWord(e, what, charset) == e \in Texts /\ e.what = what /\ e.charset = charset

\* A word that is made, and one that names its character set.
LEMMA TextIsWord ==
    ASSUME NEW what \in Words, NEW n \in Nat
    PROVE  /\ IsWord(Text(what, n), what, 0)
           /\ \A charset \in Nat : IsWord([Text(what, n) EXCEPT !.charset = charset], what, charset)
<1>1. Nop \in Instructions
  BY InstructionType
<1>2. ASSUME NEW charset \in Nat
      PROVE  [Text(what, n) EXCEPT !.charset = charset]
               = [what |-> what, cycles |-> n, ins |-> Nop, charset |-> charset]
  BY DEF Text
<1>3. ASSUME NEW charset \in Nat
      PROVE  IsWord([what |-> what, cycles |-> n, ins |-> Nop, charset |-> charset], what, charset)
  BY <1>1 DEF IsWord, Texts
<1>4. Text(what, n) = [what |-> what, cycles |-> n, ins |-> Nop, charset |-> 0]
  BY DEF Text
<1>5. IsWord(Text(what, n), what, 0)
  <2>1. 0 \in Nat
    OBVIOUS
  <2> QED
    BY <1>3, <1>4, <2>1
<1> QED
  BY <1>2, <1>3, <1>5

\* The block that changes the character set ends the line and is marked.
LEMMA ReadsFixedBlock ==
    ASSUME NEW begin, NEW delay, NEW charset, NEW sta, NEW end, NEW word, NEW C,
           IsWord(begin, "chbase begin", 0), IsWord(delay, word, 0),
           word \in {"bit byt2", "bit $ffff"}, IsWord(charset, "lda charset", C),
           IsWord(sta, "sta CHBASE", 0), IsWord(end, "chbase end", 0),
           NEW l, NEW i, NEW b, NEW bs, NEW wide, NEW block, block = ExpectedBlock(Len(l), wide),
           block = <<[what |-> word, charset |-> 0], [what |-> "lda charset", charset |-> C],
                     [what |-> "sta CHBASE", charset |-> 0]>>,
           Len(l) % 24 = 23
    PROVE  Reads(At("line", l, i, b, bs), <<begin, delay, charset, sta, end>>, "ANTIC4", wide,
                 At("between", Append(l, LineOf(i)), <<>>, block, bs \cup {Len(l)}))
<1> DEFINE x1 == [what |-> word, charset |-> 0]
           x2 == [what |-> "lda charset", charset |-> C]
           x3 == [what |-> "sta CHBASE", charset |-> 0]
           b0 == <<>>
           b1 == <<x1>>
           b2 == <<x1, x2>>
           b3 == <<x1, x2, x3>>
<1>1. /\ begin \in Texts /\ delay \in Texts /\ charset \in Texts /\ sta \in Texts /\ end \in Texts
      /\ begin.what = "chbase begin" /\ delay.what = word /\ charset.what = "lda charset"
      /\ sta.what = "sta CHBASE" /\ end.what = "chbase end"
      /\ delay.charset = 0 /\ charset.charset = C /\ sta.charset = 0
  BY DEF IsWord
<1>2. /\ [what |-> delay.what, charset |-> delay.charset] = x1
      /\ [what |-> charset.what, charset |-> charset.charset] = x2
      /\ [what |-> sta.what, charset |-> sta.charset] = x3
  BY <1>1
<1>3. block = b3
  OBVIOUS
<1> HIDE DEF x1, x2, x3
<1>4. Append(b0, x1) = b1 /\ Append(b1, x2) = b2 /\ Append(b2, x3) = b3
  <2> DEFINE S == {x1, x2, x3}
  <2>1. x1 \in S /\ x2 \in S /\ x3 \in S
    OBVIOUS
  <2> HIDE DEF S
  <2>2. Append(<<>>, x1) = <<x1>>
    BY <2>1, AppendOne
  <2>3. Append(<<x1>>, x2) = <<x1, x2>>
    BY <2>1, AppendTwo
  <2>4. Append(<<x1, x2>>, x3) = <<x1, x2, x3>>
    BY <2>1, AppendThree
  <2> QED
    BY <2>2, <2>3, <2>4
<1> HIDE DEF b1, b2, b3
<1>5. Takes(At("line", l, i, b, bs), begin, "ANTIC4", wide, At("block", l, i, b0, bs))
  BY <1>1, ReadBegin
<1>6. Takes(At("block", l, i, b0, bs), delay, "ANTIC4", wide, At("block", l, i, b1, bs))
  <2>a. Takes(At("block", l, i, b0, bs), delay, "ANTIC4", wide,
              At("block", l, i, Append(b0, [what |-> delay.what, charset |-> delay.charset]), bs))
    <3>1. delay.what \in BlockWords
      BY <1>1 DEF BlockWords
    <3> HIDE DEF b0
    <3> QED
      BY <3>1, ReadBlock
  <2> QED
    BY <2>a, <1>2, <1>4
<1>7. Takes(At("block", l, i, b1, bs), charset, "ANTIC4", wide, At("block", l, i, b2, bs))
  <2>a. Takes(At("block", l, i, b1, bs), charset, "ANTIC4", wide,
              At("block", l, i,
                 Append(b1, [what |-> charset.what, charset |-> charset.charset]), bs))
    <3>1. charset.what \in BlockWords
      BY <1>1 DEF BlockWords
    <3> HIDE DEF b0
    <3> QED
      BY <3>1, ReadBlock
  <2> QED
    BY <2>a, <1>2, <1>4
<1>8. Takes(At("block", l, i, b2, bs), sta, "ANTIC4", wide, At("block", l, i, b3, bs))
  <2>a. Takes(At("block", l, i, b2, bs), sta, "ANTIC4", wide,
              At("block", l, i, Append(b2, [what |-> sta.what, charset |-> sta.charset]), bs))
    <3>1. sta.what \in BlockWords
      BY <1>1 DEF BlockWords
    <3> HIDE DEF b0
    <3> QED
      BY <3>1, ReadBlock
  <2> QED
    BY <2>a, <1>2, <1>4
<1>9. Takes(At("block", l, i, b3, bs), end, "ANTIC4", wide,
            At("between", Append(l, LineOf(i)), <<>>, b3, bs \cup {Len(l)}))
  BY <1>1, <1>3, ReadBlockEnd
<1> QED
  BY <1>1, <1>3, <1>5, <1>6, <1>7, <1>8, <1>9, ReadsFive

\* A text ends a line: between lines again, with some lines and changes of
\* character set read.
ReadsTo(s, text, mode, wide, lines, blocks) ==
    \E c : Reads(s, text, mode, wide, At("between", lines, <<>>, c, blocks))

\* The changes of character set with that of line y.
With(bs, mode, y, h) == IF mode # "E" /\ Transition(y, h) THEN bs \cup {y} ELSE bs

\* The end of a line makes a line of the instructions read, and is marked where
\* the character set changes.
LEMMA ReadsLineEnd ==
    ASSUME NEW mode \in {"E", "ANTIC4"}, NEW wide \in BOOLEAN, NEW y \in Nat, NEW h \in Nat,
           NEW s, Shaped(s, mode, wide), mode # "E" => Changing(s, wide, y, h),
           NEW l, Len(l) = y, NEW i, i # <<>>, NEW b, NEW bs
    PROVE  ReadsTo(At("line", l, i, b, bs), LineEnd(s, y, mode), mode, wide,
                   Append(l, LineOf(i)), With(bs, mode, y, h))
<1> DEFINE from == At("line", l, i, b, bs)
           done(c, more) == At("between", Append(l, LineOf(i)), <<>>, c, more)
           C == y \div 24 + 1
<1>1. CASE mode = "E"
  <2>1. \E e \in Texts : e.what \in {"cmp byt2", "bit $ffff, mode E end"}
                         /\ LineEnd(s, y, mode) = <<e>>
    <3>1. 3 \in Nat /\ 4 \in Nat /\ "cmp byt2" \in Words /\ "bit $ffff, mode E end" \in Words
      BY DEF Words
    <3>2. CASE s.suffix = 3
      <4>1. LineEnd(s, y, mode) = <<Text("cmp byt2", 3)>>
        BY <1>1, <3>2 DEF LineEnd
      <4> QED
        BY <3>1, <4>1, TextTyped, ZenonT(30)
    <3>3. CASE s.suffix # 3
      <4>1. LineEnd(s, y, mode) = <<Text("bit $ffff, mode E end", 4)>>
        BY <1>1, <3>3 DEF LineEnd
      <4> QED
        BY <3>1, <4>1, TextTyped
    <3> QED
      BY <3>2, <3>3
  <2>2. PICK e \in Texts : e.what \in {"cmp byt2", "bit $ffff, mode E end"}
                           /\ LineEnd(s, y, mode) = <<e>>
    BY <2>1
  <2>4. Reads(from, <<e>>, mode, wide, done(b, bs))
    BY <2>2, ReadsEnd
  <2> HIDE DEF from, done
  <2> QED
    BY <1>1, <2>2, <2>4 DEF from, done, ReadsTo, With
<1>2. CASE mode = "ANTIC4" /\ ~Transition(y, h)
  <2>1. s.transition = FALSE
    BY <1>2 DEF Changing
  <2>2. CASE s.suffix = 5
    <3> DEFINE e == Text("bit byt2, ANTIC 4 end", 3)
               f == Text("nop, ANTIC 4 end", 2)
    <3>1. LineEnd(s, y, mode) = <<e, f>>
      BY <1>2, <2>1, <2>2 DEF LineEnd
    <3>2. /\ e \in Texts /\ e.what = "bit byt2, ANTIC 4 end"
          /\ f \in Texts /\ f.what = "nop, ANTIC 4 end"
      <4>1. /\ 3 \in Nat /\ "bit byt2, ANTIC 4 end" \in Words
            /\ 2 \in Nat /\ "nop, ANTIC 4 end" \in Words
        BY DEF Words
      <4> QED
        BY <4>1, TextTyped
    <3> HIDE DEF e, f
    <3>5. Reads(from, <<e, f>>, mode, wide, done(b, bs))
      BY <3>2, ReadsEndNop
    <3> HIDE DEF from, done
    <3> QED
      BY <1>2, <3>1, <3>5 DEF from, done, ReadsTo, With
  <2>3. CASE s.suffix # 5
    <3> DEFINE e == Text("bit $ffff, ANTIC 4 end", 4)
    <3>1. LineEnd(s, y, mode) = <<e>>
      BY <1>2, <2>1, <2>3 DEF LineEnd
    <3>2. e \in Texts /\ e.what = "bit $ffff, ANTIC 4 end"
      <4>1. 4 \in Nat /\ "bit $ffff, ANTIC 4 end" \in Words
        BY DEF Words
      <4> QED
        BY <4>1, TextTyped
    <3> HIDE DEF e
    <3>5. Reads(from, <<e>>, mode, wide, done(b, bs))
      BY <3>2, ReadsEnd
    <3> HIDE DEF from, done
    <3> QED
      BY <1>2, <3>1, <3>5 DEF from, done, ReadsTo, With
  <2> QED
    BY <2>2, <2>3
<1>3. CASE mode = "ANTIC4" /\ Transition(y, h)
  <2>1. s.transition = TRUE /\ s.suffix = (IF wide THEN 9 ELSE 10) /\ y % 24 = 23
    BY <1>3 DEF Changing
  <2> DEFINE begin == Text("chbase begin", 0)
             byt2 == Text("bit byt2", 3)
             ffff == Text("bit $ffff", 4)
             base == Text("lda charset", 2)
             charset == [base EXCEPT !.charset = C]
             sta == Text("sta CHBASE", 4)
             end == Text("chbase end", 0)
             block == ExpectedBlock(y, wide)
  <2>2. LineEnd(s, y, mode) = <<begin, IF s.suffix = 9 THEN byt2 ELSE ffff, charset, sta, end>>
    BY <1>3, <2>1 DEF LineEnd
  <2>3. /\ "chbase begin" \in Words /\ "bit byt2" \in Words /\ "bit $ffff" \in Words
        /\ "lda charset" \in Words /\ "sta CHBASE" \in Words /\ "chbase end" \in Words
        /\ 0 \in Nat /\ 2 \in Nat /\ 3 \in Nat /\ 4 \in Nat /\ C \in Nat
    BY DEF Words
  <2>4. IsWord(begin, "chbase begin", 0) /\ IsWord(sta, "sta CHBASE", 0)
        /\ IsWord(end, "chbase end", 0) /\ IsWord(byt2, "bit byt2", 0)
        /\ IsWord(ffff, "bit $ffff", 0)
    BY <2>3, TextIsWord
  <2>5. IsWord(charset, "lda charset", C)
    <3> HIDE DEF C
    <3> QED
      BY <2>3, TextIsWord
  <2>6. CASE wide
    <3>1. s.suffix = 9
      BY <2>1, <2>6
    <3>2. block = <<[what |-> "bit byt2", charset |-> 0], [what |-> "lda charset", charset |-> C],
                    [what |-> "sta CHBASE", charset |-> 0]>>
      BY <2>6 DEF ExpectedBlock
    <3>3. block = ExpectedBlock(Len(l), wide) /\ Len(l) % 24 = 23
      BY <2>1
    <3> HIDE DEF begin, byt2, ffff, charset, sta, end, block, C
    <3>4. LineEnd(s, y, mode) = <<begin, byt2, charset, sta, end>>
      BY <2>2, <3>1
    <3>5. Reads(At("line", l, i, b, bs), <<begin, byt2, charset, sta, end>>, "ANTIC4", wide,
                At("between", Append(l, LineOf(i)), <<>>, block, bs \cup {Len(l)}))
      BY <2>4, <2>5, <3>2, <3>3, ReadsFixedBlock
    <3> QED
      BY <1>3, <3>4, <3>5 DEF ReadsTo, With
  <2>7. CASE ~wide
    <3>1. s.suffix # 9
      BY <2>1, <2>7
    <3>2. block = <<[what |-> "bit $ffff", charset |-> 0], [what |-> "lda charset", charset |-> C],
                    [what |-> "sta CHBASE", charset |-> 0]>>
      BY <2>7 DEF ExpectedBlock
    <3>3. block = ExpectedBlock(Len(l), wide) /\ Len(l) % 24 = 23
      BY <2>1
    <3> HIDE DEF begin, byt2, ffff, charset, sta, end, block, C
    <3>4. LineEnd(s, y, mode) = <<begin, ffff, charset, sta, end>>
      BY <2>2, <3>1
    <3>5. Reads(At("line", l, i, b, bs), <<begin, ffff, charset, sta, end>>, "ANTIC4", wide,
                At("between", Append(l, LineOf(i)), <<>>, block, bs \cup {Len(l)}))
      BY <2>4, <2>5, <3>2, <3>3, ReadsFixedBlock
    <3> QED
      BY <1>3, <3>4, <3>5 DEF ReadsTo, With
  <2> QED
    BY <2>6, <2>7
<1> QED
  BY <1>1, <1>2, <1>3

\* Filler means nothing.
LEMMA ReadsFiller ==
    ASSUME NEW line, NEW limit \in Nat, line.cycles \in Nat,
           NEW l, NEW i, NEW b, NEW bs, NEW mode, NEW wide
    PROVE  Reads(At("line", l, i, b, bs), Filler(line, limit), mode, wide, At("line", l, i, b, bs))
<1> DEFINE w == 2 * ((limit - line.cycles + 1) \div 2)
           t == Text("filler", w)
           s == At("line", l, i, b, bs)
<1>1. CASE line.cycles >= limit
  <2>1. Filler(line, limit) = <<>>
    BY <1>1 DEF Filler
  <2> HIDE DEF s
  <2>2. Reads(s, <<>>, mode, wide, s)
    BY ReadsNothing
  <2> QED
    BY <2>1, <2>2 DEF s
<1>2. CASE ~(line.cycles >= limit)
  <2>1. Filler(line, limit) = <<t>>
    BY <1>2 DEF Filler
  <2>2. w \in Nat
    BY <1>2
  <2>3. t \in Texts /\ t.what = "filler"
    <3> HIDE DEF w
    <3>1. "filler" \in Words
      BY DEF Words
    <3> QED
      BY <2>2, <3>1, TextTyped
  <2> HIDE DEF t
  <2>4. Takes(s, t, mode, wide, s)
    BY <2>3, ReadFiller
  <2> HIDE DEF s
  <2>5. Reads(s, <<t>>, mode, wide, s)
    BY <2>3, <2>4, ReadsOne
  <2> QED
    BY <2>1, <2>5 DEF s
<1> QED
  BY <1>1, <1>2

\* A line of a legal program of h lines, its schedule and its instructions.
LegalLine(p, y, h, s, ins) ==
    /\ p.mode \in {"E", "ANTIC4"} /\ p.wide \in BOOLEAN /\ h \in Nat /\ h = Height(p) /\ y \in Nat
    /\ s = ScheduleOf(p, y) /\ Roomy(s) /\ Shaped(s, p.mode, p.wide)
    /\ ins \in Seq(Instructions) /\ ins # <<>> /\ p.lines[y].ins = ins
    /\ p.lines[y].cycles = Cycles(ins) /\ Cycles(ins) <= s.limit

\* Its text is read as the line.
LEMMA ReadsLine ==
    ASSUME NEW p, NEW y, NEW h, NEW s, NEW ins, LegalLine(p, y, h, s, ins),
           NEW l, Len(l) = y, NEW b, NEW bs
    PROVE  LineText(p, y) \in Seq(Texts)
           /\ ReadsTo(At("between", l, <<>>, b, bs), LineText(p, y), p.mode, p.wide,
                      Append(l, LineOf(ins)), With(bs, p.mode, y, h))
<1> DEFINE line == p.lines[y]
           mode == p.mode
           wide == p.wide
           t1 == <<Text("line", 0)>>
           t2 == InsTexts(ins)
           t3 == Filler(line, s.limit)
           t4 == LineEnd(s, y, mode)
           from == At("between", l, <<>>, b, bs)
           empty == At("line", l, <<>>, b, bs)
           full == At("line", l, ins, b, bs)
           done(c) == At("between", Append(l, LineOf(ins)), <<>>, c, With(bs, mode, y, h))
<1>l. /\ mode \in {"E", "ANTIC4"} /\ wide \in BOOLEAN /\ h \in Nat /\ h = Height(p) /\ y \in Nat
      /\ s = ScheduleOf(p, y) /\ Roomy(s) /\ Shaped(s, mode, wide)
      /\ ins \in Seq(Instructions) /\ ins # <<>> /\ line.ins = ins
      /\ line.cycles = Cycles(ins) /\ Cycles(ins) <= s.limit
  BY DEF LegalLine
<1>1. LineText(p, y) = ((t1 \o t2) \o t3) \o t4
  BY <1>l DEF LineText, InsTexts
<1>2. Cycles(ins) \in Nat /\ Cycles(ins) % 2 = 0
  BY <1>l, CyclesEven
<1>3. s.limit \in Nat /\ s.limit % 2 = 0
  BY <1>l DEF Roomy
<1>4. t1 \in Seq(Texts) /\ t2 \in Seq(Texts)
  BY <1>l, LineStarts, InsTextsBody DEF Body
<1>5. t3 \in Seq(Texts)
  <2> DEFINE limit == s.limit
  <2>1. /\ limit \in Nat /\ limit % 2 = 0 /\ line.cycles \in Nat /\ line.cycles % 2 = 0
        /\ line.cycles <= limit
    BY <1>l, <1>2, <1>3
  <2> HIDE DEF limit, line
  <2>2. Body(Filler(line, limit), limit - line.cycles, <<>>)
    BY <2>1, FillerBody
  <2> QED
    BY <2>2 DEF limit, Body
<1>6. t4 \in Seq(Texts)
  BY <1>l, LineEndIs DEF Ends
<1>7. Reads(from, t1, mode, wide, empty)
  <2> DEFINE e == Text("line", 0)
  <2>1. e \in Texts /\ e.what = "line"
    <3>1. "line" \in Words /\ 0 \in Nat
      BY DEF Words
    <3> QED
      BY <3>1, TextTyped
  <2> HIDE DEF e
  <2>2. Takes(from, e, mode, wide, empty)
    BY <2>1, ReadLine
  <2> HIDE DEF from, empty, mode, wide
  <2>3. Reads(from, <<e>>, mode, wide, empty)
    BY <2>1, <2>2, ReadsOne
  <2> QED
    BY <2>3 DEF e
<1>8. Reads(empty, t2, mode, wide, full)
  BY <1>l, ReadsInsTexts
<1>9. Reads(full, t3, mode, wide, full)
  <2>1. line.cycles \in Nat
    BY <1>l, <1>2
  <2> HIDE DEF line, mode, wide
  <2> QED
    BY <1>3, <2>1, ReadsFiller
<1>10. \E c : Reads(full, t4, mode, wide, done(c))
  <2>1. mode # "E" => Changing(s, wide, y, h)
    <3>1. s = Schedule(mode, wide, y, h)
      BY <1>l DEF ScheduleOf
    <3> QED
      BY <1>l, <3>1, ScheduleChanges
  <2>2. mode \in {"E", "ANTIC4"} /\ wide \in BOOLEAN /\ Shaped(s, mode, wide)
    BY <1>l
  <2> HIDE DEF mode, wide
  <2>3. ReadsTo(At("line", l, ins, b, bs), LineEnd(s, y, mode), mode, wide,
                Append(l, LineOf(ins)), With(bs, mode, y, h))
    BY <1>l, <2>1, <2>2, ReadsLineEnd
  <2> QED
    BY <2>3 DEF ReadsTo
<1>11. PICK c : Reads(full, t4, mode, wide, done(c))
  BY <1>10
<1> DEFINE to == done(c)
<1>12. Reads(full, t4, mode, wide, to)
  BY <1>11
<1> HIDE DEF t1, t2, t3, t4, from, empty, full, to, done, mode, wide, line
<1>13. t1 \o t2 \in Seq(Texts) /\ Reads(from, t1 \o t2, mode, wide, full)
  BY <1>4, <1>7, <1>8, ReadsConcat, Joined
<1>14. (t1 \o t2) \o t3 \in Seq(Texts) /\ Reads(from, (t1 \o t2) \o t3, mode, wide, full)
  BY <1>5, <1>9, <1>13, ReadsConcat, Joined
<1>15. /\ ((t1 \o t2) \o t3) \o t4 \in Seq(Texts)
       /\ Reads(from, ((t1 \o t2) \o t3) \o t4, mode, wide, to)
  BY <1>6, <1>12, <1>14, ReadsConcat, Joined
<1>16. Reads(from, LineText(p, y), mode, wide, done(c))
  BY <1>1, <1>15 DEF to
<1> QED
  BY <1>1, <1>15, <1>16 DEF from, done, mode, wide, ReadsTo

\* What has been read of a program after some of its lines.
LinesOf(p, n) == [i \in 1..n |-> p.lines[i - 1]]
ChangesOf(p, n, h) == {y \in 0..(n - 1) : p.mode # "E" /\ Transition(y, h)}
ReadUpTo(p, n, h, s) == \E b : s = At("between", LinesOf(p, n), <<>>, b, ChangesOf(p, n, h))

\* The next line of a program is read.
LEMMA ReadsNext ==
    ASSUME NEW pc \in Pictures, NEW p, ProgramOf(pc, p), NEW h \in Nat, h = pc.height,
           NEW n \in 1..h, NEW s, ReadUpTo(p, n - 1, h, s)
    PROVE  ReadUpTo(p, n, h, ReadAll(s, LineText(p, n - 1), p.mode, p.wide))
<1> DEFINE y == n - 1
           ins == p.lines[y].ins
           l == LinesOf(p, y)
           m == LinesOf(p, n)
           bs == ChangesOf(p, y, h)
           cs == ChangesOf(p, n, h)
           text == LineText(p, y)
           mode == p.mode
           wide == p.wide
<1>1. y \in Rows(pc) /\ y \in Nat /\ n \in Nat
  BY DEF Rows
<1>2. /\ p.mode = pc.mode /\ p.wide = pc.wide
      /\ ins \in Seq(Instructions) /\ p.lines[y].cycles = Cycles(ins)
      /\ Cycles(ins) <= ScheduleOf(p, y).limit
      /\ Roomy(ScheduleOf(p, y)) /\ Shaped(ScheduleOf(p, y), p.mode, p.wide)
  BY <1>1, LineOfProgram
<1>3. p.mode \in {"E", "ANTIC4"} /\ p.wide \in BOOLEAN
  BY <1>2, PictureParts
<1>4. h = Height(p)
  BY ProgramLimits
<1>5. ins # <<>> /\ p.lines[y] \in LineType
  BY <1>1 DEF ProgramOf, Fits
<1>6. p.lines[y] = LineOf(ins)
  BY <1>2, <1>5 DEF LineType, LineOf
<1>7. \A i \in 1..n : p.lines[i - 1] \in LineType
  <2> TAKE i \in 1..n
  <2>1. i - 1 \in Rows(pc)
    BY DEF Rows
  <2> QED
    BY <2>1 DEF ProgramOf
<1>8. l \in Seq(LineType) /\ Len(l) = y /\ m \in Seq(LineType) /\ Len(m) = n
  BY <1>1, <1>7 DEF LinesOf
<1>9. Append(l, LineOf(ins)) = m
  <2>1. \A i \in 1..y : m[i] = l[i]
    BY <1>1 DEF LinesOf
  <2>2. m[y + 1] = p.lines[y]
    BY <1>1 DEF LinesOf
  <2>3. Len(m) = Len(l) + 1
    BY <1>1, <1>8
  <2> DEFINE e == LineOf(ins)
  <2>4. e \in LineType /\ m[Len(l) + 1] = e /\ \A i \in 1..Len(l) : m[i] = l[i]
    BY <1>5, <1>6, <1>8, <2>1, <2>2
  <2> HIDE DEF l, m, e
  <2>5. Append(l, e) = m
    BY <1>8, <2>3, <2>4, LongerIsAppend
  <2> QED
    BY <2>5 DEF e
<1>10. With(bs, mode, y, h) = cs
  <2>1. 0..(n - 1) = (0..(y - 1)) \cup {y}
    BY <1>1
  <2> QED
    BY <2>1 DEF With, ChangesOf
<1>11. PICK b : s = At("between", l, <<>>, b, bs)
  BY DEF ReadUpTo
<1>12. s.at = "between"
  BY <1>11 DEF At
<1> HIDE DEF y, l, m, bs, cs, ins
<1>13. LineText(p, y) \in Seq(Texts)
       /\ ReadsTo(At("between", l, <<>>, b, bs), LineText(p, y), p.mode, p.wide,
                  Append(l, LineOf(ins)), With(bs, p.mode, y, h))
  <2> DEFINE sch == ScheduleOf(p, y)
  <2>1. LegalLine(p, y, h, sch, ins)
    BY <1>1, <1>2, <1>3, <1>4, <1>5 DEF LegalLine, ins
  <2> HIDE DEF sch
  <2> QED
    BY <1>8, <2>1, ReadsLine
<1>14. PICK c : Reads(s, text, mode, wide, At("between", m, <<>>, c, cs))
  BY <1>9, <1>10, <1>11, <1>13 DEF ReadsTo, text, mode, wide
<1> DEFINE t == At("between", m, <<>>, c, cs)
<1>15. Reads(s, text, mode, wide, t)
  BY <1>14
<1> HIDE DEF t, text, mode, wide
<1>16. ReadAll(s, text, mode, wide) = t
  <2>1. s.at # "error"
    BY <1>12
  <2>2. text \in Seq(Texts)
    BY <1>13 DEF text
  <2> QED
    BY <1>15, <2>1, <2>2, ReadAllIs
<1>17. ReadUpTo(p, n, h, t)
  BY DEF ReadUpTo, t, m, cs
<1> QED
  BY <1>16, <1>17 DEF text, mode, wide, y

\* What is saved of a program is read as the program.
LEMMA ReadsSaved ==
    ASSUME NEW pc \in Pictures, NEW p, ProgramOf(pc, p), NEW h \in Nat, h = pc.height
    PROVE  ReadUpTo(p, h, h, Read(Saved(p)))
<1> DEFINE file == Saved(p)
           N == Len(file.text)
           Out(n, x) == ReadAll(x, file.text[n], file.mode, file.wide)
           Traced(f, m) == /\ DOMAIN f = 0..m /\ f[0] = Reading
                           /\ \A n \in 1..m : f[n] = Out(n, f[n - 1])
           Is(g) == g = [n \in 0..N |-> IF n = 0 THEN Reading ELSE Out(n, g[n - 1])]
           k == CHOOSE g : Is(g)
<1>1. /\ file.mode = p.mode /\ file.wide = p.wide /\ N = h
      /\ file.text = [n \in 1..h |-> LineText(p, n - 1)]
  <2>1. Height(p) = h
    BY ProgramLimits
  <2>2. file.text = [n \in 1..h |-> LineText(p, n - 1)] /\ file.mode = p.mode /\ file.wide = p.wide
    BY <2>1 DEF Saved
  <2>3. Len([n \in 1..h |-> LineText(p, n - 1)]) = h
    OBVIOUS
  <2> QED
    BY <2>2, <2>3
<1>2. Read(file) = k[N]
  BY DEF Read
<1>o. \A n \in 1..h : \A x : Out(n, x) = ReadAll(x, LineText(p, n - 1), p.mode, p.wide)
  BY <1>1
<1> HIDE DEF Out, N, file
<1>3. \E f : Traced(f, h)
  <2> DEFINE B == {m \in 0..h : \E f : Traced(f, m)}
  <2>1. 0 \in B
    <3> DEFINE f == [n \in 0..0 |-> Reading]
    <3>1. DOMAIN f = 0..0 /\ f[0] = Reading
      OBVIOUS
    <3> HIDE DEF f
    <3>2. Traced(f, 0)
      BY <3>1
    <3> QED
      BY <3>2
  <2>2. ASSUME NEW m \in 1..h, m - 1 \in B
        PROVE  m \in B
    <3>1. PICK f : Traced(f, m - 1)
      BY <2>2
    <3> DEFINE g == [n \in 0..m |-> IF n = m THEN Out(m, f[m - 1]) ELSE f[n]]
    <3>2. DOMAIN g = 0..m
      OBVIOUS
    <3>3. g[0] = Reading
      BY <3>1
    <3>4. ASSUME NEW n \in 1..m
          PROVE  g[n] = Out(n, g[n - 1])
      <4>1. n - 1 \in 0..m /\ n - 1 # m /\ g[n - 1] = f[n - 1] /\ n \in 0..m
        OBVIOUS
      <4>2. CASE n = m
        BY <4>1, <4>2
      <4>3. CASE n # m
        <5>1. n \in 1..(m - 1)
          BY <4>3
        <5>2. f[n] = Out(n, f[n - 1])
          BY <3>1, <5>1
        <5> QED
          BY <4>1, <4>3, <5>2
      <4> QED
        BY <4>2, <4>3
    <3> HIDE DEF g
    <3>5. Traced(g, m)
      BY <3>2, <3>3, <3>4
    <3> HIDE DEF Traced
    <3> QED
      BY <3>5
  <2> HIDE DEF B, Traced
  <2>3. 0..h \subseteq B
    BY <2>1, <2>2, Induction
  <2>4. h \in 0..h
    OBVIOUS
  <2> QED
    BY <2>3, <2>4 DEF B
<1>4. PICK f : Traced(f, h)
  BY <1>3
<1> DEFINE g == [n \in 0..N |-> f[n]]
<1>5. Is(g)
  <2>1. ASSUME NEW n \in 0..N
        PROVE  g[n] = IF n = 0 THEN Reading ELSE Out(n, g[n - 1])
    <3>1. CASE n = 0
      BY <3>1, <1>4
    <3>2. CASE n # 0
      <4>1. n \in 1..h /\ n - 1 \in 0..N
        BY <1>1, <3>2
      <4> QED
        BY <1>4, <3>2, <4>1
    <3> QED
      BY <3>1, <3>2
  <2> QED
    BY <2>1
<1>6. Is(k)
  <2> HIDE DEF Is
  <2> QED
    BY <1>5
<1>7. k[0] = Reading /\ \A n \in 1..h : k[n] = Out(n, k[n - 1])
  <2>1. 0 \in 0..h /\ \A n \in 1..h : n \in 0..h /\ n # 0
    OBVIOUS
  <2> QED
    BY <1>1, <1>6, <2>1, ZenonT(30)
<1> HIDE DEF k
<1> DEFINE B == {n \in 0..h : ReadUpTo(p, n, h, k[n])}
<1>8. 0 \in B
  <2>1. LinesOf(p, 0) = <<>> /\ ChangesOf(p, 0, h) = {}
    BY DEF LinesOf, ChangesOf
  <2>2. Reading = At("between", <<>>, <<>>, <<>>, {})
    BY DEF Reading, At
  <2>3. ReadUpTo(p, 0, h, Reading)
    BY <2>1, <2>2 DEF ReadUpTo
  <2> QED
    BY <1>7, <2>3
<1>9. ASSUME NEW n \in 1..h, n - 1 \in B
      PROVE  n \in B
  <2>1. ReadUpTo(p, n - 1, h, k[n - 1]) /\ n \in 0..h
    BY <1>9
  <2>2. ReadUpTo(p, n, h, ReadAll(k[n - 1], LineText(p, n - 1), p.mode, p.wide))
    BY <2>1, ReadsNext
  <2> QED
    BY <1>7, <1>o, <2>1, <2>2
<1> HIDE DEF B
<1>10. 0..h \subseteq B
  BY <1>8, <1>9, Induction
<1>11. h \in 0..h
  OBVIOUS
<1> QED
  BY <1>1, <1>2, <1>10, <1>11 DEF B, file

\* In mode E, which has no COLOR3, it is never set.
RInv == PInv /\ (picture.mode = "E" => pic.mem["COLOR3"] = 0)

\* The invariant holds first, and every step keeps it.
LEMMA InitRInv == Init => RInv
<1> SUFFICES ASSUME Init, picture.mode = "E"
             PROVE  PInv /\ pic.mem["COLOR3"] = 0
  BY InitPInv DEF RInv
<1>1. PInv
  BY InitPInv
<1>2. pic.mem = InitialMemory
  BY DEF Init
<1>3. "COLOR3" \in Targets /\ "COLOR3" \notin Colors /\ "COLOR3" \notin Positions
  BY DEF Targets, Colors, Positions
<1>4. CASE picture.init = "low color"
  <2> DEFINE targets == SubSeq(Names, 1, 4)
             places == {n \in DOMAIN targets \cap DOMAIN picture.colors : targets[n] = "COLOR3"}
  <2>1. DOMAIN targets = 1..4 /\ targets[1] = "COLOR0" /\ targets[2] = "COLOR1"
        /\ targets[3] = "COLOR2" /\ targets[4] = "COLBAK"
    BY DEF Names
  <2> HIDE DEF targets
  <2>2. places = {}
    BY <2>1
  <2>3. Memory(targets)["COLOR3"] = 0
    BY <1>3, <2>2 DEF Memory
  <2>4. InitialMemory = Memory(targets)
    BY <1>4 DEF InitialMemory, targets
  <2> QED
    BY <1>1, <1>2, <2>3, <2>4
<1>5. CASE picture.init # "low color"
  BY <1>1, <1>2, <1>3, <1>5 DEF InitialMemory
<1> QED
  BY <1>4, <1>5

LEMMA NextRInv == RInv /\ [Next]_vars => RInv'
<1> SUFFICES ASSUME RInv, [Next]_vars, picture'.mode = "E"
             PROVE  PInv' /\ pic'.mem["COLOR3"] = 0
  BY NextPInv DEF RInv
<1>1. PInv'
  BY NextPInv DEF RInv
<1>2. PInv /\ (picture.mode = "E" => pic.mem["COLOR3"] = 0)
  BY DEF RInv
<1>e. ASSUME NEW y \in Lines, SelectMutation(y)
      PROVE  \E lines : Edit(lines)
  <2>1. ASSUME NEW ins, NEW cycles, NEW n, EditLine(n, ins, cycles)
        PROVE  \E lines : Edit(lines)
    BY <2>1 DEF EditLine
  <2>2. CASE CopyFromNext(y)
    BY <2>2 DEF CopyFromNext
  <2>3. CASE PushBackToPrev(y)
    BY <2>1, <2>3 DEF PushBackToPrev
  <2>4. CASE SwapWithPrev(y)
    BY <2>4 DEF SwapWithPrev
  <2>5. CASE AddInstruction(y)
    BY <2>1, <2>5 DEF AddInstruction
  <2>6. CASE RemoveInstruction(y)
    BY <2>1, <2>6 DEF RemoveInstruction
  <2>7. CASE SwapInstruction(y)
    BY <2>1, <2>7 DEF SwapInstruction
  <2>8. CASE ChangeTarget(y)
    BY <2>1, <2>8 DEF ChangeTarget
  <2>9. CASE ChangeValue(y)
    BY <2>1, <2>9 DEF ChangeValue
  <2> QED
    BY <1>e, <2>2, <2>3, <2>4, <2>5, <2>6, <2>7, <2>8, <2>9 DEF SelectMutation
<1>3. picture' = picture
  <2>1. (\E lines : Edit(lines)) => picture' = picture
    BY DEF Edit
  <2>2. ChangeMemory \/ ToggleAttribute \/ StructureRow \/ EndPass \/ EndSearch \/ UNCHANGED vars
          => picture' = picture
    BY DEF ChangeMemory, ToggleAttribute, StructureRow, EndPass, EndSearch, vars
  <2> QED
    BY <1>e, <2>1, <2>2 DEF Next
<1>4. pic.mode = "E" /\ pic.mem["COLOR3"] = 0
  BY <1>2, <1>3, PictureHere
<1>5. pic \in [mode : {picture.mode}, wide : {picture.wide}, attributes : SUBSET Cells(picture),
               mem : [Targets -> Bytes], lines : {pic.lines}]
  BY <1>2 DEF PInv, ProgramOf
<1>6. ASSUME NEW lines, Edit(lines)
      PROVE  pic'.mem = pic.mem
  BY <1>5, <1>6 DEF Edit
<1>7. ASSUME NEW y \in Lines, SelectMutation(y)
      PROVE  pic'.mem = pic.mem
  BY <1>e, <1>6, <1>7
<1>8. CASE ChangeMemory
  <2>1. PICK t \in SampleTargets, d \in {1, -1, 16, -16} :
          /\ t = "COLOR3" => pic.mode = "ANTIC4"
          /\ pic' = [pic EXCEPT !.mem[t] = (@ + d) % 256]
    BY <1>8, ZenonT(30) DEF ChangeMemory
  <2>2. t # "COLOR3"
    BY <1>4, <2>1
  <2>3. pic' = [pic EXCEPT !.mem = [pic.mem EXCEPT ![t] = (pic.mem[t] + d) % 256]]
    BY <2>1
  <2>4. pic'.mem = [pic.mem EXCEPT ![t] = (pic.mem[t] + d) % 256]
    BY <1>5, <2>3
  <2>5. "COLOR3" \in DOMAIN pic.mem
    BY <1>5 DEF Targets
  <2> QED
    BY <1>1, <1>4, <2>2, <2>4, <2>5
<1>9. CASE ToggleAttribute
  <2>1. pic'.mem = pic.mem
    BY <1>5, <1>9 DEF ToggleAttribute
  <2> QED
    BY <1>1, <1>4, <2>1
<1>10. CASE StructureRow
  <2>1. pic'.mem = pic.mem
    BY <1>5, <1>10 DEF StructureRow, Rebuild
  <2> QED
    BY <1>1, <1>4, <2>1
<1>11. CASE EndPass \/ EndSearch \/ UNCHANGED vars
  BY <1>1, <1>4, <1>11 DEF EndPass, EndSearch, vars
<1> QED
  BY <1>1, <1>4, <1>7, <1>8, <1>9, <1>10, <1>11 DEF Next

\* The program that is read is the one that was saved.
LEMMA RInvRestores == RInv => SavesRestore
<1> SUFFICES ASSUME RInv
             PROVE  SavesRestore
  OBVIOUS
<1> DEFINE file == Saved(pic)
           read == Read(file)
           h == picture.height
           l == LinesOf(pic, h)
<1>1. PInv /\ (picture.mode = "E" => pic.mem["COLOR3"] = 0)
  BY DEF RInv
<1>2. /\ picture \in Pictures /\ ProgramOf(picture, pic) /\ h \in Nat
      /\ pic.mode = picture.mode /\ Height(pic) = h /\ pic.lines \in [Rows(picture) -> LineType]
      /\ pic.mem \in [Targets -> Bytes] /\ Rows(picture) = 0..(h - 1)
      /\ pic.mode \in {"E", "ANTIC4"}
  BY <1>1, PictureHere, ProgramLimits, PictureParts DEF PInv, ProgramOf, Rows
<1>3. ReadUpTo(pic, h, h, read)
  <2> HIDE DEF h
  <2> QED
    BY <1>2, ReadsSaved DEF h
<1>4. PICK b : read = At("between", l, <<>>, b, ChangesOf(pic, h, h))
  BY <1>3 DEF ReadUpTo
<1>5. read.at = "between" /\ read.lines = l /\ read.blocks = ChangesOf(pic, h, h)
  BY <1>4 DEF At
<1>6. file.mode = pic.mode
  BY DEF Saved
<1> HIDE DEF h, l
<1>7. Len(l) = h /\ \A i \in 1..h : l[i] = pic.lines[i - 1]
  <2>1. l = [i \in 1..h |-> pic.lines[i - 1]]
    BY DEF l, LinesOf
  <2> QED
    BY <1>2, <2>1
<1> HIDE DEF read
<1>8. Complete(read, file)
  BY <1>5, <1>6, <1>7 DEF Complete, ChangesOf
<1>9. LoadedLines(read) = pic.lines
  <2>1. LoadedLines(read) = [y \in 0..(h - 1) |-> l[y + 1]]
    BY <1>5, <1>7 DEF LoadedLines
  <2>2. \A y \in 0..(h - 1) : l[y + 1] = pic.lines[y]
    <3> TAKE y \in 0..(h - 1)
    <3>1. y + 1 \in 1..h /\ (y + 1) - 1 = y
      BY <1>2
    <3> QED
      BY <1>7, <3>1
  <2> QED
    BY <1>2, <2>1, <2>2
<1>10. LoadedMemory(file) = pic.mem
  <2>1. file.inits = [t \in IF pic.mode = "E" THEN Targets \ {"COLOR3"} ELSE Targets |-> pic.mem[t]]
    BY DEF Saved
  <2> DEFINE inits == file.inits
  <2>2. LoadedMemory(file) = [t \in Targets |-> IF t \in DOMAIN inits THEN inits[t] ELSE 0]
    BY DEF LoadedMemory
  <2> HIDE DEF file, inits
  <2>3. inits = [t \in IF pic.mode = "E" THEN Targets \ {"COLOR3"} ELSE Targets |-> pic.mem[t]]
    BY <2>1 DEF inits
  <2>4. \A t \in Targets : (IF t \in DOMAIN inits THEN inits[t] ELSE 0) = pic.mem[t]
    <3>1. CASE pic.mode = "E"
      BY <1>1, <1>2, <2>3, <3>1
    <3>2. CASE pic.mode # "E"
      BY <2>3, <3>2
    <3> QED
      BY <3>1, <3>2
  <2> QED
    BY <1>2, <2>2, <2>4
<1> QED
  BY <1>8, <1>9, <1>10 DEF SavesRestore, read

\* What SaveRasterProgram writes, LoadRasterProgram and LoadRegInits read back: the
\* same lines and initial registers, with no error and every change of character set
\* in its place, whatever mutations and the structured solver made of the program.
THEOREM RestoreCorrect == Spec => []SavesRestore
<1>1. Spec => []RInv
  BY InitRInv, NextRInv, PTL DEF Spec
<1> QED
  BY <1>1, RInvRestores, PTL

=============================================================================
