--------------------------- MODULE LineCache_proofs ---------------------------
(* Theorems about LineCache, for any number of lines, any instructions and  *)
(* any addresses: the transactional search renders what its programs say,   *)
(* and undoing a candidate restores the program.                            *)
EXTENDS LineCache, TLAPS, FiniteSetTheorems

Store == [Addresses -> Insns \cup {NULL}]

\* A line's address, if it has one, is where its instructions are interned.
Agreeing(n, t) == n.key # NULL => t[n.key] = n.insns
Agree(p, t) == \A l \in Lines : Agreeing(p.lines[l], t)

-----------------------------------------------------------------------------
(* The inductive invariant *)

\* Without /onoff an island evaluates its own program, mutated in place.
OwnTarget == Transactional => target = "current"

\* The island's program has no stale address.
CurrentAgrees == Transactional => Agree(pics["current"], interned)

\* A cached row shows the sequence that is interned at its address now.
TableAgrees ==
  Transactional =>
    \A l \in Lines : \A k \in States \X Addresses :
      table[l][k] # NULL => interned[k[2]] = table[l][k]

\* Saved lines have no stale address unless the epoch tells so.
SavedAgrees ==
  undo /\ ~moved =>
    \A l \in Lines : saved[l] # NULL => Agreeing(saved[l], interned)

\* What is saved and what was not touched make up the program before.
UndoComplete ==
  undo =>
    /\ Transactional /\ pc \in {"mutate", "enter", "line", "judge"}
    /\ before \in Program
    /\ before.mem = IF savedMem = NULL THEN pics["current"].mem ELSE savedMem
    /\ \A l \in Lines :
         before.lines[l] = IF saved[l] = NULL THEN pics["current"].lines[l].insns
                           ELSE saved[l].insns

\* The registers on entry to the line that comes next.
Reached ==
  /\ pc = "line" =>
       /\ y \in Lines
       /\ entry = IF y = 1 THEN pics[target].mem
                  ELSE Exit[y - 1][rows[y - 1].entry][rows[y - 1].insns]
  /\ pc \in {"line", "judge"} =>
       \A l \in 1..(y - 1) : rows[l] \in [entry : States, insns : Insns]

IInv ==
  /\ TypeOK
  /\ OwnTarget
  /\ CurrentAgrees
  /\ TableAgrees
  /\ SavedAgrees
  /\ UndoComplete
  /\ Reached
  /\ Transactional => RowsRendered

-----------------------------------------------------------------------------
(* Interning *)

\* Interning keeps what is interned and gives every new sequence an address.
LEMMA InternStep ==
  ASSUME NEW t \in Store, NEW new \in SUBSET Insns, NEW u \in Interning(t, new)
  PROVE  /\ u \in Store
         /\ \A a \in Addresses : t[a] # NULL => u[a] = t[a]
         /\ \A i \in new : AddressOf(u, i) \in Addresses /\ u[AddressOf(u, i)] = i
<1>1. \A i \in new : \E a \in Addresses : u[a] = i
  BY DEF Interning, Holds
<1>2. \A i \in new : AddressOf(u, i) \in Addresses /\ u[AddressOf(u, i)] = i
  BY <1>1 DEF AddressOf
<1> QED
  BY <1>2 DEF Interning, Store

\* Recaching changes addresses only, and leaves none stale.
LEMMA RecachedStep ==
  ASSUME NEW t \in Store, NEW p \in Picture, NEW new \in SUBSET Insns,
         Missing(p) \subseteq new, NEW u \in Interning(t, new)
  PROVE  /\ Recached(p, u) \in Picture
         /\ Recached(p, u).mem = p.mem
         /\ \A l \in Lines : Recached(p, u).lines[l].insns = p.lines[l].insns
         /\ Agree(p, t) => Agree(Recached(p, u), u)
<1>1. /\ u \in Store
      /\ \A a \in Addresses : t[a] # NULL => u[a] = t[a]
      /\ \A i \in new : AddressOf(u, i) \in Addresses /\ u[AddressOf(u, i)] = i
  BY InternStep
<1>2. \A l \in Lines : p.lines[l] \in Line
  BY DEF Picture
<1>3. \A l \in Lines : p.lines[l].key = NULL => p.lines[l].insns \in new
  BY DEF Missing
<1>4. \A l \in Lines :
        /\ Recached(p, u).lines[l] \in Line
        /\ Recached(p, u).lines[l].insns = p.lines[l].insns
        /\ Recached(p, u).lines[l].key =
             IF p.lines[l].key # NULL THEN p.lines[l].key
             ELSE AddressOf(u, p.lines[l].insns)
  BY <1>1, <1>2, <1>3 DEF Recached, Picture, Line
<1>5. Recached(p, u) \in Picture /\ Recached(p, u).mem = p.mem
  BY <1>4 DEF Recached, Picture
<1>6. ASSUME Agree(p, t), NEW l \in Lines
      PROVE  Agreeing(Recached(p, u).lines[l], u)
  <2>1. CASE p.lines[l].key = NULL
    BY <1>1, <1>3, <1>4, <2>1 DEF Agreeing
  <2>2. CASE p.lines[l].key # NULL
    <3>1. p.lines[l].key \in Addresses /\ p.lines[l].insns \in Insns
      BY <1>2, <2>2 DEF Line
    <3>2. t[p.lines[l].key] = p.lines[l].insns
      BY <1>6, <2>2 DEF Agree, Agreeing
    <3>3. p.lines[l].insns # NULL
      BY <3>1, LineCacheAssumption
    <3> QED
      BY <1>1, <1>4, <2>2, <3>1, <3>2, <3>3 DEF Agreeing
  <2> QED
    BY <2>1, <2>2
<1> QED
  BY <1>4, <1>5, <1>6 DEF Agree

\* An address that is good stays good when more is interned.
LEMMA AgreeingKept ==
  ASSUME NEW t \in Store, NEW new \in SUBSET Insns, NEW u \in Interning(t, new),
         NEW n \in Line, Agreeing(n, t)
  PROVE  Agreeing(n, u)
<1>1. \A a \in Addresses : t[a] # NULL => u[a] = t[a]
  BY InternStep
<1>2. n.insns # NULL /\ n.key \in Addresses \cup {NULL}
  BY LineCacheAssumption DEF Line
<1> QED
  BY <1>1, <1>2 DEF Agreeing

\* Pictures without addresses.
LEMMA PlainPictures ==
  /\ \A p \in Picture :
       /\ Uncached(p) \in Picture /\ Uncached(p).mem = p.mem
       /\ Missing(Uncached(p)) = Contents(p) /\ Contents(p) \in SUBSET Insns
       /\ \A l \in Lines : Uncached(p).lines[l].insns = p.lines[l].insns
       /\ \A t : Agree(Uncached(p), t)
  /\ \A g \in Program :
       /\ Picturing(g) \in Picture
       /\ Missing(Picturing(g)) = Contents(Picturing(g))
       /\ Contents(Picturing(g)) \in SUBSET Insns
       /\ \A t : Agree(Picturing(g), t)
<1>1. ASSUME NEW p \in Picture
      PROVE  /\ Uncached(p) \in Picture /\ Uncached(p).mem = p.mem
             /\ Missing(Uncached(p)) = Contents(p) /\ Contents(p) \in SUBSET Insns
             /\ \A l \in Lines : Uncached(p).lines[l].insns = p.lines[l].insns
             /\ \A t : Agree(Uncached(p), t)
  <2>1. \A l \in Lines : /\ Uncached(p).lines[l] \in Line
                         /\ Uncached(p).lines[l].insns = p.lines[l].insns
                         /\ Uncached(p).lines[l].key = NULL
    BY DEF Uncached, Picture, Line
  <2>2. Uncached(p) \in Picture /\ Uncached(p).mem = p.mem
    BY <2>1 DEF Uncached, Picture
  <2>3. Missing(Uncached(p)) = Contents(p)
    BY <2>1 DEF Missing, Contents
  <2>4. Contents(p) \in SUBSET Insns
    BY DEF Contents, Picture, Line
  <2> QED
    BY <2>1, <2>2, <2>3, <2>4 DEF Agree, Agreeing
<1>2. ASSUME NEW g \in Program
      PROVE  /\ Picturing(g) \in Picture
             /\ Missing(Picturing(g)) = Contents(Picturing(g))
             /\ Contents(Picturing(g)) \in SUBSET Insns
             /\ \A t : Agree(Picturing(g), t)
  <2>1. Picturing(g) \in Picture /\ \A l \in Lines : Picturing(g).lines[l].key = NULL
    BY DEF Picturing, Picture, Program, Line
  <2>2. Missing(Picturing(g)) = Contents(Picturing(g))
    BY <2>1 DEF Missing, Contents
  <2>3. Contents(Picturing(g)) \in SUBSET Insns
    BY <2>1 DEF Contents, Picture, Line
  <2> QED
    BY <2>1, <2>2, <2>3 DEF Agree, Agreeing
<1> QED
  BY <1>1, <1>2

LEMMA EmptyStore ==
  /\ Empty \in Store
  /\ NoRows \in [Lines -> [States \X Addresses -> Insns \cup {NULL}]]
BY DEF Empty, Store, NoRows

-----------------------------------------------------------------------------
(* Init and the head of the loop *)

\* IInv holds initially.
LEMMA InitIInv == Init => IInv
<1> SUFFICES ASSUME Init PROVE IInv
  OBVIOUS
<1>0. PICK g \in Published : \E t \in Interning(Empty, Contents(Picturing(g))) :
        /\ interned = t
        /\ pics = [n \in {"best", "current", "new"} |->
                     IF n = "new" THEN NULL ELSE Recached(Picturing(g), t)]
  BY DEF Init
<1>1. PICK t \in Interning(Empty, Contents(Picturing(g))) :
        /\ interned = t
        /\ pics = [n \in {"best", "current", "new"} |->
                     IF n = "new" THEN NULL ELSE Recached(Picturing(g), t)]
  BY <1>0
<1>2. g \in Program
  BY LineCacheAssumption
<1>3. /\ t \in Store
      /\ Recached(Picturing(g), t) \in Picture
      /\ Agree(Recached(Picturing(g), t), t)
  BY <1>2, EmptyStore, PlainPictures, InternStep, RecachedStep
<1>4. 1 \in 1..(Height + 1)
  BY LineCacheAssumption
<1>5. TypeOK
  BY <1>1, <1>3, <1>4 DEF Init, TypeOK, NoRows, Store, LineOrNull
<1>6. CurrentAgrees
  BY <1>1, <1>3 DEF CurrentAgrees
<1>7. TableAgrees
  BY DEF Init, TableAgrees, NoRows
<1> QED
  BY <1>5, <1>6, <1>7 DEF Init, IInv, OwnTarget, SavedAgrees, UndoComplete, Reached, RowsRendered

\* A step that leaves the worker's memory, programs and rows alone, and is not
\* on the way into an execution, keeps IInv.
LEMMA IdleIInv ==
  ASSUME IInv,
         UNCHANGED <<setting, pics, target, first, interned, transaction, execution>>,
         table' = table \/ table' = NoRows,
         pc \in {"loop", "migrate"}, pc' \in {"migrate", "choose"}
  PROVE  IInv'
<1> USE DEF IInv, transaction, execution
<1>1. TypeOK'
  <2>1. table' \in [Lines -> [States \X Addresses -> Insns \cup {NULL}]]
    BY EmptyStore DEF TypeOK
  <2> QED
    BY <2>1 DEF TypeOK
<1>2. TableAgrees'
  BY DEF TableAgrees, NoRows, Transactional
<1>3. ~undo
  BY DEF UndoComplete
<1>4. CurrentAgrees' /\ OwnTarget' /\ SavedAgrees' /\ UndoComplete'
  BY <1>3 DEF CurrentAgrees, OwnTarget, SavedAgrees, UndoComplete, Transactional
<1>5. Reached' /\ (Transactional => RowsRendered)'
  BY DEF Reached, RowsRendered
<1> QED
  BY <1>1, <1>2, <1>4, <1>5

LEMMA HeadIInv ==
  ASSUME IInv, KeepCache \/ ForgetRows \/ Stay
  PROVE  IInv'
BY IdleIInv DEF KeepCache, ForgetRows, Stay, memory

\* Outside a candidate the worker's programs may be replaced, together with all
\* that is interned.
LEMMA RestockIInv ==
  ASSUME IInv, pc \in {"loop", "migrate"}, pc' \in {"loop", "migrate", "choose"},
         UNCHANGED <<setting, target, first, undo, saved, savedMem, before, execution>>,
         moved' \in BOOLEAN,
         interned' \in Store,
         table' = NoRows \/ (table' = table /\ TableAgrees'),
         pics' \in [{"best", "current", "new"} -> Picture \cup {NULL}],
         pics'["best"] \in Picture, pics'["current"] \in Picture,
         pics'["new"] = pics["new"],
         Transactional => Agree(pics'["current"], interned')
  PROVE  IInv'
<1> USE DEF IInv, execution
<1>1. TypeOK'
  <2>1. table' \in [Lines -> [States \X Addresses -> Insns \cup {NULL}]]
    BY EmptyStore DEF TypeOK
  <2>2. {pics'["best"], pics'["current"], pics'[target']} \subseteq Picture
    BY DEF TypeOK
  <2>3. pc' \in {"loop", "migrate", "choose"} /\ target' = target
    OBVIOUS
  <2> QED
    BY <2>1, <2>2, <2>3 DEF TypeOK, Store
<1>2. TableAgrees'
  BY DEF TableAgrees, NoRows, Transactional
<1>3. ~undo
  BY DEF UndoComplete
<1>4. CurrentAgrees' /\ OwnTarget' /\ SavedAgrees' /\ UndoComplete'
  BY <1>3 DEF CurrentAgrees, OwnTarget, SavedAgrees, UndoComplete, Transactional
<1>5. Reached' /\ (Transactional => RowsRendered)'
  BY DEF Reached, RowsRendered
<1> QED
  BY <1>1, <1>2, <1>4, <1>5

LEMMA RetargetIInv ==
  ASSUME IInv, NEW g \in Published, Retarget(g)
  PROVE  IInv'
<1>1. PICK t \in Interning(Empty, Contents(Picturing(g))) :
        /\ interned' = t
        /\ pics' = [pics EXCEPT !["best"] = Recached(Picturing(g), t),
                                !["current"] = Recached(Picturing(g), t)]
  BY DEF Retarget
<1>2. g \in Program
  BY LineCacheAssumption
<1>3. /\ t \in Store
      /\ Recached(Picturing(g), t) \in Picture
      /\ Agree(Recached(Picturing(g), t), t)
  BY <1>2, EmptyStore, PlainPictures, InternStep, RecachedStep
<1>4. pics \in [{"best", "current", "new"} -> Picture \cup {NULL}]
  BY DEF IInv, TypeOK
<1>5. /\ pics' \in [{"best", "current", "new"} -> Picture \cup {NULL}]
      /\ pics'["best"] = Recached(Picturing(g), t)
      /\ pics'["current"] = Recached(Picturing(g), t)
      /\ pics'["new"] = pics["new"]
  BY <1>1, <1>3, <1>4
<1>6. /\ pc \in {"loop", "migrate"} /\ pc' \in {"loop", "migrate", "choose"}
      /\ table' = NoRows /\ moved' \in BOOLEAN
      /\ UNCHANGED <<setting, target, first, undo, saved, savedMem, before, execution>>
  BY DEF Retarget
<1>7. interned' \in Store /\ Agree(pics'["current"], interned')
  BY <1>1, <1>3, <1>5
<1> QED
  BY <1>3, <1>5, <1>6, <1>7, RestockIInv

LEMMA ForgetAllIInv ==
  ASSUME IInv, ForgetAll
  PROVE  IInv'
<1> DEFINE own == IF Legacy THEN {"best"} ELSE {"best", "current"}
           all == UNION {Contents(pics[n]) : n \in own}
<1>1. PICK t \in Interning(Empty, all) :
        /\ interned' = t
        /\ pics' = [n \in DOMAIN pics |->
                      IF n \in own THEN RecachedAll(pics[n], t) ELSE pics[n]]
  BY DEF ForgetAll
<1>2. /\ pics \in [{"best", "current", "new"} -> Picture \cup {NULL}]
      /\ pics["best"] \in Picture /\ pics["current"] \in Picture
  BY DEF IInv, TypeOK
<1>3. \A n \in own : pics[n] \in Picture
  BY <1>2
<1>4. all \in SUBSET Insns
  BY <1>3, PlainPictures
<1>5. t \in Store
  BY <1>4, EmptyStore, InternStep
<1>6. ASSUME NEW n \in own
      PROVE  /\ RecachedAll(pics[n], t) \in Picture
             /\ Agree(RecachedAll(pics[n], t), t)
  <2>1. /\ Uncached(pics[n]) \in Picture
        /\ Missing(Uncached(pics[n])) = Contents(pics[n])
        /\ Agree(Uncached(pics[n]), Empty)
    BY <1>3, <1>6, PlainPictures
  <2>2. Missing(Uncached(pics[n])) \subseteq all
    BY <1>6, <2>1
  <2> QED
    BY <1>4, <2>1, <2>2, EmptyStore, RecachedStep DEF RecachedAll
<1>7. pics'["new"] = pics["new"] /\ pics'["best"] \in Picture /\ pics'["current"] \in Picture
  BY <1>1, <1>2, <1>6
<1>8. pics' \in [{"best", "current", "new"} -> Picture \cup {NULL}]
  BY <1>1, <1>2, <1>7
<1>9. Transactional => Agree(pics'["current"], interned')
  BY <1>1, <1>2, <1>6 DEF Transactional, Legacy
<1>10. /\ pc \in {"loop", "migrate"} /\ pc' \in {"loop", "migrate", "choose"}
       /\ table' = NoRows /\ moved' \in BOOLEAN
       /\ UNCHANGED <<setting, target, first, undo, saved, savedMem, before, execution>>
  BY DEF ForgetAll
<1>11. interned' \in Store
  BY <1>1, <1>5
<1> QED
  BY <1>7, <1>8, <1>9, <1>10, <1>11, RestockIInv

\* More interned sequences leave the cached rows right.
LEMMA TableKept ==
  ASSUME IInv, NEW new \in SUBSET Insns, interned' \in Interning(interned, new),
         UNCHANGED <<setting, table>>
  PROVE  TableAgrees'
<1>1. /\ interned \in Store
      /\ \A l \in Lines : \A k \in States \X Addresses : table[l][k] \in Insns \cup {NULL}
  BY DEF IInv, TypeOK, Store
<1>2. \A a \in Addresses : interned[a] # NULL => interned'[a] = interned[a]
  BY <1>1, InternStep
<1>3. ASSUME Transactional, NEW l \in Lines, NEW k \in States \X Addresses, table[l][k] # NULL
      PROVE  interned'[k[2]] = table[l][k]
  <2>1. interned[k[2]] = table[l][k] /\ k[2] \in Addresses
    BY <1>3 DEF IInv, TableAgrees
  <2> QED
    BY <1>2, <1>3, <2>1
<1> QED
  BY <1>3 DEF TableAgrees, Transactional

LEMMA MigrateIInv ==
  ASSUME IInv, NEW g \in Published, Migrate(g)
  PROVE  IInv'
<1> DEFINE p == Patched(pics["current"], g)
<1>1. PICK t \in Interning(interned, Missing(p)) :
        interned' = t /\ pics' = [pics EXCEPT !["current"] = Recached(p, t)]
  BY DEF Migrate
<1>2. /\ pics \in [{"best", "current", "new"} -> Picture \cup {NULL}]
      /\ pics["best"] \in Picture /\ pics["current"] \in Picture
      /\ interned \in Store
  BY DEF IInv, TypeOK, Store
<1>3. g \in Program
  BY LineCacheAssumption
<1>4. p \in Picture /\ Missing(p) \in SUBSET Insns
  <2>1. \A l \in Lines : /\ p.lines[l] \in Line
                         /\ p.lines[l].insns \in Insns
    BY <1>2, <1>3 DEF Patched, Picture, Program, Line
  <2> QED
    BY <1>3, <2>1 DEF Patched, Picture, Program, Missing
<1>5. Transactional => Agree(p, interned)
  BY <1>2, <1>3 DEF IInv, CurrentAgrees, Agree, Agreeing, Patched, Picture, Program
<1> HIDE DEF p
<1>6. t \in Store /\ Recached(p, t) \in Picture
      /\ (Transactional => Agree(Recached(p, t), t))
  BY <1>2, <1>4, <1>5, InternStep, RecachedStep
<1>7. TableAgrees'
  BY <1>1, <1>4, TableKept DEF Migrate
<1>8. /\ pics' \in [{"best", "current", "new"} -> Picture \cup {NULL}]
      /\ pics'["best"] = pics["best"]
      /\ pics'["current"] = Recached(p, t)
      /\ pics'["new"] = pics["new"]
  BY <1>1, <1>2, <1>6
<1>9. moved' \in BOOLEAN
  BY DEF Migrate, transaction, IInv, TypeOK
<1> QED
  BY <1>1, <1>2, <1>6, <1>7, <1>8, <1>9, RestockIInv DEF Migrate, transaction

-----------------------------------------------------------------------------
(* Choosing and mutating a candidate *)

LEMMA CleanIInv ==
  ASSUME IInv, Clean
  PROVE  IInv'
<1> USE DEF IInv, Clean, memory, execution
<1>1. TypeOK'
  <2>1. CASE Legacy
    BY <2>1 DEF TypeOK
  <2>2. CASE ~Legacy
    BY <2>2 DEF TypeOK
  <2> QED
    BY <2>1, <2>2
<1>2. Transactional => pics' = pics /\ target' = "current"
  BY DEF Transactional, Legacy
<1>3. OwnTarget' /\ CurrentAgrees' /\ TableAgrees'
  BY <1>2 DEF CurrentAgrees, TableAgrees, OwnTarget, Transactional
<1>4. SavedAgrees' /\ UndoComplete' /\ Reached' /\ (Transactional => RowsRendered)'
  BY DEF SavedAgrees, UndoComplete, Reached, RowsRendered
<1> QED
  BY <1>1, <1>3, <1>4

LEMMA BeginIInv ==
  ASSUME IInv, Begin
  PROVE  IInv'
<1> USE DEF IInv, Begin, memory, execution
<1>1. pics["current"] \in Picture
  BY DEF TypeOK
<1>2. /\ before' \in Program /\ before'.mem = pics["current"].mem
      /\ \A l \in Lines : before'.lines[l] = pics["current"].lines[l].insns
  BY <1>1 DEF Plain, Program, Picture, Line
<1>3. TypeOK'
  <2>1. saved' \in [Lines -> LineOrNull]
    BY DEF LineOrNull
  <2> QED
    BY <1>2, <2>1 DEF TypeOK
<1>4. OwnTarget' /\ CurrentAgrees' /\ TableAgrees'
  BY DEF OwnTarget, CurrentAgrees, TableAgrees, Transactional
<1>5. SavedAgrees' /\ UndoComplete'
  BY <1>2 DEF SavedAgrees, UndoComplete, Transactional
<1>6. Reached' /\ (Transactional => RowsRendered)'
  BY DEF Reached, RowsRendered
<1> QED
  BY <1>3, <1>4, <1>5, <1>6

LEMMA CopyIInv ==
  ASSUME IInv, Copy
  PROVE  IInv'
<1> USE DEF IInv, Copy, memory, execution
<1>1. TypeOK'
  BY DEF TypeOK
<1>2. OwnTarget' /\ CurrentAgrees' /\ TableAgrees'
  BY DEF OwnTarget, CurrentAgrees, TableAgrees, Transactional
<1>3. SavedAgrees' /\ UndoComplete' /\ Reached' /\ (Transactional => RowsRendered)'
  BY DEF SavedAgrees, UndoComplete, Reached, RowsRendered, Transactional
<1> QED
  BY <1>1, <1>2, <1>3

LEMMA MutateMemoryIInv ==
  ASSUME IInv, NEW s \in States, MutateMemory(s)
  PROVE  IInv'
<1> USE DEF IInv, MutateMemory, memory, execution
<1>1. /\ pics \in [{"best", "current", "new"} -> Picture \cup {NULL}]
      /\ pics[target] \in Picture /\ target \in DOMAIN pics
      /\ pics["best"] \in Picture /\ pics["current"] \in Picture
  BY DEF TypeOK
<1> DEFINE p == [pics[target] EXCEPT !.mem = s]
<1>2. p \in Picture /\ p.mem = s /\ p.lines = pics[target].lines
  BY <1>1 DEF Picture
<1>3. pics' = [pics EXCEPT ![target] = p]
  OBVIOUS
<1> HIDE DEF p
<1>4. /\ pics' \in [{"best", "current", "new"} -> Picture \cup {NULL}]
      /\ pics'[target] = p
      /\ \A n \in {"best", "current", "new"} : n # target => pics'[n] = pics[n]
  BY <1>1, <1>2, <1>3
<1>5. savedMem' \in States \cup {NULL}
  BY <1>1 DEF TypeOK, Picture
<1>6. TypeOK'
  <2>1. {pics'["best"], pics'["current"], pics'[target]} \subseteq Picture
    BY <1>1, <1>2, <1>4 DEF TypeOK
  <2> QED
    BY <1>4, <1>5, <2>1 DEF TypeOK
<1>7. OwnTarget' /\ CurrentAgrees' /\ TableAgrees'
  BY <1>2, <1>4 DEF OwnTarget, CurrentAgrees, TableAgrees, Transactional, Agree
<1>8. SavedAgrees'
  BY DEF SavedAgrees
<1>9. UndoComplete'
  <2>1. ASSUME undo
        PROVE  /\ target = "current" /\ before' = before
               /\ pics'["current"].lines = pics["current"].lines
               /\ savedMem' # NULL
               /\ before.mem = savedMem'
    BY <1>1, <1>2, <1>4, <2>1, LineCacheAssumption
    DEF UndoComplete, OwnTarget, Transactional, TypeOK, Picture
  <2> QED
    BY <2>1 DEF UndoComplete, Transactional
<1>10. Reached' /\ (Transactional => RowsRendered)'
  BY DEF Reached, RowsRendered
<1> QED
  BY <1>6, <1>7, <1>8, <1>9, <1>10

\* A mutation that replaces lines of the neighbourhood saves them first.
LEMMA ReplaceIInv ==
  ASSUME IInv, NEW l \in Lines, NEW f,
         DOMAIN f \subseteq Neighborhood(l),
         \A m \in DOMAIN f : f[m] \in Line,
         Transactional => \A m \in DOMAIN f : Agreeing(f[m], interned),
         Replace(l, f)
  PROVE  IInv'
<1> USE DEF IInv, Replace, memory, execution
<1>1. /\ pics \in [{"best", "current", "new"} -> Picture \cup {NULL}]
      /\ pics[target] \in Picture /\ target \in DOMAIN pics
      /\ pics["best"] \in Picture /\ pics["current"] \in Picture
  BY DEF TypeOK
<1> DEFINE p == [pics[target] EXCEPT !.lines =
                   [m \in Lines |-> IF m \in DOMAIN f THEN f[m] ELSE pics[target].lines[m]]]
<1>2. /\ p \in Picture /\ p.mem = pics[target].mem
      /\ \A m \in Lines :
           p.lines[m] = IF m \in DOMAIN f THEN f[m] ELSE pics[target].lines[m]
  BY <1>1 DEF Picture
<1>3. pics' = [pics EXCEPT ![target] = p]
  OBVIOUS
<1> HIDE DEF p
<1>4. /\ pics' \in [{"best", "current", "new"} -> Picture \cup {NULL}]
      /\ pics'[target] = p
      /\ \A n \in {"best", "current", "new"} : n # target => pics'[n] = pics[n]
  BY <1>1, <1>2, <1>3
<1>5. /\ saved' \in [Lines -> LineOrNull]
      /\ \A m \in Lines :
           saved'[m] = IF undo /\ m \in Neighborhood(l) /\ saved[m] = NULL
                       THEN pics[target].lines[m] ELSE saved[m]
  BY <1>1 DEF Saving, TypeOK, LineOrNull, Picture
<1>6. TypeOK'
  <2>1. {pics'["best"], pics'["current"], pics'[target]} \subseteq Picture
    BY <1>1, <1>2, <1>4 DEF TypeOK
  <2> QED
    BY <1>4, <1>5, <2>1 DEF TypeOK
<1>7. OwnTarget' /\ TableAgrees'
  BY DEF OwnTarget, TableAgrees, Transactional
<1>8. CurrentAgrees'
  <2>1. Transactional => target = "current"
    BY DEF OwnTarget
  <2>2. Transactional => Agree(p, interned)
    BY <1>2, <2>1 DEF CurrentAgrees, Agree
  <2> QED
    BY <1>4, <2>1, <2>2 DEF CurrentAgrees, Transactional
<1>9. ASSUME undo PROVE target = "current" /\ Transactional
  BY <1>9 DEF UndoComplete, OwnTarget
<1>10. SavedAgrees'
  <2>1. ASSUME undo, ~moved, NEW m \in Lines, saved'[m] # NULL
        PROVE  Agreeing(saved'[m], interned)
    BY <1>5, <1>9, <2>1 DEF SavedAgrees, CurrentAgrees, Agree
  <2> QED
    BY <2>1 DEF SavedAgrees
<1>11. UndoComplete'
  <2>1. ASSUME undo
        PROVE  \A m \in Lines :
                 before.lines[m] = IF saved'[m] = NULL THEN pics'["current"].lines[m].insns
                                   ELSE saved'[m].insns
    <3> TAKE m \in Lines
    <3>1. pics["current"].lines[m] # NULL
      BY <1>1, LineCacheAssumption DEF Picture
    <3>2. before.lines[m] = IF saved[m] = NULL THEN pics["current"].lines[m].insns
                            ELSE saved[m].insns
      BY <2>1 DEF UndoComplete
    <3>3. CASE saved[m] # NULL
      BY <1>5, <3>2, <3>3
    <3>4. CASE saved[m] = NULL /\ m \in Neighborhood(l)
      BY <1>5, <1>9, <2>1, <3>1, <3>2, <3>4
    <3>5. CASE saved[m] = NULL /\ m \notin Neighborhood(l)
      BY <1>2, <1>4, <1>5, <1>9, <2>1, <3>2, <3>5
    <3> QED
      BY <3>3, <3>4, <3>5
  <2>2. undo => pics'["current"].mem = pics["current"].mem
    BY <1>2, <1>4, <1>9
  <2> QED
    BY <2>1, <2>2 DEF UndoComplete, Transactional
<1>12. Reached' /\ (Transactional => RowsRendered)'
  BY DEF Reached, RowsRendered
<1> QED
  BY <1>6, <1>7, <1>8, <1>10, <1>11, <1>12

LEMMA LineMutationIInv ==
  ASSUME IInv, NEW l \in Lines, NEW i \in Insns,
         EditLine(l, i) \/ CopyNextLine(l) \/ PushBackToPrev(l, i) \/ SwapWithPrev(l)
  PROVE  IInv'
<1>1. /\ pics[target] \in Picture /\ \A m \in Lines : pics[target].lines[m] \in Line
      /\ Transactional => \A m \in Lines : Agreeing(pics[target].lines[m], interned)
  BY DEF IInv, TypeOK, OwnTarget, CurrentAgrees, Agree, Picture
<1>2. /\ [insns |-> i, key |-> NULL] \in Line
      /\ Agreeing([insns |-> i, key |-> NULL], interned)
  BY DEF Line, Agreeing
<1>3. Height \in Nat \ {0} /\ l \in Neighborhood(l)
  BY LineCacheAssumption DEF Neighborhood
<1>4. CASE EditLine(l, i)
  <2> DEFINE f == [m \in {l} |-> [insns |-> i, key |-> NULL]]
  <2>1. /\ DOMAIN f \subseteq Neighborhood(l)
        /\ \A m \in DOMAIN f : f[m] \in Line /\ Agreeing(f[m], interned)
    BY <1>2, <1>3
  <2>2. Replace(l, f)
    BY <1>4 DEF EditLine
  <2> QED
    BY <2>1, <2>2, ReplaceIInv
<1>5. CASE CopyNextLine(l)
  <2> DEFINE f == [m \in {l} |-> pics[target].lines[l + 1]]
  <2>1. l + 1 \in Lines /\ Replace(l, f)
    BY <1>3, <1>5 DEF CopyNextLine, Lines
  <2>2. /\ DOMAIN f \subseteq Neighborhood(l)
        /\ \A m \in DOMAIN f : f[m] \in Line
        /\ Transactional => \A m \in DOMAIN f : Agreeing(f[m], interned)
    BY <1>1, <1>3, <2>1
  <2> QED
    BY <2>1, <2>2, ReplaceIInv
<1>6. CASE PushBackToPrev(l, i)
  <2> DEFINE f == [m \in {l - 1} |-> [insns |-> i, key |-> NULL]]
  <2>1. l - 1 \in Neighborhood(l) /\ Replace(l, f)
    BY <1>3, <1>6 DEF PushBackToPrev, Lines, Neighborhood
  <2>2. /\ DOMAIN f \subseteq Neighborhood(l)
        /\ \A m \in DOMAIN f : f[m] \in Line /\ Agreeing(f[m], interned)
    BY <1>2, <2>1
  <2> QED
    BY <2>1, <2>2, ReplaceIInv
<1>7. CASE SwapWithPrev(l)
  <2> DEFINE f == [m \in {l - 1, l} |-> pics[target].lines[2 * l - 1 - m]]
  <2>1. {l - 1, l} \subseteq Neighborhood(l) /\ l - 1 \in Lines /\ Replace(l, f)
    BY <1>3, <1>7 DEF SwapWithPrev, Lines, Neighborhood
  <2>2. 2 * l - 1 - l = l - 1 /\ 2 * l - 1 - (l - 1) = l
    BY DEF Lines
  <2>3. \A m \in {l - 1, l} : 2 * l - 1 - m \in Lines
    BY <2>1, <2>2
  <2>4. /\ DOMAIN f \subseteq Neighborhood(l)
        /\ \A m \in DOMAIN f : f[m] \in Line
        /\ Transactional => \A m \in DOMAIN f : Agreeing(f[m], interned)
    BY <1>1, <2>1, <2>3
  <2> QED
    BY <2>1, <2>4, ReplaceIInv
<1> QED
  BY <1>4, <1>5, <1>6, <1>7

LEMMA EndMutationIInv ==
  ASSUME IInv, EndMutation
  PROVE  IInv'
<1> USE DEF IInv, EndMutation, transaction, execution
<1>1. PICK t \in Interning(interned, Missing(pics[target])) :
        interned' = t /\ pics' = [pics EXCEPT ![target] = Recached(pics[target], t)]
  OBVIOUS
<1> DEFINE p == Recached(pics[target], t)
           new == Missing(pics[target])
<1>2. /\ pics \in [{"best", "current", "new"} -> Picture \cup {NULL}]
      /\ pics[target] \in Picture /\ target \in DOMAIN pics
      /\ pics["best"] \in Picture /\ pics["current"] \in Picture
      /\ interned \in Store
  BY DEF TypeOK, Store
<1>3. new \in SUBSET Insns
  BY <1>2 DEF Missing, Picture, Line
<1>4. /\ t \in Store /\ p \in Picture /\ p.mem = pics[target].mem
      /\ \A l \in Lines : p.lines[l].insns = pics[target].lines[l].insns
      /\ Agree(pics[target], interned) => Agree(p, t)
  BY <1>2, <1>3, InternStep, RecachedStep
<1> HIDE DEF p, new
<1>5. /\ pics' \in [{"best", "current", "new"} -> Picture \cup {NULL}]
      /\ pics'[target] = p
      /\ \A n \in {"best", "current", "new"} : n # target => pics'[n] = pics[n]
  BY <1>1, <1>2, <1>4 DEF p
<1>6. TypeOK'
  <2>1. {pics'["best"], pics'["current"], pics'[target]} \subseteq Picture
    BY <1>2, <1>4, <1>5 DEF TypeOK
  <2> QED
    BY <1>1, <1>4, <1>5, <2>1 DEF TypeOK, Store
<1>7. OwnTarget' /\ CurrentAgrees'
  BY <1>1, <1>4, <1>5 DEF OwnTarget, CurrentAgrees, Transactional
<1>8. TableAgrees'
  BY <1>1, <1>3, TableKept DEF new
<1>9. SavedAgrees'
  <2>1. ASSUME undo, ~moved, NEW l \in Lines, saved[l] # NULL
        PROVE  Agreeing(saved[l], t)
    <3>1. saved[l] \in Line /\ Agreeing(saved[l], interned)
      BY <2>1 DEF TypeOK, LineOrNull, SavedAgrees
    <3> QED
      BY <1>2, <1>3, <3>1, AgreeingKept DEF new
  <2> QED
    BY <1>1, <2>1 DEF SavedAgrees
<1>10. UndoComplete'
  BY <1>4, <1>5 DEF UndoComplete, OwnTarget, Transactional
<1>11. Reached' /\ (Transactional => RowsRendered)'
  BY DEF Reached, RowsRendered
<1> QED
  BY <1>6, <1>7, <1>8, <1>9, <1>10, <1>11

-----------------------------------------------------------------------------
(* ExecuteRasterProgram *)

\* An execution starts with a picture that says what the evaluated one says.
LEMMA StartIInv ==
  ASSUME IInv, pc = "enter", NEW p \in Picture,
         p.mem = pics[target].mem,
         \A l \in Lines : p.lines[l].insns = pics[target].lines[l].insns,
         Transactional => Agree(p, interned'),
         StartExecution(p),
         UNCHANGED <<setting, target, first, undo, saved, savedMem, before>>,
         interned' \in Store, moved' \in BOOLEAN,
         moved' = TRUE \/ (moved' = moved /\ interned' = interned),
         table' = NoRows \/ (table' = table /\ interned' = interned)
  PROVE  IInv'
<1> USE DEF IInv, StartExecution
<1>1. /\ pics \in [{"best", "current", "new"} -> Picture \cup {NULL}]
      /\ target \in DOMAIN pics
      /\ pics["best"] \in Picture /\ pics["current"] \in Picture
  BY DEF TypeOK
<1> DEFINE q == TurnedOff(p)
<1>2. q \in Picture
  <2>1. CASE setting.mode # "copying"
    BY <2>1 DEF TurnedOff
  <2>2. CASE setting.mode = "copying"
    <3>1. \A l \in Lines : p.lines[l] \in Line /\ p.lines[l].insns \in Insns
      BY DEF Picture, Line
    <3>2. \A l \in Lines : Off[l][p.lines[l].insns] \in Insns
      BY <3>1, LineCacheAssumption
    <3>3. \A l \in Lines :
            [p.lines[l] EXCEPT !.insns = Off[l][p.lines[l].insns]] \in Line
      BY <3>1, <3>2 DEF Line
    <3>4. OffMem[p.mem] \in States
      BY LineCacheAssumption DEF Picture
    <3> QED
      BY <2>2, <3>3, <3>4 DEF TurnedOff, Picture
  <2> QED
    BY <2>1, <2>2
<1>3. Transactional => q = p
  BY DEF TurnedOff, Transactional
<1>4. pics' = [pics EXCEPT ![target] = q] /\ entry' = q.mem
  OBVIOUS
<1> HIDE DEF q
<1>5. /\ pics' \in [{"best", "current", "new"} -> Picture \cup {NULL}]
      /\ pics'[target] = q
      /\ \A n \in {"best", "current", "new"} : n # target => pics'[n] = pics[n]
  BY <1>1, <1>2, <1>4
<1>6. y' = 1 /\ 1 \in Lines /\ 1 \in 1..(Height + 1)
  BY LineCacheAssumption DEF Lines
<1>7. TypeOK'
  <2>1. {pics'["best"], pics'["current"], pics'[target]} \subseteq Picture
    BY <1>1, <1>2, <1>5 DEF TypeOK
  <2>2. table' \in [Lines -> [States \X Addresses -> Insns \cup {NULL}]]
    BY EmptyStore DEF TypeOK
  <2>3. entry' \in States \cup {NULL}
    BY <1>2, <1>4 DEF Picture
  <2>4. rows' \in [Lines -> [entry : States, insns : Insns] \cup {NULL}]
    OBVIOUS
  <2> QED
    BY <1>5, <1>6, <2>1, <2>2, <2>3, <2>4 DEF TypeOK, Store
<1>8. OwnTarget' /\ CurrentAgrees'
  BY <1>3, <1>5 DEF OwnTarget, CurrentAgrees, Transactional
<1>9. TableAgrees'
  BY DEF TableAgrees, NoRows, Transactional
<1>10. SavedAgrees'
  BY DEF SavedAgrees
<1>11. UndoComplete'
  BY <1>3, <1>5 DEF UndoComplete, OwnTarget, Transactional
<1>12. Reached' /\ (Transactional => RowsRendered)'
  BY <1>4, <1>5, <1>6 DEF Reached, RowsRendered
<1> QED
  BY <1>7, <1>8, <1>9, <1>10, <1>11, <1>12

LEMMA EnterIInv ==
  ASSUME IInv, Enter \/ EnterForgetRows \/ EnterForgetAll
  PROVE  IInv'
<1>1. /\ pics[target] \in Picture /\ interned \in Store /\ moved \in BOOLEAN
      /\ Transactional => Agree(pics[target], interned)
  BY DEF IInv, TypeOK, Store, OwnTarget, CurrentAgrees
<1>2. CASE Enter
  BY <1>1, <1>2, StartIInv DEF Enter, memory, transaction
<1>3. CASE EnterForgetRows
  BY <1>1, <1>3, StartIInv DEF EnterForgetRows, transaction
<1>4. CASE EnterForgetAll
  <2> DEFINE p == Uncached(pics[target])
  <2>1. /\ p \in Picture /\ p.mem = pics[target].mem
        /\ \A l \in Lines : p.lines[l].insns = pics[target].lines[l].insns
        /\ Agree(p, Empty)
    BY <1>1, PlainPictures
  <2>2. /\ pc = "enter" /\ table' = NoRows /\ interned' = Empty /\ moved' = TRUE
        /\ StartExecution(p)
        /\ UNCHANGED <<setting, target, first, undo, saved, savedMem, before>>
    BY <1>4 DEF EnterForgetAll
  <2> HIDE DEF p
  <2> QED
    BY <2>1, <2>2, EmptyStore, StartIInv
<1> QED
  BY <1>2, <1>3, <1>4

\* The line that comes next has an address that stands for its instructions.
LEMMA AddressedStep ==
  ASSUME IInv, pc = "line", NEW t \in Interning(interned, Unaddressed(y)),
         interned' = t,
         pics' = [pics EXCEPT ![target].lines[y].key = KeyAt(y, t)]
  PROVE  /\ y \in Lines /\ entry \in States /\ Unaddressed(y) \in SUBSET Insns
         /\ t \in Store /\ KeyAt(y, t) \in Addresses
         /\ pics[target].lines[y].insns \in Insns
         /\ pics' \in [{"best", "current", "new"} -> Picture \cup {NULL}]
         /\ pics'["best"] \in Picture /\ pics'["current"] \in Picture
         /\ pics'[target] \in Picture
         /\ pics'[target].mem = pics[target].mem
         /\ \A l \in Lines : pics'[target].lines[l].insns = pics[target].lines[l].insns
         /\ Transactional => /\ Agree(pics'["current"], t)
                             /\ t[KeyAt(y, t)] = pics[target].lines[y].insns
<1>1. /\ pics \in [{"best", "current", "new"} -> Picture \cup {NULL}]
      /\ target \in DOMAIN pics /\ pics[target] \in Picture
      /\ pics["best"] \in Picture /\ pics["current"] \in Picture
      /\ interned \in Store /\ y \in Lines
  BY DEF IInv, TypeOK, Store, Reached
<1>2. \A l \in Lines : pics[target].lines[l] \in Line
  BY <1>1 DEF Picture
<1>3. pics[target].lines[y].insns \in Insns
  BY <1>1, <1>2 DEF Line
<1>4. Unaddressed(y) \in SUBSET Insns
  BY <1>3 DEF Unaddressed
<1>5. /\ t \in Store
      /\ \A i \in Unaddressed(y) : AddressOf(t, i) \in Addresses /\ t[AddressOf(t, i)] = i
  BY <1>1, <1>4, InternStep
<1>6. entry \in States
  <2>1. CASE y = 1
    BY <1>1, <2>1 DEF IInv, Reached, Picture
  <2>2. CASE y # 1
    <3>1. y - 1 \in Lines /\ y - 1 \in 1..(y - 1)
      BY <1>1, <2>2, LineCacheAssumption DEF Lines
    <3>2. rows[y - 1] \in [entry : States, insns : Insns]
      BY <3>1 DEF IInv, Reached
    <3>3. entry = Exit[y - 1][rows[y - 1].entry][rows[y - 1].insns]
      BY <2>2 DEF IInv, Reached
    <3> QED
      BY <3>1, <3>2, <3>3, LineCacheAssumption
  <2> QED
    BY <2>1, <2>2
<1>7. KeyAt(y, t) \in Addresses
  BY <1>1, <1>2, <1>5 DEF KeyAt, Unaddressed, Line
<1> DEFINE p == [pics[target] EXCEPT !.lines[y].key = KeyAt(y, t)]
<1>8. /\ p \in Picture /\ p.mem = pics[target].mem
      /\ \A l \in Lines : p.lines[l].insns = pics[target].lines[l].insns
      /\ p.lines[y].key = KeyAt(y, t)
      /\ \A l \in Lines : l # y => p.lines[l] = pics[target].lines[l]
  BY <1>1, <1>2, <1>7 DEF Picture, Line
<1>9. pics' = [pics EXCEPT ![target] = p]
  OBVIOUS
<1> HIDE DEF p
<1>10. /\ pics' \in [{"best", "current", "new"} -> Picture \cup {NULL}]
       /\ pics'[target] = p
       /\ pics'["best"] \in Picture /\ pics'["current"] \in Picture
  BY <1>1, <1>8, <1>9
<1>11. ASSUME Transactional
       PROVE  /\ Agree(pics'["current"], t)
              /\ t[KeyAt(y, t)] = pics[target].lines[y].insns
  <2>1. target = "current" /\ Agree(pics[target], interned)
    BY <1>11 DEF IInv, OwnTarget, CurrentAgrees
  <2>2. \A l \in Lines : Agreeing(pics[target].lines[l], t)
    BY <1>1, <1>2, <1>4, <2>1, AgreeingKept DEF Agree
  <2>3. t[KeyAt(y, t)] = pics[target].lines[y].insns
    BY <1>1, <1>5, <2>2 DEF KeyAt, Unaddressed, Agreeing
  <2>4. \A l \in Lines : Agreeing(p.lines[l], t)
    BY <1>8, <2>2, <2>3 DEF Agreeing
  <2> QED
    BY <1>10, <2>1, <2>3, <2>4 DEF Agree
<1> QED
  BY <1>1, <1>3, <1>4, <1>5, <1>6, <1>7, <1>8, <1>10, <1>11

\* Showing sequence i on line y; without /onoff it is the line's own.
LEMMA ShowIInv ==
  ASSUME IInv, pc = "line", NEW t \in Interning(interned, Unaddressed(y)),
         interned' = t,
         pics' = [pics EXCEPT ![target].lines[y].key = KeyAt(y, t)],
         NEW i \in Insns, Show(i),
         Transactional => i = pics[target].lines[y].insns,
         table' \in [Lines -> [States \X Addresses -> Insns \cup {NULL}]],
         TableAgrees',
         UNCHANGED <<setting, target, first, transaction>>
  PROVE  IInv'
<1>1. /\ y \in Lines /\ entry \in States /\ Unaddressed(y) \in SUBSET Insns
      /\ t \in Store /\ KeyAt(y, t) \in Addresses
      /\ pics' \in [{"best", "current", "new"} -> Picture \cup {NULL}]
      /\ pics'["best"] \in Picture /\ pics'["current"] \in Picture
      /\ pics'[target] \in Picture
      /\ pics'[target].mem = pics[target].mem
      /\ \A l \in Lines : pics'[target].lines[l].insns = pics[target].lines[l].insns
      /\ Transactional => Agree(pics'["current"], t)
  BY AddressedStep
<1>2. y \in Nat /\ Height \in Nat /\ 1 <= y /\ y <= Height /\ y' = y + 1
  BY <1>1, LineCacheAssumption DEF Lines, Show
<1>3. /\ y' # 1 /\ y' - 1 = y
      /\ \A l \in 1..y : l \in Lines
      /\ \A l \in 1..y : l # y => l \in 1..(y - 1)
      /\ \A l \in 1..y : l # 1 => l - 1 \in Lines /\ l - 1 # y
  BY <1>2 DEF Lines
<1> USE DEF IInv, transaction
<1>4. /\ rows' \in [Lines -> [entry : States, insns : Insns] \cup {NULL}]
      /\ rows'[y] = [entry |-> entry, insns |-> i]
      /\ \A l \in Lines : l # y => rows'[l] = rows[l]
  BY <1>1 DEF Show, TypeOK
<1>5. entry' \in States /\ entry' = Exit[y][entry][i]
  BY <1>1, LineCacheAssumption DEF Show
<1>6. pc' = IF y = Height THEN "judge" ELSE "line"
  BY DEF Show
<1>7. TypeOK'
  <2>1. y' \in 1..(Height + 1) /\ pc' \in {"line", "judge"}
    BY <1>2, <1>6
  <2> QED
    BY <1>1, <1>4, <1>5, <2>1 DEF TypeOK, Store
<1>8. OwnTarget' /\ CurrentAgrees'
  BY <1>1 DEF OwnTarget, CurrentAgrees, Transactional
<1>9. SavedAgrees'
  <2>1. ASSUME undo, ~moved, NEW l \in Lines, saved[l] # NULL
        PROVE  Agreeing(saved[l], t)
    <3>1. saved[l] \in Line /\ Agreeing(saved[l], interned) /\ interned \in Store
      BY <2>1 DEF TypeOK, LineOrNull, SavedAgrees, Store
    <3> QED
      BY <1>1, <3>1, AgreeingKept
  <2> QED
    BY <2>1 DEF SavedAgrees
<1>10. UndoComplete'
  BY <1>1, <1>6 DEF UndoComplete, OwnTarget, Transactional
<1>11. Reached'
  <2>1. pc' = "line" => y' \in Lines
    BY <1>2, <1>6 DEF Lines
  <2>3. entry' = Exit[y' - 1][rows'[y' - 1].entry][rows'[y' - 1].insns]
    BY <1>4, <1>5, <1>3
  <2>4. \A l \in 1..y : rows'[l] \in [entry : States, insns : Insns]
    <3> TAKE l \in 1..y
    <3>1. CASE l = y
      BY <1>1, <1>4, <3>1
    <3>2. CASE l # y
      <4>1. l \in 1..(y - 1) /\ l \in Lines
        BY <1>3, <3>2
      <4> QED
        BY <1>4, <3>2, <4>1 DEF Reached
    <3> QED
      BY <3>1, <3>2
  <2> QED
    BY <1>3, <2>1, <2>3, <2>4 DEF Reached
<1>12. (Transactional => RowsRendered)'
  <2> DEFINE Shown(r, p, l) ==
        /\ r[l].insns = p.lines[l].insns
        /\ r[l].entry = IF l = 1 THEN p.mem
                        ELSE Exit[l - 1][r[l - 1].entry][r[l - 1].insns]
  <2>1. ASSUME Transactional, NEW l \in 1..y
        PROVE  Shown(rows', pics'[target], l)
    <3>1. CASE l = y
      <4>1. entry = IF y = 1 THEN pics[target].mem
                    ELSE Exit[y - 1][rows[y - 1].entry][rows[y - 1].insns]
        BY DEF Reached
      <4>2. y # 1 => rows'[y - 1] = rows[y - 1]
        BY <1>2, <1>4, <1>3
      <4> QED
        BY <1>1, <1>2, <1>4, <2>1, <3>1, <4>1, <4>2, SMTT(30)
    <3>2. CASE l # y
      <4>1. l \in 1..(y - 1) /\ l \in Lines /\ (l # 1 => l - 1 \in Lines /\ l - 1 # y)
        BY <1>3, <3>2
      <4>2. Shown(rows, pics[target], l)
        BY <2>1, <4>1 DEF RowsRendered
      <4> QED
        BY <1>1, <1>4, <3>2, <4>1, <4>2
    <3> QED
      BY <3>1, <3>2
  <2>2. y' - 1 = y /\ target' = target
    BY <1>3
  <2> QED
    BY <2>1, <2>2 DEF RowsRendered, Transactional
<1> QED
  BY <1>7, <1>8, <1>9, <1>10, <1>11, <1>12

LEMMA CacheHitIInv ==
  ASSUME IInv, CacheHit
  PROVE  IInv'
<1>1. PICK t \in Interning(interned, Unaddressed(y)) :
        /\ table[y][<<entry, KeyAt(y, t)>>] # NULL
        /\ Show(table[y][<<entry, KeyAt(y, t)>>])
        /\ interned' = t
        /\ pics' = [pics EXCEPT ![target].lines[y].key = KeyAt(y, t)]
  BY DEF CacheHit, Find
<1>2. pc = "line" /\ UNCHANGED <<setting, target, first, table, transaction>>
  BY DEF CacheHit, Find
<1> DEFINE k == <<entry, KeyAt(y, t)>>
           i == table[y][k]
<1>3. /\ y \in Lines /\ k \in States \X Addresses /\ k[2] = KeyAt(y, t)
      /\ Unaddressed(y) \in SUBSET Insns
      /\ Transactional => t[KeyAt(y, t)] = pics[target].lines[y].insns
  BY <1>1, <1>2, AddressedStep
<1>4. table \in [Lines -> [States \X Addresses -> Insns \cup {NULL}]]
  BY DEF IInv, TypeOK
<1>5. i \in Insns
  BY <1>1, <1>3, <1>4
<1>6. TableAgrees'
  BY <1>1, <1>2, <1>3, TableKept
<1>7. Transactional => i = pics[target].lines[y].insns
  <2>1. Transactional => interned'[k[2]] = table[y][k]
    BY <1>1, <1>2, <1>3, <1>6 DEF TableAgrees, Transactional
  <2> QED
    BY <1>1, <1>3, <2>1
<1> QED
  BY <1>1, <1>2, <1>4, <1>5, <1>6, <1>7, ShowIInv

LEMMA CacheMissIInv ==
  ASSUME IInv, CacheMiss
  PROVE  IInv'
<1> DEFINE i == pics[target].lines[y].insns
<1>1. PICK t \in Interning(interned, Unaddressed(y)) :
        /\ table' = [table EXCEPT ![y][<<entry, KeyAt(y, t)>>] = i]
        /\ Show(i)
        /\ interned' = t
        /\ pics' = [pics EXCEPT ![target].lines[y].key = KeyAt(y, t)]
  BY DEF CacheMiss, Find, Insert
<1>2. pc = "line" /\ UNCHANGED <<setting, target, first, transaction>>
  BY DEF CacheMiss, Find, Insert
<1> DEFINE k == <<entry, KeyAt(y, t)>>
<1>3. /\ y \in Lines /\ k \in States \X Addresses /\ k[2] = KeyAt(y, t)
      /\ Unaddressed(y) \in SUBSET Insns /\ i \in Insns
      /\ Transactional => t[KeyAt(y, t)] = i
  BY <1>1, <1>2, AddressedStep
<1>4. /\ table \in [Lines -> [States \X Addresses -> Insns \cup {NULL}]]
      /\ interned \in Store
  BY DEF IInv, TypeOK, Store
<1>5. /\ table' \in [Lines -> [States \X Addresses -> Insns \cup {NULL}]]
      /\ table'[y][k] = i
      /\ \A l \in Lines : \A c \in States \X Addresses :
           l # y \/ c # k => table'[l][c] = table[l][c]
  <2>1. table' = [table EXCEPT ![y] = [table[y] EXCEPT ![k] = i]]
    BY <1>1
  <2>2. [table[y] EXCEPT ![k] = i] \in [States \X Addresses -> Insns \cup {NULL}]
    BY <1>3, <1>4
  <2> QED
    BY <1>3, <1>4, <2>1, <2>2
<1>6. \A a \in Addresses : interned[a] # NULL => t[a] = interned[a]
  BY <1>3, <1>4, InternStep
<1>7. TableAgrees'
  <2>1. ASSUME Transactional, NEW l \in Lines, NEW c \in States \X Addresses,
               table'[l][c] # NULL
        PROVE  t[c[2]] = table'[l][c]
    <3>1. CASE l = y /\ c = k
      BY <1>3, <1>5, <2>1, <3>1
    <3>2. CASE ~(l = y /\ c = k)
      <4>1. table'[l][c] = table[l][c] /\ table[l][c] \in Insns
        BY <1>4, <1>5, <2>1, <3>2
      <4>2. interned[c[2]] = table[l][c] /\ c[2] \in Addresses
        BY <2>1, <4>1 DEF IInv, TableAgrees
      <4> QED
        BY <1>6, <2>1, <4>1, <4>2
    <3> QED
      BY <3>1, <3>2
  <2> QED
    BY <1>1, <1>2, <2>1 DEF TableAgrees, Transactional
<1> QED
  BY <1>1, <1>2, <1>3, <1>5, <1>7, ShowIInv

-----------------------------------------------------------------------------
(* Judging the candidate *)

\* What an iteration ends with.
LEMMA NextIterationIInv ==
  ASSUME IInv, pc = "judge", NextIteration,
         interned' \in Store,
         pics' \in [{"best", "current", "new"} -> Picture \cup {NULL}],
         pics'["best"] \in Picture, pics'["current"] \in Picture,
         Transactional => interned' = interned /\ Agree(pics'["current"], interned)
  PROVE  IInv'
<1> USE DEF IInv, NextIteration
<1>1. 1 \in 1..(Height + 1)
  BY LineCacheAssumption
<1>2. TypeOK'
  BY <1>1 DEF TypeOK, Store, LineOrNull
<1>3. OwnTarget' /\ CurrentAgrees' /\ TableAgrees'
  BY DEF OwnTarget, CurrentAgrees, TableAgrees, Transactional
<1>4. SavedAgrees' /\ UndoComplete' /\ Reached' /\ (Transactional => RowsRendered)'
  BY DEF SavedAgrees, UndoComplete, Reached, RowsRendered
<1> QED
  BY <1>2, <1>3, <1>4

\* Undoing a candidate gives a picture without stale addresses that says what
\* the program said before.
LEMMA RestoredStep ==
  ASSUME IInv, undo
  PROVE  /\ Restored(pics["current"]) \in Picture
         /\ Agree(Restored(pics["current"]), interned)
         /\ Plain(Restored(pics["current"])) = before
<1> DEFINE p == pics["current"]
           r == Restored(p)
<1>1. /\ p \in Picture /\ Agree(p, interned) /\ Transactional
      /\ saved \in [Lines -> LineOrNull] /\ savedMem \in States \cup {NULL}
  BY DEF IInv, TypeOK, UndoComplete, CurrentAgrees
<1>2. \A l \in Lines :
        /\ saved[l] = NULL => r.lines[l] = p.lines[l]
        /\ saved[l] # NULL => /\ r.lines[l].insns = saved[l].insns
                              /\ r.lines[l].key = IF moved THEN NULL ELSE saved[l].key
                              /\ r.lines[l] \in Line /\ saved[l] \in Line
  BY <1>1 DEF Restored, LineOrNull, Line
<1>3. r \in Picture
  <2>1. \A l \in Lines : r.lines[l] \in Line
    BY <1>1, <1>2 DEF Picture
  <2>2. r.mem = (IF savedMem # NULL THEN savedMem ELSE p.mem) /\ r.mem \in States
    BY <1>1 DEF Restored, Picture
  <2> QED
    BY <2>1, <2>2 DEF Restored, Picture
<1>4. Agree(r, interned)
  <2>1. ASSUME NEW l \in Lines PROVE Agreeing(r.lines[l], interned)
    <3>1. CASE saved[l] = NULL
      BY <1>1, <1>2, <3>1 DEF Agree
    <3>2. CASE saved[l] # NULL /\ moved
      BY <1>2, <3>2 DEF Agreeing
    <3>3. CASE saved[l] # NULL /\ ~moved
      <4>1. Agreeing(saved[l], interned)
        BY <3>3 DEF IInv, SavedAgrees
      <4> QED
        BY <1>2, <3>3, <4>1 DEF Agreeing
    <3> QED
      BY <3>1, <3>2, <3>3
  <2> QED
    BY <2>1 DEF Agree
<1>5. /\ before \in Program
      /\ before.mem = r.mem
      /\ \A l \in Lines : before.lines[l] = r.lines[l].insns
  BY <1>2 DEF IInv, UndoComplete, Restored
<1> HIDE DEF r
<1>6. /\ Plain(r).mem = before.mem
      /\ Plain(r).lines = [l \in Lines |-> r.lines[l].insns]
      /\ Plain(r) = [mem |-> Plain(r).mem, lines |-> Plain(r).lines]
  BY <1>5 DEF Plain
<1>7. /\ before.lines = [l \in Lines |-> before.lines[l]]
      /\ before = [mem |-> before.mem, lines |-> before.lines]
  BY <1>5 DEF Program
<1> QED
  BY <1>3, <1>4, <1>5, <1>6, <1>7 DEF r

LEMMA AcceptIInv ==
  ASSUME IInv, Accept
  PROVE  IInv'
<1>1. /\ pics \in [{"best", "current", "new"} -> Picture \cup {NULL}]
      /\ pics["best"] \in Picture /\ pics["current"] \in Picture
      /\ pics[target] \in Picture /\ interned \in Store
      /\ Transactional => Agree(pics[target], interned)
  BY DEF IInv, TypeOK, Store, OwnTarget, CurrentAgrees
<1>2. /\ pics' \in [{"best", "current", "new"} -> Picture \cup {NULL}]
      /\ pics'["best"] = pics["best"] /\ pics'["current"] = pics[target]
  BY <1>1 DEF Accept
<1>3. pc = "judge" /\ NextIteration /\ interned' = interned
  BY DEF Accept
<1> QED
  BY <1>1, <1>2, <1>3, NextIterationIInv

LEMMA RejectIInv ==
  ASSUME IInv, Reject
  PROVE  IInv' /\ (undo => Plain(pics'["current"]) = before)
<1> DEFINE p == IF undo THEN Restored(pics["current"]) ELSE pics["current"]
<1>1. /\ pics \in [{"best", "current", "new"} -> Picture \cup {NULL}]
      /\ pics["best"] \in Picture /\ pics["current"] \in Picture
      /\ interned \in Store
      /\ Transactional => Agree(pics["current"], interned)
  BY DEF IInv, TypeOK, Store, CurrentAgrees
<1>2. /\ p \in Picture /\ (Transactional => Agree(p, interned))
      /\ undo => Plain(p) = before
  BY <1>1, RestoredStep
<1>3. pics' = [pics EXCEPT !["current"] = p, !["new"] = NULL]
  BY DEF Reject
<1> HIDE DEF p
<1>4. /\ pics' \in [{"best", "current", "new"} -> Picture \cup {NULL}]
      /\ pics'["best"] = pics["best"] /\ pics'["current"] = p
  BY <1>1, <1>2, <1>3
<1>5. pc = "judge" /\ NextIteration /\ interned' = interned
  BY DEF Reject
<1>6. IInv'
  BY <1>1, <1>2, <1>4, <1>5, NextIterationIInv
<1> QED
  BY <1>2, <1>4, <1>6

LEMMA LegacyIInv ==
  ASSUME IInv, LegacyKeep \/ \E g \in Published : LegacySync(g)
  PROVE  IInv'
<1>1. /\ pics \in [{"best", "current", "new"} -> Picture \cup {NULL}]
      /\ pics["best"] \in Picture /\ pics["current"] \in Picture
      /\ interned \in Store
  BY DEF IInv, TypeOK, Store
<1>2. CASE LegacyKeep
  <2>1. /\ pics' = [pics EXCEPT !["new"] = NULL]
        /\ pc = "judge" /\ NextIteration /\ interned' = interned /\ ~Transactional
    BY <1>2 DEF LegacyKeep, Legacy, Transactional
  <2>2. /\ pics' \in [{"best", "current", "new"} -> Picture \cup {NULL}]
        /\ pics'["best"] = pics["best"] /\ pics'["current"] = pics["current"]
    BY <1>1, <2>1
  <2> QED
    BY <1>1, <2>1, <2>2, NextIterationIInv
<1>3. ASSUME NEW g \in Published, LegacySync(g) PROVE IInv'
  <2>1. PICK t \in Interning(interned, Contents(Picturing(g))) :
          /\ interned' = t
          /\ pics' = [pics EXCEPT !["best"] = Recached(Picturing(g), t), !["new"] = NULL]
    BY <1>3 DEF LegacySync
  <2>2. g \in Program
    BY LineCacheAssumption
  <2>3. t \in Store /\ Recached(Picturing(g), t) \in Picture
    BY <1>1, <2>2, PlainPictures, InternStep, RecachedStep
  <2>4. /\ pics' \in [{"best", "current", "new"} -> Picture \cup {NULL}]
        /\ pics'["best"] \in Picture /\ pics'["current"] = pics["current"]
    BY <1>1, <2>1, <2>3
  <2>5. pc = "judge" /\ NextIteration /\ ~Transactional
    BY <1>3 DEF LegacySync, Legacy, Transactional
  <2> QED
    BY <1>1, <2>1, <2>3, <2>4, <2>5, NextIterationIInv
<1> QED
  BY <1>2, <1>3

-----------------------------------------------------------------------------
(* Theorems *)

LEMMA NextIInv == IInv /\ [Next]_vars => IInv'
<1> SUFFICES ASSUME IInv, [Next]_vars PROVE IInv'
  OBVIOUS
<1>1. CASE KeepCache \/ ForgetRows \/ Stay
  BY <1>1, HeadIInv
<1>2. CASE ForgetAll
  BY <1>2, ForgetAllIInv
<1>3. ASSUME NEW g \in Published, Retarget(g) \/ Migrate(g) \/ LegacySync(g) PROVE IInv'
  BY <1>3, RetargetIInv, MigrateIInv, LegacyIInv
<1>4. CASE Clean \/ Begin \/ Copy
  BY <1>4, CleanIInv, BeginIInv, CopyIInv
<1>5. CASE Mutate
  <2>1. ASSUME NEW s \in States, MutateMemory(s) PROVE IInv'
    BY <2>1, MutateMemoryIInv
  <2>2. ASSUME NEW l \in Lines, CopyNextLine(l) \/ SwapWithPrev(l) PROVE IInv'
    <3>1. pics["current"] \in Picture
      BY DEF IInv, TypeOK
    <3>2. pics["current"].lines[l].insns \in Insns
      BY <3>1 DEF Picture, Line
    <3> QED
      BY <2>2, <3>2, LineMutationIInv
  <2>3. ASSUME NEW l \in Lines, NEW i \in Insns, EditLine(l, i) \/ PushBackToPrev(l, i)
        PROVE  IInv'
    BY <2>3, LineMutationIInv
  <2>4. CASE EndMutation
    BY <2>4, EndMutationIInv
  <2> QED
    BY <1>5, <2>1, <2>2, <2>3, <2>4 DEF Mutate
<1>6. CASE Enter \/ EnterForgetRows \/ EnterForgetAll
  BY <1>6, EnterIInv
<1>7. CASE CacheHit \/ CacheMiss
  BY <1>7, CacheHitIInv, CacheMissIInv
<1>8. CASE Accept \/ Reject \/ LegacyKeep
  BY <1>8, AcceptIInv, RejectIInv, LegacyIInv
<1>9. CASE UNCHANGED vars
  <2>1. /\ UNCHANGED <<setting, pc, pics, target, first, interned, table, moved>>
        /\ UNCHANGED <<undo, saved, savedMem, before, y, entry, rows>>
    BY <1>9 DEF vars, memory, transaction, execution
  <2>2. TypeOK'
    BY <2>1 DEF IInv, TypeOK
  <2>3. OwnTarget' /\ CurrentAgrees' /\ TableAgrees'
    BY <2>1 DEF IInv, OwnTarget, CurrentAgrees, TableAgrees, Transactional
  <2>4. SavedAgrees'
    BY <2>1 DEF IInv, SavedAgrees
  <2>5. UndoComplete'
    BY <2>1 DEF IInv, UndoComplete, Transactional
  <2>6. Reached' /\ (Transactional => RowsRendered)'
    BY <2>1 DEF IInv, Reached, RowsRendered, Transactional
  <2> QED
    BY <2>2, <2>3, <2>4, <2>5, <2>6 DEF IInv
<1> QED
  BY <1>1, <1>2, <1>3, <1>4, <1>5, <1>6, <1>7, <1>8, <1>9 DEF Next

LEMMA CacheInvariant == Spec => []IInv
BY InitIInv, NextIInv, PTL DEF Spec

\* The variables of the worker keep their types, with any optimizer and any
\* budget.
THEOREM CacheTypeCorrect == Spec => []TypeOK
<1>1. IInv => TypeOK
  BY DEF IInv
<1> QED
  BY <1>1, CacheInvariant, PTL

\* With LAHC or DLAS and without /onoff the line cache cannot be told from
\* rendering: every row of an evaluation is that of the program's instructions,
\* whatever has been forgotten, undone, exchanged or taken over before.
THEOREM CacheTransparent == Spec => [](Transactional => RowsRendered)
<1>1. IInv => (Transactional => RowsRendered)
  BY DEF IInv
<1> QED
  BY <1>1, CacheInvariant, PTL

\* With LAHC or DLAS and without /onoff no line is looked up with an address
\* from before a clear.
THEOREM NoStaleKey == Spec => [](Transactional => KeysLive)
<1>1. IInv => (Transactional => KeysLive)
  <2> SUFFICES ASSUME IInv, Transactional, pc = "line", NEW l \in Lines,
                      pics[target].lines[l].key # NULL
               PROVE  interned[pics[target].lines[l].key] # NULL
    BY DEF KeysLive
  <2>1. /\ pics[target] \in Picture
        /\ Agreeing(pics[target].lines[l], interned)
    BY DEF IInv, TypeOK, OwnTarget, CurrentAgrees, Agree
  <2>2. pics[target].lines[l].insns \in Insns
    BY <2>1 DEF Picture, Line
  <2> QED
    BY <2>1, <2>2, LineCacheAssumption DEF Agreeing
<1> QED
  BY <1>1, CacheInvariant, PTL

\* A rejected candidate is undone completely, over any chain of mutations.
THEOREM UndoCorrect == Spec => RollbackRestores
<1>1. IInv /\ [Next]_vars => [Reject /\ undo => Plain(pics'["current"]) = before]_vars
  BY RejectIInv
<1> QED
  BY <1>1, CacheInvariant, PTL DEF Spec, RollbackRestores

-----------------------------------------------------------------------------
(***************************************************************************)
(* MemoryBounded: how much lies in the cache at each place of the loop.    *)
(* Cells and rows are counted, so their sets have to be finite, which the  *)
(* addresses and the register states need not be.                          *)
(***************************************************************************)

CellsOf(t) == {a \in Addresses : t[a] # NULL}
RowsOf(s) == {c \in Lines \X (States \X Addresses) : s[c[1]][c[2]] # NULL}

Counted == IsFiniteSet(CellsOf(interned)) /\ IsFiniteSet(RowsOf(table))

Addressed(p) == \A l \in Lines : p.lines[l].key # NULL

\* A program comes to its evaluation with an address for every line: mutation
\* ends with interning, and the first one is evaluated as it was loaded.
ComesAddressed ==
  /\ first => /\ pc \in {"loop", "migrate", "choose"}
              /\ Addressed(pics["best"]) /\ Addressed(pics["current"])
  /\ pc = "enter" => Addressed(pics[target])

\* An evaluation starts within the budget and adds a row for each line, or it
\* starts from nothing and adds a sequence and a row for each line.
AddsOne == (\A l \in y..Height : pics[target].lines[l].key # NULL)
             /\ Resident <= setting.cache + (y - 1)
AddsTwo == Resident <= 2 * (y - 1)

Budgeted ==
  /\ pc \in {"loop", "enter"} => Resident <= Allowance + 2 * Height
  /\ pc = "migrate" => Resident <= Allowance
  /\ pc \in {"choose", "mutate"} => Resident <= Allowance + Height
  /\ pc = "line" => AddsOne \/ AddsTwo
  /\ pc = "judge" => Resident <= Allowance + Height

MInv == Counted /\ ComesAddressed /\ Budgeted

\* What the program shows is at most one sequence for each line.
LEMMA ContentsCounted ==
  ASSUME NEW p \in Picture
  PROVE  /\ IsFiniteSet(Contents(p)) /\ Cardinality(Contents(p)) <= Height
         /\ Cardinality(Contents(p)) \in Nat
         /\ IsFiniteSet(Missing(p)) /\ Cardinality(Missing(p)) <= Height
         /\ Cardinality(Missing(p)) \in Nat
         /\ Contents(p) \in SUBSET Insns /\ Missing(p) \in SUBSET Insns
<1>1. IsFiniteSet(Lines) /\ Cardinality(Lines) = Height /\ Height \in Nat
  BY FS_Interval, LineCacheAssumption DEF Lines
<1> DEFINE f == [l \in Lines |-> p.lines[l].insns]
<1>2. f \in Surjection(Lines, Contents(p))
  BY DEF Surjection, Contents
<1>3. IsFiniteSet(Contents(p)) /\ Cardinality(Contents(p)) <= Height
  BY <1>1, <1>2, FS_Surjection
<1>4. Missing(p) \subseteq Contents(p) /\ Contents(p) \subseteq Insns
  BY DEF Missing, Contents, Picture, Line
<1>5. /\ IsFiniteSet(Missing(p)) /\ Cardinality(Missing(p)) <= Cardinality(Contents(p))
      /\ Cardinality(Contents(p)) \in Nat /\ Cardinality(Missing(p)) \in Nat
  BY <1>3, <1>4, FS_Subset, FS_CardinalityType
<1>6. Cardinality(Missing(p)) <= Height
  BY <1>1, <1>3, <1>5
<1> QED
  BY <1>3, <1>4, <1>5, <1>6

\* Interning takes a new cell for each sequence at most.
LEMMA InternCounted ==
  ASSUME NEW t \in Store, IsFiniteSet(CellsOf(t)),
         NEW new \in SUBSET Insns, IsFiniteSet(new), NEW u \in Interning(t, new)
  PROVE  /\ IsFiniteSet(CellsOf(u)) /\ Cardinality(CellsOf(u)) \in Nat
         /\ Cardinality(CellsOf(u)) <= Cardinality(CellsOf(t)) + Cardinality(new)
<1> DEFINE more == CellsOf(u) \ CellsOf(t)
           g == [a \in more |-> u[a]]
<1>1. /\ \A a \in Addresses : t[a] # NULL => u[a] = t[a]
      /\ Holds(u) = Holds(t) \cup new
      /\ \A a, b \in Addresses : u[a] # NULL /\ u[a] = u[b] => a = b
  BY DEF Interning
<1>2. CellsOf(u) = CellsOf(t) \cup more
  BY <1>1 DEF CellsOf
<1>3. ASSUME NEW a \in more
      PROVE  u[a] \in new
  <2>1. a \in Addresses /\ u[a] # NULL /\ t[a] = NULL
    BY <1>3 DEF CellsOf
  <2>2. u[a] \in Holds(t) \cup new
    BY <1>1, <2>1 DEF Holds
  <2>3. u[a] \notin Holds(t)
    BY <1>1, <2>1 DEF Holds
  <2> QED
    BY <2>2, <2>3
<1>4. g \in Injection(more, new)
  <2>1. g \in [more -> new]
    BY <1>3
  <2>2. \A a, b \in more : g[a] = g[b] => a = b
    BY <1>1 DEF CellsOf
  <2> QED
    BY <2>1, <2>2 DEF Injection, IsInjective
<1> HIDE DEF more, g
<1>5. IsFiniteSet(more) /\ Cardinality(more) <= Cardinality(new)
  BY <1>4, FS_Injection
<1>6. /\ IsFiniteSet(CellsOf(u))
      /\ Cardinality(CellsOf(u)) = Cardinality(CellsOf(t)) + Cardinality(more)
                                     - Cardinality(CellsOf(t) \cap more)
      /\ IsFiniteSet(CellsOf(t) \cap more)
  BY <1>2, <1>5, FS_Union, FS_Intersection
<1>7. /\ Cardinality(CellsOf(u)) \in Nat /\ Cardinality(CellsOf(t)) \in Nat
      /\ Cardinality(more) \in Nat /\ Cardinality(new) \in Nat
      /\ Cardinality(CellsOf(t) \cap more) \in Nat
  BY <1>5, <1>6, FS_CardinalityType
<1> QED
  BY <1>5, <1>6, <1>7

\* Interned, every line has an address.
LEMMA RecachedAddressed ==
  ASSUME NEW t \in Store, NEW p \in Picture, NEW new \in SUBSET Insns,
         Missing(p) \subseteq new, NEW u \in Interning(t, new)
  PROVE  Addressed(Recached(p, u))
<1>1. \A i \in new : AddressOf(u, i) \in Addresses
  BY InternStep
<1>2. \A l \in Lines : p.lines[l] \in Line /\ (p.lines[l].key = NULL => p.lines[l].insns \in new)
  BY DEF Picture, Missing
<1>3. \A l \in Lines :
        Recached(p, u).lines[l].key =
          IF p.lines[l].key # NULL THEN p.lines[l].key ELSE AddressOf(u, p.lines[l].insns)
  BY <1>2 DEF Recached, Line
<1>4. \A a \in Addresses : a # NULL
  BY LineCacheAssumption
<1> QED
  BY <1>1, <1>2, <1>3, <1>4 DEF Addressed

\* The two counts are natural numbers, and their sum is what is resident.
LEMMA ResidentCounted ==
  ASSUME Counted
  PROVE  /\ InternedCount \in Nat /\ RowCount \in Nat /\ Resident = InternedCount + RowCount
         /\ Resident \in Nat
<1>1. InternedCount = Cardinality(CellsOf(interned)) /\ RowCount = Cardinality(RowsOf(table))
  BY DEF InternedCount, RowCount, CellsOf, RowsOf
<1> QED
  BY <1>1, FS_CardinalityType DEF Counted, Resident

\* Of the numbers in Budgeted.
LEMMA Budget ==
  ASSUME TypeOK
  PROVE  /\ setting.cache \in Nat /\ setting.insns \in Nat /\ setting.insns <= setting.cache
         /\ Height \in Nat \ {0} /\ Allowance \in Nat
         /\ setting.cache <= Allowance /\ 2 * Height <= Allowance
<1>1. setting.cache \in Nat /\ setting.insns \in 0..setting.cache /\ Height \in Nat \ {0}
  BY LineCacheAssumption DEF TypeOK
<1> QED
  BY <1>1 DEF Allowance

-----------------------------------------------------------------------------
(* How a step changes what is resident *)

\* More is interned.
LEMMA Grows ==
  ASSUME TypeOK, Counted, NEW new \in SUBSET Insns, IsFiniteSet(new),
         interned' \in Interning(interned, new), table' = table
  PROVE  Counted' /\ Resident' <= Resident + Cardinality(new) /\ Resident' \in Nat
<1>1. interned \in Store
  BY DEF TypeOK, Store
<1>2. /\ IsFiniteSet(CellsOf(interned')) /\ Cardinality(CellsOf(interned')) \in Nat
      /\ Cardinality(CellsOf(interned')) <= Cardinality(CellsOf(interned)) + Cardinality(new)
  BY <1>1, InternCounted DEF Counted
<1>3. /\ InternedCount = Cardinality(CellsOf(interned))
      /\ InternedCount' = Cardinality(CellsOf(interned')) /\ RowCount' = RowCount
  BY DEF InternedCount, RowCount, CellsOf
<1>4. Cardinality(new) \in Nat
  BY FS_CardinalityType
<1> QED
  BY <1>2, <1>3, <1>4, ResidentCounted DEF Counted, Resident, RowsOf

\* The rows are forgotten, or everything is and something is interned anew.
LEMMA Forgets ==
  ASSUME TypeOK, Counted, table' = NoRows
  PROVE  /\ interned' = interned =>
              Counted' /\ Resident' = InternedCount
         /\ \A new \in SUBSET Insns : IsFiniteSet(new) /\ interned' \in Interning(Empty, new) =>
              Counted' /\ Resident' <= Cardinality(new) /\ Resident' \in Nat
         /\ interned' = Empty => Counted' /\ Resident' = 0
<1>1. RowsOf(NoRows) = {} /\ CellsOf(Empty) = {} /\ Empty \in Store
  <2>1. \A l \in Lines, k \in States \X Addresses : NoRows[l][k] = NULL
    BY DEF NoRows
  <2> QED
    BY <2>1, EmptyStore DEF RowsOf, CellsOf, Empty
<1>2. RowCount' = 0 /\ IsFiniteSet(RowsOf(table'))
  <2>1. RowCount' = Cardinality(RowsOf(table'))
    BY DEF RowCount, RowsOf
  <2> QED
    BY <1>1, <2>1, FS_EmptySet
<1>3. /\ InternedCount' = Cardinality(CellsOf(interned'))
      /\ InternedCount = Cardinality(CellsOf(interned))
  BY DEF InternedCount, CellsOf
<1>4. Resident' = InternedCount' + RowCount' /\ InternedCount \in Nat
  BY ResidentCounted DEF Resident
<1>5. ASSUME interned' = interned
      PROVE  Counted' /\ Resident' = InternedCount
  <2>1. Counted'
    BY <1>2, <1>5 DEF Counted, RowsOf, CellsOf
  <2> QED
    BY <1>2, <1>3, <1>4, <1>5, <2>1
<1>6. ASSUME NEW new \in SUBSET Insns, IsFiniteSet(new), interned' \in Interning(Empty, new)
      PROVE  Counted' /\ Resident' <= Cardinality(new) /\ Resident' \in Nat
  <2>1. IsFiniteSet(CellsOf(Empty)) /\ Cardinality(CellsOf(Empty)) = 0
    BY <1>1, FS_EmptySet
  <2>2. /\ IsFiniteSet(CellsOf(interned')) /\ Cardinality(CellsOf(interned')) \in Nat
        /\ Cardinality(CellsOf(interned')) <= 0 + Cardinality(new)
    BY <1>1, <1>6, <2>1, InternCounted
  <2>3. Cardinality(new) \in Nat
    BY <1>6, FS_CardinalityType
  <2> QED
    BY <1>2, <1>3, <1>4, <2>2, <2>3 DEF Counted
<1>7. ASSUME interned' = Empty
      PROVE  Counted' /\ Resident' = 0
  <2>1. InternedCount' = 0 /\ IsFiniteSet(CellsOf(interned'))
    BY <1>1, <1>3, <1>7, FS_EmptySet
  <2>2. Counted'
    BY <1>2, <2>1 DEF Counted, RowsOf, CellsOf
  <2> QED
    BY <1>2, <1>4, <2>1, <2>2
<1> QED
  BY <1>5, <1>6, <1>7

\* Nothing is interned and no row stored.
LEMMA Stays ==
  ASSUME Counted, interned' = interned, table' = table
  PROVE  Counted' /\ Resident' = Resident
BY DEF Counted, Resident, InternedCount, RowCount, CellsOf, RowsOf

-----------------------------------------------------------------------------
(* Each action *)

\* Steps of a candidate's making that leave the memory alone.
LEMMA MakingMInv ==
  ASSUME IInv, MInv,
         \/ Stay \/ Clean \/ Begin \/ Copy
         \/ \E s \in States : MutateMemory(s)
         \/ \E l \in Lines : CopyNextLine(l) \/ SwapWithPrev(l)
         \/ \E l \in Lines, i \in Insns : EditLine(l, i) \/ PushBackToPrev(l, i)
  PROVE  MInv'
<1> DEFINE place == \/ pc = "migrate" /\ pc' = "choose" /\ UNCHANGED <<first, pics>>
                    \/ pc = "choose" /\ pc' = "mutate" /\ first' = FALSE
                    \/ pc = "choose" /\ pc' = "enter" /\ Clean
                    \/ pc = "mutate" /\ pc' = "mutate" /\ first' = first
<1>1. interned' = interned /\ table' = table /\ setting' = setting /\ place
  <2>1. CASE Stay
    BY <2>1 DEF Stay, memory
  <2>2. CASE Clean
    BY <2>2 DEF Clean, memory
  <2>3. CASE Begin \/ Copy
    <3>1. first \in BOOLEAN
      BY DEF IInv, TypeOK
    <3> QED
      BY <2>3, <3>1 DEF Begin, Copy, memory
  <2>4. ASSUME NEW s \in States, MutateMemory(s)
        PROVE  interned' = interned /\ table' = table /\ setting' = setting /\ place
    BY <2>4 DEF MutateMemory, memory
  <2>5. ASSUME NEW l, NEW f, Replace(l, f)
        PROVE  interned' = interned /\ table' = table /\ setting' = setting /\ place
    BY <2>5 DEF Replace, memory
  <2> HIDE DEF place
  <2>6. ASSUME NEW l \in Lines, CopyNextLine(l) \/ SwapWithPrev(l)
        PROVE  interned' = interned /\ table' = table /\ setting' = setting /\ place
    BY <2>5, <2>6 DEF CopyNextLine, SwapWithPrev
  <2>7. ASSUME NEW l \in Lines, NEW i \in Insns, EditLine(l, i) \/ PushBackToPrev(l, i)
        PROVE  interned' = interned /\ table' = table /\ setting' = setting /\ place
    BY <2>5, <2>7 DEF EditLine, PushBackToPrev
  <2> QED
    BY <2>1, <2>2, <2>3, <2>4, <2>6, <2>7
<1>2. Counted' /\ Resident' = Resident
  BY <1>1, Stays DEF MInv
<1>3. Resident \in Nat /\ Height \in Nat /\ Allowance \in Nat /\ Allowance' = Allowance
  BY <1>1, Budget, ResidentCounted DEF MInv, IInv, Allowance
<1>4. Budgeted'
  BY <1>1, <1>2, <1>3 DEF MInv, Budgeted
<1>5. ComesAddressed'
  <2>1. CASE pc' = "enter"
    <3>1. Clean /\ Addressed(pics["best"]) /\ Addressed(pics["current"]) /\ ~first'
      BY <1>1, <2>1 DEF Clean, MInv, ComesAddressed
    <3>2. pics'[target'] = pics["best"] \/ pics'[target'] = pics["current"]
      BY <3>1 DEF Clean, IInv, TypeOK
    <3> QED
      BY <2>1, <3>1, <3>2 DEF ComesAddressed, Addressed
  <2>2. CASE pc' # "enter"
    BY <1>1, <2>2 DEF MInv, ComesAddressed, Addressed
  <2> QED
    BY <2>1, <2>2
<1> QED
  BY <1>2, <1>4, <1>5 DEF MInv

\* Taking over what an editor has published starts the cache again.
LEMMA RetargetMInv ==
  ASSUME IInv, MInv, NEW g \in Published, Retarget(g)
  PROVE  MInv'
<1> DEFINE p == Picturing(g)
<1>0. p \in Picture /\ Missing(p) = Contents(p) /\ TypeOK
  BY PlainPictures, LineCacheAssumption DEF IInv
<1>1. PICK t \in Interning(Empty, Contents(p)) :
        /\ interned' = t
        /\ pics' = [pics EXCEPT !["best"] = Recached(p, t), !["current"] = Recached(p, t)]
  BY DEF Retarget
<1>2. /\ table' = NoRows /\ pc = "loop" /\ pc' = "loop" /\ first' = first /\ setting' = setting
  BY DEF Retarget
<1> HIDE DEF p
<1>3. Counted' /\ Resident' <= Height /\ Resident' \in Nat
  <2>1. /\ IsFiniteSet(Contents(p)) /\ Contents(p) \in SUBSET Insns
        /\ Cardinality(Contents(p)) <= Height /\ Cardinality(Contents(p)) \in Nat
    BY <1>0, ContentsCounted
  <2>2. Counted' /\ Resident' <= Cardinality(Contents(p)) /\ Resident' \in Nat
    BY <1>0, <1>1, <1>2, <2>1, Forgets DEF MInv
  <2> QED
    BY <1>0, <2>1, <2>2, Budget
<1>4. Budgeted'
  BY <1>0, <1>2, <1>3, Budget DEF Budgeted, Allowance
<1>5. ComesAddressed'
  <2>1. Addressed(Recached(p, t))
    BY <1>0, ContentsCounted, EmptyStore, RecachedAddressed
  <2>2. pics'["best"] = Recached(p, t) /\ pics'["current"] = Recached(p, t)
    BY <1>0, <1>1 DEF TypeOK
  <2> QED
    BY <1>2, <2>1, <2>2 DEF ComesAddressed, Addressed
<1> QED
  BY <1>3, <1>4, <1>5 DEF MInv

\* The guard at the head of the loop.
LEMMA HeadMInv ==
  ASSUME IInv, MInv, KeepCache \/ ForgetRows
  PROVE  MInv'
<1>1. /\ interned' = interned /\ setting' = setting /\ pics' = pics /\ first' = first
      /\ pc = "loop" /\ pc' = "migrate" /\ TypeOK
  BY DEF KeepCache, ForgetRows, memory, IInv
<1>2. Counted' /\ Resident' \in Nat /\ Resident' <= setting.cache
  <2>1. CASE KeepCache
    <3>1. table' = table /\ ~(Resident > setting.cache)
      BY <2>1 DEF KeepCache, OverBudget, memory
    <3>2. Counted' /\ Resident' = Resident
      BY <1>1, <3>1, Stays DEF MInv
    <3> QED
      BY <1>1, <3>1, <3>2, Budget, ResidentCounted DEF MInv
  <2>2. CASE ForgetRows
    <3>1. table' = NoRows /\ ~(InternedCount > setting.insns)
      BY <2>2 DEF ForgetRows, Crowded
    <3>2. Counted' /\ Resident' = InternedCount
      BY <1>1, <3>1, Forgets DEF MInv
    <3> QED
      BY <1>1, <3>1, <3>2, Budget, ResidentCounted DEF MInv
  <2> QED
    BY <2>1, <2>2
<1>3. Budgeted'
  BY <1>1, <1>2, Budget DEF Budgeted, Allowance
<1>4. ComesAddressed'
  BY <1>1 DEF MInv, ComesAddressed, Addressed
<1> QED
  BY <1>2, <1>3, <1>4 DEF MInv

\* A full clear keeps the sequences of two programs at most.
LEMMA ForgetAllMInv ==
  ASSUME IInv, MInv, ForgetAll
  PROVE  MInv'
<1> DEFINE own == IF Legacy THEN {"best"} ELSE {"best", "current"}
           kept == UNION {Contents(pics[n]) : n \in own}
<1>1. PICK t \in Interning(Empty, kept) :
        /\ interned' = t
        /\ pics' = [n \in DOMAIN pics |->
                      IF n \in own THEN RecachedAll(pics[n], t) ELSE pics[n]]
  BY DEF ForgetAll
<1>2. /\ table' = NoRows /\ pc = "loop" /\ pc' = "migrate" /\ first' = first
      /\ setting' = setting /\ TypeOK
  BY DEF ForgetAll, IInv
<1>3. /\ pics["best"] \in Picture /\ pics["current"] \in Picture
      /\ DOMAIN pics = {"best", "current", "new"}
  BY <1>2 DEF TypeOK
<1>4. kept \subseteq Contents(pics["best"]) \cup Contents(pics["current"])
  OBVIOUS
<1>5. \A n \in own : n \in {"best", "current"} /\ Contents(pics[n]) \subseteq kept
  OBVIOUS
<1> HIDE DEF kept
<1>6. kept \in SUBSET Insns /\ IsFiniteSet(kept) /\ Cardinality(kept) <= 2 * Height
        /\ Cardinality(kept) \in Nat
  <2> DEFINE A == Contents(pics["best"])
             B == Contents(pics["current"])
  <2>1. /\ IsFiniteSet(A) /\ Cardinality(A) \in Nat /\ Cardinality(A) <= Height
        /\ IsFiniteSet(B) /\ Cardinality(B) \in Nat /\ Cardinality(B) <= Height
        /\ A \subseteq Insns /\ B \subseteq Insns
    BY <1>3, ContentsCounted
  <2>2. kept \subseteq A \cup B
    BY <1>4
  <2> HIDE DEF A, B
  <2>3. /\ IsFiniteSet(A \cup B) /\ IsFiniteSet(A \cap B)
        /\ Cardinality(A \cup B) = Cardinality(A) + Cardinality(B) - Cardinality(A \cap B)
    BY <2>1, FS_Union, FS_Intersection
  <2>4. Cardinality(A \cap B) \in Nat /\ Cardinality(A \cup B) \in Nat
    BY <2>3, FS_CardinalityType
  <2>5. IsFiniteSet(kept) /\ Cardinality(kept) <= Cardinality(A \cup B)
    BY <2>2, <2>3, FS_Subset
  <2>6. Cardinality(kept) \in Nat
    BY <2>5, FS_CardinalityType
  <2> QED
    BY <1>2, <2>1, <2>2, <2>3, <2>4, <2>5, <2>6, Budget
<1>7. Counted' /\ Resident' <= 2 * Height /\ Resident' \in Nat
  <2>1. Counted' /\ Resident' <= Cardinality(kept) /\ Resident' \in Nat
    BY <1>1, <1>2, <1>6, Forgets DEF MInv
  <2> QED
    BY <1>2, <1>6, <2>1, Budget
<1>8. Budgeted'
  BY <1>2, <1>7, Budget DEF Budgeted, Allowance
<1>9. ComesAddressed'
  <2>1. \A n \in own : Addressed(RecachedAll(pics[n], t))
    <3> SUFFICES ASSUME NEW n \in own PROVE Addressed(RecachedAll(pics[n], t))
      OBVIOUS
    <3>1. /\ Uncached(pics[n]) \in Picture
          /\ Missing(Uncached(pics[n])) \subseteq kept
      BY <1>3, <1>5, PlainPictures
    <3> QED
      BY <1>6, <3>1, EmptyStore, RecachedAddressed DEF RecachedAll
  <2>2. \A n \in {"best", "current"} :
          pics'[n] = IF n \in own THEN RecachedAll(pics[n], t) ELSE pics[n]
    BY <1>1, <1>3
  <2> HIDE DEF own
  <2>3. \A n \in {"best", "current"} : Addressed(pics[n]) => Addressed(pics'[n])
    BY <2>1, <2>2
  <2> QED
    BY <1>2, <2>3 DEF MInv, ComesAddressed, Addressed
<1> QED
  BY <1>7, <1>8, <1>9 DEF MInv

\* A program taken over, or mutated, is interned: a sequence for each line.
LEMMA InternMInv ==
  ASSUME IInv, MInv, EndMutation \/ \E g \in Published : Migrate(g)
  PROVE  MInv'
<1>0. TypeOK
  BY DEF IInv
<1>1. CASE EndMutation
  <2>1. /\ pics[target] \in Picture /\ target \in DOMAIN pics /\ interned \in Store
        /\ pc = "mutate" /\ pc' = "enter" /\ first' = first /\ table' = table
        /\ setting' = setting /\ target' = target
    BY <1>0, <1>1 DEF TypeOK, Store, EndMutation
  <2>2. PICK t \in Interning(interned, Missing(pics[target])) :
          interned' = t /\ pics' = [pics EXCEPT ![target] = Recached(pics[target], t)]
    BY <1>1 DEF EndMutation
  <2>3. /\ IsFiniteSet(Missing(pics[target])) /\ Cardinality(Missing(pics[target])) <= Height
        /\ Cardinality(Missing(pics[target])) \in Nat /\ Missing(pics[target]) \in SUBSET Insns
    BY <2>1, ContentsCounted
  <2>4. /\ Counted' /\ Resident' <= Resident + Cardinality(Missing(pics[target]))
        /\ Resident' \in Nat
    BY <1>0, <2>1, <2>2, <2>3, Grows DEF MInv
  <2>5. Budgeted'
    BY <1>0, <2>1, <2>3, <2>4, Budget, ResidentCounted DEF MInv, Budgeted, Allowance
  <2>6. Addressed(Recached(pics[target], t))
    BY <2>1, <2>3, RecachedAddressed
  <2>7. ComesAddressed'
    BY <2>1, <2>2, <2>6 DEF MInv, ComesAddressed, Addressed
  <2> QED
    BY <2>4, <2>5, <2>7 DEF MInv
<1>2. ASSUME NEW g \in Published, Migrate(g)
      PROVE  MInv'
  <2> DEFINE p == Patched(pics["current"], g)
  <2>1. p \in Picture
    <3>1. pics["current"] \in Picture /\ g \in Program
      BY <1>0, LineCacheAssumption DEF TypeOK
    <3> QED
      BY <3>1 DEF Patched, Picture, Program, Line
  <2>2. /\ interned \in Store /\ "current" \in DOMAIN pics
        /\ pc = "migrate" /\ pc' = "choose" /\ first' = first /\ table' = table
        /\ setting' = setting
    BY <1>0, <1>2 DEF TypeOK, Store, Migrate
  <2>3. PICK t \in Interning(interned, Missing(p)) :
          interned' = t /\ pics' = [pics EXCEPT !["current"] = Recached(p, t)]
    BY <1>2 DEF Migrate
  <2> HIDE DEF p
  <2>4. /\ IsFiniteSet(Missing(p)) /\ Cardinality(Missing(p)) <= Height
        /\ Cardinality(Missing(p)) \in Nat /\ Missing(p) \in SUBSET Insns
    BY <2>1, ContentsCounted
  <2>5. Counted' /\ Resident' <= Resident + Cardinality(Missing(p)) /\ Resident' \in Nat
    BY <1>0, <2>2, <2>3, <2>4, Grows DEF MInv
  <2>6. Budgeted'
    BY <1>0, <2>2, <2>4, <2>5, Budget, ResidentCounted DEF MInv, Budgeted, Allowance
  <2>7. Addressed(Recached(p, t))
    BY <2>1, <2>2, <2>4, RecachedAddressed
  <2>8. pics'["best"] = pics["best"] /\ pics'["current"] = Recached(p, t)
    BY <2>2, <2>3
  <2>9. ComesAddressed'
    BY <2>2, <2>7, <2>8 DEF MInv, ComesAddressed, Addressed
  <2> QED
    BY <2>5, <2>6, <2>9 DEF MInv
<1> QED
  BY <1>1, <1>2

\* An evaluation begins: within the budget with an address for every line, or
\* with nothing at all.
LEMMA EnterMInv ==
  ASSUME IInv, MInv, Enter \/ EnterForgetRows \/ EnterForgetAll
  PROVE  MInv'
<1>1. /\ TypeOK /\ pc = "enter" /\ pc' = "line" /\ y' = 1 /\ first' = first
      /\ setting' = setting /\ target' = target
  BY DEF IInv, Enter, EnterForgetRows, EnterForgetAll, StartExecution
<1>2. CASE EnterForgetAll
  <2>1. interned' = Empty /\ table' = NoRows
    BY <1>2 DEF EnterForgetAll
  <2>2. Counted' /\ Resident' = 0
    BY <1>1, <2>1, Forgets DEF MInv
  <2> QED
    BY <1>1, <2>2 DEF MInv, Budgeted, AddsTwo, ComesAddressed
<1>3. CASE Enter \/ EnterForgetRows
  <2>1. pics' = [pics EXCEPT ![target] = TurnedOff(pics[target])] /\ interned' = interned
    BY <1>3 DEF Enter, EnterForgetRows, StartExecution, memory
  <2>2. pics[target] \in Picture /\ target \in DOMAIN pics
    BY <1>1 DEF TypeOK
  <2>3. Addressed(TurnedOff(pics[target]))
    <3>1. Addressed(pics[target])
      BY <1>1 DEF MInv, ComesAddressed
    <3>2. \A l \in Lines : TurnedOff(pics[target]).lines[l].key = pics[target].lines[l].key
      BY <2>2 DEF TurnedOff, Picture, Line
    <3> QED
      BY <3>1, <3>2 DEF Addressed
  <2>4. Counted' /\ Resident' \in Nat /\ Resident' <= setting.cache
    <3>1. CASE Enter
      <4>1. table' = table /\ ~(Resident > setting.cache)
        BY <3>1 DEF Enter, OverBudget, memory
      <4>2. Counted' /\ Resident' = Resident
        BY <2>1, <4>1, Stays DEF MInv
      <4> QED
        BY <1>1, <4>1, <4>2, Budget, ResidentCounted DEF MInv
    <3>2. CASE EnterForgetRows
      <4>1. table' = NoRows /\ ~(InternedCount > setting.insns)
        BY <3>2 DEF EnterForgetRows, Crowded
      <4>2. Counted' /\ Resident' = InternedCount
        BY <1>1, <2>1, <4>1, Forgets DEF MInv
      <4> QED
        BY <1>1, <4>1, <4>2, Budget, ResidentCounted DEF MInv
    <3> QED
      BY <1>3, <3>1, <3>2
  <2>5. AddsOne'
    <3>1. \A l \in 1..Height : pics'[target].lines[l].key # NULL
      BY <2>1, <2>2, <2>3 DEF Addressed, Lines
    <3> QED
      BY <1>1, <2>4, <3>1, Budget DEF AddsOne
  <2> QED
    BY <1>1, <2>4, <2>5 DEF MInv, Budgeted, ComesAddressed
<1> QED
  BY <1>2, <1>3

\* A line adds its row; without an address it is interned as well.
LEMMA LineMInv ==
  ASSUME IInv, MInv, CacheHit \/ CacheMiss
  PROVE  MInv'
<1>1. PICK t \in Interning(interned, Unaddressed(y)) :
        /\ interned' = t
        /\ pics' = [pics EXCEPT ![target].lines[y].key = KeyAt(y, t)]
        /\ table' = table \/ table' = Insert(y, t)
  BY DEF CacheHit, CacheMiss
<1>2. /\ TypeOK /\ pc = "line" /\ y' = y + 1 /\ first' = first /\ setting' = setting
      /\ pc' = (IF y = Height THEN "judge" ELSE "line") /\ target' = target
  BY DEF IInv, CacheHit, CacheMiss, Show
<1>3. /\ y \in Lines /\ Unaddressed(y) \in SUBSET Insns /\ t \in Store
      /\ KeyAt(y, t) \in Addresses /\ entry \in States
  BY <1>1, <1>2, AddressedStep
<1>4. /\ IsFiniteSet(Unaddressed(y)) /\ Cardinality(Unaddressed(y)) \in {0, 1}
      /\ pics[target].lines[y].key # NULL => Cardinality(Unaddressed(y)) = 0
  BY FS_EmptySet, FS_Singleton DEF Unaddressed
<1>5. /\ Counted' /\ Resident' \in Nat
      /\ Resident' <= Resident + Cardinality(Unaddressed(y)) + 1
  <2>1. /\ interned \in Store
        /\ table \in [Lines -> [States \X Addresses -> Insns \cup {NULL}]]
    BY <1>2 DEF TypeOK, Store
  <2>2. /\ IsFiniteSet(CellsOf(t)) /\ Cardinality(CellsOf(t)) \in Nat
        /\ Cardinality(CellsOf(t)) <= Cardinality(CellsOf(interned)) + Cardinality(Unaddressed(y))
    BY <1>1, <1>3, <1>4, <2>1, InternCounted DEF MInv, Counted
  <2> DEFINE c == <<y, <<entry, KeyAt(y, t)>>>>
  <2>3. RowsOf(table') \subseteq RowsOf(table) \cup {c}
    <3>1. CASE table' = table
      BY <3>1
    <3>2. CASE table' = Insert(y, t)
      <4> SUFFICES ASSUME NEW l \in Lines, NEW k \in States \X Addresses, <<l, k>> # c
                   PROVE  table'[l][k] = table[l][k]
        BY DEF RowsOf
      <4>1. l # y \/ k # <<entry, KeyAt(y, t)>>
        OBVIOUS
      <4> QED
        BY <2>1, <3>2, <4>1 DEF Insert
    <3> QED
      BY <1>1, <3>1, <3>2
  <2> HIDE DEF c
  <2>4. /\ IsFiniteSet(RowsOf(table) \cup {c})
        /\ Cardinality(RowsOf(table) \cup {c}) <= Cardinality(RowsOf(table)) + 1
        /\ Cardinality(RowsOf(table)) \in Nat
    <3>1. IsFiniteSet(RowsOf(table)) /\ Cardinality(RowsOf(table)) \in Nat
      BY FS_CardinalityType DEF MInv, Counted
    <3>2. /\ IsFiniteSet(RowsOf(table) \cup {c})
          /\ Cardinality(RowsOf(table) \cup {c}) =
               IF c \in RowsOf(table) THEN Cardinality(RowsOf(table))
               ELSE Cardinality(RowsOf(table)) + 1
      BY <3>1, FS_AddElement
    <3> QED
      BY <3>1, <3>2
  <2>5. /\ IsFiniteSet(RowsOf(table')) /\ Cardinality(RowsOf(table')) \in Nat
        /\ Cardinality(RowsOf(table')) <= Cardinality(RowsOf(table) \cup {c})
    BY <2>3, <2>4, FS_Subset, FS_CardinalityType
  <2>6. Cardinality(RowsOf(table) \cup {c}) \in Nat
    BY <2>4, FS_CardinalityType
  <2>7. /\ Resident = Cardinality(CellsOf(interned)) + Cardinality(RowsOf(table))
        /\ Resident' = Cardinality(CellsOf(interned')) + Cardinality(RowsOf(table'))
    BY DEF Resident, InternedCount, RowCount, CellsOf, RowsOf
  <2>8. Cardinality(CellsOf(interned)) \in Nat
    BY FS_CardinalityType DEF MInv, Counted
  <2>9. Counted'
    BY <1>1, <2>2, <2>5 DEF Counted, CellsOf, RowsOf
  <2> QED
    BY <1>1, <1>4, <2>2, <2>4, <2>5, <2>6, <2>7, <2>8, <2>9
<1>6. y \in 1..Height /\ Resident \in Nat
  BY <1>3, ResidentCounted DEF Lines, MInv
<1>7. AddsOne' \/ AddsTwo'
  <2>1. CASE AddsOne
    <3>1. Cardinality(Unaddressed(y)) = 0 /\ Resident <= setting.cache + (y - 1)
      BY <1>4, <1>6, <2>1 DEF AddsOne
    <3>2. \A l \in (y + 1)..Height : pics'[target].lines[l].key # NULL
      <4> SUFFICES ASSUME NEW l \in (y + 1)..Height
                   PROVE  pics'[target].lines[l].key # NULL
        OBVIOUS
      <4>1. l \in Lines /\ l # y /\ l \in y..Height
        BY <1>6, Budget, <1>2 DEF Lines
      <4>2. pics[target] \in Picture /\ target \in DOMAIN pics
        BY <1>2 DEF TypeOK
      <4>3. pics'[target].lines[l] = pics[target].lines[l]
        BY <1>1, <4>1, <4>2 DEF Picture
      <4> QED
        BY <2>1, <4>1, <4>3 DEF AddsOne
    <3>3. Resident' <= setting.cache + ((y + 1) - 1)
      BY <1>2, <1>5, <1>6, <3>1, Budget
    <3> QED
      BY <1>2, <3>2, <3>3 DEF AddsOne
  <2>2. CASE AddsTwo
    BY <1>2, <1>4, <1>5, <1>6, <2>2 DEF AddsTwo
  <2> QED
    BY <1>2, <2>1, <2>2 DEF MInv, Budgeted
<1>8. CASE pc' = "line"
  BY <1>2, <1>5, <1>7, <1>8 DEF MInv, Budgeted, ComesAddressed
<1>9. CASE pc' = "judge"
  <2>1. y' - 1 = Height /\ setting' = setting
    BY <1>2, <1>6, <1>9
  <2>2. Resident' <= setting.cache + Height \/ Resident' <= 2 * Height
    BY <1>7, <2>1 DEF AddsOne, AddsTwo
  <2>3. Resident' <= Allowance' + Height
    BY <1>2, <1>5, <2>2, Budget DEF Allowance
  <2> QED
    BY <1>2, <1>5, <1>9, <2>3 DEF MInv, Budgeted, ComesAddressed
<1> QED
  BY <1>2, <1>8, <1>9

\* Judging a candidate adds nothing, but that the legacy optimizer interns what
\* somebody else has found.
LEMMA JudgeMInv ==
  ASSUME IInv, MInv,
         Accept \/ Reject \/ LegacyKeep \/ \E g \in Published : LegacySync(g)
  PROVE  MInv'
<1>1. /\ TypeOK /\ pc = "judge" /\ pc' = "loop" /\ first' = first /\ setting' = setting
      /\ table' = table
  BY DEF IInv, Accept, Reject, LegacyKeep, LegacySync, NextIteration
<1>2. Counted' /\ Resident' <= Resident + Height /\ Resident' \in Nat
  <2>1. CASE Accept \/ Reject \/ LegacyKeep
    <3>1. interned' = interned
      BY <2>1 DEF Accept, Reject, LegacyKeep
    <3> QED
      BY <1>1, <3>1, Stays, ResidentCounted, Budget DEF MInv
  <2>2. ASSUME NEW g \in Published, LegacySync(g)
        PROVE  Counted' /\ Resident' <= Resident + Height /\ Resident' \in Nat
    <3> DEFINE p == Picturing(g)
    <3>1. p \in Picture
      BY PlainPictures, LineCacheAssumption
    <3>2. PICK t \in Interning(interned, Contents(p)) : interned' = t
      BY <2>2 DEF LegacySync
    <3> HIDE DEF p
    <3>3. /\ IsFiniteSet(Contents(p)) /\ Cardinality(Contents(p)) <= Height
          /\ Cardinality(Contents(p)) \in Nat /\ Contents(p) \in SUBSET Insns
      BY <3>1, ContentsCounted
    <3>4. Counted' /\ Resident' <= Resident + Cardinality(Contents(p)) /\ Resident' \in Nat
      BY <1>1, <3>2, <3>3, Grows DEF MInv
    <3> QED
      BY <1>1, <3>3, <3>4, ResidentCounted, Budget DEF MInv
  <2> QED
    BY <2>1, <2>2
<1>3. Budgeted'
  BY <1>1, <1>2, ResidentCounted, Budget DEF MInv, Budgeted, Allowance
<1>4. ComesAddressed'
  BY <1>1 DEF MInv, ComesAddressed
<1> QED
  BY <1>2, <1>3, <1>4 DEF MInv

LEMMA InitMInv == Init => MInv
<1> SUFFICES ASSUME Init PROVE MInv
  OBVIOUS
<1>1. PICK g \in Published : \E t \in Interning(Empty, Contents(Picturing(g))) :
        /\ interned = t
        /\ pics = [n \in {"best", "current", "new"} |->
                     IF n = "new" THEN NULL ELSE Recached(Picturing(g), t)]
  BY DEF Init
<1> DEFINE p == Picturing(g)
<1>2. PICK t \in Interning(Empty, Contents(p)) :
        interned = t /\ pics["best"] = Recached(p, t) /\ pics["current"] = Recached(p, t)
  BY <1>1
<1>3. p \in Picture /\ Missing(p) = Contents(p) /\ TypeOK
  BY PlainPictures, InitIInv, LineCacheAssumption DEF IInv
<1> HIDE DEF p
<1>4. pc = "loop" /\ table = NoRows
  BY DEF Init
<1>5. /\ IsFiniteSet(Contents(p)) /\ Cardinality(Contents(p)) <= Height
      /\ Cardinality(Contents(p)) \in Nat /\ Contents(p) \in SUBSET Insns
  BY <1>3, ContentsCounted
<1>6. RowsOf(table) = {} /\ CellsOf(Empty) = {} /\ Empty \in Store
  <2>1. \A l \in Lines, k \in States \X Addresses : NoRows[l][k] = NULL
    BY DEF NoRows
  <2> QED
    BY <1>4, <2>1, EmptyStore DEF RowsOf, CellsOf, Empty
<1>7. /\ IsFiniteSet(CellsOf(t)) /\ Cardinality(CellsOf(t)) \in Nat
      /\ Cardinality(CellsOf(t)) <= 0 + Cardinality(Contents(p))
  <2>1. IsFiniteSet(CellsOf(Empty)) /\ Cardinality(CellsOf(Empty)) = 0
    BY <1>6, FS_EmptySet
  <2> QED
    BY <1>5, <1>6, <2>1, InternCounted
<1>8. IsFiniteSet(RowsOf(table)) /\ Cardinality(RowsOf(table)) = 0
  BY <1>6, FS_EmptySet
<1>9. Counted
  BY <1>2, <1>7, <1>8 DEF Counted
<1>10. Resident <= Height /\ Resident \in Nat
  <2>1. Resident = Cardinality(CellsOf(interned)) + Cardinality(RowsOf(table))
    BY DEF Resident, InternedCount, RowCount, CellsOf, RowsOf
  <2> QED
    BY <1>2, <1>3, <1>5, <1>7, <1>8, <2>1, Budget
<1>11. Budgeted
  BY <1>3, <1>4, <1>10, Budget DEF Budgeted
<1>12. ComesAddressed
  <2>1. Addressed(Recached(p, t))
    BY <1>3, <1>5, <1>6, RecachedAddressed
  <2> QED
    BY <1>2, <1>4, <2>1 DEF ComesAddressed
<1> QED
  BY <1>9, <1>11, <1>12 DEF MInv

LEMMA NextMInv == IInv /\ MInv /\ [Next]_vars => MInv'
<1> SUFFICES ASSUME IInv, MInv, [Next]_vars PROVE MInv'
  OBVIOUS
<1>1. CASE Stay \/ Clean \/ Begin \/ Copy \/ (Mutate /\ ~EndMutation)
  BY <1>1, MakingMInv DEF Mutate
<1>2. CASE KeepCache \/ ForgetRows \/ ForgetAll
  BY <1>2, HeadMInv, ForgetAllMInv
<1>3. ASSUME NEW g \in Published, Retarget(g) \/ Migrate(g) \/ LegacySync(g) PROVE MInv'
  BY <1>3, RetargetMInv, InternMInv, JudgeMInv
<1>4. CASE EndMutation
  BY <1>4, InternMInv
<1>5. CASE Enter \/ EnterForgetRows \/ EnterForgetAll
  BY <1>5, EnterMInv
<1>6. CASE CacheHit \/ CacheMiss
  BY <1>6, LineMInv
<1>7. CASE Accept \/ Reject \/ LegacyKeep
  BY <1>7, JudgeMInv
<1>8. CASE UNCHANGED vars
  <2>1. UNCHANGED <<setting, pc, pics, target, first, interned, table, y>>
    BY <1>8 DEF vars, memory, execution
  <2>2. Counted' /\ Resident' = Resident
    BY <2>1, Stays DEF MInv
  <2>3. ComesAddressed'
    BY <2>1 DEF MInv, ComesAddressed, Addressed
  <2>4. Budgeted'
    BY <2>1, <2>2 DEF MInv, Budgeted, Allowance, AddsOne, AddsTwo
  <2> QED
    BY <2>2, <2>3, <2>4 DEF MInv
<1> QED
  BY <1>1, <1>2, <1>3, <1>4, <1>5, <1>6, <1>7, <1>8 DEF Next

\* With any optimizer, any budget and any number of lines, addresses and register
\* states the guards of Run and ExecuteRasterProgram keep the cache bounded.
THEOREM MemoryCorrect == Spec => []MemoryBounded
<1>1. IInv /\ MInv => MemoryBounded
  <2> SUFFICES ASSUME IInv, MInv PROVE MemoryBounded
    OBVIOUS
  <2>0. TypeOK /\ Resident \in Nat
    BY ResidentCounted DEF IInv, MInv
  <2>1. CASE pc = "line"
    <3>1. y \in 1..Height
      BY <2>1 DEF IInv, Reached, Lines
    <3>2. Resident <= setting.cache + (y - 1) \/ Resident <= 2 * (y - 1)
      BY <2>1 DEF MInv, Budgeted, AddsOne, AddsTwo
    <3> QED
      BY <2>0, <2>1, <3>1, <3>2, Budget DEF MemoryBounded
  <2>2. CASE pc # "line"
    <3>1. pc \in {"loop", "enter", "migrate", "choose", "mutate", "judge"}
      BY <2>0, <2>2 DEF TypeOK
    <3>2. \/ pc = "judge" /\ Resident <= Allowance + Height
          \/ pc \notin {"line", "judge"} /\
               (\/ Resident <= Allowance + 2 * Height \/ Resident <= Allowance
                \/ Resident <= Allowance + Height)
      BY <3>1 DEF MInv, Budgeted
    <3> QED
      BY <2>0, <3>2, Budget DEF MemoryBounded
  <2> QED
    BY <2>1, <2>2
<1> QED
  BY <1>1, InitMInv, NextMInv, CacheInvariant, PTL DEF Spec

=============================================================================
