---------------------------- MODULE MCLineCache ----------------------------
(* Constants for checking LineCache with TLC. *)
EXTENDS LineCache, TLC

CONSTANTS a1, a2, a3, i, j, k, s1, s2

MCHeight == 3
MCInsns == {i, j, k}
MCStates == {s1, s2}
MCAddresses == {a1, a2, a3}
AddressSymmetry == Permutations(MCAddresses)

\* i keeps the registers, j and k set them.
MCExit == [l \in 1..MCHeight |-> [s \in MCStates |->
             [n \in MCInsns |-> CASE n = i -> s [] n = j -> s1 [] n = k -> s2]]]

\* A register that k writes is off on every line; a line without that write is like i.
OffEverywhere == [l \in 1..MCHeight |-> [n \in MCInsns |-> IF n = k THEN i ELSE n]]
MCOffMem == [s \in MCStates |-> s1]

MCPublished == {[mem |-> s1, lines |-> [l \in 1..MCHeight |-> i]],
                [mem |-> s2, lines |-> [l \in 1..MCHeight |-> IF l = 1 THEN k ELSE j]]}

\* Rows are forgotten often, and the interned sequences often or never.
Small(m) == [mode |-> m, cache |-> 4, insns |-> 1]
Rows(m) == [mode |-> m, cache |-> 4, insns |-> 3]
MCSettings == {Small("transactional"), Rows("copying"), Rows("legacy")}
SmallCopying == {Small("copying")}
=============================================================================
