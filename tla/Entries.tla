------------------------------ MODULE Entries ------------------------------
(***************************************************************************)
(* Filtering an ordered list by position, as the store and its abstract    *)
(* specification both do when items leave.                                 *)
(***************************************************************************)
EXTENDS Naturals, Sequences, FiniteSets

(* f lists the positions S from the first to the last.                      *)
InOrder(f, S) == \A i, j \in 1..Cardinality(S) : i < j => f[i] < f[j]

(* The entries of s at the positions S, in the order they have in s.        *)
EntriesAt(s, S) ==
    LET f == CHOOSE f \in [1..Cardinality(S) -> S] : InOrder(f, S)
    IN  [i \in 1..Cardinality(S) |-> s[f[i]]]
=============================================================================
