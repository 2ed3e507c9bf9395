---------------------------- MODULE Subsequences ----------------------------
(***************************************************************************)
(* Comprehensions over a list of the code ([x for x in s if ...]) and      *)
(* sorted collections, written by position.  SelectSeq and SetToSortSeq    *)
(* say the same, but the proof system has no facts about them.             *)
(***************************************************************************)
EXTENDS Naturals, FiniteSets, Sequences

\* How many members of S are smaller than i.
CountBelow(S, i) == Cardinality({j \in S : j < i})

\* The n-th smallest member of S.
Nth(S, n) == CHOOSE i \in S : CountBelow(S, i) = n - 1

\* The elements of s at the positions in S, in order.
ElementsAt(s, S) == [n \in 1..Cardinality(S) |-> s[Nth(S, n)]]

\* The members of S in the order of the relation R, a set of pairs.
CountBefore(S, R, x) == Cardinality({y \in S : <<y, x>> \in R})
Sorted(S, R) ==
    [n \in 1..Cardinality(S) |-> CHOOSE x \in S : CountBefore(S, R, x) = n - 1]

=============================================================================
