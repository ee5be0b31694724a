--------------------------------- MODULE Ranking ---------------------------------
(***************************************************************************)
(* Sorting and filtering, by rank, and adding up.  The n-th element of a   *)
(* sorted array is the one with n - 1 elements before it.  The orders are  *)
(* those that the code gives to its sorts, where no two elements tie.      *)
(***************************************************************************)
EXTENDS Integers, Sequences, FiniteSets

\* A sort needs an order of the elements of S in which no two of them tie.
StrictOrder(R, S) ==
    /\ \A x \in S : <<x, x>> \notin R
    /\ \A x, y, z \in S : <<x, y>> \in R /\ <<y, z>> \in R => <<x, z>> \in R
    /\ \A x, y \in S : x # y => <<x, y>> \in R \/ <<y, x>> \in R

Before(R, S, x) == {y \in S : <<y, x>> \in R}
Rank(R, S, x) == Cardinality(Before(R, S, x))

\* The elements of S as a sequence, in the order R.
InOrderOf(R, S) ==
    [n \in 1 .. Cardinality(S) |-> CHOOSE x \in S : Rank(R, S, x) = n - 1]

\* Numbers in increasing order.
Less(S) == {p \in S \X S : p[1] < p[2]}
Increasing(S) == InOrderOf(Less(S), S)

\* The entries of s at the positions P, in the order they have in s.
AtPositions(s, P) == [n \in DOMAIN Increasing(P) |-> s[Increasing(P)[n]]]

\* The entries of s that are in good, in the order they have in s.
Filter(s, good) == AtPositions(s, {n \in DOMAIN s : s[n] \in good})

\* The sum of a list of numbers, added up one by one.
Total(list) ==
    LET sum[n \in 0 .. Len(list)] == IF n = 0 THEN 0 ELSE sum[n - 1] + list[n]
    IN  sum[Len(list)]
=================================================================================
