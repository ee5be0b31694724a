----------------------------- MODULE MCSolverQuads -----------------------------
(* Small fields of stars for SolverQuads. *)
EXTENDS SolverQuads

\* Eight stars: some pairs too narrow or too wide, the others with up to four
\* stars inside of their circle and some outside.
EightStars ==
    LET xs == <<9, 1, 4, 6, 0, 5, 8, 3>>
        ys == <<8, 1, 3, 4, 7, 6, 2, 5>>
    IN  [s \in 0 .. 7 |-> [x |-> xs[s + 1], y |-> ys[s + 1]]]

\* Quads of five, four and three stars, for scales that overlap.
ThreeIndexes == <<[dim |-> 3, lo |-> 20, hi |-> 70], [dim |-> 5, lo |-> 50, hi |-> 150],
                  [dim |-> 4, lo |-> 20, hi |-> 90]>>

Slice(s, e) == [start |-> s, end |-> e]
ThreeDepths == <<Slice(0, 3), Slice(4, 6), Slice(6, 0)>>
================================================================================
