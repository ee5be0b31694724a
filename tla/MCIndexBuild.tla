------------------------------ MODULE MCIndexBuild ------------------------------
(* Five stars on a sky of four healpixes.  The options are few enough to   *)
(* run every build, and such that stars are used up and limits loosened.   *)
EXTENDS IndexBuild

Magnitudes == <<3, 1, 4, 2, 5>>
PlacesA == {0, 2, 3, 5, 7}
PlacesB == {1, 2, 4, 6, 7}
AllSkies == {s \in [1 .. 5 -> PlacesA] : IsInjective(s)} \cup {s \in [1 .. 5 -> PlacesB] : IsInjective(s)}

Plain == [shared |-> FALSE, sorted |-> TRUE, brightcut |-> 0, bighp |-> -1, margin |-> 0, dedup |-> 0,
          sweeps |-> 3, dimquads |-> 3, passes |-> 2, Nreuse |-> 1, Nloosen |-> 3, scanoccupied |-> FALSE]
Options == {
    Plain,
    [Plain EXCEPT !.dimquads = 4, !.passes = 1, !.Nloosen = 0],
    [Plain EXCEPT !.Nreuse = 0, !.Nloosen = 2, !.sorted = FALSE, !.scanoccupied = TRUE],
    [Plain EXCEPT !.Nreuse = 2, !.sweeps = 1, !.dedup = 1, !.brightcut = 1],
    [Plain EXCEPT !.dedup = 2, !.sorted = FALSE, !.passes = 1],
    [Plain EXCEPT !.bighp = 0, !.margin = 1, !.passes = 3, !.Nreuse = 2],
    [Plain EXCEPT !.bighp = 1, !.margin = 2, !.sweeps = 2],
    [Plain EXCEPT !.shared = TRUE, !.passes = 3, !.scanoccupied = TRUE]}

\* Identity, reversal and a rotation, which is not its own inverse.
ThreeShuffles(n) == {[i \in 1 .. n |-> i], [i \in 1 .. n |-> n + 1 - i], [i \in 1 .. n |-> (i % n) + 1]}
================================================================================
