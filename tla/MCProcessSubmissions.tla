------------------------ MODULE MCProcessSubmissions ------------------------
(* Definitions for model checking ProcessSubmissions. *)
EXTENDS ProcessSubmissions, TLC

\* Submissions, and the files inside them, are interchangeable.
Symmetry == Permutations(Subs) \union Permutations(Files)
=============================================================================
