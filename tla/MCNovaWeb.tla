------------------------------ MODULE MCNovaWeb ------------------------------
(* Definitions for model checking NovaWeb. *)
EXTENDS NovaWeb, TLC

Symmetry == Permutations(Subs) \union Permutations(Files)
=============================================================================
