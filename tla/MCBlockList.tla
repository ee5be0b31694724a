------------------------------ MODULE MCBlockList ------------------------------
(* Two lists of nodes of two elements. *)
EXTENDS BlockList

CONSTANTS l1, l2
TwoLists == Permutations(Lists)

\* No operation depends on the answer of an earlier one; every step's own answer
\* is still compared with the abstract list's.  lastn is not read while there is
\* no shortcut.
ListsOnly ==
    <<heap, [l \in Lists |-> IF lists[l].last = NULL THEN [lists[l] EXCEPT !.lastn = 0] ELSE lists[l]]>>
================================================================================
