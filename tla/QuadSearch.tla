------------------------------- MODULE QuadSearch -------------------------------
(***************************************************************************)
(* One quad of the field is looked up in the code tree of an index:        *)
(* try_all_codes of solver.c, down to the range searches of KdTree.  The   *)
(* quad is tried in both parities, with A and B either way round, and with *)
(* its inner stars in every order - except those that the invariants of    *)
(* the codes of the index (cx <= dx, mean of x <= 1/2) rule out, within a  *)
(* margin for the noise of the field.                                      *)
(*                                                                         *)
(* Codes are in the external coordinates of the tree, where Unit is 1.0.   *)
(***************************************************************************)
EXTENDS KdTree

CONSTANTS
    FieldCodes,  \* codes of field quads: position <<x, y>> of each inner star
    Tol          \* codetol, in external coordinates

ASSUME FieldAssumption ==
    Tol \in Nat /\ \A c \in FieldCodes : c \in Seq(Int \X Int) /\ 2 * Len(c) = NDim

VARIABLES
    phase,       \* "idle", "perm", "search" or "tried"
    cxdx,        \* the index says that its codes obey the invariants
    fieldcode,
    parities,    \* parities still to try, the present one first
    flipped,     \* A and B are swapped
    placed,      \* the inner stars in the slots filled so far
    next,        \* the inner star to try next in the first free slot
    hits,        \* matches looked at
    nummatches,
    quit_now

quadvars == <<phase, cxdx, fieldcode, parities, flipped, placed, next, hits, nummatches,
              quit_now>>

Inner == DOMAIN fieldcode

\* The index builder's promise, for points of the tree (MergedIndexIsRight).
X(point, k) == 2 * point[2 * k - 1]
Obeys(cloud) ==
    \A n \in DOMAIN cloud :
        /\ \A k \in 2 .. NDim \div 2 : X(cloud[n], k - 1) <= X(cloud[n], k)
        /\ 2 * Total([k \in 1 .. NDim \div 2 |-> X(cloud[n], k)]) <= Unit * (NDim \div 2)

QuadInit ==
    /\ Init
    /\ phase = "idle"
    /\ cxdx \in BOOLEAN /\ (cxdx => Obeys(pts))
    /\ fieldcode = <<>> /\ parities = <<>> /\ flipped = FALSE /\ placed = <<>> /\ next = 1
    /\ hits = {} /\ nummatches = 0 /\ quit_now = FALSE

\* quad_flip_parity swaps x and y; swapping A and B is a turn by half a circle.
CodeOf(k, flip, turned) ==
    LET c == IF flip THEN <<fieldcode[k][2], fieldcode[k][1]>> ELSE fieldcode[k]
    IN  IF turned THEN <<Unit - c[1], Unit - c[2]>> ELSE c
Query(flip, turned, order) ==
    [d \in Dims |-> CodeOf(order[(d + 1) \div 2], flip, turned)[2 - (d % 2)]]

OrigX(k) == CodeOf(k, Head(parities), flipped)[1]

\* try_all_codes: solver->parity is one or both.
StartQuad ==
    /\ phase = "idle" /\ pc = "ready"
    /\ fieldcode' \in FieldCodes
    /\ parities' \in {<<FALSE>>, <<TRUE>>, <<FALSE, TRUE>>}
    /\ flipped' = FALSE /\ placed' = <<>> /\ next' = 1
    /\ phase' = "perm"
    /\ UNCHANGED <<vars, cxdx, hits, nummatches, quit_now>>

\* Mutant: no margin.
OutOfOrderExactly(k) ==
    \/ placed # <<>> /\ OrigX(Last(placed)) > OrigX(k)
    \/ 2 * Total([s \in 1 .. Len(placed) + 1 |-> OrigX(Append(placed, k)[s])])
         > (Len(placed) + 1) * Unit

\* The checks of try_permutations, with a margin of 1.5 times the tolerance: the
\* star in the slot before has a larger x, or the mean of x is over a half.
OutOfOrder(k) ==
    \/ placed # <<>> /\ 2 * OrigX(Last(placed)) > 2 * OrigX(k) + 3 * Tol
    \/ 2 * Total([s \in 1 .. Len(placed) + 1 |-> OrigX(Append(placed, k)[s])])
         > (Len(placed) + 1) * (Unit + 3 * Tol)

Skip ==
    /\ phase = "perm" /\ next \in Inner
    /\ next \in ToSet(placed) \/ (cxdx /\ OutOfOrder(next))
    /\ next' = next + 1
    /\ UNCHANGED <<vars, phase, cxdx, fieldcode, parities, flipped, placed, hits, nummatches,
                  quit_now>>

Filled(order) ==
    /\ phase' = "search" /\ pc' = "range"
    /\ query' = [at |-> Query(Head(parities), flipped, order), r |-> Tol]
    /\ stack' = <<Entry(0, 0)>> /\ found' = {} /\ near' = 0
    /\ UNCHANGED tree

\* The star takes the slot; when it was the last one, the code is searched for.
PlaceStar ==
    /\ phase = "perm" /\ next \in Inner
    /\ next \notin ToSet(placed) /\ ~(cxdx /\ OutOfOrder(next))
    /\ placed' = Append(placed, next)
    /\ next' = 1
    /\ IF Len(placed') = Len(fieldcode) THEN Filled(placed')
                                        ELSE UNCHANGED <<vars, phase>>
    /\ UNCHANGED <<cxdx, fieldcode, parities, flipped, hits, nummatches, quit_now>>

\* All stars were tried in the slot: the one before takes its next star.
Backtrack ==
    /\ phase = "perm" /\ next \notin Inner /\ placed # <<>>
    /\ placed' = Front(placed) /\ next' = Last(placed) + 1
    /\ UNCHANGED <<vars, phase, cxdx, fieldcode, parities, flipped, hits, nummatches, quit_now>>

\* resolve_matches: every match is counted and, if its scale and place are right,
\* verified, until one ends the search.  Then the last slot is given up; the
\* slots before it go on, and look at one verified match of each search.
Resolve ==
    /\ phase = "search" /\ Answered
    /\ \E seen \in SUBSET found :
         /\ quit_now' \in BOOLEAN
         /\ IF quit_now THEN quit_now' /\ (seen = {} => found = {})
                        ELSE IF quit_now' THEN seen # {} ELSE seen = found
         /\ hits' = hits \cup {[flip |-> Head(parities), turned |-> flipped, order |-> placed,
                               match |-> p] : p \in seen}
         /\ nummatches' = nummatches + Cardinality(seen)
    /\ phase' = "perm"
    /\ pc' = "ready" /\ found' = {} /\ near' = 0
    /\ query' = [at |-> <<>>, r |-> NoRadius]
    /\ placed' = Front(placed)
    /\ next' = IF quit_now' THEN Len(fieldcode) + 1 ELSE Last(placed) + 1
    /\ UNCHANGED <<tree, stack, cxdx, fieldcode, parities, flipped>>

\* B and A, unless the search has ended, then the other parity in any case.
TurnAround ==
    /\ phase = "perm" /\ next \notin Inner /\ placed = <<>>
    /\ flipped' = (~flipped /\ ~quit_now)
    /\ parities' = IF flipped' THEN parities ELSE Tail(parities)
    /\ next' = 1
    /\ phase' = IF parities' = <<>> THEN "tried" ELSE phase
    /\ UNCHANGED <<vars, cxdx, fieldcode, placed, hits, nummatches, quit_now>>

\* The next quad; what the one before had found is left to verification.
EndQuad ==
    /\ phase = "tried"
    /\ phase' = "idle"
    /\ fieldcode' = <<>> /\ hits' = {} /\ nummatches' = 0 /\ quit_now' = FALSE
    /\ UNCHANGED <<vars, cxdx, parities, flipped, placed, next>>

\* Other users ask the tree between two quads.
Other == phase = "idle" /\ Next /\ UNCHANGED quadvars
Visit == phase = "search" /\ VisitRange /\ UNCHANGED quadvars

QuadNext == \/ Other \/ Visit \/ StartQuad \/ Skip \/ PlaceStar \/ Backtrack
            \/ Resolve \/ TurnAround \/ EndQuad
QuadSpec == QuadInit /\ [][QuadNext]_<<vars, quadvars>>

--------------------------------------------------------------------------------
Arrangements == {f \in [1 .. Len(fieldcode) -> Inner] : IsInjective(f)}
Matches(flip, turned, f) == {p \in 0 .. N - 1 : Dist2(Query(flip, turned, f), p) <= Square(Tol)}

\* The checks that save most of the searches lose no match: when all orders of the
\* inner stars were tried, every code of the index within the tolerance of one of
\* them was looked at, and nothing else, and each match was counted once.  (For
\* codes inside of the limits of the tree; see FindsAllInRange.)
PruningLosesNoMatch ==
    phase = "perm" /\ next \notin Inner /\ placed = <<>> /\ ~quit_now =>
        LET flip == Head(parities)
        IN  /\ \A f \in Arrangements :
                 LET got == {h.match : h \in {h \in hits : h.flip = flip /\ h.turned = flipped /\ h.order = f}}
                 IN  /\ got \subseteq Matches(flip, flipped, f)
                     /\ (\A d \in Dims : Query(flip, flipped, f)[d] \in 0 .. 2 * TMax) /\ ~SomeoneAlone =>
                            got = Matches(flip, flipped, f)
            /\ nummatches = Cardinality(hits)
================================================================================
