--------------------------------- MODULE KdTree ---------------------------------
(***************************************************************************)
(* The kd-trees of libkd in the form the code tree and the star tree take: *)
(* integer coordinates, splitting planes without bounding boxes, and the   *)
(* dimension of a split packed into the low bits of its position           *)
(* (KDTT_DUU, KDTT_DSS with KD_BUILD_SPLIT).  The tree is built top down,  *)
(* in one array, lr, that is both the stack of the build and its result,   *)
(* and then answers range searches and nearest-neighbour searches.         *)
(*                                                                         *)
(* A query comes in external coordinates, 2 to one of the tree's, from -1  *)
(* on: the tree truncates it when it fits, and works in doubles when not.  *)
(* Asserts are compiled out (ASSERT ?= -DNDEBUG in util/makefile.common).  *)
(***************************************************************************)
EXTENDS Ranking, SequencesExt, FiniteSetsExt, Functions

CONSTANTS
    Clouds,      \* sequences of points, each a sequence of NDim coordinates
    NDim,
    TMax,        \* TTYPE_MAX
    NLeaf,       \* wanted size of a leaf
    Unit,        \* external coordinates to a whole number, 1.0
    Garbage,     \* what unwritten memory may hold, a few values of 0 .. TMax
    Queries,     \* points that are asked about, in external coordinates
    Radii        \* and distances, in external coordinates

NoLimit == 16 * (TMax + 2) * (TMax + 2) * NDim   \* more than any square of a distance
Dims    == 1 .. NDim
Flag    == CHOOSE u \in {1, 2, 4, 8} : u >= NDim /\ u < 2 * NDim   \* dimmask + 1
Pow2    == [k \in 0 .. 30 |-> 2^k]               \* 1 << k, an int
Levels(n) == 1 + CHOOSE k \in 0 .. 29 : LET m == n \div NLeaf
                                       IN  m < Pow2[k] /\ (k = 0 \/ Pow2[k - 1] <= m)

\* What kdtree_build_2 refuses: no points, or too few for the number of levels.
\* Nodes are numbered by an int.
ASSUME CloudAssumption == \A c \in Clouds : /\ c \in Seq([Dims -> 0 .. TMax])
                                            /\ c # <<>> /\ Len(c) \div NLeaf < Pow2[29]
                                            /\ Pow2[Levels(Len(c))] - 1 <= Len(c)
ASSUME TreeAssumption ==
    NDim \in 1 .. 8 /\ TMax \in Nat /\ NLeaf \in Nat \ {0} /\ Garbage \subseteq 0 .. TMax
ASSUME QueryAssumption ==
    Queries \subseteq [Dims -> Int] /\ Radii \subseteq Nat /\ Unit \in Nat \ {0}

VARIABLES
    pc,
    pts,         \* the points, numbered from 1
    perm,        \* the point at each place of the data array
    lr,          \* last place of a node being split, at last of a leaf
    split,       \* position and dimension of each split
    node,        \* the interior node to split next
    query,       \* [at, r]: r is NoRadius for a search without a limit
    stack,       \* nodes to visit: [node, far], the next one last
    near,        \* square of the distance of the best point so far
    found        \* places the search has found

tree == <<pts, perm, lr, split, node>>
vars == <<pc, tree, query, stack, near, found>>

NoRadius == -1
Abs(x) == IF x < 0 THEN -x ELSE x
N        == Len(pts)
Bottom   == Pow2[Levels(N) - 1]
Interior == Bottom - 1
Level(n) == CHOOSE l \in 0 .. Levels(N) - 1 : Pow2[l] - 1 <= n /\ n < Pow2[l + 1] - 1
At(p, d) == pts[perm[p]][d]

Position(s)  == s - (s % Flag)
Dimension(s) == 1 + (s % Flag)
\* The place in lr of the left child of n: the last level starts again at 0.
LeftIn(n) == 2 * n + 1 - (IF Level(n) = Levels(N) - 2 THEN Interior ELSE 0)

Init ==
    /\ pts \in Clouds
    /\ node = 0
    /\ pc = IF Interior = 0 THEN "ready" ELSE "build"
    /\ perm = [p \in 0 .. N - 1 |-> p + 1]
    /\ lr = [i \in 0 .. Bottom - 1 |-> IF i = 0 THEN N - 1 ELSE 0]
    /\ split = [n \in 0 .. Interior - 1 |-> 0]
    /\ query = [at |-> <<>>, r |-> NoRadius]
    /\ stack = <<>> /\ near = 0 /\ found = {}

Lo == IF node = Pow2[Level(node)] - 1 THEN 0 ELSE lr[node - 1] + 1
Hi == lr[node]

SplitInto(m) == lr' = [lr EXCEPT ![LeftIn(node)] = m - 1, ![LeftIn(node) + 1] = Hi]

\* At most one point is left: it stays on the left, and the split is never
\* written, whatever the memory holds.
SplitThin ==
    /\ Lo >= Hi
    /\ SplitInto(Hi + 1)
    /\ \E garbage \in Garbage : split' = [split EXCEPT ![node] = garbage]
    /\ UNCHANGED perm

Extent(d)  == LET xs == {At(p, d) : p \in Lo .. Hi} IN Max(xs) - Min(xs)
WidestDim  == Max({d \in Dims : \A e \in Dims : Extent(e) <= Extent(d)})
\* kdtree_qsort does not say which of two equal points comes first.
Along(d, up) ==
    {e \in (1 .. N) \X (1 .. N) :
        \/ pts[e[1]][d] < pts[e[2]][d]
        \/ pts[e[1]][d] = pts[e[2]][d] /\ (IF up THEN e[1] < e[2] ELSE e[2] < e[1])}

SortBy(d, up) ==
    LET sorted == InOrderOf(Along(d, up), {perm[p] : p \in Lo .. Hi})
    IN  [p \in DOMAIN perm |-> IF p \in Lo .. Hi THEN sorted[p - Lo + 1] ELSE perm[p]]

\* Where the right child begins: at the median, moved so that no point beyond
\* the truncated split is left of it.
Cut(sorted, d, median, s) ==
    Min({m \in Lo .. median : \A p \in m .. median - 1 : pts[sorted[p]][d] > s})

\* Mutant: the median is left where it is.
SplitUnmoved ==
    /\ Lo < Hi
    /\ \E up \in BOOLEAN :
         LET sorted == SortBy(WidestDim, up)
             median == (1 + Lo + Hi) \div 2
         IN  /\ perm' = sorted
             /\ split' = [split EXCEPT ![node] =
                           Position(pts[sorted[median]][WidestDim]) + (WidestDim - 1)]
             /\ SplitInto(median)

SplitNode ==
    /\ Lo < Hi
    /\ \E up \in BOOLEAN :
         LET d      == WidestDim
             sorted == SortBy(d, up)
             median == (1 + Lo + Hi) \div 2
             s      == Position(pts[sorted[median]][d])
         IN  /\ perm' = sorted
             /\ split' = [split EXCEPT ![node] = s + (d - 1)]
             /\ SplitInto(Cut(sorted, d, median, s))

Build ==
    /\ pc = "build" /\ node < Interior
    /\ SplitThin \/ SplitNode
    /\ node' = node + 1
    /\ pc' = IF node' = Interior THEN "ready" ELSE pc
    /\ UNCHANGED <<pts, query, stack, near, found>>

--------------------------------------------------------------------------------
(* Which points a node holds, from the lr of its first and its last leaf. *)
Depth(n)     == Levels(N) - 1 - Level(n)
FirstLeaf(n) == (n + 1) * Pow2[Depth(n)] - 1 - Interior
LastLeaf(n)  == n * Pow2[Depth(n)] + (Pow2[Depth(n)] - 1) * 2 - Interior
LeafLeft(i)  == IF i = 0 THEN 0 ELSE lr[i - 1] + 1
Places(n)    == LeafLeft(FirstLeaf(n)) .. lr[LastLeaf(n)]

--------------------------------------------------------------------------------
Square(x)  == x * x
CeilRoot(x) == Min({k \in 0 .. x : k * k >= x})
Floor2(x)  == x \div 2                           \* mutant: rounded down
Ceil2(x)   == (x + 1) \div 2                     \* to tree units, rounded up

\* ttype_query: may q be represented in the tree, and as what?
Fits       == \A d \in Dims : query.at[d] \in 0 .. 2 * TMax
TQuery(d)  == query.at[d] \div 2
Dist2(q, p)  == Total([d \in Dims |-> Square(q[d] - 2 * At(p, d))])
TDist2(p)    == Total([d \in Dims |-> Square(TQuery(d) - At(p, d))])

Top      == Last(stack)
Plane    == Position(split[Top.node])
Dim      == Dimension(split[Top.node])
IsLeaf   == Top.node >= Interior
LeftOf   == 2 * Top.node + 1
RightOf  == 2 * Top.node + 2
Entry(n, far) == [node |-> n, far |-> far]
Push(entries) == stack' = Front(stack) \o entries

Ask(mode) ==
    /\ pc = "ready"
    /\ \E q \in Queries, r \in Radii \cup (IF mode = "near" THEN {NoRadius} ELSE {}) :
         query' = [at |-> q, r |-> r]
    /\ pc' = mode
    /\ stack' = <<Entry(0, 0)>> /\ found' = {}
    /\ UNCHANGED tree

(* kdtree_rangesearch *)
StartRange == Ask("range") /\ near' = 0

InRange(p) == Dist2(query.at, p) <= Square(query.r)

RangeLeaf ==
    /\ IsLeaf
    /\ found' = found \cup {p \in Places(Top.node) : InRange(p)}
    /\ Push(<<>>)

\* Both children when the plane is within reach of the query, or its own side.
Descend(isleft, reach) ==
    Push(IF isleft THEN <<Entry(LeftOf, 0)>> \o (IF reach THEN <<Entry(RightOf, 0)>> ELSE <<>>)
                   ELSE <<Entry(RightOf, 0)>> \o (IF reach THEN <<Entry(LeftOf, 0)>> ELSE <<>>))

UseTSplit == Fits /\ query.r < 2 * TMax

RangeSplit ==
    /\ ~IsLeaf /\ UseTSplit
    /\ Descend(TQuery(Dim) < Plane, Abs(TQuery(Dim) - Plane) <= Ceil2(query.r))
    /\ UNCHANGED found

\* The plane in external coordinates is put in a variable of the data type,
\* an integer: what is left is a whole number.
RangeReal ==
    /\ ~IsLeaf /\ ~UseTSplit
    /\ LET q == query.at[Dim]
           rsplit == Unit * ((2 * Plane) \div Unit)
       IN  Descend(q < rsplit, Abs(q - rsplit) <= query.r)
    /\ UNCHANGED found

VisitRange ==
    /\ pc = "range" /\ stack # <<>>
    /\ RangeLeaf \/ RangeSplit \/ RangeReal
    /\ UNCHANGED <<pc, tree, query, near>>

(* kdtree_nn, kdtree_nn_int_split when the query fits. *)
StartNearest ==
    /\ Ask("near")
    /\ near' = IF query'.r = NoRadius \/ (Fits' /\ query'.r > 2 * TMax) THEN NoLimit
               ELSE Square(IF Fits' THEN Ceil2(query'.r) ELSE query'.r)

\* Rounded up into the type of the tree, which it may not fit.
Closest == IF near = NoLimit THEN TMax ELSE CeilRoot(near) % (TMax + 1)
Reach2(p) == IF Fits THEN TDist2(p) ELSE Dist2(query.at, p)
Pruned  == Top.far > IF Fits THEN Closest ELSE near

NearPruned == Pruned /\ Push(<<>>) /\ UNCHANGED <<near, found>>

\* The last of the nearest points of the leaf, if it is no farther than the best.
NearLeaf ==
    /\ ~Pruned /\ IsLeaf
    /\ LET d2s == {Reach2(p) : p \in Places(Top.node)}
       IN  IF \E d2 \in d2s : d2 <= near
           THEN /\ near' = Min(d2s)
                /\ found' = {Max({p \in Places(Top.node) : Reach2(p) = near'})}
           ELSE UNCHANGED <<near, found>>
    /\ Push(<<>>)

\* Mutant: the distances of the two children are swapped.
NearFirstSwapped(isleft, reach, far) ==
    LET nearer  == IF isleft THEN LeftOf ELSE RightOf
        farther == IF isleft THEN RightOf ELSE LeftOf
    IN  Push((IF reach THEN <<Entry(farther, 0)>> ELSE <<>>) \o <<Entry(nearer, far)>>)

\* The far child below the near one, when its plane is close enough.
NearFirst(isleft, reach, far) ==
    LET nearer  == IF isleft THEN LeftOf ELSE RightOf
        farther == IF isleft THEN RightOf ELSE LeftOf
    IN  Push((IF reach THEN <<Entry(farther, far)>> ELSE <<>>) \o <<Entry(nearer, 0)>>)

NearSplit ==
    /\ ~Pruned /\ ~IsLeaf /\ Fits
    /\ LET off == TQuery(Dim) - Plane
       IN  NearFirst(off < 0, IF off < 0 THEN -off <= Closest ELSE off < Closest, Abs(off))
    /\ UNCHANGED <<near, found>>

NearReal ==
    /\ ~Pruned /\ ~IsLeaf /\ ~Fits
    /\ LET off == query.at[Dim] - 2 * Plane
       IN  NearFirst(off < 0, Square(off) <= near, Square(off))
    /\ UNCHANGED <<near, found>>

VisitNear ==
    /\ pc = "near" /\ stack # <<>>
    /\ NearPruned \/ NearLeaf \/ NearSplit \/ NearReal
    /\ UNCHANGED <<pc, tree, query>>

\* The answer is used and the tree is asked again.
Answered == pc \in {"range", "near"} /\ stack = <<>>
Return ==
    /\ Answered
    /\ pc' = "ready" /\ found' = {} /\ near' = 0
    /\ query' = [at |-> <<>>, r |-> NoRadius]
    /\ UNCHANGED <<tree, stack>>

Next == Build \/ StartRange \/ VisitRange \/ StartNearest \/ VisitNear \/ Return
Spec == Init /\ [][Next]_vars

--------------------------------------------------------------------------------
\* The tree is what kdtree_check asks for, whatever the shape of the cloud: the
\* children of a node hold its points between them, in order, and the plane of a
\* node of two or more points lies between those of its children - although the
\* low bits of the plane were given to the dimension, and although lr was
\* overwritten while it was read.
TreeIsSound ==
    pc = "ready" =>
        /\ Range(perm) = 1 .. N
        /\ Places(0) = 0 .. N - 1
        /\ \A n \in 0 .. Interior - 1 :
             LET left == Places(2 * n + 1) right == Places(2 * n + 2)
             IN  /\ Places(n) = left \cup right
                 /\ \A p \in left, q \in right : p < q
                 /\ Cardinality(Places(n)) > 1 =>
                      LET at(p) == At(p, Dimension(split[n]))
                      IN  /\ \A p \in left  : at(p) <= Position(split[n])
                          /\ \A p \in right : at(p) >= Position(split[n])

\* A node of a single point has a plane that was never written.
SomeoneAlone == \E n \in 0 .. Interior - 1 : Cardinality(Places(n)) = 1
AllInRange   == {p \in 0 .. N - 1 : InRange(p)}

\* A range search returns the points within range and, when the query fits the
\* tree and no plane is unwritten, all of them: truncating the query and rounding
\* the radius up prune nothing that should be found.
RangeIsExact ==
    pc = "range" /\ Answered =>
        /\ found \subseteq AllInRange
        /\ Fits /\ ~SomeoneAlone => found = AllInRange

\* The nearest-neighbour search answers the nearest point, to the query as the tree
\* represents it, when it is within the limit, as the tree rounds it up, and none
\* when all are beyond: no branch is pruned too early.  (Where no distance is more
\* than TMax, as between stars on the sphere: a larger one does not fit its type.)
Limit == IF query.r = NoRadius \/ (Fits /\ query.r > 2 * TMax) THEN NoLimit
         ELSE Square(IF Fits THEN Ceil2(query.r) ELSE query.r)
NearestIsNearest ==
    pc = "near" /\ Answered /\ ~SomeoneAlone
                /\ (Fits => \A p \in 0 .. N - 1 : TDist2(p) <= Square(TMax)) =>
        LET best == Min({Reach2(p) : p \in 0 .. N - 1})
        IN  /\ best < Limit => found # {}
            /\ found # {} => best <= Limit
            /\ \A p \in found : Reach2(p) = best /\ near = best

\* "nres" is the number of points within range (kdtree.h:574): refuted outside the
\* limits of the tree, where the solver looks for codes within their tolerance.
FindsAllInRange == pc = "range" /\ Answered /\ ~SomeoneAlone => found = AllInRange
================================================================================
