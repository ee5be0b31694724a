------------------------------- MODULE IndexBuild -------------------------------
(***************************************************************************)
(* build_index and build_index_shared_skdt, in memory: uniformize the      *)
(* catalog, build a kd-tree of its stars, make quads, compute their codes, *)
(* build a kd-tree of the codes, and then unpermute: kd-trees put their    *)
(* points in an order of their own, and stars, quads and codes refer to    *)
(* each other by number, so that stars are renumbered in the quads and     *)
(* quads are put in the order of the codes before the parts are merged.    *)
(*                                                                         *)
(* An index that shares a star tree with others starts from a final tree   *)
(* and sorts by a tag-along column.  On the great circle a code is the     *)
(* distances of the inner stars from A, for a given distance of A and B.   *)
(***************************************************************************)
EXTENDS HpQuads

CONSTANT Shuffles(_)  \* orders in which a kd-tree may put n points

VARIABLES
    starperm,  \* starkd->tree->perm: the star at each place of the tree
    startree,  \* the rows in the tree, its tag-along data; sweep numbers
    codes,     \* codefile, then the codes in the order of the code tree
    codeperm,  \* codekd->tree->perm
    quads      \* quadfile: stars by number

indexvars == <<starperm, startree, codes, codeperm, quads>>
catalogvars == <<at, p, inorder, lists, uniform>>
vars == <<stage, catalogvars, quadvars, indexvars>>

Identity(n) == [i \in 1 .. n |-> i]
ASSUME ShuffleAssumption ==
    \A n \in 0 .. NRows : \A s \in Shuffles(n) : IsInjective(s) /\ s \in [1 .. n -> 1 .. n]

Init ==
    /\ CatalogInit /\ QuadsInit
    /\ starperm = << >> /\ startree = [tag |-> << >>, sweep |-> << >>]
    /\ codes = << >> /\ codeperm = << >> /\ quads = << >>

-----------------------------------------------------------------------------
\* quad_compute_code: the inner stars' distances from A, where the star tree
\* has star s at catalog row tag[s].
ComputeCode(quad, tag) ==
    LET Dist(i, j) == Distance(tag[i], tag[j])
    IN  [ab |-> Dist(quad[1], quad[2]),
         x |-> [k \in 1 .. Len(quad) - 2 |-> Dist(quad[k + 2], quad[1])]]

\* quad_enforce_invariants, first half: A and B are exchanged, and the code
\* turned around, unless the inner stars are nearer to A on average.
Flip(qc) ==
    LET q == qc.quad  c == qc.code
    IN  IF 2 * Total(c.x) > c.ab * Len(c.x)
        THEN [quad |-> [q EXCEPT ![1] = q[2], ![2] = q[1]],
              code |-> [c EXCEPT !.x = [k \in DOMAIN c.x |-> c.ab - c.x[k]]]]
        ELSE qc

\* Second half: the inner stars are sorted by their distance from A (those at
\* the same distance, which the code may exchange, stay as they are).
NearerA(x) ==
    {e \in (DOMAIN x) \X (DOMAIN x) : x[e[1]] < x[e[2]] \/ (x[e[1]] = x[e[2]] /\ e[1] < e[2])}

Arrange(qc) ==
    LET q == qc.quad  x == qc.code.x
        perm == InOrderOf(NearerA(x), DOMAIN x)
    IN  [quad |-> [k \in DOMAIN q |-> IF k <= 2 THEN q[k] ELSE q[perm[k - 2] + 2]],
         code |-> [qc.code EXCEPT !.x = [k \in DOMAIN x |-> x[perm[k]]]]]

QuadWrite(quad) == Arrange(Flip([quad |-> quad, code |-> ComputeCode(quad, uniform)]))

-----------------------------------------------------------------------------
\* The star tree of a shared index is final: its stars are in tree order.
BuildStarTree ==
    /\ stage = "startree"
    /\ starperm' \in IF p.shared THEN {Identity(Len(uniform))} ELSE Shuffles(Len(uniform))
    /\ startree' = [tag |-> uniform, sweep |-> << >>]
    /\ stage' = "hpquads"
    /\ UNCHANGED <<catalogvars, quadvars, codes, codeperm, quads>>

MakeQuads ==
    /\ QuadsNext
    /\ UNCHANGED <<catalogvars, indexvars>>

\* The quads are written in sorted order; no index is made of none.
WriteQuads ==
    /\ stage = "writequads"
    /\ LET written == [i \in DOMAIN bigquadlist |-> QuadWrite(bigquadlist[i])]
       IN  /\ quads' = [i \in DOMAIN written |-> written[i].quad]
           /\ codes' = [i \in DOMAIN written |-> written[i].code]
    /\ stage' = IF bigquadlist = << >> THEN "failed" ELSE "codetree"
    /\ UNCHANGED <<catalogvars, quadvars, starperm, startree, codeperm>>

BuildCodeTree ==
    /\ stage = "codetree"
    /\ codeperm' \in Shuffles(Len(codes))
    /\ codes' = [i \in DOMAIN codes |-> codes[codeperm'[i]]]
    /\ stage' = IF p.shared THEN "unpermute-quads" ELSE "unpermute-stars"
    /\ UNCHANGED <<catalogvars, quadvars, starperm, startree, quads>>

\* Mutant of UnpermuteStars: the permutation instead of its inverse.
UnpermuteByPerm ==
    /\ stage = "unpermute-stars"
    /\ LET N == Len(starperm)
       IN  /\ quads' = [i \in DOMAIN quads |-> [k \in DOMAIN quads[i] |-> starperm[quads[i][k]]]]
           /\ startree' = [tag |-> [i \in 1 .. N |-> uniform[starperm[i]]],
                           sweep |-> [i \in 1 .. N |-> (256 * (starperm[i] - 1)) \div N]]
    /\ stage' = "unpermute-quads"
    /\ UNCHANGED <<catalogvars, quadvars, starperm, codes, codeperm>>

\* Stars get their place in the tree as their number.  The sweep number is
\* the rank of the star, scaled to a byte.
UnpermuteStars ==
    /\ stage = "unpermute-stars"
    /\ LET N == Len(starperm)
           inverse_perm == [s \in 1 .. N |-> CHOOSE i \in 1 .. N : starperm[i] = s]
       IN  /\ quads' = [i \in DOMAIN quads |-> [k \in DOMAIN quads[i] |-> inverse_perm[quads[i][k]]]]
           /\ startree' = [tag |-> [i \in 1 .. N |-> uniform[starperm[i]]],
                           sweep |-> [i \in 1 .. N |-> (256 * (starperm[i] - 1)) \div N]]
    /\ stage' = "unpermute-quads"
    /\ UNCHANGED <<catalogvars, quadvars, starperm, codes, codeperm>>

\* Quads get the order of the codes, and the parts are merged.
UnpermuteQuads ==
    /\ stage = "unpermute-quads"
    /\ quads' = [i \in DOMAIN codes |-> quads[codeperm[i]]]
    /\ stage' = "done"
    /\ UNCHANGED <<catalogvars, quadvars, starperm, startree, codes, codeperm>>

Uniformize == UniformizeNext /\ UNCHANGED <<quadvars, indexvars>>

Next == \/ Uniformize \/ BuildStarTree \/ MakeQuads \/ WriteQuads
        \/ BuildCodeTree \/ UnpermuteStars \/ UnpermuteQuads

Spec == Init /\ [][Next]_vars
-----------------------------------------------------------------------------
\* Quad i of the quad file, looked up in the star tree, has code i, and the code
\* obeys the invariants on which the solver relies to search one arrangement only.
CodesMatchQuads ==
    \A i \in DOMAIN codes :
        LET x == codes[i].x
        IN  /\ codes[i] = ComputeCode(quads[i], startree.tag)
            /\ 2 * Total(x) <= codes[i].ab * Len(x)
            /\ \A k \in 1 .. Len(x) - 1 : x[k] <= x[k + 1]

\* As sets of catalog rows, the quads of the index are those that were built.
QuadsSurvive ==
    LET built == {{uniform[s] : s \in Range(q)} : q \in Range(bigquadlist)}
        RowsOf(i) == {startree.tag[s] : s \in Range(quads[i])}
    IN  {RowsOf(i) : i \in DOMAIN quads} = built /\ Len(quads) = Len(bigquadlist)

(* The merged index is right although stars, codes and quads were numbered *)
(* anew on the way, each by a permutation of its own: codes, quads and     *)
(* stars still belong together, and no quad is lost or made up.            *)
MergedIndexIsRight == stage = "done" => CodesMatchQuads /\ QuadsSurvive
================================================================================
