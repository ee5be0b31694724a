-------------------------------- MODULE HpQuads --------------------------------
(***************************************************************************)
(* hpquads and quadbuilder_create: the quads of an index.  Every healpix   *)
(* is visited once in each pass and gets at most one quad a visit: one     *)
(* whose midpoint lies in it, made of its brightest stars that are not     *)
(* used up.  Healpixes that got none are visited again while the limit on  *)
(* the uses of a star is loosened.                                         *)
(*                                                                         *)
(* Stars are numbered as the star tree numbers them, by their row in the   *)
(* uniformized catalog; on the great circle of UniformizeCatalog the       *)
(* circle with diameter AB is the interval between A and B.                *)
(***************************************************************************)
EXTENDS UniformizeCatalog

CONSTANTS
    HpWidth,   \* width of a healpix (Nside of the quads)
    QLo, QHi   \* the scale of quads, as a distance between A and B

Hps == 0 .. MaxPos \div HpWidth

ASSUME HpAssumption == HpWidth \in Nat \ {0} /\ QLo \in Nat /\ QHi \in Nat
\* hpquads refuses a limit that an unsigned char does not hold (but see the
\* limit to which it is loosened).
ASSUME QuadOptionsAssumption ==
    \A q \in Params : /\ q.dimquads \in 3 .. 5 /\ q.passes \in Nat \ {0}
                       /\ q.Nreuse \in 0 .. 255 /\ q.Nloosen \in Nat

VARIABLES
    hptotry,   \* healpixes visited in every pass
    pass,      \* passes begun; the loosening passes count on
    R,         \* the limit on the uses of a star, 0 for none
    todo,      \* healpixes still to visit in this pass
    retryhps,  \* healpixes that got no quad, as often as they got none
    nuses,     \* uses of each star, an unsigned char
    quadlist,  \* quads of this pass
    bigquadlist \* quads of the passes before

quadvars == <<hptotry, pass, R, todo, retryhps, nuses, quadlist, bigquadlist>>

Stars  == DOMAIN uniform
Pos(i) == at[uniform[i]]
\* The order in which stars are tried: brightest first.
Precedes(i, j) == IF p.shared THEN Mag[uniform[i]] < Mag[uniform[j]] ELSE i < j
Precedence == {e \in Stars \X Stars : Precedes(e[1], e[2])}

Between(i, a, b) == (Pos(i) - Pos(a)) * (Pos(i) - Pos(b)) <= 0
AB(a, b)         == Distance(uniform[a], uniform[b])
ScaleOk(a, b)    == AB(a, b) \in QLo .. QHi
MidHp(a, b)      == (Pos(a) + Pos(b)) \div (2 * HpWidth)

\* The circle searched for stars: it holds the circle around the healpix (the
\* factor is the square root of 2, rounded up), and half a quad.
Near(hp) ==
    {i \in Stars : LET d == 2 * Pos(i) - (2 * hp + 1) * HpWidth
                       reach == (3 * HpWidth) \div 2 + QHi
                   IN  d \in -reach .. reach}

\* Mutant of FindStars: a star may be used once more than the limit.
FindUsedUp(hp) ==
    LET free == {i \in Near(hp) : R = 0 \/ nuses[i] <= R}
    IN  IF Cardinality(free) < p.dimquads THEN << >>
        ELSE InOrderOf(Precedence, free)

\* find_stars: the stars that may be used, in order; none if they are too few.
FindStars(hp) ==
    LET free == {i \in Near(hp) : R = 0 \/ nuses[i] < R}
    IN  IF Cardinality(free) < p.dimquads THEN << >>
        ELSE InOrderOf(Precedence, free)

-----------------------------------------------------------------------------
(* quadbuilder_create on the star list s: as each new star n comes in, the *)
(* quads with n on the diagonal are tried, then those with n inside.       *)
LexLess(q, r) == \E i \in DOMAIN q : q[i] < r[i] /\ \A j \in 1 .. i - 1 : q[j] = r[j]
First(quads)  == CHOOSE q \in quads : \A r \in quads \ {q} : LexLess(q, r)

Ids(s, q) == [k \in DOMAIN q |-> s[q[k]]]
Pair(s, a, b, hp) == ScaleOk(s[a], s[b]) /\ MidHp(s[a], s[b]) = hp

\* Places, up to the n-th, of the stars in the circle of s[a] and s[b].
Inbox(s, a, b, n) == {i \in (1 .. n) \ {a, b} : Between(s[i], s[a], s[b])}

\* add_interior_stars: the choices of dimquads - 2 of them, in order.
Interiors(inbox) == {c \in [1 .. p.dimquads - 2 -> inbox] :
                        \A i \in 1 .. p.dimquads - 3 : c[i] < c[i + 1]}

OnDiagonal(s, n, hp) ==
    UNION {{<<a, n>> \o c : c \in Interiors(Inbox(s, a, n, n))} :
           a \in {a \in 1 .. n - 1 : Pair(s, a, n, hp)}}

\* Mutant of Inside: B starts two places after A.
InsideSkips(s, n, hp) ==
    UNION {{ab \o c : c \in Interiors(Inbox(s, ab[1], ab[2], n))} :
           ab \in {ab \in (1 .. n - 1) \X (1 .. n - 1) :
                       ab[1] + 1 < ab[2] /\ Pair(s, ab[1], ab[2], hp) /\ Between(s[n], s[ab[1]], s[ab[2]])}}

\* The star is added to the inbox of a pair, and the whole inbox is tried.
Inside(s, n, hp) ==
    UNION {{ab \o c : c \in Interiors(Inbox(s, ab[1], ab[2], n))} :
           ab \in {ab \in (1 .. n - 1) \X (1 .. n - 1) :
                       ab[1] < ab[2] /\ Pair(s, ab[1], ab[2], hp) /\ Between(s[n], s[ab[1]], s[ab[2]])}}

\* check_full_quad: not a quad of an earlier pass.
IsNew(quad) == quad \notin Range(bigquadlist)

\* Mutant of CreateQuad: the new star goes inside only when no diagonal is left.
DiagonalsFirst(s, hp) ==
    LET Fresh(quads) == {q \in quads : IsNew(Ids(s, q))}
        diagonal == {n \in DOMAIN s : Fresh(OnDiagonal(s, n, hp)) /= {}}
        inside   == {n \in DOMAIN s : Fresh(Inside(s, n, hp)) /= {}}
    IN  IF diagonal /= {} THEN {Ids(s, First(Fresh(OnDiagonal(s, Min(diagonal), hp))))}
        ELSE IF inside /= {} THEN {Ids(s, First(Fresh(Inside(s, Min(inside), hp))))} ELSE {}

\* The quads that the builder makes: none or one.
CreateQuad(s, hp) ==
    LET Fresh(quads) == {q \in quads : IsNew(Ids(s, q))}
        Made(n) == IF Fresh(OnDiagonal(s, n, hp)) /= {} THEN Fresh(OnDiagonal(s, n, hp))
                   ELSE Fresh(Inside(s, n, hp))
        points == {n \in DOMAIN s : Made(n) /= {}}
    IN  IF points = {} THEN {} ELSE {Ids(s, First(Made(Min(points))))}

\* Mutant of CountUses: inner stars are not counted.
CountDiagonal(quad) ==
    [i \in Stars |-> IF i \in {quad[1], quad[2]} THEN (nuses[i] + 1) % 256 ELSE nuses[i]]

\* add_quad counts the uses of the stars.
CountUses(quad) == [i \in Stars |-> IF i \in Range(quad) THEN (nuses[i] + 1) % 256 ELSE nuses[i]]

-----------------------------------------------------------------------------
QuadsInit ==
    /\ hptotry = << >> /\ todo = << >> /\ retryhps = << >>
    /\ pass = 0 /\ R = 0
    /\ nuses = << >>
    /\ quadlist = << >> /\ bigquadlist = << >>

HealpixesToTry ==
    IF p.scanoccupied THEN {Pos(i) \div HpWidth : i \in Stars}
    ELSE IF AllSky THEN Hps
    ELSE {hp \in Hps : Outside((hp * HpWidth) \div CellWidth) = FALSE}

StartQuads ==
    /\ stage = "hpquads"
    /\ hptotry' = Increasing(HealpixesToTry)
    /\ todo' = hptotry'
    /\ pass' = 1
    /\ R' = p.Nreuse
    /\ nuses' = [i \in Stars |-> 0]
    /\ stage' = "pass"
    /\ UNCHANGED <<retryhps, quadlist, bigquadlist>>

\* One healpix in build_quads.
Visit ==
    /\ stage \in {"pass", "loosen"}
    /\ todo /= << >>
    /\ LET hp   == Head(todo)
           made == CreateQuad(FindStars(hp), hp)
       IN  \/ \E quad \in made :
                  /\ quadlist' = Append(quadlist, quad)
                  /\ nuses' = CountUses(quad)
                  /\ UNCHANGED retryhps
           \/ /\ made = {}
              /\ retryhps' = IF R /= 0 /\ Near(hp) /= {} /\ p.Nloosen /= 0
                             THEN Append(retryhps, hp) ELSE retryhps
              /\ UNCHANGED <<quadlist, nuses>>
    /\ todo' = Tail(todo)
    /\ UNCHANGED <<stage, hptotry, pass, R, bigquadlist>>

\* compare_quads, and equal quads in the order they came.
QuadOrder(all) ==
    {e \in (DOMAIN all) \X (DOMAIN all) :
        LexLess(all[e[1]], all[e[2]]) \/ (all[e[1]] = all[e[2]] /\ e[1] < e[2])}

\* The quads of the pass go to the sorted list that check_full_quad searches.
MergeQuads ==
    /\ bigquadlist' =
          LET all == bigquadlist \o quadlist
              order == InOrderOf(QuadOrder(all), DOMAIN all)
          IN  [n \in DOMAIN order |-> all[order[n]]]
    /\ quadlist' = << >>

EndPass ==
    /\ stage = "pass" /\ todo = << >>
    /\ MergeQuads
    /\ IF pass < p.passes
       THEN pass' = pass + 1 /\ todo' = hptotry /\ UNCHANGED <<stage, R, retryhps>>
       ELSE IF p.Nloosen > p.Nreuse /\ retryhps /= << >>
       THEN /\ stage' = "loosen"
            /\ pass' = pass + 1 /\ R' = R + 1 /\ todo' = retryhps /\ retryhps' = << >>
       ELSE stage' = "writequads" /\ UNCHANGED <<pass, R, todo, retryhps>>
    /\ UNCHANGED <<hptotry, nuses>>

EndLoosening ==
    /\ stage = "loosen" /\ todo = << >>
    /\ MergeQuads
    /\ IF R < p.Nloosen /\ retryhps /= << >>
       THEN /\ pass' = pass + 1 /\ R' = R + 1 /\ todo' = retryhps /\ retryhps' = << >>
            /\ UNCHANGED stage
       ELSE stage' = "writequads" /\ UNCHANGED <<pass, R, todo, retryhps>>
    /\ UNCHANGED <<hptotry, nuses>>

QuadsNext == StartQuads \/ Visit \/ EndPass \/ EndLoosening
-----------------------------------------------------------------------------
Quads == bigquadlist \o quadlist
Uses(i) == Cardinality({k \in DOMAIN Quads : i \in Range(Quads[k])})

(* The quads a healpix could have, whatever order they are tried in.       *)
Possible(hp) ==
    {q \in [1 .. p.dimquads -> Stars] :
        /\ IsInjective(q)
        /\ Pair([i \in Stars |-> i], q[1], q[2], hp)
        /\ Precedes(q[1], q[2])
        /\ \A k \in 3 .. p.dimquads : Between(q[k], q[1], q[2])
        /\ \A k \in 3 .. p.dimquads - 1 : Precedes(q[k], q[k + 1])}

(* No star is in more quads than the limit in force, also while healpixes  *)
(* are visited several times in a loosening pass.                          *)
ReuseBounded == R /= 0 => \A i \in Stars : Uses(i) <= R

(* No quad is written twice: within a pass nothing looks for a double, and *)
(* a healpix may be in the retry list many times.  Its stars are distinct. *)
NoQuadTwice == IsInjective(Quads) /\ \A k \in DOMAIN Quads : IsInjective(Quads[k])

(* Passes are made up for and no more: no healpix gets more quads than     *)
(* there are passes, and one that has fewer at the end has no quad left of *)
(* stars below the final limit.                                            *)
PassesMadeUp ==
    LET Got(hp) == {k \in DOMAIN Quads : MidHp(Quads[k][1], Quads[k][2]) = hp}
        Left(hp) == {q \in Possible(hp) \ Range(Quads) :
                        R = 0 \/ \A i \in Range(q) : nuses[i] < R}
    IN  \A hp \in Range(hptotry) :
            /\ Cardinality(Got(hp)) <= p.passes
            /\ stage = "writequads" /\ Cardinality(Got(hp)) < p.passes => Left(hp) = {}

(* A new quad is the brightest the healpix can have: no quad that is not   *)
(* made yet is free and has a brighter dimmest star.                       *)
MakesBrightest ==
    [][Len(quadlist') > Len(quadlist) =>
           LET quad == Last(quadlist')
               Dimmest(q) == CHOOSE i \in Range(q) : \A j \in Range(q) : j = i \/ Precedes(j, i)
           IN  \A q \in Possible(Head(todo)) \ Range(bigquadlist) :
                   (R = 0 \/ \A i \in Range(q) : nuses[i] < R) =>
                       ~Precedes(Dimmest(q), Dimmest(quad))]_<<quadlist, bigquadlist>>
================================================================================
