------------------------------ MODULE Solver_proofs ------------------------------
(***************************************************************************)
(* Proofs about the search of a field by the solver, for every value of    *)
(* the constants: SolverQuads, the quads it tries, and VerifyHit, what     *)
(* becomes of a quad that matches.                                         *)
(*                                                                         *)
(* The invariant of SolverQuads follows a turn of the main loop: the quads *)
(* tried and the quads left on the agenda are together the quads due so    *)
(* far.  It rests on the cache of the pairs being right, and on the quads  *)
(* of earlier runs being made of stars before startobj.                    *)
(***************************************************************************)
EXTENDS SolverQuads, VerifyHit, Ranking_proofs

-----------------------------------------------------------------------------
(* The quads tried *)

\* What the pquad of p should hold once the stars before n were looked at.
Known(p, n) ==
    /\ p \in scaleOk <=> CheckScale(p)
    /\ p \in scaleOk => inbox[p] = CheckInbox(p, 0 .. n - 1)

Looked(n) == \A p \in Pair : p[2] < n => Known(p, n)
NewPairs == \A p \in Pair : p[2] = newpoint => Known(p, newpoint + 1)

CacheInv ==
    /\ \A p \in scaleOk : CheckScale(p)
    /\ stage = "point" => Looked(newpoint)
    /\ stage = "diag" => Looked(newpoint) /\ NewPairs
    /\ stage = "inside" => Looked(newpoint + 1)

\* The quads with newpoint on the diagonal, and those with it inside.
OnDiagonal == {q \in Quad : Legal(q) /\ q.p[2] = newpoint /\ q.inner \subseteq 0 .. newpoint - 1}
OnInside == {q \in Quad : Legal(q) /\ q.p[2] < newpoint /\ newpoint \in q.inner
                          /\ q.inner \subseteq 0 .. newpoint}

NewlyTried == {q \in tried : ~Within(q, Start)}
DueHere(n) == {q \in Quad : Legal(q) /\ Within(q, n) /\ ~Within(q, Start)}

Progress ==
    /\ stage \in {"idle", "point"} => agenda = {}
    /\ stage = "point" => NewlyTried = DueHere(newpoint)
    /\ stage = "diag" =>
          /\ agenda \subseteq OnDiagonal
          /\ NewlyTried \cup agenda = DueHere(newpoint) \cup OnDiagonal
    /\ stage = "inside" =>
          /\ agenda \subseteq OnInside
          /\ NewlyTried \cup agenda = DueHere(newpoint + 1)
    /\ agenda \cap tried = {}

Place ==
    /\ stage # "idle" => Start <= newpoint
    /\ stage \in {"diag", "inside"} => newpoint < NumXY

\* Quads tried so far are made of bright stars.
Past ==
    /\ \A q \in tried : \A k \in run + 1 .. Len(Slices) : Within(q, Slices[k].start)
    /\ stage = "point" => \A q \in tried : Within(q, newpoint)
    /\ stage \in {"diag", "inside"} => \A q \in tried : Within(q, newpoint + 1)

QuadsInv == QuadsTypeOK /\ Place /\ CacheInv /\ Progress /\ Past

\* Stars are numbered from 0; a pair has two of them, a quad a pair and others.
LEMMA StarType == NumStars \in Nat /\ \A s : s \in Stars <=> s \in Nat /\ s < NumStars
BY FieldAssumption DEF Stars

LEMMA PairType ==
    \A p \in Pair : p[1] \in Stars /\ p[2] \in Stars /\ p[1] < p[2] /\ p = <<p[1], p[2]>>
BY DEF Pair

LEMMA QuadType ==
    \A q \in Quad : q.i \in DOMAIN Indexes /\ q.p \in Pair /\ q.inner \subseteq Stars
BY DEF Quad

LEMMA SubQuad ==
    \A P \in SUBSET Pair, I \in SUBSET (SUBSET Stars) : \A q :
       q \in [i : DOMAIN Indexes, p : P, inner : I] <=> q \in Quad /\ q.p \in P /\ q.inner \in I
BY DEF Quad

LEMMA InboxType == \A p, C : CheckInbox(p, C) \subseteq C
BY DEF CheckInbox

\* The slices of a job are pairs of numbers, disjoint and ascending.
LEMMA SliceType ==
    /\ Len(Slices) \in Nat /\ DOMAIN Slices = 1 .. Len(Slices)
    /\ \A k \in 1 .. Len(Slices) : Slices[k].start \in Nat /\ Slices[k].end \in Nat
    /\ \A j, k \in 1 .. Len(Slices) :
          j < k => Slices[j].end # 0 /\ Slices[j].end <= Slices[k].start
<1>1. Slices \in Seq([start : Nat, end : Nat])
  BY SliceAssumption
<1>2. Len(Slices) \in Nat /\ DOMAIN Slices = 1 .. Len(Slices)
  BY <1>1
<1>3. \A k \in 1 .. Len(Slices) : Slices[k] \in [start : Nat, end : Nat]
  BY <1>1, ElementOfSeq
<1>4. \A k \in 1 .. Len(Slices) : Slices[k].start \in Nat /\ Slices[k].end \in Nat
  BY <1>3
<1>5. QED
  BY <1>2, <1>4, SliceAssumption

\* NumXY is at most the number of stars and, where it is given, endobj.
LEMMA NumXYBound ==
    ASSUME run \in 1 .. Len(Slices)
    PROVE  /\ NumXY \in Nat /\ NumXY <= NumStars
           /\ Slices[run].end # 0 => NumXY <= Slices[run].end
           /\ Start \in Nat
<1>1. Slices[run].start \in Nat /\ Slices[run].end \in Nat
  BY SliceType
<1>2. MaxObjs \in Nat /\ NumStars \in Nat
  BY LimitAssumption, StarType
<1>3. QED
  BY <1>1, <1>2 DEF NumXY, Cut, Start

\* A larger bound on the stars of a quad is a weaker one.
LEMMA WithinGrows ==
    ASSUME NEW q \in Quad, NEW m \in Int, NEW n \in Int, m <= n, Within(q, m)
    PROVE  Within(q, n)
BY StarType, PairType, QuadType DEF Within

\* The stars of a pair's circle among the first n are those of all the stars.
LEMMA InboxPart ==
    ASSUME NEW p \in Pair, NEW n \in 0 .. NumStars, NEW s \in SUBSET (0 .. n - 1)
    PROVE  s \subseteq CheckInbox(p, 0 .. n - 1) <=> s \subseteq CheckInbox(p, Stars)
BY StarType DEF CheckInbox

\* The invariant holds before solver_run is first called.
LEMMA InitQuadsInv == QuadsInit => QuadsInv
<1> SUFFICES ASSUME QuadsInit PROVE QuadsInv
  OBVIOUS
<1> USE DEF QuadsInit
<1>1. QuadsTypeOK
  <2>1. quit_now \in BOOLEAN
    OBVIOUS
  <2>2. inbox \in [Pair -> SUBSET Stars]
    OBVIOUS
  <2>3. QED
    BY <2>1, <2>2, SliceType, StarType DEF QuadsTypeOK
<1>2. Place /\ CacheInv /\ Progress /\ Past
  BY DEF Place, CacheInv, Progress, Past
<1>3. QED
  BY <1>1, <1>2 DEF QuadsInv

\* A run that ends leaves an empty agenda and what it tried.
LEMMA EndRunStep == ASSUME QuadsInv, stage # "idle", EndRun PROVE QuadsInv'
<1> USE DEF EndRun
<1>1. run \in 1 .. Len(Slices)
  BY SliceType DEF QuadsInv, QuadsTypeOK
<1>2. QuadsTypeOK' /\ Place' /\ CacheInv' /\ Progress'
  BY DEF QuadsInv, QuadsTypeOK, Place, CacheInv, Progress
<1>3. ASSUME NEW q \in tried, NEW k \in run + 1 .. Len(Slices)
      PROVE  Within(q, Slices[k].start)
  BY <1>3 DEF QuadsInv, Past
<1>4. Past'
  BY <1>3, <1>2 DEF Past, Within
<1>5. QED
  BY <1>2, <1>4 DEF QuadsInv

\* A run starts with a cache of all the pairs before startobj.
LEMMA StartRunStep == ASSUME QuadsInv, StartRun PROVE QuadsInv'
<1> USE DEF StartRun
<1>1. run' \in 1 .. Len(Slices) /\ run + 1 = run' /\ run \in Nat
  BY SliceType DEF QuadsInv, QuadsTypeOK
<1>2. CASE Start' >= Cut(Slices[run'].end)
  <2>0. quit_now' \in BOOLEAN
    OBVIOUS
  <2>1. QuadsTypeOK' /\ Place' /\ CacheInv' /\ Progress'
    BY <1>1, <1>2, <2>0, SliceType DEF QuadsInv, QuadsTypeOK, Place, CacheInv, Progress
  <2>2. Past'
    BY <1>1, <1>2, SliceType DEF QuadsInv, Past, Within
  <2>3. QED
    BY <2>1, <2>2 DEF QuadsInv
<1>3. CASE Start' < Cut(Slices[run'].end)
  <2>1. Start' \in Nat /\ Start' < NumStars
    BY <1>1, <1>3, SliceType, StarType, PairType, QuadType DEF Start, Cut
  <2>2. stage' = "point" /\ newpoint' = Start' /\ Prime /\ agenda' = {} /\ tried' = tried
    BY <1>3, <2>1, <1>1, SliceType, StarType, PairType, QuadType DEF QuadsInv, Progress, Cut
  <2>3. \A p \in Pair : CheckInbox(p, 0 .. Start' - 1) \subseteq Stars
    BY <2>1, StarType, InboxType
  <2>4. QuadsTypeOK'
    <3>1. quit_now' \in BOOLEAN
      OBVIOUS
    <3>2. scaleOk' \subseteq Pair /\ inbox' \in [Pair -> SUBSET Stars]
      BY <2>2, <2>3 DEF Prime
    <3>3. QED
      BY <1>1, <2>1, <2>2, <3>1, <3>2, SliceType, StarType DEF QuadsInv, QuadsTypeOK
  <2>5. Looked(newpoint)'
    BY <2>2 DEF Looked, Known, Prime
  <2>6. CacheInv' /\ Place'
    BY <2>1, <2>2, <2>5 DEF CacheInv, Place, Prime
  <2>7. \A q \in tried : Within(q, Start')
    BY <1>1 DEF QuadsInv, Past, Start
  <2>8. Past'
    BY <1>1, <2>2, <2>7, SliceType DEF QuadsInv, Past, Within
  <2>9. NewlyTried' = {} /\ DueHere(newpoint)' = {}
    BY <2>2, <2>7 DEF NewlyTried, DueHere, Within
  <2>10. Progress'
    BY <2>2, <2>9 DEF Progress
  <2>11. QED
    BY <2>4, <2>6, <2>8, <2>10 DEF QuadsInv
<1>4. Start' \in Int /\ Cut(Slices[run'].end) \in Int
  BY <1>1, SliceType, StarType, PairType, QuadType DEF Start, Cut
<1>5. QED
  BY <1>2, <1>3, <1>4

\* The agenda of a new diagonal star is all the quads it is due for.
LEMMA BeginPointStep == ASSUME QuadsInv, BeginPoint PROVE QuadsInv'
<1> USE DEF BeginPoint
<1> DEFINE fresh == {p \in Pair : p[2] = newpoint /\ CheckScale(p)}
<1>1. run \in 1 .. Len(Slices) /\ newpoint \in Nat /\ newpoint < NumStars
  BY NumXYBound, SliceType, StarType, PairType, QuadType DEF QuadsInv, QuadsTypeOK
<1>2. \A p \in Pair : CheckInbox(p, 0 .. newpoint) \subseteq Stars
  BY <1>1, StarType, InboxType
<1>3. /\ scaleOk' = scaleOk \cup fresh
      /\ inbox' = [p \in Pair |-> IF p \in fresh THEN CheckInbox(p, 0 .. newpoint) ELSE inbox[p]]
      /\ agenda' = DiagAgenda(scaleOk', inbox')
      /\ stage' = "diag" /\ newpoint' = newpoint /\ tried' = tried /\ run' = run
  OBVIOUS
<1>4. QuadsTypeOK'
  <2>1. agenda' \subseteq Quad
    <3> DEFINE P == Pair \cap ((0 .. newpoint - 1) \X {newpoint})
               I == SUBSET (0 .. newpoint - 1)
    <3>1. P \in SUBSET Pair /\ I \in SUBSET (SUBSET Stars)
      BY <1>1, StarType
    <3>2. agenda' \subseteq [i : DOMAIN Indexes, p : P, inner : I]
      BY <1>3 DEF DiagAgenda
    <3> HIDE DEF P, I
    <3>3. QED
      BY <3>1, <3>2, SubQuad
  <2>2. QED
    BY <1>2, <1>3, <2>1 DEF QuadsInv, QuadsTypeOK
<1>5. Looked(newpoint) /\ \A p \in scaleOk : p \in Pair
  BY DEF QuadsInv, CacheInv, QuadsTypeOK
<1>6. Looked(newpoint)'
  BY <1>1, <1>3, <1>5 DEF Looked, Known
<1>7. (\A p \in scaleOk : CheckScale(p)) /\ \A p \in scaleOk' : CheckScale(p)'
  BY <1>3 DEF QuadsInv, CacheInv
<1>8. NewPairs'
  BY <1>1, <1>3, <1>7 DEF NewPairs, Known
<1>9. CacheInv' /\ Place'
  BY <1>3, <1>6, <1>7, <1>8, NumXYBound DEF QuadsInv, CacheInv, Place, NumXY, Start, Cut
<1>10. agenda' = OnDiagonal
  <2> DEFINE box == inbox'
  <2>1. ASSUME NEW q \in Quad, q.p[2] = newpoint, q.inner \subseteq 0 .. newpoint - 1
        PROVE  (q.p \in scaleOk' /\ q.inner \in kSubset(Indexes[q.i].dim - 2, inbox'[q.p]))
               <=> (CheckScale(q.p) /\ q.inner \subseteq CheckInbox(q.p, Stars)
                    /\ Cardinality(q.inner) = Indexes[q.i].dim - 2)
    <3>1. q.p \in Pair /\ (q.p \in scaleOk' <=> CheckScale(q.p))
      BY <1>3, <1>7, <2>1, QuadType
    <3>2. CheckScale(q.p) => inbox'[q.p] = CheckInbox(q.p, 0 .. newpoint)
      BY <1>3, <2>1, <3>1
    <3>3. q.inner \subseteq CheckInbox(q.p, 0 .. newpoint)
          <=> q.inner \subseteq CheckInbox(q.p, Stars)
      BY <1>1, <2>1, StarType, QuadType DEF CheckInbox
    <3>4. QED
      BY <3>1, <3>2, <3>3 DEF kSubset
  <2>2. agenda' = {q \in Quad : /\ q.p[2] = newpoint /\ q.inner \subseteq 0 .. newpoint - 1
                               /\ q.p \in scaleOk' /\ FitsIndex(q.p, q.i)
                               /\ q.inner \in kSubset(Indexes[q.i].dim - 2, inbox'[q.p])}
    <3> DEFINE P == Pair \cap ((0 .. newpoint - 1) \X {newpoint})
               I == SUBSET (0 .. newpoint - 1)
    <3>1. P \in SUBSET Pair /\ I \in SUBSET (SUBSET Stars)
      BY <1>1, StarType
    <3>2. \A p \in Pair : p \in P <=> p[2] = newpoint
      BY <1>1, StarType, PairType
    <3>3. agenda' = {q \in [i : DOMAIN Indexes, p : P, inner : I] :
                        /\ q.p \in scaleOk' /\ FitsIndex(q.p, q.i)
                        /\ q.inner \in kSubset(Indexes[q.i].dim - 2, inbox'[q.p])}
      BY <1>3 DEF DiagAgenda
    <3>4. \A q : q \in [i : DOMAIN Indexes, p : P, inner : I]
                 <=> q \in Quad /\ q.p[2] = newpoint /\ q.inner \subseteq 0 .. newpoint - 1
      <4> HIDE DEF P
      <4>1. \A q : q \in [i : DOMAIN Indexes, p : P, inner : I]
                   <=> q \in Quad /\ q.p \in P /\ q.inner \in I
        BY <3>1, SubQuad
      <4>2. QED
        BY <3>2, <4>1, QuadType
    <3>5. QED
      BY <3>3, <3>4
  <2>3. QED
    BY <2>1, <2>2 DEF OnDiagonal, Legal
<1>11. OnDiagonal' = OnDiagonal /\ DueHere(newpoint)' = DueHere(newpoint) /\ NewlyTried' = NewlyTried
  BY <1>3 DEF OnDiagonal, DueHere, NewlyTried, Start
<1>12. OnDiagonal \cap tried = {}
  BY <1>1 DEF OnDiagonal, QuadsInv, Past, Within
<1>13. Progress'
  BY <1>3, <1>10, <1>11, <1>12 DEF QuadsInv, Progress
<1>14. Past'
  <2>1. \A q \in tried : Within(q, newpoint + 1)
    BY <1>1, WithinGrows DEF QuadsInv, Past, QuadsTypeOK
  <2>2. QED
    BY <1>3, <2>1 DEF QuadsInv, Past, Within
<1>15. QED
  BY <1>4, <1>9, <1>13, <1>14 DEF QuadsInv

\* check_inbox of newpoint completes the cache of the older pairs, and the
\* agenda is all the quads it is due for as an inner star.
LEMMA TurnInsideStep == ASSUME QuadsInv, TurnInside PROVE QuadsInv'
<1> USE DEF TurnInside
<1>1. run \in 1 .. Len(Slices) /\ newpoint \in Nat /\ newpoint < NumStars
  BY NumXYBound, SliceType, StarType, PairType, QuadType DEF QuadsInv, QuadsTypeOK, Place
<1>2. /\ inbox' = [p \in Pair |->
              IF p \in scaleOk /\ p[2] < newpoint
                 THEN inbox[p] \cup CheckInbox(p, {newpoint}) ELSE inbox[p]]
      /\ agenda' = InsideAgenda(inbox') /\ stage' = "inside" /\ scaleOk' = scaleOk
      /\ newpoint' = newpoint /\ tried' = tried /\ run' = run
  OBVIOUS
<1>3. QuadsTypeOK'
  <2>1. agenda' \subseteq Quad
    <3>1. \A s \in SUBSET (0 .. newpoint - 1) : s \cup {newpoint} \subseteq Stars
      BY <1>1, StarType
    <3> DEFINE P == Pair \cap ((0 .. newpoint - 1) \X (0 .. newpoint - 1))
               I == {t \cup {newpoint} : t \in SUBSET (0 .. newpoint - 1)}
    <3>2. P \in SUBSET Pair /\ I \in SUBSET (SUBSET Stars)
      BY <3>1
    <3>3. agenda' \subseteq [i : DOMAIN Indexes, p : P, inner : I]
      BY <1>2 DEF InsideAgenda
    <3> HIDE DEF P, I
    <3>4. QED
      BY <3>2, <3>3, SubQuad
  <2>2. \A p \in Pair : CheckInbox(p, {newpoint}) \subseteq Stars
    BY <1>1, StarType, InboxType
  <2>3. QED
    BY <1>2, <2>1, <2>2 DEF QuadsInv, QuadsTypeOK
<1>4. Looked(newpoint) /\ NewPairs /\ \A p \in scaleOk : CheckScale(p)
  BY DEF QuadsInv, CacheInv
<1>5. \A p \in Pair : p[2] < newpoint + 1 =>
         (p \in scaleOk <=> CheckScale(p))
         /\ (p \in scaleOk => inbox'[p] = CheckInbox(p, 0 .. newpoint))
  <2> SUFFICES ASSUME NEW p \in Pair, p[2] < newpoint + 1
               PROVE  (p \in scaleOk <=> CheckScale(p))
                      /\ (p \in scaleOk => inbox'[p] = CheckInbox(p, 0 .. newpoint))
    OBVIOUS
  <2>1. CASE p[2] = newpoint
    BY <1>1, <1>2, <1>4, <2>1 DEF NewPairs, Known
  <2>2. CASE p[2] < newpoint
    <3>1. CheckInbox(p, 0 .. newpoint) =
             CheckInbox(p, 0 .. newpoint - 1) \cup CheckInbox(p, {newpoint})
      BY <1>1 DEF CheckInbox
    <3>2. QED
      BY <1>2, <1>4, <2>2, <3>1 DEF Looked, Known
  <2>3. QED
    BY <1>1, <2>1, <2>2, StarType, PairType, QuadType
<1>6. CacheInv' /\ Place'
  <2>1. Looked(newpoint + 1)'
    <3> DEFINE n == newpoint' + 1
    <3>1. 0 .. n - 1 = 0 .. newpoint /\ n = newpoint + 1
      BY <1>1, <1>2
    <3> HIDE DEF n
    <3>2. ASSUME NEW p \in Pair, p[2] < n
          PROVE  /\ p \in scaleOk' <=> CheckScale(p)
                 /\ p \in scaleOk' => inbox'[p] = CheckInbox(p, 0 .. n - 1)
      BY <1>2, <1>5, <3>1, <3>2
    <3>3. QED
      BY <3>2 DEF Looked, Known, n
  <2>2. QED
    BY <1>2, <1>4, <2>1 DEF QuadsInv, CacheInv, Place, NumXY, Start, Cut
<1>7. agenda' = OnInside
  <2>1. ASSUME NEW q \in Quad, q.p[2] < newpoint, q.inner \subseteq 0 .. newpoint,
               newpoint \in q.inner
        PROVE  (/\ q.p \in scaleOk /\ newpoint \in inbox'[q.p]
                /\ q.inner \in kSubset(Indexes[q.i].dim - 2, inbox'[q.p]))
               <=> (CheckScale(q.p) /\ q.inner \subseteq CheckInbox(q.p, Stars)
                    /\ Cardinality(q.inner) = Indexes[q.i].dim - 2)
    <3>1. q.p \in Pair /\ q.p[2] < newpoint + 1
      BY <1>1, <2>1, StarType, PairType, QuadType
    <3>2. q.inner \subseteq CheckInbox(q.p, 0 .. newpoint)
          <=> q.inner \subseteq CheckInbox(q.p, Stars)
      BY <1>1, <2>1, StarType, QuadType DEF CheckInbox
    <3>3. QED
      BY <1>5, <2>1, <3>1, <3>2 DEF kSubset
  <2>2. agenda' = {q \in Quad :
            /\ q.p[2] < newpoint /\ q.inner \subseteq 0 .. newpoint /\ newpoint \in q.inner
            /\ q.p \in scaleOk /\ FitsIndex(q.p, q.i) /\ newpoint \in inbox'[q.p]
            /\ q.inner \in kSubset(Indexes[q.i].dim - 2, inbox'[q.p])}
    <3> DEFINE P == Pair \cap ((0 .. newpoint - 1) \X (0 .. newpoint - 1))
               I == {s \cup {newpoint} : s \in SUBSET (0 .. newpoint - 1)}
    <3>1. P \in SUBSET Pair /\ I \in SUBSET (SUBSET Stars)
      <4>1. \A t \in SUBSET (0 .. newpoint - 1) : t \cup {newpoint} \subseteq Stars
        BY <1>1, StarType
      <4>2. QED
        BY <4>1
    <3>2. \A p \in Pair : p \in P <=> p[2] < newpoint
      BY <1>1, StarType, PairType
    <3>3. ASSUME NEW s
          PROVE  s \in I <=> s \subseteq 0 .. newpoint /\ newpoint \in s
      <4>1. ASSUME s \subseteq 0 .. newpoint, newpoint \in s PROVE s \in I
        <5>1. s \ {newpoint} \in SUBSET (0 .. newpoint - 1)
          BY <1>1, <4>1
        <5>2. s = (s \ {newpoint}) \cup {newpoint}
          BY <4>1
        <5>3. QED
          BY <5>1, <5>2
      <4>2. ASSUME NEW t \in SUBSET (0 .. newpoint - 1), s = t \cup {newpoint}
            PROVE  s \subseteq 0 .. newpoint /\ newpoint \in s
        BY <1>1, <4>2
      <4>3. QED
        BY <4>1, <4>2
    <3>4. agenda' = {q \in [i : DOMAIN Indexes, p : P, inner : I] :
                        /\ q.p \in scaleOk /\ FitsIndex(q.p, q.i)
                        /\ newpoint \in inbox'[q.p]
                        /\ q.inner \in kSubset(Indexes[q.i].dim - 2, inbox'[q.p])}
      BY <1>2 DEF InsideAgenda
    <3>5. \A q : q \in [i : DOMAIN Indexes, p : P, inner : I]
                 <=> /\ q \in Quad /\ q.p[2] < newpoint
                     /\ q.inner \subseteq 0 .. newpoint /\ newpoint \in q.inner
      <4> HIDE DEF P, I
      <4>1. QED
        BY <3>1, <3>2, <3>3, SubQuad, QuadType
    <3>6. QED
      BY <3>4, <3>5
  <2>3. QED
    BY <2>1, <2>2 DEF OnInside, Legal
<1>8. DueHere(newpoint) \cup OnDiagonal \cup OnInside = DueHere(newpoint + 1)
  <2>1. Start \in Nat /\ Start <= newpoint
    BY NumXYBound, <1>1 DEF QuadsInv, Place
  <2>2. ASSUME NEW q \in Quad, Legal(q)
        PROVE  (Within(q, newpoint)
                \/ (q.p[2] = newpoint /\ q.inner \subseteq 0 .. newpoint - 1)
                \/ (q.p[2] < newpoint /\ newpoint \in q.inner /\ q.inner \subseteq 0 .. newpoint))
               <=> Within(q, newpoint + 1)
    <3>1. q.p[2] \notin q.inner
      BY <2>2 DEF Legal, CheckInbox
    <3>2. q.p[2] \in Nat /\ q.inner \subseteq Nat
      BY StarType, PairType, QuadType
    <3>3. QED
      BY <1>1, <3>1, <3>2 DEF Within
  <2>3. ASSUME NEW q \in Quad, q.p[2] = newpoint \/ newpoint \in q.inner
        PROVE  ~Within(q, Start)
    BY <1>1, <2>1, <2>3 DEF Within
  <2>4. QED
    BY <2>2, <2>3 DEF DueHere, OnDiagonal, OnInside
<1>9. OnInside' = OnInside /\ DueHere(newpoint + 1)' = DueHere(newpoint + 1) /\ NewlyTried' = NewlyTried
  BY <1>2 DEF OnInside, DueHere, NewlyTried, Start
<1>10. OnInside \cap tried = {}
  <2>1. NewlyTried = DueHere(newpoint) \cup OnDiagonal /\ Start <= newpoint
    BY DEF QuadsInv, Progress, Place
  <2>2. ASSUME NEW q \in OnInside, q \in tried PROVE FALSE
    <3>1. q \in Quad /\ ~Within(q, newpoint) /\ q.p[2] # newpoint
      BY <1>1, <2>2, PairType, QuadType, StarType DEF OnInside, Within
    <3>2. ~Within(q, Start)
      BY <1>1, <2>1, <2>2, NumXYBound DEF OnInside, Within
    <3>3. QED
      BY <2>1, <2>2, <3>1, <3>2 DEF NewlyTried, DueHere, OnDiagonal
  <2>3. QED
    BY <2>2
<1>11. Progress'
  BY <1>2, <1>7, <1>8, <1>9, <1>10 DEF QuadsInv, Progress
<1>12. Past'
  BY <1>2 DEF QuadsInv, Past, Within
<1>13. QED
  BY <1>3, <1>6, <1>11, <1>12 DEF QuadsInv

\* A quad that is tried moves from the agenda to the quads tried.
LEMMA TryQuadStep == ASSUME QuadsInv, TryQuad PROVE QuadsInv'
<1> USE DEF TryQuad
<1>1. stage \in {"diag", "inside"} /\ run \in 1 .. Len(Slices) /\ newpoint \in Nat
  BY SliceType, StarType DEF QuadsInv, QuadsTypeOK, Progress
<1>2. PICK q \in agenda : agenda' = agenda \ {q} /\ tried' = tried \cup {q}
  OBVIOUS
<1>3. /\ q \in Quad /\ Within(q, newpoint + 1) /\ ~Within(q, Start)
      /\ Start \in Nat /\ Start <= newpoint
  <2>1. q \in OnDiagonal \/ q \in OnInside
    BY <1>1, <1>2 DEF QuadsInv, Progress
  <2>2. Start \in Nat /\ Start <= newpoint
    BY <1>1, NumXYBound DEF QuadsInv, Place
  <2>3. q.p[2] <= newpoint /\ q.p[2] \in Nat /\ q.inner \subseteq 0 .. newpoint /\ q \in Quad
    BY <1>1, <2>1, PairType, QuadType, StarType DEF OnDiagonal, OnInside
  <2>4. ~Within(q, Start)
    BY <1>1, <2>1, <2>2 DEF OnDiagonal, OnInside, Within
  <2>5. QED
    BY <1>1, <2>2, <2>3, <2>4 DEF Within
<1>4. QuadsTypeOK'
  <2>1. quit_now' \in BOOLEAN
    OBVIOUS
  <2>2. numtries' \in Nat /\ nummatches' \in Nat
    <3>1. MatchBound \in Nat
      BY LimitAssumption
    <3>2. PICK matches \in 0 .. MatchBound : nummatches' = nummatches + matches
      OBVIOUS
    <3>3. QED
      BY <3>1, <3>2 DEF QuadsInv, QuadsTypeOK
  <2>3. QED
    BY <1>2, <1>3, <2>1, <2>2 DEF QuadsInv, QuadsTypeOK
<1>5. CacheInv' /\ Place'
  BY DEF QuadsInv, CacheInv, Looked, NewPairs, Known, Place, NumXY, Start, Cut
<1>6. Progress'
  <2>1. NewlyTried' = NewlyTried \cup {q}
    BY <1>2, <1>3 DEF NewlyTried, Start
  <2>2. /\ OnDiagonal' = OnDiagonal /\ OnInside' = OnInside
        /\ DueHere(newpoint)' = DueHere(newpoint) /\ DueHere(newpoint + 1)' = DueHere(newpoint + 1)
    BY DEF OnDiagonal, OnInside, DueHere, Start
  <2>3. QED
    BY <1>1, <1>2, <2>1, <2>2 DEF QuadsInv, Progress
<1>7. Past'
  <2>1. ASSUME NEW k \in run + 1 .. Len(Slices) PROVE Within(q, Slices[k].start)
    <3>1. newpoint + 1 <= Slices[k].start
      BY <1>1, <2>1, NumXYBound, SliceType DEF QuadsInv, Place
    <3>2. QED
      BY <1>1, <1>3, <2>1, <3>1, WithinGrows, SliceType
  <2>2. QED
    BY <1>1, <1>2, <1>3, <2>1 DEF QuadsInv, Past, Within
<1>8. QED
  BY <1>4, <1>5, <1>6, <1>7 DEF QuadsInv

\* A turn of the loop that has tried its agenda makes the next one.
LEMMA NextPointStep == ASSUME QuadsInv, NextPoint PROVE QuadsInv'
<1> USE DEF NextPoint
<1>1. run \in 1 .. Len(Slices) /\ newpoint \in Nat /\ newpoint < NumStars
  BY NumXYBound, SliceType, StarType DEF QuadsInv, QuadsTypeOK, Place
<1>2. newpoint' = newpoint + 1 /\ newpoint' \in 0 .. NumStars
  BY <1>1, StarType
<1>3. QuadsTypeOK' /\ Place'
  BY <1>1, <1>2, NumXYBound DEF QuadsInv, QuadsTypeOK, Place, Start
<1>4. CacheInv'
  BY <1>2 DEF QuadsInv, CacheInv, Looked, Known
<1>5. Progress'
  BY <1>2 DEF QuadsInv, Progress, NewlyTried, DueHere, Start
<1>6. Past'
  BY <1>2 DEF QuadsInv, Past, Within
<1>7. QED
  BY <1>3, <1>4, <1>5, <1>6 DEF QuadsInv

\* Every step of solver_run keeps it.
LEMMA StepQuadsInv == ASSUME QuadsInv, [QuadsNext]_quadVars PROVE QuadsInv'
<1>1. ASSUME EndRun, stage # "idle" PROVE QuadsInv'
  BY <1>1, EndRunStep
<1>2. CASE UNCHANGED quadVars
  BY <1>2 DEF quadVars, QuadsInv, QuadsTypeOK, Place, CacheInv, Looked, NewPairs, Known, Progress, Past,
              NewlyTried, DueHere, OnDiagonal, OnInside, Start, NumXY, Cut
<1>3. QED
  BY <1>1, <1>2, StartRunStep, BeginPointStep, TurnInsideStep, TryQuadStep, NextPointStep
     DEF QuadsNext, LastPoint, Cancel, QuitPoint, StopAtLimit, Finished

\* The invariant holds in every state of the search.
THEOREM QuadsInvariance == QuadsSpec => []QuadsInv
<1>1. QED
  BY InitQuadsInv, StepQuadsInv, PTL DEF QuadsSpec

\* Every variable has its type, in every state.
THEOREM QuadsTypeCorrect == QuadsSpec => []QuadsTypeOK
<1>1. QuadsInv => QuadsTypeOK
  BY DEF QuadsInv
<1>2. QED
  BY <1>1, QuadsInvariance, PTL

\* What pquads caches for a pair is what check_scale and check_inbox would
\* compute for it afresh, at the top of every turn of the loop of solver_run.
THEOREM CacheCorrect == QuadsSpec => []CacheIsRight
<1>1. QuadsInv => CacheIsRight
  BY DEF QuadsInv, CacheInv, Looked, Known, CacheIsRight
<1>2. QED
  BY <1>1, QuadsInvariance, PTL

\* add_stars tries no quad twice in an index, whatever the depths of the job.
THEOREM OnceOnly == QuadsSpec => []EachQuadOnce
<1>1. QuadsInv => EachQuadOnce
  BY DEF QuadsInv, Progress, EachQuadOnce
<1>2. QED
  BY <1>1, QuadsInvariance, PTL

\* solver_run forgets no quad of the stars it has seen, and tries no other.
THEOREM AllTried == QuadsSpec => []TriesAllQuads
<1>1. ASSUME QuadsInv PROVE TriesAllQuads
  <2>1. CASE stage = "point"
    <3>1. newpoint \in 0 .. NumStars
      BY <1>1 DEF QuadsInv, QuadsTypeOK
    <3>2. \A q : q \in [i : DOMAIN Indexes, p : Pair, inner : SUBSET (0 .. newpoint - 1)]
                 <=> q \in Quad /\ q.inner \subseteq 0 .. newpoint - 1
      <4>1. SUBSET (0 .. newpoint - 1) \in SUBSET (SUBSET Stars)
        BY <3>1, StarType
      <4>2. QED
        BY <4>1, SubQuad, QuadType
    <3>3. Due(Start, newpoint) = DueHere(newpoint)
      BY <3>2 DEF Due, DueHere, Within
    <3>4. QED
      BY <1>1, <2>1, <3>3 DEF QuadsInv, Progress, NewlyTried, TriesAllQuads
  <2>2. QED
    BY <2>1 DEF TriesAllQuads
<1>2. QED
  BY <1>1, QuadsInvariance, PTL

\* The loop over newpoint tries bright stars first, across all runs of a job.
THEOREM BrightnessOrder == QuadsSpec => BrightFirst
<1>1. ASSUME QuadsInv, [QuadsNext]_quadVars
      PROVE  [\A q \in tried' \ tried, r \in tried, n \in 0 .. NumStars :
                 Within(q, n) => Within(r, n)]_quadVars
  <2>1. CASE TryQuad
    <3>1. stage \in {"diag", "inside"} /\ newpoint \in Nat
      BY <1>1, <2>1, StarType DEF TryQuad, QuadsInv, QuadsTypeOK, Progress
    <3>2. ASSUME NEW q \in agenda, NEW r \in tried, NEW n \in 0 .. NumStars, Within(q, n)
          PROVE  Within(r, n)
      <4>1. q \in OnDiagonal \/ q \in OnInside
        BY <1>1, <3>1 DEF QuadsInv, Progress
      <4>2. newpoint < n /\ n \in Nat
        BY <3>1, <3>2, <4>1, StarType DEF OnDiagonal, OnInside, Within
      <4>3. r \in Quad /\ Within(r, newpoint + 1)
        BY <1>1, <3>1 DEF QuadsInv, QuadsTypeOK, Past
      <4>4. QED
        BY <3>1, <4>2, <4>3, WithinGrows
    <3>3. QED
      BY <2>1, <3>2 DEF TryQuad
  <2>2. CASE tried' = tried
    BY <2>2
  <2>3. TryQuad \/ tried' = tried
    BY <1>1 DEF QuadsNext, quadVars, StartRun, LastPoint, Cancel, BeginPoint, TurnInside, QuitPoint,
                StopAtLimit, NextPoint, Finished, EndRun
  <2>4. QED
    BY <2>1, <2>2, <2>3
<1>2. QED
  BY <1>1, QuadsInvariance, PTL DEF QuadsSpec, BrightFirst

-----------------------------------------------------------------------------
(* Permutations and filters *)

\* No entry of a list occurs twice in it.
Once(s) == \A i, j \in 1 .. Len(s) : s[i] = s[j] => i = j

\* The stars a filter keeps come first, the others follow, and none is lost.
LEMMA Partitioning ==
    ASSUME NEW T, NEW s \in Seq(T), Once(s), NEW n \in 0 .. Len(s), NEW good
    PROVE  /\ Partition(s, n, good) \in Seq(T)
           /\ Len(Partition(s, n, good)) = Len(s)
           /\ Once(Partition(s, n, good))
           /\ \A m \in 1 .. Len(s) :
                 \E k \in 1 .. Len(s) : Partition(s, n, good)[k] = s[m]
           /\ Count(s, n, good) \in 0 .. n
           /\ \A k \in 1 .. Count(s, n, good) :
                 /\ Partition(s, n, good)[k] \in good
                 /\ \E m \in 1 .. n : Partition(s, n, good)[k] = s[m]
<1> DEFINE first == SubSeq(s, 1, n)
           bad   == Range(first) \ good
           a     == Filter(first, good)
           b     == Filter(first, bad)
           c     == SubSeq(s, n + 1, Len(s))
           p     == Partition(s, n, good)
           N     == Len(s)
           na    == Count(s, n, good)
<1>1. N \in Nat /\ n \in Nat /\ n <= N /\ \A m \in 1 .. N : s[m] \in T
  BY LenProperties, ElementOfSeq
<1>2. first \in Seq(T) /\ Len(first) = n /\ \A m \in 1 .. n : first[m] = s[m]
  BY <1>1, SubSeqProperties
<1>3. c \in Seq(T) /\ Len(c) = N - n /\ \A m \in 1 .. N - n : c[m] = s[n + m]
  BY <1>1, SubSeqProperties
<1>4. /\ a \in Seq(T) /\ Len(a) = Cardinality({m \in 1 .. n : first[m] \in good})
      /\ \A i \in 1 .. Len(a) : a[i] \in good /\ \E m \in 1 .. n : a[i] = first[m]
      /\ \A m \in 1 .. n : first[m] \in good => \E i \in 1 .. Len(a) : a[i] = first[m]
  <2> HIDE DEF first
  <2>1. Len(a) = Cardinality({m \in 1 .. Len(first) : first[m] \in good})
    <3>1. first \in Seq(T)
      BY <1>2
    <3>2. QED
      BY <3>1, FilterDistinct
  <2>2. /\ a \in Seq(T)
        /\ \A i \in 1 .. Len(a) : a[i] \in good /\ \E m \in 1 .. Len(first) : a[i] = first[m]
        /\ \A m \in 1 .. Len(first) :
              first[m] \in good => \E i \in 1 .. Len(a) : a[i] = first[m]
    <3>1. first \in Seq(T)
      BY <1>2
    <3>2. QED
      BY <3>1, Filtering, SMTT(20)
  <2> HIDE DEF a, first
  <2>3. QED
    BY <1>2, <2>1, <2>2
<1>5. /\ b \in Seq(T) /\ Len(b) = Cardinality({m \in 1 .. n : first[m] \in bad})
      /\ \A i \in 1 .. Len(b) : b[i] \in bad /\ \E m \in 1 .. n : b[i] = first[m]
      /\ \A m \in 1 .. n : first[m] \in bad => \E i \in 1 .. Len(b) : b[i] = first[m]
  <2> HIDE DEF bad, first
  <2>1. Len(b) = Cardinality({m \in 1 .. Len(first) : first[m] \in bad})
    <3>1. first \in Seq(T)
      BY <1>2
    <3>2. QED
      BY <3>1, FilterDistinct
  <2>2. /\ b \in Seq(T)
        /\ \A i \in 1 .. Len(b) : b[i] \in bad /\ \E m \in 1 .. Len(first) : b[i] = first[m]
        /\ \A m \in 1 .. Len(first) :
              first[m] \in bad => \E i \in 1 .. Len(b) : b[i] = first[m]
    <3>1. first \in Seq(T)
      BY <1>2
    <3>2. QED
      BY <3>1, Filtering, SMTT(20)
  <2> HIDE DEF b, first
  <2>3. QED
    BY <1>2, <2>1, <2>2
<1>6. Once(a) /\ Once(b)
  <2>1. \A i, j \in 1 .. Len(first) : first[i] = first[j] => i = j
    BY <1>1, <1>2 DEF Once
  <2> HIDE DEF first, bad
  <2>2. QED
    BY <1>2, <2>1, FilterDistinct DEF Once
<1>7. \A m \in 1 .. n : first[m] \in bad <=> first[m] \notin good
  <2>1. \A m \in 1 .. n : first[m] \in Range(first)
    <3>1. DOMAIN first = 1 .. n
      BY <1>2, LenProperties
    <3> HIDE DEF first
    <3>2. QED
      BY <3>1 DEF Range
  <2> HIDE DEF first
  <2>2. QED
    BY <2>1
<1>8. na = Len(a) /\ na \in Nat /\ Len(b) \in Nat /\ na + Len(b) = n
  <2> DEFINE A == {m \in 1 .. n : first[m] \in good}
             B == {m \in 1 .. n : first[m] \in bad}
  <2>1. B = (1 .. n) \ A /\ A = {m \in 1 .. n : s[m] \in good}
    <3> HIDE DEF first, bad
    <3>1. QED
      BY <1>2, <1>7
  <2>2. IsFiniteSet(1 .. n) /\ Cardinality(1 .. n) = n
    BY <1>1, FS_Interval
  <2>3. Cardinality(B) = n - Cardinality((1 .. n) \cap A)
    BY <2>1, <2>2, FS_Difference
  <2>4. (1 .. n) \cap A = A
    OBVIOUS
  <2>5. na = Cardinality(A)
    BY <2>1 DEF Count
  <2>6. Len(a) \in Nat /\ Len(b) \in Nat
    BY <1>4, <1>5, LenProperties
  <2>7. Len(a) = Cardinality(A) /\ Len(b) = Cardinality(B)
    BY <1>4, <1>5
  <2>8. Cardinality(B) = n - Cardinality(A)
    BY <2>3, <2>4
  <2> HIDE DEF A, B, a, b, na
  <2>9. na = Len(a) /\ Len(b) = n - Len(a)
    BY <2>5, <2>7, <2>8
  <2>10. QED
    BY <2>6, <2>9, <1>1
<1>9. p = (a \o b) \o c
  BY DEF Partition
<1> HIDE DEF p, a, b, c, first, bad, na
<1>10. /\ p \in Seq(T) /\ Len(p) = N
       /\ \A k \in 1 .. N : p[k] = IF k <= na THEN a[k]
                                   ELSE IF k <= n THEN b[k - na] ELSE c[k - n]
  <2>1. /\ a \o b \in Seq(T) /\ Len(a \o b) = n
        /\ \A k \in 1 .. n : (a \o b)[k] = IF k <= na THEN a[k] ELSE b[k - na]
    <3>1. a \in Seq(T) /\ b \in Seq(T) /\ Len(a) + Len(b) = n /\ Len(a) = na
      BY <1>4, <1>5, <1>8
    <3>2. /\ a \o b \in Seq(T) /\ Len(a \o b) = Len(a) + Len(b)
          /\ \A k \in 1 .. Len(a) + Len(b) :
                (a \o b)[k] = IF k <= Len(a) THEN a[k] ELSE b[k - Len(a)]
      BY <3>1, ConcatProperties
    <3>3. QED
      BY <3>1, <3>2
  <2>2. /\ (a \o b) \o c \in Seq(T) /\ Len((a \o b) \o c) = n + (N - n)
        /\ \A k \in 1 .. n + (N - n) :
              ((a \o b) \o c)[k] = IF k <= n THEN (a \o b)[k] ELSE c[k - n]
    <3>1. c \in Seq(T) /\ Len(a \o b) = n /\ Len(c) = N - n /\ a \o b \in Seq(T)
      BY <1>3, <2>1
    <3> DEFINE d == a \o b
    <3> HIDE DEF d
    <3>2. /\ d \o c \in Seq(T) /\ Len(d \o c) = Len(d) + Len(c)
          /\ \A k \in 1 .. Len(d) + Len(c) :
                (d \o c)[k] = IF k <= Len(d) THEN d[k] ELSE c[k - Len(d)]
      BY <3>1, ConcatProperties DEF d
    <3>3. Len(d) = n
      BY <3>1 DEF d
    <3>4. QED
      BY <3>1, <3>2, <3>3 DEF d
  <2>3. n + (N - n) = N
    BY <1>1
  <2>4. \A k \in 1 .. N : k <= n => k \in 1 .. n
    BY <1>1
  <2>5. \A k \in 1 .. na : k <= n
    BY <1>1, <1>8
  <2>6. p \in Seq(T) /\ Len(p) = N
    BY <1>9, <2>2, <2>3
  <2>7. ASSUME NEW k \in 1 .. N
        PROVE  p[k] = IF k <= na THEN a[k] ELSE IF k <= n THEN b[k - na] ELSE c[k - n]
    <3>1. p[k] = IF k <= n THEN (a \o b)[k] ELSE c[k - n]
      BY <1>9, <2>2, <2>3
    <3>2. k <= na => k <= n
      BY <1>1, <1>8
    <3>3. k <= n => (a \o b)[k] = IF k <= na THEN a[k] ELSE b[k - na]
      BY <2>1, <2>4
    <3>4. QED
      BY <3>1, <3>2, <3>3
  <2>8. QED
    BY <2>6, <2>7
<1>11. \A k \in 1 .. n : /\ k <= na => k \in 1 .. Len(a)
                         /\ k > na => k - na \in 1 .. Len(b)
  BY <1>1, <1>8
<1>12. \A k \in 1 .. N : /\ k > n => k - n \in 1 .. N - n
                         /\ k <= n => k \in 1 .. n
  BY <1>1
<1>13. \A k \in 1 .. n :
         /\ k <= na => p[k] = a[k] /\ p[k] \in good
         /\ k > na => p[k] = b[k - na] /\ p[k] \notin good
         /\ \E m \in 1 .. n : p[k] = s[m]
  <2> TAKE k \in 1 .. n
  <2>1. k \in 1 .. N
    BY <1>1
  <2>2. CASE k <= na
    <3>1. k \in 1 .. Len(a) /\ p[k] = a[k]
      BY <1>10, <1>11, <2>1, <2>2
    <3>2. PICK m \in 1 .. n : a[k] = first[m]
      BY <3>1, <1>4
    <3>3. p[k] \in good
      BY <3>1, <1>4
    <3>4. m \in 1 .. n /\ p[k] = s[m]
      BY <3>1, <3>2, <1>2
    <3>5. ~(k > na)
      BY <2>2, <1>1, <1>8
    <3>6. QED
      BY <3>1, <3>3, <3>4, <3>5
  <2>3. CASE k > na
    <3>1. k - na \in 1 .. Len(b) /\ p[k] = b[k - na]
      <4>1. ~(k <= na) /\ k <= n
        BY <1>1, <1>8, <2>3
      <4>2. QED
        BY <1>10, <1>11, <2>1, <2>3, <4>1
    <3>2. b[k - na] \in bad /\ \E m \in 1 .. n : b[k - na] = first[m]
      BY <3>1, <1>5
    <3>3. PICK m \in 1 .. n : b[k - na] = first[m]
      BY <3>2
    <3>4. p[k] = s[m] /\ p[k] \notin good
      BY <3>1, <3>2, <3>3, <1>2, <1>7
    <3>5. QED
      BY <3>1, <3>4, <2>3, <1>1, <1>8
  <2>4. QED
    BY <2>2, <2>3, <1>1, <1>8
<1>14. \A k \in 1 .. N : k > n => p[k] = s[k]
  <2> TAKE k \in 1 .. N
  <2> HAVE k > n
  <2>1. k - n \in 1 .. N - n /\ n + (k - n) = k /\ ~(k <= n) /\ ~(k <= na)
    BY <1>1, <1>8
  <2>2. QED
    BY <2>1, <1>3, <1>10
<1>15. \A m \in 1 .. N : \E k \in 1 .. N : p[k] = s[m]
  <2> TAKE m \in 1 .. N
  <2>1. CASE m > n
    BY <2>1, <1>14
  <2>2. CASE m <= n /\ first[m] \in good
    <3>1. m \in 1 .. n
      BY <2>2, <1>1
    <3>2. PICK i \in 1 .. Len(a) : a[i] = first[m]
      BY <3>1, <2>2, <1>4
    <3>3. i \in 1 .. n /\ i <= na /\ i \in 1 .. N
      BY <1>1, <1>8
    <3>4. QED
      BY <3>1, <3>2, <3>3, <1>2, <1>13
  <2>3. CASE m <= n /\ first[m] \notin good
    <3>1. m \in 1 .. n
      BY <2>3, <1>1
    <3>2. PICK i \in 1 .. Len(b) : b[i] = first[m]
      BY <3>1, <2>3, <1>5, <1>7
    <3>3. na + i \in 1 .. n /\ na + i > na /\ na + i \in 1 .. N /\ (na + i) - na = i
      BY <1>1, <1>8
    <3>4. p[na + i] = s[m]
      BY <3>1, <3>2, <3>3, <1>2, <1>13
    <3>5. QED
      BY <3>3, <3>4
  <2>4. QED
    BY <2>1, <2>2, <2>3, <1>1
<1>16. \A k \in 1 .. n, l \in 1 .. N : p[k] = p[l] => l <= n
  <2> SUFFICES ASSUME NEW k \in 1 .. n, NEW l \in 1 .. N, p[k] = p[l], ~(l <= n) PROVE FALSE
    OBVIOUS
  <2>1. p[l] = s[l] /\ l > n
    BY <1>14, <1>1
  <2>2. PICK m \in 1 .. n : p[k] = s[m]
    BY <1>13
  <2>3. m \in 1 .. N /\ s[m] = s[l] /\ m # l
    BY <2>1, <2>2, <1>1
  <2>4. QED
    BY <2>3 DEF Once
<1>17. Once(p)
  <2> SUFFICES ASSUME NEW i \in 1 .. N, NEW j \in 1 .. N, p[i] = p[j] PROVE i = j
    BY <1>10 DEF Once
  <2>1. CASE i > n /\ j > n
    <3>1. s[i] = s[j]
      BY <2>1, <1>14
    <3>2. QED
      BY <3>1 DEF Once
  <2>2. CASE i \in 1 .. n /\ j \in 1 .. n
    <3>1. CASE i <= na /\ j <= na
      <4>1. i \in 1 .. Len(a) /\ j \in 1 .. Len(a) /\ a[i] = a[j]
        BY <3>1, <2>2, <1>8, <1>11, <1>13
      <4>2. QED
        BY <4>1, <1>6 DEF Once
    <3>2. CASE i > na /\ j > na
      <4>1. i - na \in 1 .. Len(b) /\ j - na \in 1 .. Len(b) /\ b[i - na] = b[j - na]
        BY <3>2, <2>2, <1>11, <1>13
      <4>2. i - na = j - na
        BY <4>1, <1>6 DEF Once
      <4>3. QED
        BY <4>2, <1>8
    <3>3. (i <= na) <=> (j <= na)
      <4>1. /\ i <= na => p[i] \in good
            /\ i > na => p[i] \notin good
            /\ j <= na => p[j] \in good
            /\ j > na => p[j] \notin good
        BY <2>2, <1>13
      <4>2. i \in Int /\ j \in Int /\ na \in Int
        BY <1>8
      <4>3. QED
        BY <4>1, <4>2
    <3>4. QED
      BY <3>1, <3>2, <3>3, <2>2, <1>1, <1>8
  <2>3. QED
    BY <2>1, <2>2, <1>1, <1>16
<1>18. QED
  <2>1. na \in 0 .. n
    BY <1>1, <1>8
  <2>2. \A k \in 1 .. na : k \in 1 .. n /\ k <= na
    BY <1>1, <1>8
  <2>3. \A k \in 1 .. na : p[k] \in good /\ \E m \in 1 .. n : p[k] = s[m]
    BY <2>2, <1>13
  <2>4. QED
    BY <2>1, <2>3, <1>10, <1>15, <1>17 DEF p, na

-----------------------------------------------------------------------------
(* The inductive invariant *)

\* A test star has its entry in each list, and only the stars that are kept
\* are tested.
Lists ==
    /\ Len(near) = Len(theta) /\ Len(fg) = Len(theta) /\ Len(theta) <= NT
    /\ phase = "find" => Len(theta) = 0 /\ Len(refperm) = 0 /\ Len(testperm) = 0
    /\ phase = "test" => Len(theta) < NT

\* A match is with the reference star nearest to the tested one.
MatchedNearest ==
    \A j \in 1 .. Len(theta) : theta[j] > 0 =>
        theta[j] = near[j] /\ \E k \in 1 .. NR : theta[j] = refperm[k]

\* The lists are permutations, of the whole field and of what is in the image.
Permuted ==
    /\ Once(testperm) /\ Once(refperm)
    /\ phase # "find" => \A f \in Field : \E k \in 1 .. Len(testperm) : testperm[k] = f

\* The stars of the quad are not tested, nor tested against.
QuadApart ==
    ~fake => /\ \A k \in 1 .. NT : testperm[k] \notin Range(QuadField)
             /\ \A k \in 1 .. NR : refperm[k] \notin Range(QuadStar)

\* The result counts the reference stars in the order of refperm.
Numbered == phase = "accepted" => \A k \in 1 .. Len(refperm) : refs[k] = refperm[k]

IInv ==
    /\ Lists /\ OneMatchPerReference /\ MatchedNearest /\ Permuted /\ QuadApart /\ Numbered
    /\ LogOddsCoverScore /\ AcceptedCorrespond

-----------------------------------------------------------------------------
(* The constants *)

\* The orders that are tried are permutations.
LEMMA OrdersKnown ==
    /\ NTall \in Nat /\ NRall \in Nat
    /\ \A o \in RefOrders : /\ o \in Seq(Refs) /\ Once(o) /\ Len(o) = NRall
                            /\ \A r \in Refs : \E k \in 1 .. NRall : o[k] = r
    /\ \A o \in TestOrders : /\ o \in Seq(Field) /\ Once(o) /\ Len(o) = NTall
                             /\ \A f \in Field : \E k \in 1 .. NTall : o[k] = f
<1>1. ASSUME NEW N \in Nat, NEW o \in Seq(1 .. N), IsInjective(o), Range(o) = 1 .. N
      PROVE  /\ Once(o) /\ Len(o) = N
             /\ \A f \in 1 .. N : \E k \in 1 .. N : o[k] = f
  <2>1. DOMAIN o = 1 .. Len(o) /\ Len(o) \in Nat /\ o \in [1 .. Len(o) -> 1 .. N]
    BY LenProperties
  <2>2. \A f \in 1 .. N : \E k \in 1 .. Len(o) : o[k] = f
    BY <1>1, <2>1 DEF Range
  <2>3. o \in Injection(1 .. Len(o), 1 .. N) /\ o \in Surjection(1 .. Len(o), 1 .. N)
    BY <1>1, <2>1, <2>2 DEF Injection, Surjection
  <2>4. Cardinality(1 .. Len(o)) = Len(o) /\ Cardinality(1 .. N) = N /\ IsFiniteSet(1 .. N)
    BY <2>1, IntervalSize
  <2>5. Cardinality(1 .. Len(o)) = Cardinality(1 .. N)
    BY <2>3, <2>4, FS_Injection
  <2>6. QED
    BY <1>1, <2>1, <2>2, <2>4, <2>5 DEF Once, IsInjective
<1>2. NTall \in Nat /\ NRall \in Nat
  BY SizeAssumption
<1>3. ASSUME NEW o \in RefOrders
      PROVE  /\ o \in Seq(Refs) /\ Once(o) /\ Len(o) = NRall
             /\ \A r \in Refs : \E k \in 1 .. NRall : o[k] = r
  BY <1>1, <1>2, OrderAssumption DEF Refs
<1>4. ASSUME NEW o \in TestOrders
      PROVE  /\ o \in Seq(Field) /\ Once(o) /\ Len(o) = NTall
             /\ \A f \in Field : \E k \in 1 .. NTall : o[k] = f
  BY <1>1, <1>2, OrderAssumption DEF Field
<1>5. QED
  BY <1>2, <1>3, <1>4

\* A list in which nothing occurs twice is no longer than there are things.
LEMMA OnceIsShort ==
    ASSUME NEW N \in Nat, NEW s \in Seq(1 .. N), Once(s)
    PROVE  Len(s) <= N
<1>1. DOMAIN s = 1 .. Len(s) /\ Len(s) \in Nat /\ s \in [1 .. Len(s) -> 1 .. N]
  BY LenProperties
<1>2. s \in Injection(1 .. Len(s), 1 .. N)
  BY <1>1 DEF Injection, IsInjective, Once
<1>3. Cardinality(1 .. Len(s)) = Len(s) /\ Cardinality(1 .. N) = N /\ IsFiniteSet(1 .. N)
  BY <1>1, IntervalSize
<1>4. QED
  BY <1>2, <1>3, FS_Injection

-----------------------------------------------------------------------------
(* Finding the stars *)

\* What one filter, or two in a row, make of a list.
Sifted(T, s, p, n, keep) ==
    /\ p \in Seq(T) /\ Len(p) = Len(s) /\ Once(p)
    /\ \A m \in 1 .. Len(s) : \E k \in 1 .. Len(s) : p[k] = s[m]
    /\ n \in 0 .. Len(s) /\ \A k \in 1 .. n : p[k] \in keep

\* After two filters the first stars have passed both, and none is lost.
LEMMA TwoFilters ==
    ASSUME NEW T, NEW s \in Seq(T), Once(s), NEW keep, NEW close
    PROVE  LET s1 == Partition(s, Len(s), keep)
               n1 == Count(s, Len(s), keep)
           IN  /\ Sifted(T, s, s1, n1, keep)
               /\ Sifted(T, s, Partition(s1, n1, close), Count(s1, n1, close), keep)
<1> DEFINE N  == Len(s)
           s1 == Partition(s, N, keep)
           n1 == Count(s, N, keep)
           s2 == Partition(s1, n1, close)
           n2 == Count(s1, n1, close)
<1>1. N \in Nat /\ N \in 0 .. N
  BY LenProperties
<1>2. /\ s1 \in Seq(T) /\ Len(s1) = N /\ Once(s1)
      /\ \A m \in 1 .. N : \E k \in 1 .. N : s1[k] = s[m]
      /\ n1 \in 0 .. N
      /\ \A k \in 1 .. n1 : s1[k] \in keep
  BY <1>1, Partitioning
<1> HIDE DEF s1, n1
<1>3. /\ s2 \in Seq(T) /\ Len(s2) = Len(s1) /\ Once(s2)
      /\ \A m \in 1 .. Len(s1) : \E k \in 1 .. Len(s1) : s2[k] = s1[m]
      /\ n2 \in 0 .. n1
      /\ \A k \in 1 .. n2 : \E m \in 1 .. n1 : s2[k] = s1[m]
  BY <1>2, Partitioning
<1> HIDE DEF s2, n2
<1>4. Sifted(T, s, s1, n1, keep)
  BY <1>2 DEF Sifted
<1>5. Sifted(T, s, s2, n2, keep)
  <2>1. \A m \in 1 .. N : \E k \in 1 .. N : s2[k] = s[m]
    BY <1>2, <1>3
  <2>2. \A k \in 1 .. n2 : s2[k] \in keep
    BY <1>2, <1>3
  <2>3. n2 \in 0 .. N
    BY <1>1, <1>2, <1>3
  <2>4. QED
    BY <1>2, <1>3, <2>1, <2>2, <2>3 DEF Sifted
<1>6. QED
  BY <1>4, <1>5 DEF s1, n1, s2, n2

\* The field stars: none is lost, and the stars of the quad are not tested.
LEMMA TestStars ==
    ASSUME fake \in BOOLEAN, NEW unique, NEW close, NEW o \in TestOrders,
           GetTestStars(unique, close, o)
    PROVE  /\ testperm' \in Seq(Field) /\ NT' \in 0 .. Len(testperm') /\ Once(testperm')
           /\ \A f \in Field : \E k \in 1 .. Len(testperm') : testperm'[k] = f
           /\ ~fake => \A k \in 1 .. NT' : testperm'[k] \notin Range(QuadField)
<1> DEFINE keep == IF fake THEN unique ELSE unique \ Range(QuadField)
<1>1. /\ o \in Seq(Field) /\ Once(o) /\ Len(o) = NTall
      /\ \A f \in Field : \E k \in 1 .. NTall : o[k] = f
  BY OrdersKnown
<1>2. /\ Sifted(Field, o, Partition(o, NTall, keep), Count(o, NTall, keep), keep)
      /\ Sifted(Field, o, Partition(Partition(o, NTall, keep), Count(o, NTall, keep), close),
                Count(Partition(o, NTall, keep), Count(o, NTall, keep), close), keep)
  BY <1>1, TwoFilters
<1>3. Sifted(Field, o, testperm', NT', keep)
  BY <1>2 DEF GetTestStars
<1>4. /\ testperm' \in Seq(Field) /\ Len(testperm') = NTall /\ Once(testperm')
      /\ \A m \in 1 .. NTall : \E k \in 1 .. NTall : testperm'[k] = o[m]
      /\ NT' \in 0 .. NTall /\ \A k \in 1 .. NT' : testperm'[k] \in keep
  BY <1>1, <1>3 DEF Sifted
<1>5. \A f \in Field : \E k \in 1 .. NTall : testperm'[k] = f
  BY <1>1, <1>4
<1>6. QED
  BY <1>4, <1>5

\* The reference stars in the image, the stars of the quad not among the first.
LEMMA RefStars ==
    ASSUME fake \in BOOLEAN, NEW inside, NEW close, NEW o \in RefOrders,
           GetRefStars(inside, close, o)
    PROVE  /\ refperm' \in Seq(Refs) /\ NR' \in 0 .. Len(refperm') /\ Once(refperm')
           /\ ~fake => \A k \in 1 .. NR' : refperm'[k] \notin Range(QuadStar)
<1> DEFINE keep == IF fake THEN Refs ELSE Refs \ Range(QuadStar)
           s    == Filter(o, inside)
<1>1. o \in Seq(Refs) /\ Once(o)
  BY OrdersKnown
<1>2. s \in Seq(Refs) /\ Once(s)
  BY <1>1, Filtering, FilterDistinct DEF Once
<1> HIDE DEF s
<1>3. /\ Sifted(Refs, s, Partition(s, Len(s), keep), Count(s, Len(s), keep), keep)
      /\ Sifted(Refs, s, Partition(Partition(s, Len(s), keep), Count(s, Len(s), keep), close),
                Count(Partition(s, Len(s), keep), Count(s, Len(s), keep), close), keep)
  BY <1>2, TwoFilters
<1>4. Sifted(Refs, s, refperm', NR', keep)
  BY <1>3 DEF GetRefStars, s
<1>5. QED
  BY <1>4 DEF Sifted

-----------------------------------------------------------------------------
(* Counting the matches *)

\* The matches among the first n entries of a list: Matched(n) for theta.
Hits(t, n) == Cardinality({j \in 1 .. n : t[j] > 0})

\* There are at most n of them.
LEMMA HitsCount ==
    ASSUME NEW t, NEW n \in Nat
    PROVE  /\ IsFiniteSet({j \in 1 .. n : t[j] > 0})
           /\ Hits(t, n) \in Nat /\ Hits(t, n) <= n /\ (n = 0 => Hits(t, n) = 0)
<1> DEFINE A == {j \in 1 .. n : t[j] > 0}
<1>1. IsFiniteSet(1 .. n) /\ Cardinality(1 .. n) = n
  BY IntervalSize
<1>2. A \in SUBSET (1 .. n)
  OBVIOUS
<1> HIDE DEF A
<1>3. IsFiniteSet(A) /\ Cardinality(A) <= n
  BY <1>1, <1>2, FS_Subset
<1>4. Cardinality(A) \in Nat
  BY <1>3, FS_CardinalityType
<1>5. QED
  BY <1>3, <1>4 DEF Hits, A

\* The last entry counts when it is a match.
LEMMA HitsNext ==
    ASSUME NEW t, NEW n \in Nat \ {0}
    PROVE  Hits(t, n) = Hits(t, n - 1) + (IF t[n] > 0 THEN 1 ELSE 0)
<1> DEFINE A == {j \in 1 .. n - 1 : t[j] > 0}
           B == {j \in 1 .. n : t[j] > 0}
<1>1. IsFiniteSet(A) /\ Cardinality(A) \in Nat
  BY HitsCount DEF Hits
<1>2. n \notin A
  OBVIOUS
<1>3. CASE t[n] > 0
  <2>1. B = A \cup {n}
    BY <1>3
  <2> HIDE DEF A, B
  <2>2. Cardinality(B) = Cardinality(A) + 1
    BY <2>1, <1>1, <1>2, FS_AddElement
  <2>3. QED
    BY <2>2, <1>3 DEF Hits, A, B
<1>4. CASE ~(t[n] > 0)
  <2>1. B = A
    BY <1>4
  <2>2. QED
    BY <2>1, <1>1, <1>4 DEF Hits
<1>5. QED
  BY <1>3, <1>4

\* More entries have no fewer matches.
LEMMA HitsGrow ==
    ASSUME NEW t, NEW m \in Nat, NEW n \in Nat, m <= n
    PROVE  Hits(t, m) <= Hits(t, n)
<1> DEFINE A == {j \in 1 .. m : t[j] > 0}
           B == {j \in 1 .. n : t[j] > 0}
<1>1. IsFiniteSet(B)
  BY HitsCount
<1>2. A \in SUBSET B
  OBVIOUS
<1> HIDE DEF A, B
<1>3. Cardinality(A) <= Cardinality(B)
  BY <1>1, <1>2, FS_Subset
<1>4. QED
  BY <1>3 DEF Hits, A, B

\* Lists with matches at the same positions have as many.
LEMMA HitsSame ==
    ASSUME NEW t, NEW u, NEW n \in Nat, \A j \in 1 .. n : t[j] > 0 <=> u[j] > 0
    PROVE  Hits(t, n) = Hits(u, n)
<1>1. {j \in 1 .. n : t[j] > 0} = {j \in 1 .. n : u[j] > 0}
  OBVIOUS
<1>2. QED
  BY <1>1 DEF Hits

\* A match that is taken back is missing from the count.
LEMMA HitsTaken ==
    ASSUME NEW t, NEW u, NEW n \in Nat, NEW o \in 1 .. n, t[o] > 0, ~(u[o] > 0),
           \A j \in 1 .. n : j # o => (t[j] > 0 <=> u[j] > 0)
    PROVE  Hits(u, n) = Hits(t, n) - 1
<1> DEFINE A == {j \in 1 .. n : t[j] > 0}
           B == {j \in 1 .. n : u[j] > 0}
<1>1. IsFiniteSet(A)
  BY HitsCount
<1>2. B = A \ {o} /\ o \in A
  OBVIOUS
<1> HIDE DEF A, B
<1>3. Cardinality(B) = Cardinality(A) - 1
  BY <1>1, <1>2, FS_RemoveElement
<1>4. QED
  BY <1>3 DEF Hits, A, B

\* What TypeOK says of the entries of theta.
LEMMA ThetaEntries ==
    ASSUME TypeOK
    PROVE  /\ Len(theta) \in Nat /\ DOMAIN theta = 1 .. Len(theta) /\ NRall \in Nat
           /\ \A j \in 1 .. Len(theta) : /\ theta[j] \in Refs \cup {DISTRACTOR, CONFLICT}
                                         /\ theta[j] \in Int
                                         /\ theta[j] > 0 <=> theta[j] \in Refs
                                         /\ theta[j] < 0 <=> ~(theta[j] > 0)
<1>1. Len(theta) \in Nat /\ DOMAIN theta = 1 .. Len(theta)
  BY LenProperties DEF TypeOK
<1>2. \A j \in 1 .. Len(theta) : theta[j] \in Refs \cup {DISTRACTOR, CONFLICT}
  BY ElementOfSeq DEF TypeOK
<1>3. \A x \in Refs \cup {DISTRACTOR, CONFLICT} :
         x \in Int /\ (x > 0 <=> x \in Refs) /\ (x < 0 <=> ~(x > 0))
  BY SizeAssumption DEF Refs, DISTRACTOR, CONFLICT
<1>4. QED
  BY <1>1, <1>2, <1>3, SizeAssumption

\* There are no more matches than reference stars.
LEMMA FewMatches ==
    ASSUME TypeOK, OneMatchPerReference
    PROVE  /\ mu \in 0 .. NRall
           /\ \A n \in 0 .. Len(theta) : Matched(n) \in 0 .. NRall /\ Matched(n) <= mu
<1> DEFINE L == Len(theta)
           A == {j \in 1 .. L : theta[j] > 0}
<1>1. L \in Nat /\ NRall \in Nat /\ \A j \in 1 .. L : theta[j] > 0 <=> theta[j] \in Refs
  BY ThetaEntries
<1>2. mu = Cardinality(A) /\ mu = Hits(theta, L) /\ \A n \in Nat : Matched(n) = Hits(theta, n)
  BY <1>1 DEF OneMatchPerReference, Matched, Hits
<1>3. [j \in A |-> theta[j]] \in Injection(A, Refs)
  <2>1. \A j \in A : theta[j] \in Refs
    BY <1>1
  <2>2. \A j \in A : rmatches[theta[j]] = j
    BY ThetaEntries DEF OneMatchPerReference
  <2> HIDE DEF A
  <2>3. [j \in A |-> theta[j]] \in [A -> Refs]
    BY <2>1
  <2>4. QED
    BY <2>2, <2>3 DEF Injection, IsInjective
<1>4. Cardinality(A) <= NRall
  <2>1. IsFiniteSet(Refs) /\ Cardinality(Refs) = NRall
    BY <1>1, IntervalSize DEF Refs
  <2> HIDE DEF A
  <2>2. QED
    BY <1>3, <2>1, FS_Injection
<1>5. mu \in 0 .. NRall
  <2>1. Hits(theta, L) \in Nat
    BY <1>1, HitsCount
  <2> HIDE DEF A
  <2>2. QED
    BY <2>1, <1>1, <1>2, <1>4
<1>6. ASSUME NEW n \in 0 .. L PROVE Matched(n) \in 0 .. NRall /\ Matched(n) <= mu
  <2>1. n \in Nat /\ n <= L
    BY <1>1
  <2>2. Hits(theta, n) <= mu /\ Hits(theta, n) \in Nat
    <3>1. Hits(theta, n) <= Hits(theta, L)
      BY <1>1, <2>1, HitsGrow
    <3>2. Hits(theta, n) \in Nat
      BY <2>1, HitsCount
    <3>3. QED
      BY <3>1, <3>2, <1>2
  <2>3. QED
    BY <2>1, <2>2, <1>1, <1>2, <1>5
<1>7. QED
  BY <1>5, <1>6

-----------------------------------------------------------------------------
(* Testing a star *)

\* The odds of a distractor are numbers, for every count of matches.
LEMMA LogDKnown == \A m \in 0 .. NRall + 1 : LogD[m] \in Int
BY LogDAssumption

\* The losses of a switch are a list of numbers as long as theta.
LEMMA LossesKnown ==
    ASSUME TypeOK, OneMatchPerReference, NEW oldj \in 1 .. Len(theta)
    PROVE  /\ Losses(oldj) \in Seq(Int) /\ Len(Losses(oldj)) = Len(theta)
           /\ \A j \in 1 .. Len(theta) : Losses(oldj)[j] =
                 IF j >= oldj /\ theta[j] < 0
                 THEN LogD[Matched(j - 1)] - LogD[Matched(j - 1) + 1] ELSE 0
<1>1. Len(theta) \in Nat /\ NRall \in Nat
  BY ThetaEntries
<1>2. \A j \in 1 .. Len(theta) : j \in Passed(oldj) <=> j >= oldj /\ theta[j] < 0
  BY <1>1 DEF Passed
<1>3. ASSUME NEW j \in 1 .. Len(theta)
      PROVE  LogD[Matched(j - 1)] - LogD[Matched(j - 1) + 1] \in Int
  <2>1. j - 1 \in 0 .. Len(theta)
    BY <1>1
  <2>2. Matched(j - 1) \in 0 .. NRall
    BY <2>1, FewMatches
  <2>3. LogD[Matched(j - 1)] \in Int /\ LogD[Matched(j - 1) + 1] \in Int
    BY <2>2, <1>1, LogDKnown
  <2>4. QED
    BY <2>3
<1>4. Losses(oldj) \in [1 .. Len(theta) -> Int]
  BY <1>3 DEF Losses
<1>5. Losses(oldj) \in Seq(Int) /\ Len(Losses(oldj)) = Len(theta)
  BY <1>1, <1>4, FunctionIsSequence
<1>6. QED
  BY <1>2, <1>5 DEF Losses

\* The match of a reference star, before another star may take it over.
LEMMA OldMatch ==
    ASSUME TypeOK, OneMatchPerReference, NEW r \in Refs, rmatches[r] # 0
    PROVE  rmatches[r] \in 1 .. Len(theta) /\ theta[rmatches[r]] = r
BY ThetaEntries DEF OneMatchPerReference

\* The odds of a switch are a number.
LEMMA SwitchFgKnown ==
    ASSUME TypeOK, Lists, OneMatchPerReference,
           NEW r \in Refs, NEW f \in Int, rmatches[r] # 0
    PROVE  SwitchFg(r, f) \in Int
<1> DEFINE o == rmatches[r]
<1>1. o \in 1 .. Len(theta) /\ Len(theta) \in Nat /\ NRall \in Nat
  BY OldMatch, ThetaEntries
<1>2. Total(Losses(o)) \in Int
  BY <1>1, LossesKnown, TotalType
<1>3. fg[o] \in Int
  BY <1>1, ElementOfSeq DEF TypeOK, Lists
<1>4. LogD[Matched(o - 1)] \in Int
  <2>1. o - 1 \in 0 .. Len(theta)
    BY <1>1
  <2>2. Matched(o - 1) \in 0 .. NRall + 1
    BY <2>1, <1>1, FewMatches
  <2>3. QED
    BY <2>2, LogDKnown
<1> HIDE DEF o
<1>5. f + (LogD[Matched(o - 1)] - fg[o]) + Total(Losses(o)) \in Int
  BY <1>2, <1>3, <1>4
<1>6. QED
  BY <1>5 DEF SwitchFg, o

\* A step that tests a star tests it against one reference star, or none.
LEMMA StarTested ==
    ASSUME TypeOK, TestStar
    PROVE  \E r \in Refs \cup {NONE}, f \in Int :
              /\ r \in Refs => \E k \in 1 .. NR : r = refperm[k]
              /\ \/ Distractor(r, f)
                 \/ r \in Refs /\ (NewMatch(r, f) \/ SwitchMatch(r, f) \/ KeepMatch(r, f))
              /\ near' = Append(near, r) /\ fg' = Append(fg, f)
<1>1. PICK r \in {NONE} \cup {refperm[k] : k \in 1 .. NR} :
         \E f \in IF r = NONE THEN {Lowest} ELSE Fg :
            /\ Distractor(r, f) \/ NewMatch(r, f) \/ SwitchMatch(r, f) \/ KeepMatch(r, f)
            /\ near' = Append(near, r) /\ fg' = Append(fg, f)
  BY DEF TestStar
<1>2. PICK f \in IF r = NONE THEN {Lowest} ELSE Fg :
            /\ Distractor(r, f) \/ NewMatch(r, f) \/ SwitchMatch(r, f) \/ KeepMatch(r, f)
            /\ near' = Append(near, r) /\ fg' = Append(fg, f)
  BY <1>1
<1>3. f \in Int
  BY SizeAssumption DEF Lowest
<1>4. \A k \in 1 .. NR : refperm[k] \in Refs
  <2>1. \A k \in 1 .. NR : k \in 1 .. Len(refperm)
    BY LenProperties DEF TypeOK
  <2>2. QED
    BY <2>1, ElementOfSeq DEF TypeOK
<1>5. r \in Refs \cup {NONE}
  BY <1>1, <1>4
<1>6. r \in Refs => \E k \in 1 .. NR : r = refperm[k]
  BY <1>1, SizeAssumption DEF Refs, NONE
<1>7. r \in Refs \/ Distractor(r, f)
  BY <1>2, <1>5 DEF NewMatch, SwitchMatch, KeepMatch
<1>8. QED
  BY <1>2, <1>3, <1>5, <1>6, <1>7

\* How theta changes: it gets an entry, and a switch turns the old match of the
\* reference star into a conflict.
Grown(r, keeps) ==
    /\ Len(theta') = Len(theta) + 1
    /\ \A j \in 1 .. Len(theta) :
          theta'[j] = IF theta[j] = r /\ ~keeps THEN CONFLICT ELSE theta[j]
    /\ theta' \in Seq(Refs \cup {DISTRACTOR, CONFLICT})

\* A star that is not matched leaves the matches as they were.
LEMMA Unmatched ==
    ASSUME TypeOK, NEW r \in Refs \cup {NONE}, NEW f, Distractor(r, f) \/ KeepMatch(r, f)
    PROVE  /\ Grown(r, TRUE) /\ theta'[Len(theta) + 1] \in {DISTRACTOR, CONFLICT}
           /\ rmatches' = rmatches /\ mu' = mu /\ jumped' = jumped
           /\ logodds' = logodds + LogD[mu]
<1>1. PICK c \in {DISTRACTOR, CONFLICT} : theta' = Append(theta, c)
  BY DEF Distractor, KeepMatch
<1>2. Len(theta) \in Nat /\ theta \in Seq(Refs \cup {DISTRACTOR, CONFLICT})
  BY ThetaEntries DEF TypeOK
<1>3. Grown(r, TRUE) /\ theta'[Len(theta) + 1] = c
  BY <1>1, <1>2, AppendProperties DEF Grown
<1>4. QED
  BY <1>1, <1>3 DEF Distractor, KeepMatch

\* A match with a reference star that has none.
LEMMA Matching ==
    ASSUME TypeOK, NEW r \in Refs, NEW f, NewMatch(r, f)
    PROVE  Grown(r, TRUE) /\ theta'[Len(theta) + 1] = r
<1>1. Len(theta) \in Nat /\ theta \in Seq(Refs \cup {DISTRACTOR, CONFLICT})
  BY ThetaEntries DEF TypeOK
<1>2. QED
  BY <1>1, AppendProperties DEF Grown, NewMatch

\* A match that takes the reference star over.
LEMMA Switching ==
    ASSUME TypeOK, OneMatchPerReference, NEW r \in Refs, NEW f, SwitchMatch(r, f)
    PROVE  Grown(r, FALSE) /\ theta'[Len(theta) + 1] = r
<1> DEFINE o == rmatches[r]
           t == [theta EXCEPT ![o] = CONFLICT]
<1>1. Len(theta) \in Nat /\ theta \in Seq(Refs \cup {DISTRACTOR, CONFLICT})
      /\ DOMAIN theta = 1 .. Len(theta)
  BY ThetaEntries DEF TypeOK
<1>2. o \in 1 .. Len(theta) /\ theta[o] = r
  BY OldMatch DEF SwitchMatch
<1>3. \A j \in 1 .. Len(theta) : theta[j] = r <=> j = o
  BY <1>1, <1>2 DEF OneMatchPerReference, Refs
<1>4. t \in Seq(Refs \cup {DISTRACTOR, CONFLICT}) /\ Len(t) = Len(theta)
  BY <1>1, <1>2, ExceptSeq
<1>5. \A j \in 1 .. Len(theta) : t[j] = IF theta[j] = r THEN CONFLICT ELSE theta[j]
  BY <1>1, <1>3
<1>6. theta' = Append(t, r)
  BY DEF SwitchMatch
<1> HIDE DEF t
<1>7. QED
  BY <1>1, <1>4, <1>5, <1>6, AppendProperties DEF Grown

-----------------------------------------------------------------------------
(* The steps keep the invariant: the lists and the matches *)

\* A step that tests a star keeps the types of what it changes, and the lists
\* together.
LEMMA TestKeepsLists ==
    ASSUME TypeOK, Lists, OneMatchPerReference, TestStar
    PROVE  /\ theta' \in Seq(Refs \cup {DISTRACTOR, CONFLICT})
           /\ near' \in Seq(Refs \cup {NONE}) /\ fg' \in Seq(Int)
           /\ rmatches' \in [Refs -> Nat] /\ mu' \in Nat
           /\ logodds' \in Int /\ best' \in [odds : Int, i : Nat] /\ jumped' \in BOOLEAN
           /\ phase' \in {"test", "verified"}
           /\ Lists'
<1>1. PICK r \in Refs \cup {NONE}, f \in Int :
         /\ \/ Distractor(r, f)
            \/ r \in Refs /\ (NewMatch(r, f) \/ SwitchMatch(r, f) \/ KeepMatch(r, f))
         /\ near' = Append(near, r) /\ fg' = Append(fg, f)
  BY StarTested
<1>2. /\ Len(theta) \in Nat /\ NRall \in Nat /\ mu \in 0 .. NRall /\ logodds \in Int
      /\ rmatches \in [Refs -> Nat] /\ jumped \in BOOLEAN
      /\ near \in Seq(Refs \cup {NONE}) /\ fg \in Seq(Int)
      /\ LogD[mu] \in Int
  <2>1. Len(theta) \in Nat /\ NRall \in Nat /\ mu \in 0 .. NRall
    BY ThetaEntries, FewMatches
  <2>2. LogD[mu] \in Int
    BY <2>1, LogDKnown
  <2>3. QED
    BY <2>1, <2>2 DEF TypeOK
<1>3. near' \in Seq(Refs \cup {NONE}) /\ Len(near') = Len(theta) + 1
  BY <1>1, <1>2, AppendProperties DEF Lists
<1>4. fg' \in Seq(Int) /\ Len(fg') = Len(theta) + 1
  BY <1>1, <1>2, AppendProperties DEF Lists
<1>5. /\ theta' \in Seq(Refs \cup {DISTRACTOR, CONFLICT}) /\ Len(theta') = Len(theta) + 1
      /\ rmatches' \in [Refs -> Nat] /\ mu' \in Nat /\ logodds' \in Int /\ jumped' \in BOOLEAN
  <2>1. CASE Distractor(r, f) \/ KeepMatch(r, f)
    <3>1. Grown(r, TRUE)
      BY <2>1, Unmatched
    <3>2. /\ rmatches' = rmatches /\ mu' = mu /\ jumped' = jumped
          /\ logodds' = logodds + LogD[mu]
      BY <2>1, Unmatched
    <3>3. logodds' \in Int /\ mu' \in Nat
      BY <3>2, <1>2
    <3>4. QED
      BY <3>1, <3>2, <3>3, <1>2 DEF Grown
  <2>2. CASE r \in Refs /\ NewMatch(r, f)
    <3>1. Grown(r, TRUE)
      BY <2>2, Matching
    <3>2. /\ rmatches' = [rmatches EXCEPT ![r] = Len(theta) + 1]
          /\ mu' = mu + 1 /\ logodds' = logodds + f /\ jumped' = jumped
      BY <2>2 DEF NewMatch
    <3>3. rmatches' \in [Refs -> Nat]
      <4>1. Len(theta) + 1 \in Nat
        BY <1>2
      <4>2. QED
        BY <3>2, <4>1, <1>2
    <3>4. mu' \in Nat /\ logodds' \in Int
      BY <3>2, <1>2
    <3>5. QED
      BY <3>1, <3>2, <3>3, <3>4, <1>2 DEF Grown
  <2>3. CASE r \in Refs /\ SwitchMatch(r, f)
    <3>1. SwitchFg(r, f) \in Int
      BY <2>3, SwitchFgKnown DEF SwitchMatch
    <3>2. Grown(r, FALSE)
      BY <2>3, Switching
    <3>3. jumped' \in BOOLEAN
      BY <2>3, <1>2 DEF SwitchMatch
    <3>4. QED
      BY <2>3, <3>1, <3>2, <3>3, <1>2 DEF SwitchMatch, Grown
  <2>4. QED
    BY <1>1, <2>1, <2>2, <2>3
<1>6. NT' = NT /\ refperm' = refperm /\ testperm' = testperm
  BY DEF TestStar, setup
<1>7. phase = "test" /\ Len(theta) < NT /\ NT \in Nat
  BY LenProperties DEF TestStar, Lists, TypeOK
<1>8. /\ phase' \in {"test", "verified"}
      /\ phase' = "test" => Len(theta') # NT
      /\ best' \in [odds : Int, i : Nat]
  <2>1. Len(theta') \in Nat
    BY <1>2, <1>5
  <2>2. QED
    BY <2>1, <1>5 DEF TestStar, Finish, TypeOK
<1>9. Lists'
  <2>1. Len(theta') <= NT' /\ (phase' = "test" => Len(theta') < NT')
    BY <1>2, <1>5, <1>6, <1>7, <1>8
  <2>2. QED
    BY <2>1, <1>3, <1>4, <1>5, <1>8 DEF Lists
<1>10. QED
  BY <1>3, <1>4, <1>5, <1>8, <1>9

\* A step that tests a star keeps theta and rmatches in agreement.
LEMMA TestKeepsMatches ==
    ASSUME TypeOK, Lists, OneMatchPerReference, TestStar
    PROVE  OneMatchPerReference'
<1>1. PICK r \in Refs \cup {NONE}, f \in Int :
         \/ Distractor(r, f)
         \/ r \in Refs /\ (NewMatch(r, f) \/ SwitchMatch(r, f) \/ KeepMatch(r, f))
  BY StarTested
<1> DEFINE L == Len(theta)
<1>2. /\ L \in Nat /\ mu \in Nat /\ rmatches \in [Refs -> Nat]
      /\ \A j \in 1 .. L : theta[j] \in Int /\ (theta[j] > 0 <=> theta[j] \in Refs)
  BY ThetaEntries DEF TypeOK
<1>3. /\ \A q \in Refs : rmatches[q] # 0 => rmatches[q] \in 1 .. L /\ theta[rmatches[q]] = q
      /\ \A j \in 1 .. L : theta[j] \in Refs => rmatches[theta[j]] = j
      /\ mu = Hits(theta, L)
  BY <1>2, ThetaEntries DEF OneMatchPerReference, Matched, Hits
<1>4. Len(theta') = L + 1 /\ DOMAIN theta' = 1 .. L + 1
  <2>1. Len(theta') = L + 1
    BY <1>1, Unmatched, Matching, Switching DEF Grown
  <2>2. QED
    BY <2>1, TestKeepsLists, LenProperties
<1>5. \A x \in Refs \cup {DISTRACTOR, CONFLICT} : x > 0 <=> x \in Refs
  BY SizeAssumption DEF Refs, DISTRACTOR, CONFLICT
<1>6. \A j \in 1 .. L + 1 : j \in 1 .. L \/ j = L + 1
  BY <1>2
<1>7. Hits(theta', L + 1) = Hits(theta', L) + (IF theta'[L + 1] > 0 THEN 1 ELSE 0)
  <2>1. L + 1 \in Nat \ {0} /\ (L + 1) - 1 = L
    BY <1>2
  <2>2. QED
    BY <2>1, HitsNext
<1>8. SUFFICES /\ \A q \in Refs : rmatches'[q] # 0 =>
                     rmatches'[q] \in 1 .. L + 1 /\ theta'[rmatches'[q]] = q
               /\ \A j \in 1 .. L + 1 : theta'[j] \in Refs => rmatches'[theta'[j]] = j
               /\ mu' = Hits(theta', L + 1)
  <2>1. \A j \in 1 .. L + 1 : theta'[j] \in Refs \cup {DISTRACTOR, CONFLICT}
    BY <1>4, TestKeepsLists, ElementOfSeq
  <2>2. \A j \in 1 .. L + 1 : theta'[j] > 0 => theta'[j] \in Refs
    BY <2>1, <1>5
  <2>3. Matched(Len(theta))' = Hits(theta', L + 1)
    BY <1>4 DEF Matched, Hits
  <2>4. QED
    BY <1>4, <2>2, <2>3 DEF OneMatchPerReference
<1>9. 1 .. L \subseteq 1 .. L + 1 /\ L + 1 \in 1 .. L + 1
  BY <1>2
<1>10. CASE Distractor(r, f) \/ KeepMatch(r, f)
  <2>1. /\ \A j \in 1 .. L : theta'[j] = theta[j]
        /\ theta'[L + 1] \notin Refs /\ ~(theta'[L + 1] > 0)
        /\ rmatches' = rmatches /\ mu' = mu
    BY <1>5, <1>10, Unmatched, SizeAssumption DEF Grown, DISTRACTOR, CONFLICT, Refs
  <2>2. Hits(theta', L) = Hits(theta, L)
    BY <1>2, <2>1, HitsSame
  <2>3. mu' = Hits(theta', L + 1)
    BY <2>1, <2>2, <1>2, <1>3, <1>7
  <2>4. QED
    BY <2>1, <2>3, <1>3, <1>6, <1>9
<1>11. CASE r \in Refs /\ NewMatch(r, f)
  <2>1. /\ \A j \in 1 .. L : theta'[j] = theta[j]
        /\ theta'[L + 1] = r
        /\ rmatches[r] = 0 /\ rmatches' = [rmatches EXCEPT ![r] = L + 1] /\ mu' = mu + 1
    BY <1>11, Matching DEF Grown, NewMatch
  <2>2. Hits(theta', L) = Hits(theta, L) /\ theta'[L + 1] > 0
    BY <1>2, <1>5, <1>11, <2>1, HitsSame
  <2>3. mu' = Hits(theta', L + 1)
    BY <2>1, <2>2, <1>2, <1>3, <1>7
  <2>4. \A j \in 1 .. L : theta[j] \in Refs => theta[j] # r
    <3>1. \A j \in 1 .. L : j # 0
      BY <1>2
    <3>2. QED
      BY <2>1, <3>1, <1>3
  <2>5. ASSUME NEW q \in Refs, rmatches'[q] # 0
        PROVE  rmatches'[q] \in 1 .. L + 1 /\ theta'[rmatches'[q]] = q
    <3>1. CASE q = r
      BY <3>1, <2>1, <1>2, <1>9, <1>11
    <3>2. CASE q # r
      BY <3>2, <2>1, <2>5, <1>2, <1>3, <1>9
    <3>3. QED
      BY <3>1, <3>2
  <2>6. ASSUME NEW j \in 1 .. L + 1, theta'[j] \in Refs PROVE rmatches'[theta'[j]] = j
    <3>1. CASE j = L + 1
      BY <3>1, <2>1, <1>2, <1>11
    <3>2. CASE j \in 1 .. L
      BY <3>2, <2>1, <2>4, <2>6, <1>2, <1>3
    <3>3. QED
      BY <3>1, <3>2, <1>6
  <2>7. QED
    BY <2>3, <2>5, <2>6
<1>12. CASE r \in Refs /\ SwitchMatch(r, f)
  <2> DEFINE o == rmatches[r]
  <2>1. o \in 1 .. L /\ theta[o] = r /\ r # CONFLICT /\ r > 0 /\ CONFLICT \notin Refs
        /\ ~(CONFLICT > 0)
    BY <1>12, OldMatch, SizeAssumption DEF SwitchMatch, Refs, CONFLICT
  <2>2. /\ \A j \in 1 .. L : theta'[j] = IF theta[j] = r THEN CONFLICT ELSE theta[j]
        /\ theta'[L + 1] = r
        /\ rmatches' = [rmatches EXCEPT ![r] = L + 1] /\ mu' = mu
    BY <1>12, Switching DEF Grown, SwitchMatch
  <2>3. \A j \in 1 .. L : theta[j] = r <=> j = o
    BY <1>3, <1>12, <2>1
  <2>4. Hits(theta', L) = Hits(theta, L) - 1
    <3>1. theta[o] > 0 /\ ~(theta'[o] > 0)
      BY <2>1, <2>2
    <3>2. \A j \in 1 .. L : j # o => (theta[j] > 0 <=> theta'[j] > 0)
      BY <2>2, <2>3
    <3> HIDE DEF o
    <3>3. QED
      BY <3>1, <3>2, <2>1, <1>2, HitsTaken
  <2>5. mu' = Hits(theta', L + 1)
    BY <2>1, <2>2, <2>4, <1>2, <1>3, <1>7
  <2>6. ASSUME NEW q \in Refs, rmatches'[q] # 0
        PROVE  rmatches'[q] \in 1 .. L + 1 /\ theta'[rmatches'[q]] = q
    <3>1. CASE q = r
      BY <3>1, <2>2, <1>2, <1>9, <1>12
    <3>2. CASE q # r
      BY <3>2, <2>2, <2>6, <1>2, <1>3, <1>9
    <3>3. QED
      BY <3>1, <3>2
  <2>7. ASSUME NEW j \in 1 .. L + 1, theta'[j] \in Refs PROVE rmatches'[theta'[j]] = j
    <3>1. CASE j = L + 1
      BY <3>1, <2>2, <1>2, <1>12
    <3>2. CASE j \in 1 .. L
      BY <3>2, <2>1, <2>2, <2>7, <1>2, <1>3
    <3>3. QED
      BY <3>1, <3>2, <1>6
  <2>8. QED
    BY <2>5, <2>6, <2>7
<1>13. QED
  BY <1>1, <1>10, <1>11, <1>12

\* A step that tests a star keeps every match with the nearest reference star.
LEMMA TestKeepsNearest ==
    ASSUME TypeOK, Lists, OneMatchPerReference, MatchedNearest, TestStar
    PROVE  MatchedNearest'
<1>1. PICK r \in Refs \cup {NONE}, f \in Int :
         /\ r \in Refs => \E k \in 1 .. NR : r = refperm[k]
         /\ \/ Distractor(r, f)
            \/ r \in Refs /\ (NewMatch(r, f) \/ SwitchMatch(r, f) \/ KeepMatch(r, f))
         /\ near' = Append(near, r)
  BY StarTested
<1> DEFINE L == Len(theta)
<1>2. L \in Nat
  BY ThetaEntries
<1>3. NR' = NR /\ refperm' = refperm
  BY DEF TestStar, setup
<1>4. ~(CONFLICT > 0) /\ ~(DISTRACTOR > 0)
  BY DEF CONFLICT, DISTRACTOR
<1>5. /\ Len(theta') = L + 1
      /\ \A j \in 1 .. L : theta'[j] = theta[j] \/ ~(theta'[j] > 0)
      /\ ~(theta'[L + 1] > 0) \/ (r \in Refs /\ theta'[L + 1] = r)
  <2>1. CASE Distractor(r, f) \/ KeepMatch(r, f)
    <3>1. Grown(r, TRUE) /\ theta'[L + 1] \in {DISTRACTOR, CONFLICT}
      BY <2>1, Unmatched
    <3>2. QED
      BY <3>1, <1>4 DEF Grown
  <2>2. CASE r \in Refs /\ NewMatch(r, f)
    <3>1. Grown(r, TRUE) /\ theta'[L + 1] = r
      BY <2>2, Matching
    <3>2. QED
      BY <3>1, <2>2 DEF Grown
  <2>3. CASE r \in Refs /\ SwitchMatch(r, f)
    <3>1. Grown(r, FALSE) /\ theta'[L + 1] = r
      BY <2>3, Switching
    <3>2. QED
      BY <3>1, <2>3, <1>4 DEF Grown
  <2>4. QED
    BY <1>1, <2>1, <2>2, <2>3
<1>6. (\A j \in 1 .. L : near'[j] = near[j]) /\ near'[L + 1] = r
  <2>1. near \in Seq(Refs \cup {NONE}) /\ Len(near) = L
    BY DEF TypeOK, Lists
  <2>2. QED
    BY <1>1, <2>1, AppendProperties
<1>7. SUFFICES ASSUME NEW j \in 1 .. L + 1, theta'[j] > 0
               PROVE  theta'[j] = near'[j] /\ \E k \in 1 .. NR : theta'[j] = refperm[k]
  BY <1>3, <1>5 DEF MatchedNearest
<1>8. CASE j \in 1 .. L
  BY <1>5, <1>6, <1>7, <1>8 DEF MatchedNearest
<1>9. CASE j = L + 1
  BY <1>1, <1>5, <1>6, <1>7, <1>9
<1>10. QED
  BY <1>2, <1>8, <1>9

-----------------------------------------------------------------------------
(* The steps keep the invariant: the log-odds *)

\* What an entry of theta counts for in the log-odds.
Term(t, g, j) == IF t[j] > 0 THEN g[j] ELSE LogD[Hits(t, j - 1)]

\* The terms of theta are numbers, one for each entry.
LEMMA TermsKnown ==
    ASSUME TypeOK, Lists, OneMatchPerReference
    PROVE  /\ Terms \in Seq(Int) /\ Len(Terms) = Len(theta)
           /\ \A j \in 1 .. Len(theta) : Terms[j] = Term(theta, fg, j)
           /\ Score \in Int
<1>1. Len(theta) \in Nat /\ NRall \in Nat
  BY ThetaEntries
<1>2. ASSUME NEW j \in 1 .. Len(theta)
      PROVE  fg[j] \in Int /\ LogD[Matched(j - 1)] \in Int
  <2>1. fg[j] \in Int
    BY ElementOfSeq DEF TypeOK, Lists
  <2>2. j - 1 \in 0 .. Len(theta)
    BY <1>1
  <2>3. Matched(j - 1) \in 0 .. NRall + 1
    BY <2>2, <1>1, FewMatches
  <2>4. QED
    BY <2>1, <2>3, LogDKnown
<1>3. Terms \in [1 .. Len(theta) -> Int]
  BY <1>2 DEF Terms
<1>4. Terms \in Seq(Int) /\ Len(Terms) = Len(theta)
  BY <1>1, <1>3, FunctionIsSequence
<1>5. \A j \in 1 .. Len(theta) : Terms[j] = Term(theta, fg, j)
  BY DEF Terms, Term, Matched, Hits
<1>6. Score \in Int
  BY <1>4, TotalType DEF Score
<1>7. QED
  BY <1>4, <1>5, <1>6

\* After a test the terms are those of the new theta.
LEMMA NextTerms ==
    ASSUME TypeOK, Lists, OneMatchPerReference, TestStar
    PROVE  /\ Terms' \in Seq(Int) /\ Len(Terms') = Len(theta') /\ Len(theta') \in Nat
           /\ \A j \in 1 .. Len(theta') : Terms'[j] = Term(theta', fg', j)
<1>1. /\ theta' \in Seq(Refs \cup {DISTRACTOR, CONFLICT}) /\ fg' \in Seq(Int)
      /\ Len(fg') = Len(theta') /\ OneMatchPerReference' /\ NRall \in Nat
  BY TestKeepsLists, TestKeepsMatches, ThetaEntries DEF Lists
<1>2. Len(theta') \in Nat
  BY <1>1, LenProperties
<1>3. \A j \in 1 .. Len(theta') : Terms'[j] = Term(theta', fg', j)
  BY DEF Terms, Term, Matched, Hits
<1>4. ASSUME NEW j \in 1 .. Len(theta') PROVE Terms'[j] \in Int
  <2>1. fg'[j] \in Int
    BY <1>1, ElementOfSeq
  <2>2. j - 1 \in Nat /\ j - 1 <= Len(theta')
    BY <1>2
  <2>3. Hits(theta', j - 1) <= Hits(theta', Len(theta')) /\ Hits(theta', j - 1) \in Nat
    BY <1>2, <2>2, HitsGrow, HitsCount
  <2>4. Hits(theta', Len(theta')) = mu'
    BY <1>1 DEF OneMatchPerReference, Matched, Hits
  <2>5. mu' <= NRall + 1 /\ mu' \in Nat
    <3>1. PICK r \in Refs \cup {NONE}, f \in Int :
            \/ Distractor(r, f)
            \/ r \in Refs /\ (NewMatch(r, f) \/ SwitchMatch(r, f) \/ KeepMatch(r, f))
      BY StarTested
    <3>2. mu' = mu \/ mu' = mu + 1
      BY <3>1 DEF Distractor, NewMatch, SwitchMatch, KeepMatch
    <3>3. QED
      BY <3>2, <1>1, FewMatches
  <2>6. Hits(theta', j - 1) \in 0 .. NRall + 1
    BY <2>3, <2>4, <2>5, <1>1
  <2>7. QED
    BY <2>1, <2>6, <1>3, LogDKnown DEF Term
<1>5. Terms' \in [1 .. Len(theta') -> Int]
  BY <1>4 DEF Terms
<1>6. QED
  BY <1>2, <1>3, <1>5, FunctionIsSequence

\* A list that repeats another one and goes on has the sum of both.
LEMMA TotalLonger ==
    ASSUME NEW a \in Seq(Int), NEW b \in Seq(Int), Len(b) = Len(a) + 1,
           \A j \in 1 .. Len(a) : b[j] = a[j]
    PROVE  Total(b) = Total(a) + b[Len(a) + 1]
<1>1. Len(a) \in Nat /\ b[Len(a) + 1] \in Int
  <2>1. Len(a) \in Nat
    BY LenProperties
  <2>2. Len(a) + 1 \in 1 .. Len(b)
    BY <2>1
  <2>3. QED
    BY <2>1, <2>2, ElementOfSeq
<1> DEFINE x == b[Len(a) + 1]
           c == Append(a, x)
<1>2. c \in Seq(Int) /\ Len(c) = Len(b)
      /\ (\A j \in 1 .. Len(a) : c[j] = a[j]) /\ c[Len(a) + 1] = x
  BY <1>1, AppendProperties
<1> HIDE DEF c
<1>3. \A j \in 1 .. Len(b) : c[j] = b[j]
  <2>1. \A j \in 1 .. Len(b) : j \in 1 .. Len(a) \/ j = Len(a) + 1
    BY <1>1
  <2>2. QED
    BY <1>2, <2>1
<1>4. c = b
  BY <1>2, <1>3, SeqEqual
<1>5. QED
  BY <1>1, <1>4, TotalAppend DEF c

\* A step that tests a star keeps the log-odds at or above the score.
LEMMA TestKeepsOdds ==
    ASSUME TypeOK, Lists, OneMatchPerReference, LogOddsCoverScore, TestStar
    PROVE  LogOddsCoverScore'
<1>1. PICK r \in Refs \cup {NONE}, f \in Int :
         /\ \/ Distractor(r, f)
            \/ r \in Refs /\ (NewMatch(r, f) \/ SwitchMatch(r, f) \/ KeepMatch(r, f))
         /\ fg' = Append(fg, f)
  BY StarTested
<1> DEFINE L == Len(theta)
<1>2. /\ L \in Nat /\ NRall \in Nat /\ mu \in 0 .. NRall /\ logodds \in Int /\ jumped \in BOOLEAN
      /\ LogD[mu] \in Int /\ mu = Hits(theta, L)
  BY ThetaEntries, FewMatches, LogDKnown DEF TypeOK, OneMatchPerReference, Matched, Hits
<1>3. (\A j \in 1 .. L : fg'[j] = fg[j]) /\ fg'[L + 1] = f
  <2>1. fg \in Seq(Int) /\ Len(fg) = L
    BY DEF TypeOK, Lists
  <2>2. QED
    BY <1>1, <2>1, AppendProperties
<1>4. /\ Terms \in Seq(Int) /\ Len(Terms) = L /\ Score = Total(Terms) /\ Score \in Int
      /\ \A j \in 1 .. L : Terms[j] = Term(theta, fg, j)
  BY TermsKnown DEF Score
<1>5. /\ Terms' \in Seq(Int) /\ Len(Terms') = Len(theta') /\ Score' = Total(Terms')
      /\ \A j \in 1 .. Len(theta') : Terms'[j] = Term(theta', fg', j)
  BY NextTerms DEF Score
<1>6. \A j \in 1 .. L + 1 : j - 1 \in Nat /\ (\A i \in 1 .. j - 1 : i \in 1 .. L)
  BY <1>2
<1>7. 1 .. L \subseteq 1 .. L + 1 /\ L + 1 \in 1 .. L + 1 /\ (L + 1) - 1 = L
  BY <1>2
<1>8. ASSUME Len(theta') = L + 1, \A j \in 1 .. L : theta'[j] = theta[j]
      PROVE  Score' = Score + Term(theta', fg', L + 1) /\ Hits(theta', L) = mu
  <2>1. ASSUME NEW j \in 1 .. L + 1 PROVE Hits(theta', j - 1) = Hits(theta, j - 1)
    BY <1>6, <1>8, HitsSame
  <2>2. \A j \in 1 .. L : Terms'[j] = Terms[j]
    BY <2>1, <1>3, <1>4, <1>5, <1>7, <1>8 DEF Term
  <2>3. Total(Terms') = Total(Terms) + Terms'[L + 1]
    BY <2>2, <1>4, <1>5, <1>8, TotalLonger
  <2>4. Terms'[L + 1] = Term(theta', fg', L + 1)
    BY <1>5, <1>7, <1>8
  <2>5. Hits(theta', L) = mu
    BY <2>1, <1>2, <1>7
  <2>6. QED
    BY <2>3, <2>4, <2>5, <1>4, <1>5
<1>9. CASE Distractor(r, f) \/ KeepMatch(r, f)
  <2>1. /\ Grown(r, TRUE) /\ theta'[L + 1] \in {DISTRACTOR, CONFLICT}
        /\ jumped' = jumped /\ logodds' = logodds + LogD[mu]
    BY <1>9, Unmatched
  <2>2. Term(theta', fg', L + 1) = LogD[Hits(theta', L)]
    BY <2>1, <1>7 DEF Term, DISTRACTOR, CONFLICT
  <2>3. Score' = Score + LogD[mu]
    BY <2>1, <2>2, <1>8 DEF Grown
  <2>4. QED
    <3>1. /\ logodds \in Int /\ Score \in Int /\ LogD[mu] \in Int
          /\ logodds >= Score /\ (~jumped => logodds = Score)
      BY <1>2, <1>4 DEF LogOddsCoverScore
    <3> DEFINE d == LogD[mu]
    <3>2. d \in Int /\ Score' = Score + d /\ logodds' = logodds + d /\ jumped' = jumped
      BY <2>1, <2>3, <3>1
    <3> HIDE DEF d
    <3>3. logodds' >= Score' /\ (~jumped' => logodds' = Score')
      BY <3>1, <3>2
    <3>4. QED
      BY <3>3 DEF LogOddsCoverScore
<1>10. CASE r \in Refs /\ NewMatch(r, f)
  <2>1. /\ Grown(r, TRUE) /\ theta'[L + 1] = r
        /\ jumped' = jumped /\ logodds' = logodds + f
    BY <1>10, Matching DEF NewMatch
  <2>2. Term(theta', fg', L + 1) = f
    BY <2>1, <1>3, <1>10, SizeAssumption DEF Term, Refs
  <2>3. Score' = Score + f
    BY <2>1, <2>2, <1>8 DEF Grown
  <2>4. QED
    <3>1. /\ logodds \in Int /\ Score \in Int /\ f \in Int
          /\ logodds >= Score /\ (~jumped => logodds = Score)
      BY <1>2, <1>4 DEF LogOddsCoverScore
    <3>2. logodds' >= Score' /\ (~jumped' => logodds' = Score')
      BY <2>1, <2>3, <3>1
    <3>3. QED
      BY <3>2 DEF LogOddsCoverScore
<1>11. CASE r \in Refs /\ SwitchMatch(r, f)
  <2> DEFINE o == rmatches[r]
             x == LogD[Matched(o - 1)]
             U == [Terms EXCEPT ![o] = x]
             D == Losses(o)
             T == SubSeq(Terms', 1, L)
  <2>1. o \in 1 .. L /\ theta[o] = r /\ r > 0
    BY <1>11, OldMatch, SizeAssumption DEF SwitchMatch, Refs
  <2>2. /\ Len(theta') = L + 1 /\ theta'[L + 1] = r
        /\ \A j \in 1 .. L : theta'[j] = IF theta[j] = r THEN CONFLICT ELSE theta[j]
    BY <1>11, Switching DEF Grown
  <2>3. \A j \in 1 .. L : theta[j] = r <=> j = o
    BY <1>11, <2>1, ThetaEntries DEF OneMatchPerReference
  <2>4. /\ logodds' = logodds + (f + (x - fg[o]) + Total(D))
        /\ jumped' = (jumped \/ Passed(o) # {})
    BY <1>11 DEF SwitchMatch, SwitchFg
  <2>5. \A j \in 1 .. L : Matched(j - 1) = Hits(theta, j - 1) /\ Matched(j - 1) \in 0 .. NRall
    <3>1. \A j \in 1 .. L : j - 1 \in 0 .. L
      BY <1>2
    <3>2. QED
      BY <3>1, FewMatches DEF Matched, Hits
  <2>6. /\ D \in Seq(Int) /\ Len(D) = L /\ Total(D) \in Int
        /\ \A j \in 1 .. L : D[j] = IF j >= o /\ theta[j] < 0
                                    THEN LogD[Matched(j - 1)] - LogD[Matched(j - 1) + 1] ELSE 0
    BY <2>1, LossesKnown, TotalType
  <2>7. x \in Int /\ Terms[o] = fg[o]
    <3>1. x \in Int
      BY <2>1, <2>5, <1>2, LogDKnown
    <3>2. QED
      BY <3>1, <2>1, <1>4 DEF Term
  <2>8. /\ U \in Seq(Int) /\ Len(U) = L
        /\ \A j \in 1 .. L : U[j] = IF j = o THEN x ELSE Terms[j]
    <3> HIDE DEF x, o
    <3>1. QED
      BY <2>1, <2>7, <1>4, ExceptSeq
  <2>9. Total(U) = Score + (x - fg[o])
    <3> HIDE DEF x, o
    <3>1. QED
      BY <2>1, <2>7, <1>4, TotalExcept
  <2>10. T \in Seq(Int) /\ Len(T) = L /\ \A j \in 1 .. L : T[j] = Terms'[j]
    <3>1. \A j \in 1 .. L : Terms'[j] \in Int
      BY <2>2, <1>5, <1>7, ElementOfSeq
    <3>2. QED
      BY <3>1, <1>2, SubSeqProperties
  <2>11. Score' = Total(T) + f
    <3>1. Terms'[L + 1] = f
      BY <2>1, <2>2, <1>3, <1>5, <1>7 DEF Term
    <3> HIDE DEF T
    <3>2. \A j \in 1 .. Len(T) : Terms'[j] = T[j]
      BY <2>10
    <3>3. Total(Terms') = Total(T) + Terms'[Len(T) + 1]
      BY <2>2, <2>10, <3>2, <1>5, TotalLonger
    <3>4. QED
      BY <3>1, <3>3, <2>10, <1>5
  <2>12. ASSUME NEW j \in 1 .. L
         PROVE  T[j] <= U[j] + D[j] /\ (~jumped' => T[j] = U[j] + D[j])
    <3>1. /\ T[j] = Term(theta', fg', j) /\ Terms[j] = Term(theta, fg, j)
          /\ fg'[j] = fg[j] /\ fg[j] \in Int /\ j - 1 \in Nat /\ o \in Int /\ j \in Int
      <4>1. T[j] = Terms'[j] /\ Terms'[j] = Term(theta', fg', j)
        BY <2>2, <2>10, <1>5, <1>7
      <4>2. Terms[j] = Term(theta, fg, j) /\ fg'[j] = fg[j] /\ j - 1 \in Nat
        BY <1>3, <1>4, <1>6, <1>7
      <4>3. fg[j] \in Int
        BY ElementOfSeq DEF TypeOK, Lists
      <4>4. QED
        BY <4>1, <4>2, <4>3, <2>1
    <3>2. CASE j < o
      <4>1. Hits(theta', j - 1) = Hits(theta, j - 1)
        <5>1. \A i \in 1 .. j - 1 : theta'[i] = theta[i]
          BY <3>1, <3>2, <2>1, <2>2, <2>3
        <5>2. QED
          BY <5>1, <3>1, HitsSame
      <4>2. theta'[j] = theta[j]
        BY <3>2, <2>1, <2>2, <2>3
      <4>3. T[j] = Terms[j]
        BY <4>1, <4>2, <3>1 DEF Term
      <4>4. U[j] = Terms[j] /\ D[j] = 0 /\ Terms[j] \in Int
        <5>1. ~(j >= o) /\ j # o
          BY <3>1, <3>2
        <5>2. U[j] = Terms[j] /\ D[j] = 0
          BY <5>1, <2>6, <2>8
        <5>3. QED
          BY <5>2, <1>4, ElementOfSeq
      <4>5. QED
        BY <4>3, <4>4
    <3>3. CASE j = o
      <4>1. Hits(theta', j - 1) = Hits(theta, j - 1)
        <5>1. \A i \in 1 .. j - 1 : theta'[i] = theta[i]
          BY <3>1, <3>3, <2>1, <2>2, <2>3
        <5>2. QED
          BY <5>1, <3>1, HitsSame
      <4>2. T[j] = x
        <5>1. ~(theta'[j] > 0)
          BY <3>3, <2>1, <2>2 DEF CONFLICT
        <5>2. QED
          BY <5>1, <4>1, <3>1, <3>3, <2>1, <2>5 DEF Term
      <4>3. U[j] = x /\ D[j] = 0
        <5>1. ~(theta[j] < 0)
          BY <3>3, <2>1, ThetaEntries
        <5> HIDE DEF D, U, x
        <5>2. QED
          BY <5>1, <3>3, <2>6, <2>8
      <4>4. QED
        BY <4>2, <4>3, <2>7
    <3>4. CASE j > o
      <4>1. theta'[j] = theta[j] /\ j # o
        BY <3>4, <2>1, <2>2, <2>3
      <4>2. Hits(theta', j - 1) = Hits(theta, j - 1) - 1
        <5>1. o \in 1 .. j - 1
          BY <3>1, <3>4, <2>1
        <5>2. theta[o] > 0 /\ ~(theta'[o] > 0)
          BY <2>1, <2>2 DEF CONFLICT
        <5>3. \A i \in 1 .. j - 1 : i # o => (theta[i] > 0 <=> theta'[i] > 0)
          <6> SUFFICES ASSUME NEW i \in 1 .. j - 1, i # o PROVE theta'[i] = theta[i]
            OBVIOUS
          <6>1. i \in 1 .. L
            BY <3>1, <1>2
          <6> HIDE DEF o
          <6>2. QED
            BY <6>1, <2>2, <2>3
        <5> HIDE DEF o
        <5>4. QED
          BY <5>1, <5>2, <5>3, <3>1, HitsTaken
      <4>3. CASE theta[j] > 0
        <5>1. T[j] = fg[j] /\ U[j] = fg[j]
          BY <4>1, <4>3, <3>1, <2>8 DEF Term
        <5>2. D[j] = 0
          BY <4>3, <2>6, ThetaEntries
        <5>3. QED
          BY <5>1, <5>2, <3>1
      <4>4. CASE ~(theta[j] > 0)
        <5> DEFINE m == Hits(theta, j - 1)
        <5>1. theta[j] < 0 /\ m = Matched(j - 1) /\ m \in 0 .. NRall
          BY <4>4, <2>5, ThetaEntries
        <5>2. m - 1 \in Nat
          BY <4>2, <5>1, <3>1, HitsCount
        <5>3. /\ T[j] = LogD[m - 1] /\ U[j] = LogD[m]
              /\ D[j] = LogD[m] - LogD[m + 1]
          <6>1. T[j] = LogD[m - 1]
            BY <4>1, <4>2, <4>4, <3>1 DEF Term
          <6>2. U[j] = LogD[m]
            BY <4>1, <4>4, <3>1, <2>8 DEF Term
          <6>3. j >= o
            BY <3>1, <3>4
          <6> HIDE DEF D, m
          <6>4. D[j] = LogD[m] - LogD[m + 1]
            BY <5>1, <6>3, <2>6
          <6>5. QED
            BY <6>1, <6>2, <6>4
        <5>4. /\ LogD[m + 1] - LogD[m] <= LogD[m] - LogD[m - 1]
              /\ LogD[m - 1] \in Int /\ LogD[m] \in Int /\ LogD[m + 1] \in Int
          <6>1. m \in 1 .. NRall
            BY <5>1, <5>2, <1>2
          <6>2. m - 1 \in 0 .. NRall + 1 /\ m \in 0 .. NRall + 1 /\ m + 1 \in 0 .. NRall + 1
            BY <6>1, <1>2
          <6> HIDE DEF m
          <6>3. LogD[m + 1] - LogD[m] <= LogD[m] - LogD[m - 1]
            BY <6>1, LogDAssumption
          <6>4. QED
            BY <6>2, <6>3, LogDKnown
        <5>5. T[j] <= U[j] + D[j]
          BY <5>3, <5>4
        <5>6. jumped'
          <6>1. j \in Passed(o)
            BY <5>1, <3>1, <3>4, <1>2 DEF Passed
          <6>2. QED
            BY <6>1, <2>4
        <5>7. QED
          BY <5>5, <5>6
      <4>5. QED
        BY <4>3, <4>4
    <3>5. QED
      BY <3>1, <3>2, <3>3, <3>4
  <2> HIDE DEF T, U, D, x, o
  <2>13. Total(T) <= Total(U) + Total(D)
    BY <2>6, <2>8, <2>10, <2>12, TotalCovers
  <2>14. ~jumped' => Total(T) = Total(U) + Total(D)
    BY <2>6, <2>8, <2>10, <2>12, TotalAdds
  <2>15. Total(T) \in Int /\ fg[o] \in Int
    BY <2>1, <2>10, TotalType, ElementOfSeq DEF TypeOK, Lists
  <2>16. logodds' = (logodds + f) + (x - fg[o]) + Total(D)
    <3> DEFINE g == fg[o]
               t == Total(D)
    <3>1. /\ g \in Int /\ t \in Int /\ x \in Int /\ logodds \in Int /\ f \in Int
          /\ logodds' = logodds + (f + (x - g) + t)
      BY <2>4, <2>6, <2>7, <2>15, <1>2
    <3> HIDE DEF g, t
    <3>2. logodds' = (logodds + f) + (x - g) + t
      BY <3>1
    <3>3. QED
      BY <3>2 DEF g, t
  <2>17. logodds >= Score /\ (~jumped => logodds = Score)
    BY DEF LogOddsCoverScore
  <2>18. /\ logodds \in Int /\ f \in Int /\ x \in Int /\ fg[o] \in Int /\ Score \in Int
         /\ Total(D) \in Int /\ Total(T) \in Int
         /\ Total(U) \in Int
    <3>1. x - fg[o] \in Int
      BY <2>7, <2>15
    <3>2. Total(U) \in Int
      BY <2>8, TotalType
    <3>3. QED
      BY <3>1, <3>2, <2>6, <2>7, <2>15, <1>2, <1>4
  <2>19. logodds' >= Score'
    BY <2>9, <2>11, <2>13, <2>16, <2>17, <2>18
  <2>20. ~jumped' => logodds' = Score'
    <3>1. ~jumped' => ~jumped
      BY <2>4
    <3>2. ASSUME logodds = Score, Total(T) = Total(U) + Total(D) PROVE logodds' = Score'
      BY <3>2, <2>9, <2>11, <2>16, <2>18
    <3>3. QED
      BY <3>1, <3>2, <2>14, <2>17
  <2>21. QED
    BY <2>19, <2>20 DEF LogOddsCoverScore
<1>12. QED
  BY <1>1, <1>9, <1>10, <1>11

-----------------------------------------------------------------------------
(* The steps keep the invariant: the result *)

\* Where a field star is in testperm, and a reference star in refperm.
TestPos(f) == CHOOSE j \in DOMAIN testperm : testperm[j] = f
RefPos(r) == CHOOSE k \in DOMAIN refperm : refperm[k] = r

\* Every field star has one place in testperm.
LEMMA TestPosKnown ==
    ASSUME TypeOK, Permuted, phase # "find"
    PROVE  /\ \A f \in Field : TestPos(f) \in 1 .. Len(testperm) /\ testperm[TestPos(f)] = f
           /\ \A k \in 1 .. Len(testperm) : testperm[k] \in Field /\ TestPos(testperm[k]) = k
<1>1. DOMAIN testperm = 1 .. Len(testperm)
  BY LenProperties DEF TypeOK
<1>2. \A f \in Field : \E j \in DOMAIN testperm : testperm[j] = f
  BY <1>1 DEF Permuted
<1>3. \A f \in Field : TestPos(f) \in 1 .. Len(testperm) /\ testperm[TestPos(f)] = f
  BY <1>1, <1>2 DEF TestPos
<1>4. \A k \in 1 .. Len(testperm) : testperm[k] \in Field
  BY ElementOfSeq DEF TypeOK
<1>5. \A k \in 1 .. Len(testperm) : TestPos(testperm[k]) = k
  BY <1>3, <1>4 DEF Permuted, Once
<1>6. QED
  BY <1>3, <1>4, <1>5

\* Every reference star that a field star is matched to is among those tested.
LEMMA RefPosKnown ==
    ASSUME TypeOK, Permuted, MatchedNearest
    PROVE  /\ DOMAIN refperm = 1 .. Len(refperm) /\ Len(refperm) \in Nat
           /\ 1 .. Len(refperm) \subseteq Refs
           /\ \A k \in 1 .. Len(refperm) : refperm[k] \in Refs
           /\ \A j \in 1 .. Len(theta) : theta[j] > 0 =>
                 /\ RefPos(theta[j]) \in 1 .. Len(refperm) /\ RefPos(theta[j]) \in 1 .. NR
                 /\ refperm[RefPos(theta[j])] = theta[j]
<1>1. DOMAIN refperm = 1 .. Len(refperm) /\ Len(refperm) \in Nat
  BY LenProperties DEF TypeOK
<1>2. Len(refperm) <= NRall
  BY OnceIsShort, SizeAssumption DEF TypeOK, Permuted, Refs
<1>3. \A k \in 1 .. Len(refperm) : refperm[k] \in Refs
  BY ElementOfSeq DEF TypeOK
<1>4. ASSUME NEW j \in 1 .. Len(theta), theta[j] > 0
      PROVE  /\ RefPos(theta[j]) \in 1 .. Len(refperm) /\ RefPos(theta[j]) \in 1 .. NR
             /\ refperm[RefPos(theta[j])] = theta[j]
  <2>1. PICK k \in 1 .. NR : theta[j] = refperm[k]
    BY <1>4 DEF MatchedNearest
  <2>2. k \in 1 .. Len(refperm)
    BY <1>1 DEF TypeOK
  <2>3. RefPos(theta[j]) \in 1 .. Len(refperm) /\ refperm[RefPos(theta[j])] = theta[j]
    BY <2>1, <2>2, <1>1 DEF RefPos
  <2>4. RefPos(theta[j]) = k
    BY <2>1, <2>2, <2>3 DEF Permuted, Once
  <2>5. QED
    BY <2>3, <2>4
<1>5. QED
  BY <1>1, <1>2, <1>3, <1>4, SizeAssumption DEF Refs

\* fixup_theta reports on a field star what its test gave.
LEMMA FixupKnown ==
    ASSUME TypeOK, Lists, MatchedNearest, Permuted, phase # "find", NEW f \in Field
    PROVE  /\ Fixup[f] \in 1 .. Len(refperm) \cup -5 .. -1
           /\ Fixup[f] > 0 =>
                 /\ TestPos(f) \in 1 .. Len(theta) /\ theta[TestPos(f)] > 0
                 /\ Fixup[f] \in 1 .. NR /\ refperm[Fixup[f]] = theta[TestPos(f)]
<1> DEFINE k == TestPos(f)
           tail == IF logodds < LogBail THEN BAILEDOUT ELSE STOPPED
<1>1. k \in 1 .. Len(testperm) /\ Len(testperm) \in Nat /\ k \in Nat
  BY TestPosKnown, LenProperties DEF TypeOK
<1>2. Fixup[f] = IF k <= NT
                 THEN IF k > Len(theta) THEN tail
                      ELSE IF theta[k] < 0 THEN theta[k] ELSE RefPos(theta[k])
                 ELSE FILTERED
  BY DEF Fixup, TestPos, RefPos
<1>3. tail \in {-4, -5} /\ FILTERED = -3 /\ Len(theta) \in Nat
  BY ThetaEntries DEF BAILEDOUT, STOPPED, FILTERED
<1> HIDE DEF k, tail
<1>4. CASE k <= NT /\ k \in 1 .. Len(theta) /\ theta[k] > 0
  <2>1. Fixup[f] = RefPos(theta[k])
    BY <1>1, <1>2, <1>3, <1>4, ThetaEntries
  <2>2. QED
    BY <2>1, <1>4, RefPosKnown DEF k
<1>5. CASE k <= NT /\ k \in 1 .. Len(theta) /\ ~(theta[k] > 0)
  <2>1. Fixup[f] = theta[k] /\ theta[k] \in {-1, -2}
    BY <1>1, <1>2, <1>3, <1>5, ThetaEntries DEF DISTRACTOR, CONFLICT
  <2>2. QED
    BY <2>1
<1>6. CASE ~(k <= NT) \/ k \notin 1 .. Len(theta)
  <2>1. Fixup[f] \in {-3, -4, -5}
    BY <1>1, <1>2, <1>3, <1>6
  <2>2. QED
    BY <2>1
<1>7. QED
  BY <1>4, <1>5, <1>6

\* The stars of the quad whose reference is in the image, and which it is.
OfQuad(f, k) == \E j \in DOMAIN QuadField : QuadField[j] = f /\ refperm[k] = QuadStar[j]
InQuad(f) == ~fake /\ \E k \in 1 .. Len(refperm) : OfQuad(f, k)

\* What is known of the quad.
LEMMA QuadKnown ==
    /\ DOMAIN QuadField = DOMAIN QuadStar
    /\ \A j \in DOMAIN QuadField : /\ QuadField[j] \in Field /\ QuadField[j] \in Range(QuadField)
                                   /\ QuadStar[j] \in Range(QuadStar)
    /\ \A i, j \in DOMAIN QuadField : QuadField[i] = QuadField[j] <=> i = j
    /\ \A i, j \in DOMAIN QuadField : QuadStar[i] = QuadStar[j] <=> i = j
<1>1. /\ DOMAIN QuadField = 1 .. Len(QuadField) /\ DOMAIN QuadStar = 1 .. Len(QuadStar)
      /\ Len(QuadField) = Len(QuadStar)
  BY QuadAssumption, LenProperties
<1>2. \A j \in DOMAIN QuadField : QuadField[j] \in Field
  BY <1>1, QuadAssumption, ElementOfSeq
<1>3. \A j \in DOMAIN QuadField : QuadField[j] \in Range(QuadField) /\ QuadStar[j] \in Range(QuadStar)
  BY <1>1 DEF Range
<1>4. QED
  BY <1>1, <1>2, <1>3, QuadAssumption DEF IsInjective

\* An accepted match numbers the references by refperm, and gives each field
\* star what the quad or its test says.
LEMMA AcceptGives ==
    ASSUME TypeOK, Permuted, MatchedNearest, Accept
    PROVE  /\ refs' \in [Refs -> Refs]
           /\ \A k \in 1 .. Len(refperm) : refs'[k] = refperm[k]
           /\ DOMAIN etheta' = Field
           /\ \A f \in Field : ~InQuad(f) => etheta'[f] = Fixup[f]
           /\ \A f \in Field : InQuad(f) =>
                 etheta'[f] \in 1 .. Len(refperm) /\ OfQuad(f, etheta'[f])
<1>1. DOMAIN refperm = 1 .. Len(refperm) /\ 1 .. Len(refperm) \subseteq Refs
      /\ \A k \in 1 .. Len(refperm) : refperm[k] \in Refs
  BY RefPosKnown
<1>2. refs' = [k \in Refs |-> IF k \in DOMAIN refperm THEN refperm[k] ELSE refs[k]]
  BY DEF Accept
<1>3. refs' \in [Refs -> Refs]
  <2>1. \A k \in Refs : refs[k] \in Refs
    BY DEF TypeOK
  <2>2. QED
    BY <1>1, <1>2, <2>1
<1>4. \A k \in 1 .. Len(refperm) : refs'[k] = refperm[k]
  BY <1>1, <1>2
<1>5. \A f \in Field :
         (\E j \in DOMAIN QuadField, k \in DOMAIN refperm :
             QuadField[j] = f /\ refs'[k] = QuadStar[j])
           <=> \E k \in 1 .. Len(refperm) : OfQuad(f, k)
  BY <1>1, <1>4 DEF OfQuad
<1>6. \A f \in Field : etheta'[f] =
         IF InQuad(f)
         THEN CHOOSE k \in DOMAIN refperm :
                 \E j \in DOMAIN QuadField : QuadField[j] = f /\ refs'[k] = QuadStar[j]
         ELSE Fixup[f]
  <2> TAKE f \in Field
  <2> DEFINE Has == \E j \in DOMAIN QuadField, k \in DOMAIN refperm :
                       QuadField[j] = f /\ refs'[k] = QuadStar[j]
             Of == CHOOSE k \in DOMAIN refperm :
                      \E j \in DOMAIN QuadField : QuadField[j] = f /\ refs'[k] = QuadStar[j]
  <2>1. etheta'[f] = IF ~fake /\ Has THEN Of ELSE Fixup[f]
    BY DEF Accept, ReinsertQuad
  <2>2. Has <=> \E k \in 1 .. Len(refperm) : OfQuad(f, k)
    BY <1>5
  <2>3. InQuad(f) <=> ~fake /\ Has
    BY <2>2 DEF InQuad
  <2> HIDE DEF Has, Of
  <2>4. etheta'[f] = IF InQuad(f) THEN Of ELSE Fixup[f]
    BY <2>1, <2>3
  <2>5. QED
    BY <2>4 DEF Of
<1>7. ASSUME NEW f \in Field, InQuad(f)
      PROVE  etheta'[f] \in 1 .. Len(refperm) /\ OfQuad(f, etheta'[f])
  <2> DEFINE Good(k) == \E j \in DOMAIN QuadField : QuadField[j] = f /\ refs'[k] = QuadStar[j]
  <2>1. \E k \in DOMAIN refperm : Good(k)
    BY <1>1, <1>4, <1>7 DEF InQuad, OfQuad
  <2>2. etheta'[f] = CHOOSE k \in DOMAIN refperm : Good(k)
    BY <1>6, <1>7
  <2>3. etheta'[f] \in DOMAIN refperm /\ Good(etheta'[f])
    BY <2>1, <2>2
  <2>4. QED
    BY <2>3, <1>1, <1>4 DEF OfQuad
<1>8. DOMAIN etheta' = Field
  BY DEF Accept, ReinsertQuad
<1>9. QED
  BY <1>3, <1>4, <1>6, <1>7, <1>8

\* The correspondences of an accepted match name the right stars.
LEMMA AcceptCorresponds ==
    ASSUME TypeOK, IInv, Accept
    PROVE  Correspond' /\ etheta' \in [Field -> Int]
<1>1. Lists /\ OneMatchPerReference /\ MatchedNearest /\ Permuted /\ QuadApart
  BY DEF IInv
<1>2. /\ testperm' = testperm /\ refperm' = refperm /\ theta' = theta /\ near' = near
      /\ fake' = fake /\ phase = "verified"
  BY DEF Accept, setup, testing
<1>3. /\ \A k \in 1 .. Len(refperm) : refs'[k] = refperm[k]
      /\ DOMAIN etheta' = Field
      /\ \A f \in Field : ~InQuad(f) => etheta'[f] = Fixup[f]
      /\ \A f \in Field : InQuad(f) =>
            etheta'[f] \in 1 .. Len(refperm) /\ OfQuad(f, etheta'[f])
  BY <1>1, AcceptGives
<1>4. /\ DOMAIN refperm = 1 .. Len(refperm) /\ Len(refperm) \in Nat
      /\ DOMAIN testperm = 1 .. Len(testperm) /\ DOMAIN theta = 1 .. Len(theta)
      /\ Len(theta) \in Nat /\ Len(testperm) \in Nat /\ NR \in Nat /\ NR <= Len(refperm)
      /\ NT \in Nat /\ NT <= Len(testperm) /\ Len(theta) <= NT
  BY <1>1, RefPosKnown, ThetaEntries, LenProperties DEF TypeOK, Lists
<1>5. /\ \A f \in Field : TestPos(f) \in 1 .. Len(testperm) /\ testperm[TestPos(f)] = f
      /\ \A k \in 1 .. Len(testperm) : testperm[k] \in Field /\ TestPos(testperm[k]) = k
  BY <1>1, <1>2, TestPosKnown
<1>6. \A f \in Field :
         /\ Fixup[f] \in 1 .. Len(refperm) \cup -5 .. -1
         /\ Fixup[f] > 0 => /\ TestPos(f) \in 1 .. Len(theta) /\ theta[TestPos(f)] > 0
                            /\ Fixup[f] \in 1 .. NR
                            /\ refperm[Fixup[f]] = theta[TestPos(f)]
  BY <1>1, <1>2, FixupKnown
<1>7. \A f \in Field : etheta'[f] \in 1 .. Len(refperm) \cup -5 .. -1
  BY <1>3, <1>6
<1>8. Range(testperm) = Field
  BY <1>4, <1>5 DEF Range
<1>9. ASSUME NEW f \in Field, NEW g \in Field, etheta'[f] > 0, etheta'[f] = etheta'[g]
      PROVE  f = g
  <2>1. CASE InQuad(f) /\ InQuad(g)
    <3>1. PICK i \in DOMAIN QuadField :
             QuadField[i] = f /\ refperm[etheta'[f]] = QuadStar[i]
      BY <2>1, <1>3 DEF OfQuad
    <3>2. PICK j \in DOMAIN QuadField :
             QuadField[j] = g /\ refperm[etheta'[f]] = QuadStar[j]
      BY <2>1, <1>3, <1>9 DEF OfQuad
    <3>3. QuadStar[i] = QuadStar[j]
      BY <3>1, <3>2
    <3>4. i = j
      BY <3>3, QuadKnown
    <3>5. QED
      BY <3>1, <3>2, <3>4
  <2>2. CASE ~InQuad(f) /\ ~InQuad(g)
    <3>1. Fixup[f] > 0 /\ Fixup[f] = Fixup[g]
      BY <2>2, <1>3, <1>9
    <3>2. /\ TestPos(f) \in 1 .. Len(theta) /\ theta[TestPos(f)] > 0
          /\ TestPos(g) \in 1 .. Len(theta) /\ theta[TestPos(f)] = theta[TestPos(g)]
      BY <3>1, <1>6
    <3>3. TestPos(f) = TestPos(g)
      BY <3>2, <1>1, <1>4 DEF OneMatchPerReference
    <3>4. QED
      BY <3>3, <1>5
  <2>3. ASSUME NEW a \in Field, NEW b \in Field, InQuad(a), ~InQuad(b), etheta'[b] > 0,
               etheta'[a] = etheta'[b]
        PROVE  FALSE
    <3>1. PICK i \in DOMAIN QuadField :
             QuadField[i] = a /\ refperm[etheta'[a]] = QuadStar[i]
      BY <2>3, <1>3 DEF OfQuad
    <3>2. etheta'[a] \in 1 .. NR
      BY <2>3, <1>3, <1>6
    <3>3. refperm[etheta'[a]] \in Range(QuadStar) /\ ~fake
      BY <3>1, <2>3, QuadKnown DEF InQuad
    <3>4. QED
      BY <3>2, <3>3, <1>1 DEF QuadApart
  <2>4. QED
    BY <2>1, <2>2, <2>3, <1>9
<1>10. ASSUME NEW k \in 1 .. Len(theta), etheta'[testperm[k]] > 0
       PROVE  refs'[etheta'[testperm[k]]] = near[k]
  <2>1. k \in 1 .. Len(testperm) /\ k \in 1 .. NT
    BY <1>4
  <2>2. testperm[k] \in Field /\ TestPos(testperm[k]) = k
    BY <2>1, <1>5
  <2>3. ~InQuad(testperm[k])
    <3>1. InQuad(testperm[k]) => ~fake /\ testperm[k] \in Range(QuadField)
      BY QuadKnown DEF InQuad, OfQuad
    <3>2. QED
      BY <3>1, <2>1, <1>1 DEF QuadApart
  <2>4. etheta'[testperm[k]] = Fixup[testperm[k]]
    BY <2>2, <2>3, <1>3
  <2>5. /\ etheta'[testperm[k]] \in 1 .. NR /\ theta[k] > 0
        /\ refperm[etheta'[testperm[k]]] = theta[k]
    BY <2>2, <2>4, <1>6, <1>10
  <2>6. etheta'[testperm[k]] \in 1 .. Len(refperm)
    BY <2>5, <1>4
  <2>7. theta[k] = near[k]
    BY <2>5, <1>1 DEF MatchedNearest
  <2>8. QED
    BY <2>5, <2>6, <2>7, <1>3
<1>11. ASSUME ~fake, NEW j \in DOMAIN QuadField, QuadStar[j] \in Range(refperm)
       PROVE  etheta'[QuadField[j]] > 0 /\ refs'[etheta'[QuadField[j]]] = QuadStar[j]
  <2> DEFINE f == QuadField[j]
  <2>1. f \in Field
    BY QuadKnown
  <2>2. PICK k \in 1 .. Len(refperm) : refperm[k] = QuadStar[j]
    BY <1>4, <1>11 DEF Range
  <2>3. InQuad(f)
    BY <2>2, <1>11 DEF InQuad, OfQuad
  <2>4. etheta'[f] \in 1 .. Len(refperm) /\ OfQuad(f, etheta'[f])
    BY <2>1, <2>3, <1>3
  <2>5. PICK i \in DOMAIN QuadField : QuadField[i] = f /\ refperm[etheta'[f]] = QuadStar[i]
    BY <2>4 DEF OfQuad
  <2>6. i = j
    BY <2>5, QuadKnown
  <2>7. QED
    BY <2>4, <2>5, <2>6, <1>3
<1>12. Correspond'
  <2> DEFINE e == etheta'
  <2>1. \A f \in Field : e[f] \in DOMAIN refperm \cup -5 .. -1
    BY <1>4, <1>7
  <2>2. \A k \in DOMAIN theta : e[testperm[k]] > 0 => refs'[e[testperm[k]]] = near[k]
    BY <1>4, <1>10
  <2>3. ~fake => \A j \in DOMAIN QuadField : QuadStar[j] \in Range(refperm) =>
           e[QuadField[j]] > 0 /\ refs'[e[QuadField[j]]] = QuadStar[j]
    BY <1>11
  <2>4. QED
    BY <1>2, <1>8, <1>9, <2>1, <2>2, <2>3 DEF Correspond
<1>13. etheta' \in [Field -> Int]
  <2>1. \A f \in Field : etheta'[f] \in Int
    BY <1>4, <1>7
  <2>2. etheta' = [f \in Field |-> etheta'[f]]
    BY DEF Accept, ReinsertQuad
  <2>3. QED
    BY <2>1, <2>2
<1>14. QED
  BY <1>12, <1>13

\* The sorted result still has a reference star in every place.
LEMMA SortKeepsTypes ==
    ASSUME TypeOK, Permuted, MatchedNearest, Numbered, AcceptedCorrespond, SortRefs
    PROVE  refs' \in [Refs -> Refs] /\ etheta' \in [Field -> Int]
<1>1. PICK o \in RefOrders :
         LET column == Filter(o, Range(refperm))
             perm == [k \in DOMAIN column |->
                         CHOOSE j \in DOMAIN refperm : refs[j] = column[k]] IN
         /\ refs' = [k \in Refs |-> IF k \in DOMAIN perm THEN refs[perm[k]] ELSE refs[k]]
         /\ etheta' = [f \in Field |-> IF etheta[f] < 0 THEN etheta[f]
                                       ELSE perm[etheta[f]]]
  BY DEF SortRefs
<1> DEFINE column == Filter(o, Range(refperm))
           perm == [k \in DOMAIN column |->
                       CHOOSE j \in DOMAIN refperm : refs[j] = column[k]]
           N == Len(refperm)
<1>2. /\ o \in Seq(Refs) /\ Once(o) /\ Len(o) = NRall
      /\ \A r \in Refs : \E k \in 1 .. NRall : o[k] = r
  BY OrdersKnown
<1>3. /\ DOMAIN refperm = 1 .. N /\ N \in Nat /\ 1 .. N \subseteq Refs
      /\ \A k \in 1 .. N : refperm[k] \in Refs
  BY RefPosKnown
<1>4. phase = "accepted" /\ \A k \in 1 .. N : refs[k] = refperm[k]
  BY DEF SortRefs, Numbered
<1>5. /\ column \in Seq(Refs)
      /\ \A k \in 1 .. Len(column) : column[k] \in Range(refperm)
  BY <1>2, Filtering
<1>6. Len(column) = N
  <2> DEFINE A == {n \in 1 .. NRall : o[n] \in Range(refperm)}
             g == [n \in A |-> o[n]]
             h == [k \in 1 .. N |-> refperm[k]]
  <2>1. Len(column) = Cardinality(A)
    BY <1>2, FilterDistinct
  <2>2. IsFiniteSet(1 .. N) /\ Cardinality(1 .. N) = N
    BY <1>3, IntervalSize
  <2>3. Range(refperm) \subseteq Refs /\ \A x \in Range(refperm) : \E k \in 1 .. N : refperm[k] = x
    BY <1>3 DEF Range
  <2>4. \A k \in 1 .. N : refperm[k] \in Range(refperm)
    BY <1>3 DEF Range
  <2>5. h \in Injection(1 .. N, Range(refperm)) /\ h \in Surjection(1 .. N, Range(refperm))
    <3>1. h \in [1 .. N -> Range(refperm)]
      BY <2>4
    <3>2. \A i, j \in 1 .. N : h[i] = h[j] => i = j
      BY DEF Permuted, Once
    <3>3. \A x \in Range(refperm) : \E k \in 1 .. N : h[k] = x
      BY <2>3
    <3> HIDE DEF h
    <3>4. QED
      BY <3>1, <3>2, <3>3 DEF Injection, Surjection, IsInjective
  <2>6. IsFiniteSet(Range(refperm)) /\ Cardinality(Range(refperm)) = N
    <3> HIDE DEF h
    <3>1. /\ IsFiniteSet(Range(refperm))
          /\ Cardinality(Range(refperm)) = Cardinality(1 .. N)
      BY <2>2, <2>5, FS_Surjection
    <3>2. QED
      BY <3>1, <2>2
  <2>7. g \in Injection(A, Range(refperm)) /\ g \in Surjection(A, Range(refperm))
    <3>1. \A n \in A : n \in 1 .. NRall /\ o[n] \in Range(refperm)
      OBVIOUS
    <3>2. \A x \in Range(refperm) : \E n \in A : o[n] = x
      BY <1>2, <2>3
    <3> HIDE DEF A
    <3>3. g \in [A -> Range(refperm)]
      BY <3>1
    <3>4. \A i, j \in A : g[i] = g[j] => i = j
      BY <3>1, <1>2 DEF Once
    <3>5. \A x \in Range(refperm) : \E n \in A : g[n] = x
      BY <3>2
    <3> HIDE DEF g
    <3>6. QED
      BY <3>3, <3>4, <3>5 DEF Injection, Surjection, IsInjective
  <2>8. Cardinality(A) = Cardinality(Range(refperm))
    <3> HIDE DEF A, g
    <3>1. QED
      BY <2>6, <2>7, FS_Injection
  <2>9. QED
    BY <2>1, <2>6, <2>8
<1> HIDE DEF column
<1>7. DOMAIN column = 1 .. N
  BY <1>5, <1>6, LenProperties
<1>8. ASSUME NEW k \in 1 .. N PROVE perm[k] \in 1 .. N
  <2>1. column[k] \in Range(refperm)
    BY <1>5, <1>6
  <2>2. PICK j \in DOMAIN refperm : refperm[j] = column[k]
    BY <2>1 DEF Range
  <2>3. j \in DOMAIN refperm /\ refs[j] = column[k]
    BY <2>2, <1>3, <1>4
  <2>4. perm[k] = CHOOSE i \in DOMAIN refperm : refs[i] = column[k]
    BY <1>7
  <2>5. perm[k] \in DOMAIN refperm
    BY <2>3, <2>4
  <2>6. QED
    BY <2>5, <1>3
<1>9. DOMAIN perm = 1 .. N
  BY <1>7
<1>10. /\ refs' = [k \in Refs |-> IF k \in DOMAIN perm THEN refs[perm[k]] ELSE refs[k]]
       /\ etheta' = [f \in Field |-> IF etheta[f] < 0 THEN etheta[f] ELSE perm[etheta[f]]]
  BY <1>1 DEF column
<1> HIDE DEF perm
<1>11. refs' \in [Refs -> Refs]
  <2>1. \A k \in Refs : refs[k] \in Refs
    BY DEF TypeOK
  <2>2. \A k \in Refs : (IF k \in DOMAIN perm THEN refs[perm[k]] ELSE refs[k]) \in Refs
    BY <2>1, <1>3, <1>8, <1>9
  <2>3. QED
    BY <2>2, <1>10
<1>12. etheta' \in [Field -> Int]
  <2>1. \A f \in Field : etheta[f] \in 1 .. N \cup -5 .. -1
    BY <1>3, <1>4 DEF AcceptedCorrespond, Correspond
  <2>2. ASSUME NEW f \in Field
        PROVE  (IF etheta[f] < 0 THEN etheta[f] ELSE perm[etheta[f]]) \in Int
    <3>1. CASE etheta[f] < 0
      BY <3>1, <2>1, <1>3
    <3>2. CASE ~(etheta[f] < 0)
      <4>1. etheta[f] \in 1 .. N
        BY <3>2, <2>1
      <4>2. QED
        BY <3>2, <4>1, <1>3, <1>8
    <3>3. QED
      BY <3>1, <3>2
  <2>3. QED
    BY <2>2, <1>10
<1>13. QED
  BY <1>11, <1>12

-----------------------------------------------------------------------------
(* The invariant *)

\* The initial states satisfy the invariant.
LEMMA InitInvariant ==
    ASSUME Init
    PROVE  TypeOK /\ IInv
<1>1. /\ <<>> \in Seq(Field) /\ <<>> \in Seq(Refs) /\ <<>> \in Seq(Int)
      /\ <<>> \in Seq(Refs \cup {DISTRACTOR, CONFLICT}) /\ <<>> \in Seq(Refs \cup {NONE})
      /\ Len(<<>>) = 0
  BY EmptySeq
<1>2. TypeOK
  <2>1. /\ testperm \in Seq(Field) /\ NT \in 0 .. Len(testperm)
        /\ refperm \in Seq(Refs) /\ NR \in 0 .. Len(refperm)
        /\ theta \in Seq(Refs \cup {DISTRACTOR, CONFLICT})
        /\ near \in Seq(Refs \cup {NONE}) /\ fg \in Seq(Int)
    BY <1>1 DEF Init
  <2>2. rmatches \in [Refs -> Nat] /\ refs \in [Refs -> Refs] /\ etheta \in [Field -> Int]
    BY DEF Init, FILTERED
  <2>3. /\ phase = "find" /\ fake \in BOOLEAN /\ mu \in Nat /\ logodds \in Int
        /\ best \in [odds : Int, i : Nat] /\ jumped \in BOOLEAN
    <3>1. best = [odds |-> -1000, i |-> 0]
      BY DEF Init, Lowest
    <3>2. best \in [odds : Int, i : Nat]
      BY <3>1
    <3>3. phase = "find" /\ fake \in BOOLEAN /\ mu = 0 /\ logodds = 0 /\ jumped = FALSE
      BY Zenon DEF Init
    <3>4. mu \in Nat /\ logodds \in Int
      BY <3>3
    <3>5. jumped \in BOOLEAN
      BY <3>3, Zenon
    <3>6. QED
      BY <3>2, <3>3, <3>4, <3>5, Zenon
  <2>4. QED
    BY <2>1, <2>2, <2>3 DEF TypeOK
<1>3. Lists /\ MatchedNearest /\ Permuted /\ QuadApart /\ Numbered /\ AcceptedCorrespond
  BY <1>1 DEF Init, Lists, MatchedNearest, Permuted, QuadApart, Numbered,
     AcceptedCorrespond, Once
<1>4. OneMatchPerReference
  <2>1. Matched(0) = 0
    BY HitsCount DEF Matched, Hits
  <2>2. DOMAIN theta = {}
    BY DEF Init
  <2>3. QED
    BY <1>1, <2>1, <2>2 DEF Init, OneMatchPerReference
<1>5. LogOddsCoverScore
  <2>1. Terms \in Seq(Int) /\ Len(Terms) = 0
    <3>1. Len(theta) = 0
      BY <1>1 DEF Init
    <3>2. QED
      BY <1>2, <1>3, <1>4, <3>1, TermsKnown
  <2>2. Score = 0
    BY <2>1, TotalType DEF Score
  <2>3. QED
    BY <2>2 DEF Init, LogOddsCoverScore
<1>6. QED
  BY <1>2, <1>3, <1>4, <1>5 DEF IInv

\* Finding the stars, before the first one is tested.
LEMMA FindKeeps ==
    ASSUME TypeOK, IInv, FindStars
    PROVE  TypeOK' /\ IInv'
<1>1. PICK outside \in SUBSET Refs, far \in SUBSET Refs, ro \in RefOrders :
         GetRefStars(Refs \ outside, Refs \ far, ro)
  BY DEF FindStars
<1>2. PICK double \in SUBSET Field, away \in SUBSET Field, to \in TestOrders :
         GetTestStars(Field \ double, Field \ away, to)
  BY DEF FindStars
<1>3. fake \in BOOLEAN /\ fake' = fake
  BY DEF TypeOK, FindStars
<1>4. /\ testperm' \in Seq(Field) /\ NT' \in 0 .. Len(testperm') /\ Once(testperm')
      /\ \A f \in Field : \E k \in 1 .. Len(testperm') : testperm'[k] = f
      /\ ~fake => \A k \in 1 .. NT' : testperm'[k] \notin Range(QuadField)
  BY <1>2, <1>3, TestStars
<1>5. /\ refperm' \in Seq(Refs) /\ NR' \in 0 .. Len(refperm') /\ Once(refperm')
      /\ ~fake => \A k \in 1 .. NR' : refperm'[k] \notin Range(QuadStar)
  BY <1>1, <1>3, RefStars
<1>6. phase = "find" /\ phase' = IF NR' = 0 \/ NT' = 0 THEN "none" ELSE "test"
  BY DEF FindStars
<1>7. /\ theta' = theta /\ near' = near /\ fg' = fg /\ rmatches' = rmatches /\ mu' = mu
      /\ logodds' = logodds /\ best' = best /\ jumped' = jumped
      /\ refs' = refs /\ etheta' = etheta
  BY DEF FindStars, testing
<1>8. TypeOK'
  BY <1>3, <1>4, <1>5, <1>6, <1>7 DEF TypeOK
<1>9. Len(theta) = 0 /\ Len(near) = 0 /\ Len(fg) = 0
  BY <1>6 DEF IInv, Lists
<1>10. Len(testperm') \in Nat /\ NT' \in Nat
  BY <1>4, LenProperties
<1>11. Lists'
  BY <1>6, <1>7, <1>9, <1>10 DEF Lists
<1>12. OneMatchPerReference' /\ LogOddsCoverScore'
  BY <1>7 DEF IInv, OneMatchPerReference, Matched, LogOddsCoverScore, Score, Terms
<1>13. MatchedNearest' /\ Numbered' /\ AcceptedCorrespond'
  BY <1>6, <1>7, <1>9 DEF MatchedNearest, Numbered, AcceptedCorrespond
<1>14. Permuted' /\ QuadApart'
  BY <1>3, <1>4, <1>5 DEF Permuted, QuadApart
<1>15. QED
  BY <1>8, <1>11, <1>12, <1>13, <1>14 DEF IInv

\* Testing a star.
LEMMA TestKeeps ==
    ASSUME TypeOK, IInv, TestStar
    PROVE  TypeOK' /\ IInv'
<1>1. /\ Lists /\ OneMatchPerReference /\ MatchedNearest /\ Permuted /\ QuadApart
      /\ LogOddsCoverScore
  BY DEF IInv
<1>2. /\ fake' = fake /\ testperm' = testperm /\ NT' = NT /\ refperm' = refperm /\ NR' = NR
      /\ refs' = refs /\ etheta' = etheta /\ phase = "test"
  BY DEF TestStar, setup
<1>3. /\ theta' \in Seq(Refs \cup {DISTRACTOR, CONFLICT})
      /\ near' \in Seq(Refs \cup {NONE}) /\ fg' \in Seq(Int)
      /\ rmatches' \in [Refs -> Nat] /\ mu' \in Nat
      /\ logodds' \in Int /\ best' \in [odds : Int, i : Nat] /\ jumped' \in BOOLEAN
      /\ phase' \in {"test", "verified"}
      /\ Lists'
  BY <1>1, TestKeepsLists
<1>4. TypeOK'
  BY <1>2, <1>3 DEF TypeOK
<1>5. OneMatchPerReference' /\ MatchedNearest' /\ LogOddsCoverScore'
  BY <1>1, TestKeepsMatches, TestKeepsNearest, TestKeepsOdds
<1>6. Permuted' /\ QuadApart' /\ Numbered' /\ AcceptedCorrespond'
  BY <1>1, <1>2, <1>3 DEF Permuted, QuadApart, Numbered, AcceptedCorrespond
<1>7. QED
  BY <1>3, <1>4, <1>5, <1>6 DEF IInv

\* After the tests nothing that the invariant is about changes but the result.
LEMMA ResultKeeps ==
    ASSUME TypeOK, IInv, Accept \/ Reject \/ SortRefs
    PROVE  TypeOK' /\ IInv'
<1>1. /\ Lists /\ OneMatchPerReference /\ MatchedNearest /\ Permuted /\ QuadApart
      /\ LogOddsCoverScore /\ Numbered /\ AcceptedCorrespond
  BY DEF IInv
<1>2. /\ fake' = fake /\ testperm' = testperm /\ NT' = NT /\ refperm' = refperm /\ NR' = NR
      /\ theta' = theta /\ near' = near /\ fg' = fg /\ rmatches' = rmatches /\ mu' = mu
      /\ logodds' = logodds /\ best' = best /\ jumped' = jumped
  BY DEF Accept, Reject, SortRefs, setup, testing
<1>3. phase # "find" /\ phase' \in {"accepted", "rejected", "sorted"}
  BY DEF Accept, Reject, SortRefs
<1>4. /\ Lists' /\ OneMatchPerReference' /\ MatchedNearest' /\ Permuted' /\ QuadApart'
      /\ LogOddsCoverScore'
  BY <1>1, <1>2, <1>3 DEF Lists, OneMatchPerReference, Matched, MatchedNearest, Permuted,
     QuadApart, LogOddsCoverScore, Score, Terms
<1>5. refs' \in [Refs -> Refs] /\ etheta' \in [Field -> Int]
  <2>1. CASE Accept
    BY <2>1, <1>1, AcceptGives, AcceptCorresponds
  <2>2. CASE Reject
    BY <2>2 DEF Reject, TypeOK
  <2>3. CASE SortRefs
    BY <2>3, <1>1, SortKeepsTypes
  <2>4. QED
    BY <2>1, <2>2, <2>3
<1>6. TypeOK'
  BY <1>2, <1>3, <1>5 DEF TypeOK
<1>7. Numbered' /\ AcceptedCorrespond'
  <2>1. CASE Accept
    BY <2>1, <1>1, <1>2, AcceptGives, AcceptCorresponds DEF Numbered, AcceptedCorrespond
  <2>2. CASE Reject \/ SortRefs
    <3>1. phase' # "accepted"
      BY <2>2 DEF Reject, SortRefs
    <3>2. QED
      BY <3>1 DEF Numbered, AcceptedCorrespond
  <2>3. QED
    BY <2>1, <2>2
<1>8. QED
  BY <1>4, <1>6, <1>7 DEF IInv

\* Types, and the invariant that is inductive.
THEOREM Invariant == Spec => [](TypeOK /\ IInv)
<1>1. Init => TypeOK /\ IInv
  BY InitInvariant
<1>2. TypeOK /\ IInv /\ [Next]_vars => (TypeOK /\ IInv)'
  <2> SUFFICES ASSUME TypeOK, IInv, [Next]_vars PROVE TypeOK' /\ IInv'
    OBVIOUS
  <2>1. CASE FindStars
    BY <2>1, FindKeeps
  <2>2. CASE TestStar
    BY <2>2, TestKeeps
  <2>3. CASE Accept \/ Reject \/ SortRefs
    BY <2>3, ResultKeeps
  <2>4. CASE UNCHANGED vars
    <3>1. /\ phase' = phase /\ fake' = fake /\ testperm' = testperm /\ NT' = NT
          /\ refperm' = refperm /\ NR' = NR /\ theta' = theta /\ near' = near /\ fg' = fg
          /\ rmatches' = rmatches /\ mu' = mu /\ logodds' = logodds /\ best' = best
          /\ jumped' = jumped /\ refs' = refs /\ etheta' = etheta
      BY <2>4 DEF vars, setup, testing
    <3>2. TypeOK'
      BY <3>1 DEF TypeOK
    <3>3. Lists' /\ OneMatchPerReference' /\ MatchedNearest' /\ LogOddsCoverScore'
      BY <3>1 DEF IInv, Lists, OneMatchPerReference, Matched, MatchedNearest,
         LogOddsCoverScore, Score, Terms
    <3>4. Permuted' /\ QuadApart' /\ Numbered' /\ AcceptedCorrespond'
      BY <3>1 DEF IInv, Permuted, QuadApart, Numbered, AcceptedCorrespond, Correspond
    <3>5. QED
      BY <3>2, <3>3, <3>4 DEF IInv
  <2>5. QED
    BY <2>1, <2>2, <2>3, <2>4 DEF Next
<1>3. QED
  BY <1>1, <1>2, PTL DEF Spec

\* Every variable has its type: a verification of any field, in any order.
THEOREM TypeCorrect == Spec => []TypeOK
<1>1. TypeOK /\ IInv => TypeOK
  OBVIOUS
<1>2. QED
  BY <1>1, Invariant, PTL

\* However often a reference star changes hands, theta and rmatches agree on
\* who has it, and mu counts the matches (real_verify_star_lists).
THEOREM MatchesAreOneToOne == Spec => []OneMatchPerReference
<1>1. TypeOK /\ IInv => OneMatchPerReference
  BY DEF IInv
<1>2. QED
  BY <1>1, Invariant, PTL

\* The log-odds of a hypothesis are never below the score of the matches it
\* ends with, and are that score unless a match jumped a distractor.
THEOREM OddsAreNotLost == Spec => []LogOddsCoverScore
<1>1. TypeOK /\ IInv => LogOddsCoverScore
  BY DEF IInv
<1>2. QED
  BY <1>1, Invariant, PTL

\* The correspondences of an accepted match name the stars that were matched,
\* after both lists were permuted, filtered and renumbered (fixup_theta).
THEOREM RightStars == Spec => []AcceptedCorrespond
<1>1. TypeOK /\ IInv => AcceptedCorrespond
  BY DEF IInv
<1>2. QED
  BY <1>1, Invariant, PTL

=================================================================================
