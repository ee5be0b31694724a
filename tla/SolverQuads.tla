------------------------------ MODULE SolverQuads ------------------------------
(***************************************************************************)
(* solver_run: which quads of stars of the field are tried against which   *)
(* index files, and in which order.  Field stars are numbered from 0 by    *)
(* brightness.  Each turn of the main loop adds one star, newpoint: first  *)
(* as star B of the diagonal A-B, then as an inner star C of the pairs     *)
(* seen before.  What is known of a pair is cached in its pquad, here      *)
(* scaleOk and inbox, from turn to turn; a run that starts at startobj > 0 *)
(* first rebuilds the cache.  The engine calls solver_run once for every   *)
(* depth of the job (Slices).                                              *)
(*                                                                         *)
(* The search of one quad in an index is a step that may match, and may    *)
(* end the search by solving the field; QuadSearch looks inside.           *)
(***************************************************************************)
EXTENDS Integers, Sequences, FiniteSetsExt

CONSTANTS
    NumStars,    \* number of stars of the field
    FieldXY,     \* position [x, y] of each star, on integer pixels
    Indexes,     \* index files: dimquads, and the range lo..hi of |AB|^2
    Slices,      \* startobj and endobj of each run; endobj 0 is "all"
    MinAB2,      \* quadsize_min squared
    MaxAB2,      \* quadsize_max squared; 0 is "no limit"
    Fudge,       \* tol * (sqrt(2) + tol) for codetol, in percent
    MaxObjs,     \* the 1000 objects a search is limited to
    MaxQuads,    \* maxquads; 0 is "no limit"
    MaxMatches,  \* maxmatches; 0 is "no limit"
    MatchBound   \* bound: quads of an index that match one quad of the field

Stars == 0 .. NumStars - 1

ASSUME FieldAssumption == NumStars \in Nat /\ FieldXY \in [Stars -> [x : Int, y : Int]]
ASSUME IndexAssumption == \A i \in DOMAIN Indexes : Indexes[i].dim \in 3 .. 5
\* The depths of a job are disjoint and ascend.
ASSUME SliceAssumption ==
    /\ Slices \in Seq([start : Nat, end : Nat])
    /\ \A j, k \in DOMAIN Slices :
          j < k => Slices[j].end # 0 /\ Slices[j].end <= Slices[k].start
ASSUME LimitAssumption ==
    {MinAB2, MaxAB2, Fudge, MaxObjs, MaxQuads, MaxMatches, MatchBound} \subseteq Nat

VARIABLES
    run,         \* the slice solver_run was called for last
    stage,       \* where solver_run is: idle (not running), point, diag, inside
    newpoint,    \* the star being added
    scaleOk,     \* the pairs A < B whose pquad has scale_ok
    inbox,       \* per pair, the stars its pquad has found inside the circle
    agenda,      \* the quads left to try in the loops of this phase
    quit_now, numtries, nummatches,
    tried        \* every quad tried so far, in all runs (history)

quadVars == <<run, stage, newpoint, scaleOk, inbox, agenda, quit_now, numtries,
              nummatches, tried>>

--------------------------------------------------------------------------------
Pair == {p \in Stars \X Stars : p[1] < p[2]}

Scale(p) == LET dx == FieldXY[p[2]].x - FieldXY[p[1]].x
                dy == FieldXY[p[2]].y - FieldXY[p[1]].y
            IN  dx * dx + dy * dy

\* The range over all indexes, tightened by the quad sizes asked for.
CheckScale(p) ==
    /\ \E i \in DOMAIN Indexes : Indexes[i].lo <= Scale(p)
    /\ \E i \in DOMAIN Indexes : Scale(p) <= Indexes[i].hi
    /\ MinAB2 <= Scale(p)
    /\ MaxAB2 = 0 \/ Scale(p) <= MaxAB2

FitsIndex(p, i) == Indexes[i].lo <= Scale(p) /\ Scale(p) <= Indexes[i].hi

\* Turned so that A is at (0,0) and B at (1,1), C has
\* x^2 - x + y^2 - y = 2 (|C|^2 - C.B) / |B|^2.
InCircle(p, c) ==
    LET cx == FieldXY[c].x - FieldXY[p[1]].x
        cy == FieldXY[c].y - FieldXY[p[1]].y
        bx == FieldXY[p[2]].x - FieldXY[p[1]].x
        by == FieldXY[p[2]].y - FieldXY[p[1]].y
    IN  200 * (cx * cx + cy * cy - cx * bx - cy * by) <= Fudge * Scale(p)

CheckInbox(p, candidates) ==
    {c \in candidates \ {p[1], p[2]} : InCircle(p, c)}

\* A quad of index i: the diagonal A-B and the set of its inner stars.
Quad == [i : DOMAIN Indexes, p : Pair, inner : SUBSET Stars]

Start == Slices[run].start
Cut(n) == IF n # 0 /\ n < NumStars THEN n ELSE NumStars
NumXY == IF MaxObjs < Cut(Slices[run].end) THEN MaxObjs ELSE Cut(Slices[run].end)

--------------------------------------------------------------------------------
QuadsInit ==
    /\ run = 0 /\ stage = "idle" /\ newpoint = 0
    /\ scaleOk = {} /\ inbox = [p \in Pair |-> {}]
    /\ agenda = {} /\ tried = {}
    /\ quit_now = FALSE /\ numtries = 0 /\ nummatches = 0

\* Mutants of Prime: nothing is primed; the last star is not looked at.
PrimeNothing == scaleOk' = {} /\ inbox' = [p \in Pair |-> {}]
PrimeShort ==
    LET primed == {p \in Pair : p[2] < Start' /\ CheckScale(p)}
    IN  /\ scaleOk' = primed
        /\ inbox' = [p \in Pair |->
                        IF p \in primed THEN CheckInbox(p, 0 .. Start' - 2) ELSE {}]

\* pquads is allocated afresh; the pairs below startobj are primed.
Prime ==
    LET primed == {p \in Pair : p[2] < Start' /\ CheckScale(p)}
    IN  /\ scaleOk' = primed
        /\ inbox' = [p \in Pair |->
                        IF p \in primed THEN CheckInbox(p, 0 .. Start' - 1) ELSE {}]

\* solve_fields resets the counters and calls solver_run, which returns at
\* once when the field has no star of this slice.
StartRun ==
    /\ stage = "idle" /\ run < Len(Slices)
    /\ run' = run + 1
    /\ quit_now' = FALSE /\ numtries' = 0 /\ nummatches' = 0
    /\ IF Start' >= Cut(Slices[run'].end)
          THEN UNCHANGED <<stage, newpoint, scaleOk, inbox>>
          ELSE stage' = "point" /\ newpoint' = Start' /\ Prime
    /\ UNCHANGED <<agenda, tried>>

EndRun ==
    /\ stage' = "idle" /\ agenda' = {}
    /\ UNCHANGED <<run, newpoint, scaleOk, inbox, quit_now, numtries, nummatches, tried>>

LastPoint == stage = "point" /\ newpoint >= NumXY /\ EndRun

\* The timer callback answers 0: the field is solved, or cancelled.
Cancel == stage = "point" /\ newpoint < NumXY /\ EndRun

\* The stars newpoint can be diagonal to, index by index.
DiagAgenda(ok, box) ==
    {q \in [i : DOMAIN Indexes, p : Pair \cap ((0 .. newpoint - 1) \X {newpoint}),
            inner : SUBSET (0 .. newpoint - 1)] :
        /\ q.p \in ok /\ FitsIndex(q.p, q.i)
        /\ q.inner \in kSubset(Indexes[q.i].dim - 2, box[q.p])}

\* The timer callback may find a time limit hit, and sets quit_now.
BeginPoint ==
    /\ stage = "point" /\ newpoint < NumXY
    /\ quit_now' \in BOOLEAN
    /\ LET fresh == {p \in Pair : p[2] = newpoint /\ CheckScale(p)}
       IN  /\ scaleOk' = scaleOk \cup fresh
           /\ inbox' = [p \in Pair |->
                  IF p \in fresh THEN CheckInbox(p, 0 .. newpoint) ELSE inbox[p]]
    /\ agenda' = DiagAgenda(scaleOk', inbox')
    /\ stage' = "diag"
    /\ UNCHANGED <<run, newpoint, numtries, nummatches, tried>>

\* Mutant of InsideAgenda: any stars inside the pair's circle make a quad.
InsideAnyC(box) ==
    {q \in [i : DOMAIN Indexes, p : Pair \cap ((0 .. newpoint - 1) \X (0 .. newpoint - 1)),
            inner : SUBSET (0 .. newpoint)] :
        /\ q.p \in scaleOk /\ FitsIndex(q.p, q.i)
        /\ newpoint \in box[q.p]
        /\ q.inner \in kSubset(Indexes[q.i].dim - 2, box[q.p])}

\* Quads of the pairs seen before that have newpoint, C, as an inner star.
InsideAgenda(box) ==
    {q \in [i : DOMAIN Indexes, p : Pair \cap ((0 .. newpoint - 1) \X (0 .. newpoint - 1)),
            inner : {s \cup {newpoint} : s \in SUBSET (0 .. newpoint - 1)}] :
        /\ q.p \in scaleOk /\ FitsIndex(q.p, q.i)
        /\ newpoint \in box[q.p]
        /\ q.inner \in kSubset(Indexes[q.i].dim - 2, box[q.p])}

\* check_inbox of newpoint for the pairs seen before.
TurnInside ==
    /\ stage = "diag" /\ agenda = {} /\ ~quit_now
    /\ inbox' = [p \in Pair |->
           IF p \in scaleOk /\ p[2] < newpoint
              THEN inbox[p] \cup CheckInbox(p, {newpoint}) ELSE inbox[p]]
    /\ agenda' = InsideAgenda(inbox')
    /\ stage' = "inside"
    /\ UNCHANGED <<run, newpoint, scaleOk, quit_now, numtries, nummatches, tried>>

\* The order of the loops: by index, then A, then the inner stars for a new
\* diagonal; by A, B, then index for a new inner star.
Lower(a, b) == \E n \in DOMAIN a : a[n] < b[n] /\ \A m \in 1 .. n - 1 : a[m] = b[m]
Loops(q) == IF stage = "diag" THEN <<q.i, q.p[1]>> ELSE <<q.p[1], q.p[2], q.i>>
TriedBefore(q, r) ==
    \/ Lower(Loops(q), Loops(r))
    \/ /\ Loops(q) = Loops(r)
       /\ \E x \in q.inner \ r.inner : \A y \in r.inner \ q.inner : x < y

\* try_all_codes: may match quads of the index, one of which may solve the field.
TryQuad ==
    /\ ~quit_now
    /\ \E q \in agenda :
          /\ \A r \in agenda \ {q} : TriedBefore(q, r)
          /\ agenda' = agenda \ {q}
          /\ tried' = tried \cup {q}
    /\ numtries' = numtries + 1
    /\ \E matches \in 0 .. MatchBound :
          /\ nummatches' = nummatches + matches
          /\ quit_now' \in BOOLEAN /\ (quit_now' => matches > 0)
    /\ UNCHANGED <<run, stage, newpoint, scaleOk, inbox>>

QuitPoint == stage \in {"diag", "inside"} /\ quit_now /\ EndRun

LimitHit ==
    \/ MaxQuads # 0 /\ numtries >= MaxQuads
    \/ MaxMatches # 0 /\ nummatches >= MaxMatches

StopAtLimit == stage = "inside" /\ agenda = {} /\ ~quit_now /\ LimitHit /\ EndRun

NextPoint ==
    /\ stage = "inside" /\ agenda = {} /\ ~quit_now /\ ~LimitHit
    /\ newpoint' = newpoint + 1
    /\ stage' = "point"
    /\ UNCHANGED <<run, scaleOk, inbox, agenda, quit_now, numtries, nummatches, tried>>

Finished == stage = "idle" /\ run = Len(Slices) /\ UNCHANGED quadVars

QuadsNext == \/ StartRun \/ LastPoint \/ Cancel \/ BeginPoint \/ TurnInside \/ TryQuad
             \/ QuitPoint \/ StopAtLimit \/ NextPoint \/ Finished

QuadsSpec == QuadsInit /\ [][QuadsNext]_quadVars

--------------------------------------------------------------------------------
\* Well-typed state.
QuadsTypeOK ==
    /\ run \in 0 .. Len(Slices)
    /\ stage \in {"idle", "point", "diag", "inside"}
    /\ stage = "idle" \/ run > 0
    /\ newpoint \in 0 .. NumStars
    /\ scaleOk \subseteq Pair /\ inbox \in [Pair -> SUBSET Stars]
    /\ agenda \subseteq Quad /\ tried \subseteq Quad
    /\ quit_now \in BOOLEAN /\ numtries \in Nat /\ nummatches \in Nat

\* The stars of a quad are among the n brightest.
Within(q, n) == q.p[2] < n /\ q.inner \subseteq 0 .. n - 1

Legal(q) ==
    /\ CheckScale(q.p) /\ FitsIndex(q.p, q.i)
    /\ q.inner \subseteq CheckInbox(q.p, Stars)
    /\ Cardinality(q.inner) = Indexes[q.i].dim - 2

\* What the n brightest stars offer and the m brightest do not.
Due(m, n) ==
    {q \in [i : DOMAIN Indexes, p : Pair, inner : SUBSET (0 .. n - 1)] :
        q.p[2] < n /\ Legal(q) /\ ~Within(q, m)}

\* A pquad knows its pair as it would be computed afresh, for all the stars
\* before newpoint; the inner loops read it without looking again.
CacheIsRight ==
    stage = "point" =>
        \A p \in Pair : p[2] < newpoint =>
            /\ p \in scaleOk <=> CheckScale(p)
            /\ p \in scaleOk => inbox[p] = CheckInbox(p, 0 .. newpoint - 1)

\* When the loop gets to newpoint, the run has tried exactly the quads its
\* stars up to there form, and that no star before startobj formed alone:
\* none is forgotten at the seam of two depths, none is of a wrong index.
TriesAllQuads ==
    stage = "point" => {q \in tried : ~Within(q, Start)} = Due(Start, newpoint)

\* No quad is searched twice in the same index, in all the runs of a job.
EachQuadOnce == agenda \cap tried = {}

\* Bright stars first: a quad is never tried after one that needs a fainter star.
BrightFirst ==
    [][\A q \in tried' \ tried, r \in tried, n \in 0 .. NumStars :
          Within(q, n) => Within(r, n)]_quadVars
================================================================================
