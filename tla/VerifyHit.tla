------------------------------- MODULE VerifyHit -------------------------------
(***************************************************************************)
(* verify_hit: is the alignment that a matched quad proposes real?  The    *)
(* reference stars that fall in the image are the hypothesis; the stars of *)
(* the field are tested one by one, each against the reference star        *)
(* nearest to it, and the log-odds of the hypothesis are summed up.  Stars *)
(* that must not count (the quad itself, duplicates, stars too far from    *)
(* the quad) are moved to the end of a permutation and stay there, so that *)
(* fixup_theta can report on every star in the end.                        *)
(*                                                                         *)
(* Positions are abstract: a step picks the reference star nearest to the  *)
(* tested one (0 for none within five sigmas) and the log-odds fg of that  *)
(* match.  Log-odds are integers relative to the background, logbg.  Field *)
(* stars count from 1 in order of brightness, references from 1 in the     *)
(* order the star tree returns them.                                       *)
(***************************************************************************)
EXTENDS Ranking, Functions

CONSTANTS
    NTall,       \* stars of the field
    NRall,       \* reference stars in the bounding circle
    QuadField,   \* mo->field, mo->star: the stars of the matched quad
    QuadStar,
    LogD,        \* log-odds of a distractor when mu references are matched
    Fg,          \* log-odds of matches that may occur
    LogBail, LogAccept, LogStop,
    RefOrders,   \* the orders by sweep number, and the orders of field stars
    TestOrders,  \* uniformization leaves, that are tried
    MaxDropped,  \* bound: stars of either list the filters drop
    MaxTests,    \* bounds: stars tested, and reference stars they are tested
    MaxRefs      \* against

Field == 1 .. NTall
Refs  == 1 .. NRall

ASSUME SizeAssumption == NTall \in Nat /\ NRall \in Nat /\ Fg \subseteq Int
ASSUME QuadAssumption == /\ IsInjective(QuadField) /\ QuadField \in Seq(Field)
                         /\ IsInjective(QuadStar) /\ QuadStar \in Seq(Refs)
                         /\ Len(QuadField) = Len(QuadStar)
\* log(d + (1 - d) * mu / NR) grows with mu, ever more slowly.
ASSUME LogDAssumption ==
    /\ LogD \in [0 .. NRall + 1 -> Int]
    /\ \A m \in 0 .. NRall : LogD[m] < LogD[m + 1]
    /\ \A m \in 1 .. NRall : LogD[m + 1] - LogD[m] <= LogD[m] - LogD[m - 1]
ASSUME OddsAssumption == LogBail \in Int /\ LogAccept \in Int /\ LogStop \in Int
ASSUME OrderAssumption ==
    /\ \A o \in RefOrders : o \in Seq(Refs) /\ IsInjective(o) /\ Range(o) = Refs
    /\ \A o \in TestOrders : o \in Seq(Field) /\ IsInjective(o) /\ Range(o) = Field

NONE       == 0       \* a field star with no reference star near it
DISTRACTOR == -1
CONFLICT   == -2
FILTERED   == -3
BAILEDOUT  == -4
STOPPED    == -5
Lowest     == -1000   \* -LARGE_VAL

VARIABLES
    phase,      \* find, test, verified, accepted, sorted, rejected or none
    fake,       \* fake_match: an existing WCS is verified, there is no quad
    testperm, NT,        \* the first NT field stars of testperm are tested
    refperm, NR,         \* refperm has the references inside of the image
    theta,      \* per tested star its reference, or DISTRACTOR or CONFLICT
    near, fg,   \* per tested star the nearest reference, and its log-odds
    rmatches,   \* per reference the position in theta of its match, or 0
    mu,         \* references matched so far
    logodds, best,       \* best is the highest log-odds, and where
    jumped,     \* a match moved past a distractor to a later star (history)
    refs, etheta         \* the result: refstarid[], and theta by field star

setup   == <<fake, testperm, NT, refperm, NR>>
testing == <<theta, near, fg, rmatches, mu, logodds, best, jumped>>
vars    == <<phase, setup, testing, refs, etheta>>

--------------------------------------------------------------------------------
Init ==
    /\ phase = "find" /\ fake \in BOOLEAN
    /\ testperm = <<>> /\ NT = 0 /\ refperm = <<>> /\ NR = 0
    /\ theta = <<>> /\ near = <<>> /\ fg = <<>>
    /\ rmatches = [r \in Refs |-> 0]
    /\ mu = 0 /\ logodds = 0 /\ best = [odds |-> Lowest, i |-> 0] /\ jumped = FALSE
    /\ refs = [k \in Refs |-> k] /\ etheta = [f \in Field |-> FILTERED]

\* The first n of s, those in good before the others; the rest stays behind.
Partition(s, n, good) ==
    LET first == SubSeq(s, 1, n)
    IN  Filter(first, good) \o Filter(first, Range(first) \ good)
          \o SubSeq(s, n + 1, Len(s))
Count(s, n, good) == Cardinality({k \in 1 .. n : s[k] \in good})

\* verify_get_test_stars drops duplicates and the stars of the quad, and
\* verify_apply_ror what is outside of the radius of relevance.
GetTestStars(unique, close, order) ==
    LET keep == IF fake THEN unique ELSE unique \ Range(QuadField)
        s1   == Partition(order, NTall, keep)
        n1   == Count(order, NTall, keep)
    IN  IF fake THEN testperm' = s1 /\ NT' = n1
        ELSE testperm' = Partition(s1, n1, close) /\ NT' = Count(s1, n1, close)

GetRefStars(inside, close, order) ==
    LET keep == IF fake THEN Refs ELSE Refs \ Range(QuadStar)
        s0 == Filter(order, inside)
        s1 == Partition(s0, Len(s0), keep)
        n1 == Count(s0, Len(s0), keep)
    IN  IF fake THEN refperm' = s1 /\ NR' = n1
        ELSE refperm' = Partition(s1, n1, close) /\ NR' = Count(s1, n1, close)

\* What two filters in a row may drop.
Few(d, e) == d \cap e = {} /\ Cardinality(d) + Cardinality(e) <= MaxDropped

\* Search the star tree, project, sort and filter.  Nothing left is a bailout.
FindStars ==
    /\ phase = "find"
    /\ \E outside, far \in SUBSET Refs, ro \in RefOrders :
          /\ Few(outside, far)
          /\ GetRefStars(Refs \ outside, Refs \ far, ro)
    /\ \E double, away \in SUBSET Field, to \in TestOrders :
          /\ Few(double, away)
          /\ GetTestStars(Field \ double, Field \ away, to)
    /\ NT' <= MaxTests /\ NR' <= MaxRefs
    /\ phase' = IF NR' = 0 \/ NT' = 0 THEN "none" ELSE "test"
    /\ UNCHANGED <<fake, testing, refs, etheta>>

--------------------------------------------------------------------------------
\* real_verify_star_lists.
Matched(n) == Cardinality({j \in 1 .. n : theta[j] > 0})
Passed(oldj) == {j \in oldj .. Len(theta) : theta[j] < 0}

\* What the distractors from position oldj on lose, by position.
Losses(oldj) ==
    [j \in 1 .. Len(theta) |->
        IF j \in Passed(oldj) THEN LogD[Matched(j - 1)] - LogD[Matched(j - 1) + 1] ELSE 0]

\* Mutant of SwitchFg: the old match counts itself among those before it.
SwitchFgOff(r, f) ==
    LET oldj == rmatches[r]
    IN  f + (LogD[Matched(oldj)] - fg[oldj]) + Total(Losses(oldj))

\* The log-odds a conflict gets when the new star takes reference r over: the
\* old match becomes a distractor, and those after it become worse.
SwitchFg(r, f) ==
    LET oldj == rmatches[r]
    IN  f + (LogD[Matched(oldj - 1)] - fg[oldj]) + Total(Losses(oldj))

Distractor(r, f) ==
    /\ r = NONE \/ f < LogD[mu]
    /\ theta' = Append(theta, DISTRACTOR)
    /\ logodds' = logodds + LogD[mu]
    /\ UNCHANGED <<rmatches, mu, jumped>>

NewMatch(r, f) ==
    /\ r # NONE /\ f >= LogD[mu] /\ rmatches[r] = 0
    /\ theta' = Append(theta, r)
    /\ rmatches' = [rmatches EXCEPT ![r] = Len(theta) + 1]
    /\ mu' = mu + 1
    /\ logodds' = logodds + f
    /\ UNCHANGED jumped

\* Mutant of SwitchMatch: the old match stays in theta.
SwitchKeepsOld(r, f) ==
    /\ r # NONE /\ f >= LogD[mu] /\ rmatches[r] # 0 /\ SwitchFg(r, f) > LogD[mu]
    /\ theta' = Append(theta, r)
    /\ rmatches' = [rmatches EXCEPT ![r] = Len(theta) + 1]
    /\ logodds' = logodds + SwitchFg(r, f)
    /\ jumped' = (jumped \/ Passed(rmatches[r]) # {})
    /\ UNCHANGED mu

SwitchMatch(r, f) ==
    /\ r # NONE /\ f >= LogD[mu] /\ rmatches[r] # 0 /\ SwitchFg(r, f) > LogD[mu]
    /\ theta' = Append([theta EXCEPT ![rmatches[r]] = CONFLICT], r)
    /\ rmatches' = [rmatches EXCEPT ![r] = Len(theta) + 1]
    /\ logodds' = logodds + SwitchFg(r, f)
    /\ jumped' = (jumped \/ Passed(rmatches[r]) # {})
    /\ UNCHANGED mu

KeepMatch(r, f) ==
    /\ r # NONE /\ f >= LogD[mu] /\ rmatches[r] # 0 /\ SwitchFg(r, f) <= LogD[mu]
    /\ theta' = Append(theta, CONFLICT)
    /\ logodds' = logodds + LogD[mu]
    /\ UNCHANGED <<rmatches, mu, jumped>>

\* What follows every star: bail out, or keep the best and maybe stop.
Finish ==
    /\ best' = IF logodds' >= LogBail /\ logodds' > best.odds
               THEN [odds |-> logodds', i |-> Len(theta')] ELSE best
    /\ phase' = IF logodds' < LogBail \/ logodds' > LogStop \/ Len(theta') = NT
                THEN "verified" ELSE "test"

TestStar ==
    /\ phase = "test"
    /\ \E r \in {NONE} \cup {refperm[k] : k \in 1 .. NR} :
       \E f \in IF r = NONE THEN {Lowest} ELSE Fg :
          /\ Distractor(r, f) \/ NewMatch(r, f) \/ SwitchMatch(r, f) \/ KeepMatch(r, f)
          /\ near' = Append(near, r) /\ fg' = Append(fg, f)
    /\ Finish
    /\ UNCHANGED <<setup, refs, etheta>>

--------------------------------------------------------------------------------
\* Mutant of Fixup: references keep their number among all in the circle.
FixupUnpermuted ==
    LET tail == IF logodds < LogBail THEN BAILEDOUT ELSE STOPPED
    IN  [f \in Field |->
            LET k == CHOOSE j \in DOMAIN testperm : testperm[j] = f
            IN  IF k > NT THEN FILTERED ELSE IF k > Len(theta) THEN tail ELSE theta[k]]

\* fixup_theta: by field star instead of by test order, with references
\* numbered within the image only; then the quad is put back.
Fixup ==
    LET tail == IF logodds < LogBail THEN BAILEDOUT ELSE STOPPED
        pos(r) == CHOOSE k \in DOMAIN refperm : refperm[k] = r
        tested(k) == IF k > Len(theta) THEN tail
                     ELSE IF theta[k] < 0 THEN theta[k] ELSE pos(theta[k])
    IN  [f \in Field |->
            LET k == CHOOSE j \in DOMAIN testperm : testperm[j] = f
            IN  IF k <= NT THEN tested(k) ELSE FILTERED]

ReinsertQuad(th) ==
    [f \in Field |->
        IF ~fake /\ \E j \in DOMAIN QuadField, k \in DOMAIN refperm :
                       QuadField[j] = f /\ refs'[k] = QuadStar[j]
        THEN CHOOSE k \in DOMAIN refperm :
                \E j \in DOMAIN QuadField : QuadField[j] = f /\ refs'[k] = QuadStar[j]
        ELSE th[f]]

Accept ==
    /\ phase = "verified" /\ best.odds >= LogAccept
    /\ refs' = [k \in Refs |-> IF k \in DOMAIN refperm THEN refperm[k] ELSE refs[k]]
    /\ etheta' = ReinsertQuad(Fixup)
    /\ phase' = "accepted"
    /\ UNCHANGED <<setup, testing>>

Reject ==
    /\ phase = "verified" /\ best.odds < LogAccept
    /\ phase' = "rejected"
    /\ UNCHANGED <<setup, testing, refs, etheta>>

\* record_match_callback keeps the match, and when the reference stars of the
\* solution are written out sorts them by a column (sort_rdls).
SortRefs ==
    /\ phase = "accepted"
    /\ \E o \in RefOrders :
          LET column == Filter(o, Range(refperm))
              perm == [k \in DOMAIN column |->
                          CHOOSE j \in DOMAIN refperm : refs[j] = column[k]] IN
          /\ refs' = [k \in Refs |-> IF k \in DOMAIN perm THEN refs[perm[k]] ELSE refs[k]]
          /\ etheta' = [f \in Field |-> IF etheta[f] < 0 THEN etheta[f]
                                        ELSE perm[etheta[f]]]
    /\ phase' = "sorted"
    /\ UNCHANGED <<setup, testing>>

Next == FindStars \/ TestStar \/ Accept \/ Reject \/ SortRefs
Spec == Init /\ [][Next]_vars

--------------------------------------------------------------------------------
TypeOK ==
    /\ phase \in {"find", "test", "verified", "accepted", "sorted", "rejected", "none"}
    /\ fake \in BOOLEAN
    /\ testperm \in Seq(Field) /\ NT \in 0 .. Len(testperm)
    /\ refperm \in Seq(Refs) /\ NR \in 0 .. Len(refperm)
    /\ theta \in Seq(Refs \cup {DISTRACTOR, CONFLICT})
    /\ near \in Seq(Refs \cup {NONE}) /\ fg \in Seq(Int)
    /\ rmatches \in [Refs -> Nat] /\ mu \in Nat
    /\ logodds \in Int /\ best \in [odds : Int, i : Nat] /\ jumped \in BOOLEAN
    /\ refs \in [Refs -> Refs] /\ etheta \in [Field -> Int]

\* However often a reference star changes hands, theta and rmatches agree on who
\* has it: no two tested stars are matched to one reference star, and mu, which
\* sets the odds of the next distractor, counts the matches there are.
OneMatchPerReference ==
    /\ \A r \in Refs : rmatches[r] # 0 =>
          rmatches[r] \in DOMAIN theta /\ theta[rmatches[r]] = r
    /\ \A j \in DOMAIN theta : theta[j] > 0 => rmatches[theta[j]] = j
    /\ mu = Matched(Len(theta))

\* The log-odds of a list of tested stars: its matches, and its distractors at
\* the odds they have with the references matched before them.
Terms == [j \in 1 .. Len(theta) |-> IF theta[j] > 0 THEN fg[j] ELSE LogD[Matched(j - 1)]]
Score == Total(Terms)

\* Taking a match back never makes the hypothesis look worse than the
\* assignment it ends with is, and the log-odds are exact as long as no
\* match was moved past a distractor.
LogOddsCoverScore == logodds >= Score /\ (~jumped => logodds = Score)

\* What the comments on the switch of a conflict say: the cost of adjusting the
\* earlier probabilities is part of it, so that the log-odds are those of theta.
LogOddsAreScore == logodds = Score

\* The correspondences name the right stars after both lists were permuted,
\* filtered and renumbered: the reference of a field star is the one it was
\* tested against, no two field stars share one, and the stars of the quad have
\* their own wherever it is inside of the image.  No filter lost a star.
Correspond ==
    /\ Range(testperm) = Field /\ \A f \in Field : etheta[f] \in DOMAIN refperm \cup -5 .. -1
    /\ \A f, g \in Field : etheta[f] > 0 /\ etheta[f] = etheta[g] => f = g
    /\ \A k \in DOMAIN theta : etheta[testperm[k]] > 0 =>
          refs[etheta[testperm[k]]] = near[k]
    /\ ~fake => \A j \in DOMAIN QuadField : QuadStar[j] \in Range(refperm) =>
          etheta[QuadField[j]] > 0 /\ refs[etheta[QuadField[j]]] = QuadStar[j]
AcceptedCorrespond == phase = "accepted" => Correspond

\* What matchobj.h says of theta, after the reference stars were sorted.
SortedCorrespond == phase = "sorted" => Correspond
================================================================================
