------------------------------- MODULE EngineRun -------------------------------
(***************************************************************************)
(* The engine runs one job: engine_run_job goes through the depths and     *)
(* scales of the job, chooses index files for each, and calls onefield_run,*)
(* which verifies the WCSs of the job, then searches every field with      *)
(* every index (job.inparallel: with all of them at once), and writes what was *)
(* found.  Time limits, the cancel file and the solved file stop it early. *)
(*                                                                         *)
(* One call of solver_run is the steps of pc = "search": matches are kept, *)
(* the timer callback is called, and the search ends; SolverQuads looks    *)
(* inside.  Wall-clock and CPU limits are handled alike in the code; here  *)
(* there is one clock.                                                     *)
(***************************************************************************)
EXTENDS Ranking, Functions

CONSTANTS
    Indexes,     \* index files: scale range lo..hi, and near, the search radius
    WideMin, WideMax,    \* default scales: app_min_default, app_max_default
    QuadMin, QuadMax,    \* quad sizes in pixels that the field can hold
    Jobs,        \* the jobs to run, one of them in a behaviour; see JobType
    StartTime,   \* the clock when the job starts
    MaxTime      \* bound on the clock

(***************************************************************************)
(* A job as it was parsed: its depth ranges, from 1 (hi 0 is "to the end"),*)
(* scale ranges (0 is "the engine's default"), WCSs to verify (the range of*)
(* their quads), field numbers asked for, number of fields of the xylist,  *)
(* time limit (0 is "none"), whether the solved file is read, is written,  *)
(* is the cancel file too (-s), and may be written by other engines; and   *)
(* inparallel, which the engine's configuration sets.                      *)
(***************************************************************************)
Ranges == Seq([lo : Nat, hi : Nat])
JobType ==
    [depths : Ranges, scales : Ranges, wcs : Ranges, fields : Seq(Nat), numFields : Nat,
     limit : Nat, solvedIn : BOOLEAN, solvedOut : BOOLEAN, solvedIsCancel : BOOLEAN,
     others : BOOLEAN, inparallel : BOOLEAN]

ASSUME IndexAssumption ==
    Indexes \in Seq([lo : Nat, hi : Nat, near : BOOLEAN]) /\ Indexes # <<>>
ASSUME JobAssumption == \A j \in Jobs : j \in JobType /\ j.depths # <<>> /\ j.scales # <<>>
ASSUME NumberAssumption ==
    {WideMin, WideMax, QuadMin, QuadMax, StartTime, MaxTime} \subseteq Nat

VARIABLES
    job,                                \* the job of this behaviour
    loaded, ismallest, ibiggest,        \* engine: index files added, extreme ones
    pc,                                 \* where the engine is
    depth, scale, startobj, endobj, chosen,          \* engine_run_job
    fieldlist, wcsLeft, verifying, todo, batch, fi,  \* onefield_run, solve_fields
    now, total_start, start, hit_total, hit_limit,   \* time limits
    quit_now, best_match_solves, solutions, single_field_solved, cancelled,
    cancelFile, solvedFile, wcsFile,    \* files: cancel, solved, WCS (odds written)
    searched, won                       \* history: searches finished, fields solved

engineVars == <<loaded, ismallest, ibiggest>>
planVars == <<job, depth, scale, startobj, endobj, chosen>>
runVars == <<fieldlist, wcsLeft, verifying, todo, batch, fi>>
clockVars == <<now, total_start, start, hit_total, hit_limit>>
matchVars == <<quit_now, best_match_solves, solutions>>
stopVars == <<single_field_solved, cancelled>>
fileVars == <<cancelFile, solvedFile, wcsFile>>
history == <<searched, won>>
vars == <<engineVars, pc, planVars, runVars, clockVars, matchVars, stopVars, fileVars, history>>

--------------------------------------------------------------------------------
Depths == job.depths
Scales == job.scales
NumFields == job.numFields
Limit == job.limit

ValidFields == 1 .. NumFields
Field == fieldlist[fi]

FieldSolved(f) == job.solvedIn /\ f \in solvedFile
CancelExists == cancelFile \/ (job.solvedIsCancel /\ solvedFile # {})

\* Mutant of Obsolete: one solved field ends the job.
ObsoleteByAny ==
    \/ job.solvedIn /\ solvedFile # {}
    \/ CancelExists

Obsolete ==
    \/ Len(fieldlist) = 1 /\ FieldSolved(fieldlist[1])
    \/ CancelExists

\* The job can only lower the engine's limit; it limits the whole run, too,
\* unless the indexes run in parallel.
TotalLimit == IF job.inparallel THEN 0 ELSE Limit

CheckTimeLimits(t) ==
    /\ hit_total' = (hit_total \/ (TotalLimit # 0 /\ t - total_start > TotalLimit))
    /\ hit_limit' = (hit_limit \/ (Limit # 0 /\ t - start > Limit))

\* solved_field
MarkSolved(fs) ==
    /\ solvedFile' = IF job.solvedOut THEN solvedFile \cup fs ELSE solvedFile
    /\ single_field_solved' = (single_field_solved \/ (fs # {} /\ Len(fieldlist) = 1))
    /\ won' = won \cup fs

\* Mutant of Best: the list is sorted the other way.
Worst(ms) == {m \in ms : \A n \in ms : n.field = m.field => n.odds >= m.odds}

\* remove_duplicate_solutions
Best(ms) == {m \in ms : \A n \in ms : n.field = m.field => n.odds <= m.odds}

--------------------------------------------------------------------------------
Init ==
    /\ job \in Jobs
    /\ loaded = 0 /\ ismallest = {} /\ ibiggest = {}
    /\ pc = "setup"
    /\ depth = 1 /\ scale = 1 /\ startobj = 0 /\ endobj = 0 /\ chosen = {}
    /\ fieldlist = job.fields /\ wcsLeft = job.wcs /\ verifying = FALSE
    /\ todo = <<>> /\ batch = {} /\ fi = 1
    /\ now = StartTime /\ total_start = 0 /\ start = 0
    /\ hit_total = FALSE /\ hit_limit = FALSE
    /\ quit_now = FALSE /\ best_match_solves = FALSE /\ solutions = {}
    /\ single_field_solved = FALSE /\ cancelled = FALSE
    /\ cancelFile = FALSE /\ solvedFile = {}
    /\ wcsFile = [f \in 1 .. NumFields |-> 0]
    /\ searched = {} /\ won = {}

\* add_index: keeps the lists of the smallest and of the largest index files.
AddIndex ==
    /\ pc = "setup" /\ loaded < Len(Indexes)
    /\ loaded' = loaded + 1
    /\ ismallest' = {k \in ismallest : Indexes[k].lo <= Indexes[loaded'].lo} \cup
           {k \in {loaded'} : \A j \in ismallest : Indexes[k].lo <= Indexes[j].lo}
    /\ ibiggest' = {k \in ibiggest : Indexes[k].hi >= Indexes[loaded'].hi} \cup
           {k \in {loaded'} : \A j \in ibiggest : Indexes[k].hi >= Indexes[j].hi}
    /\ UNCHANGED <<pc, planVars, runVars, clockVars, matchVars, stopVars, fileVars, history>>

StartJob ==
    /\ pc = "setup" /\ loaded = Len(Indexes)
    /\ pc' = IF Obsolete THEN "end" ELSE "plan"
    /\ UNCHANGED <<engineVars, planVars, runVars, clockVars, matchVars, stopVars, fileVars, history>>

--------------------------------------------------------------------------------
Overlaps(k, lo, hi) == lo <= Indexes[k].hi /\ Indexes[k].lo <= hi

Default(x, wide) == IF x = 0 THEN wide ELSE x
Fmin(j) == QuadMin * Default(Scales[j].lo, WideMin)
Fmax(j) == QuadMax * Default(Scales[j].hi, WideMax)

SizeSmallest == Indexes[CHOOSE k \in ismallest : TRUE].lo
SizeBiggest == Indexes[CHOOSE k \in ibiggest : TRUE].hi

Fitting(j) == {k \in DOMAIN Indexes : Overlaps(k, Fmin(j), Fmax(j))}

\* Mutant of IndexList: the lists are swapped.
IndexListSwapped(j) ==
    IF Fitting(j) # {} THEN Fitting(j)
    ELSE IF Fmin(j) > SizeBiggest THEN ismallest ELSE ibiggest

\* The smallest or the largest indexes if no other one fits.
IndexList(j) ==
    IF Fitting(j) # {} THEN Fitting(j)
    ELSE IF Fmin(j) > SizeBiggest THEN ibiggest ELSE ismallest

\* The assertion fails when the scales fall into a gap of the indexes.
InGap(j) == Fitting(j) = {} /\ Fmin(j) <= SizeBiggest /\ Fmax(j) >= SizeSmallest

AssertFails ==
    /\ pc = "plan" /\ InGap(scale)
    /\ pc' = "abort"
    /\ UNCHANGED <<engineVars, planVars, runVars, clockVars, matchVars, stopVars, fileVars, history>>

\* Depths count from 1 and include their end; the solver counts from 0 and
\* does not.  Without an end, endobj is left as it was.
Plan ==
    /\ pc = "plan" /\ ~InGap(scale)
    /\ startobj' = IF Depths[depth].lo = 0 THEN 0 ELSE Depths[depth].lo - 1
    /\ endobj' = Default(Depths[depth].hi, endobj)
    /\ chosen' = {k \in IndexList(scale) : Indexes[k].near}
    /\ pc' = "run"
    /\ UNCHANGED <<engineVars, job, depth, scale, runVars, clockVars, matchVars, stopVars,
                   fileVars, history>>

--------------------------------------------------------------------------------
Singly(S) == [n \in DOMAIN Increasing(S) |-> {Increasing(S)[n]}]

\* Each WCS is verified with the index files that its quads fit, WCS by WCS.
VerifyPairs ==
    {wk \in (DOMAIN wcsLeft) \X chosen : Overlaps(wk[2], wcsLeft[wk[1]].lo, wcsLeft[wk[1]].hi)}
ByWcs ==
    {p \in VerifyPairs \X VerifyPairs :
        p[1][1] < p[2][1] \/ (p[1][1] = p[2][1] /\ p[1][2] < p[2][2])}
VerifyBatches ==
    LET pairs == InOrderOf(ByWcs, VerifyPairs)
    IN  [n \in DOMAIN pairs |-> {pairs[n][2]}]
SolveBatches == IF job.inparallel THEN <<chosen>> ELSE Singly(chosen)

BeginRun ==
    /\ pc = "run"
    /\ total_start' = now
    /\ fieldlist' = Filter(fieldlist, ValidFields)
    /\ verifying' = (wcsLeft # <<>>)
    /\ todo' = IF verifying' THEN VerifyBatches
               ELSE IF single_field_solved THEN <<>> ELSE SolveBatches
    /\ pc' = "next"
    /\ UNCHANGED <<engineVars, planVars, wcsLeft, batch, fi, now, start, hit_total,
                   hit_limit, matchVars, stopVars, fileVars, history>>

\* While verifying, no odds are good enough to solve; afterwards they may be.
EndVerify ==
    /\ pc = "next" /\ verifying /\ todo = <<>>
    /\ verifying' = FALSE
    /\ solutions' = Best(solutions)
    /\ MarkSolved({m.field : m \in {n \in solutions' : n.odds = 2}})
    /\ todo' = IF single_field_solved' THEN <<>> ELSE SolveBatches
    /\ UNCHANGED <<engineVars, pc, planVars, fieldlist, wcsLeft, batch, fi, clockVars,
                   quit_now, best_match_solves, cancelled, cancelFile, wcsFile, searched>>

\* Mutant of Stopped: a cancelled job goes on.
StoppedUncancelled == ~job.inparallel /\ ~verifying /\ (hit_total \/ single_field_solved)

\* Between two indexes that are searched one after the other.
Stopped == ~job.inparallel /\ ~verifying /\ (hit_total \/ single_field_solved \/ cancelled)

\* Mutant of NextBatch: it goes on when the field is solved.
NextBatchAnyway ==
    /\ pc = "next" /\ todo # <<>>
    /\ verifying \/ job.inparallel \/ ~(hit_total \/ cancelled)
    /\ batch' = Head(todo) /\ todo' = Tail(todo) /\ fi' = 1
    /\ start' = IF verifying THEN start ELSE now
    /\ pc' = "field"
    /\ UNCHANGED <<engineVars, planVars, fieldlist, wcsLeft, verifying, now, total_start,
                   hit_total, hit_limit, matchVars, stopVars, fileVars, history>>

NextBatch ==
    /\ pc = "next" /\ todo # <<>> /\ ~Stopped
    /\ batch' = Head(todo) /\ todo' = Tail(todo) /\ fi' = 1
    /\ start' = IF verifying THEN start ELSE now
    /\ pc' = "field"
    /\ UNCHANGED <<engineVars, planVars, fieldlist, wcsLeft, verifying, now, total_start,
                   hit_total, hit_limit, matchVars, stopVars, fileVars, history>>

StopBatches ==
    /\ pc = "next" /\ ~verifying
    /\ todo = <<>> \/ Stopped
    /\ pc' = "write"
    /\ UNCHANGED <<engineVars, planVars, runVars, clockVars, matchVars, stopVars, fileVars, history>>

--------------------------------------------------------------------------------
\* Mutant of SkipField: the loop does not get to the next field.
SkipNothing ==
    /\ pc = "field" /\ fi <= Len(fieldlist) /\ FieldSolved(Field)
    /\ UNCHANGED vars

SkipField ==
    /\ pc = "field" /\ fi <= Len(fieldlist) /\ FieldSolved(Field)
    /\ fi' = fi + 1
    /\ UNCHANGED <<engineVars, pc, planVars, fieldlist, wcsLeft, verifying, todo, batch,
                   clockVars, matchVars, stopVars, fileVars, history>>

StartField ==
    /\ pc = "field" /\ fi <= Len(fieldlist) /\ ~FieldSolved(Field)
    /\ quit_now' = FALSE /\ best_match_solves' = FALSE
    /\ pc' = "search"
    /\ UNCHANGED <<engineVars, planVars, runVars, clockVars, solutions, stopVars, fileVars, history>>

FieldsDone ==
    /\ pc = "field" /\ fi > Len(fieldlist)
    /\ pc' = "next"
    /\ UNCHANGED <<engineVars, planVars, runVars, clockVars, matchVars, stopVars, fileVars, history>>

\* solver_verify_sip_wcs: the match may be too weak to keep (odds 0).
VerifyField ==
    /\ pc = "search" /\ verifying
    /\ \/ UNCHANGED <<hit_total, hit_limit, solutions>>
       \/ \E o \in 1 .. 2 :
             /\ CheckTimeLimits(now)
             /\ solutions' = solutions \cup {[field |-> Field, odds |-> o]}
    /\ pc' = "record"
    /\ UNCHANGED <<engineVars, planVars, runVars, now, total_start, start, quit_now,
                   best_match_solves, stopVars, fileVars, history>>

\* Time passes between two looks at the clock, at most two seconds.
Elapse == now' \in now .. now + 2 /\ now' <= MaxTime

\* record_match_callback: odds 1 are worth keeping, odds 2 solve the field.
KeepMatch ==
    /\ pc = "search" /\ ~verifying /\ ~quit_now
    /\ Elapse /\ CheckTimeLimits(now')
    /\ \E o \in 1 .. 2 :
          /\ solutions' = solutions \cup {[field |-> Field, odds |-> o]}
          /\ best_match_solves' = (o = 2)
    /\ quit_now' = (best_match_solves' \/ hit_total' \/ hit_limit')
    /\ UNCHANGED <<engineVars, pc, planVars, runVars, total_start, start, stopVars,
                   fileVars, history>>

\* timer_callback; its answer 0 ends the search.
Timer ==
    /\ pc = "search" /\ ~verifying /\ ~quit_now
    /\ Elapse /\ now' # now /\ CheckTimeLimits(now')
    /\ quit_now' = (FieldSolved(Field) \/ CancelExists \/ hit_total' \/ hit_limit')
    /\ cancelled' = (cancelled \/ (~FieldSolved(Field) /\ CancelExists))
    /\ UNCHANGED <<engineVars, pc, planVars, runVars, total_start, start,
                   best_match_solves, solutions, single_field_solved, fileVars, history>>

Quit ==
    /\ pc = "search" /\ quit_now
    /\ pc' = "record"
    /\ UNCHANGED <<engineVars, planVars, runVars, clockVars, matchVars, stopVars, fileVars, history>>

\* The search has tried everything.
Exhaust ==
    /\ pc = "search" /\ ~verifying /\ ~quit_now
    /\ Elapse
    /\ searched' = searched \cup
           {[field |-> Field, index |-> k, start |-> startobj, end |-> endobj,
             scale |-> scale] : k \in batch}
    /\ pc' = "record"
    /\ UNCHANGED <<engineVars, planVars, runVars, total_start, start, hit_total, hit_limit,
                   matchVars, stopVars, fileVars, won>>

RecordField ==
    /\ pc = "record"
    /\ MarkSolved({f \in {Field} : best_match_solves})
    /\ fi' = fi + 1 /\ pc' = "field"
    /\ UNCHANGED <<engineVars, planVars, fieldlist, wcsLeft, verifying, todo, batch,
                   clockVars, matchVars, cancelled, cancelFile, wcsFile, searched>>

--------------------------------------------------------------------------------
\* The last steps of onefield_run, and the turn of the loops of engine_run_job.
FinishRun ==
    /\ pc = "write"
    /\ wcsFile' = [f \in DOMAIN wcsFile |->
           IF \E m \in solutions : m.field = f
              THEN (CHOOSE m \in Best(solutions) : m.field = f).odds ELSE wcsFile[f]]
    /\ solutions' = {} /\ wcsLeft' = <<>> /\ chosen' = {} /\ todo' = <<>> /\ batch' = {}
    /\ LET lastScale == scale = Len(Scales)
           last == lastScale /\ depth = Len(Depths)
       IN  IF Obsolete \/ last
              THEN pc' = "end" /\ UNCHANGED <<depth, scale>>
              ELSE /\ pc' = "plan"
                   /\ scale' = IF lastScale THEN 1 ELSE scale + 1
                   /\ depth' = IF lastScale THEN depth + 1 ELSE depth
    /\ UNCHANGED <<engineVars, job, startobj, endobj, fieldlist, verifying, fi, clockVars,
                   quit_now, best_match_solves, stopVars, cancelFile,
                   solvedFile, history>>

--------------------------------------------------------------------------------
\* A user creates the cancel file; another engine solves a field.
UserCancels ==
    /\ pc \notin {"end", "abort"} /\ ~cancelFile
    /\ cancelFile' = TRUE
    /\ UNCHANGED <<engineVars, pc, planVars, runVars, clockVars, matchVars, stopVars,
                   solvedFile, wcsFile, history>>

OtherSolves ==
    /\ job.others /\ pc \notin {"end", "abort"}
    /\ \E f \in 1 .. NumFields : solvedFile' = solvedFile \cup {f}
    /\ UNCHANGED <<engineVars, pc, planVars, runVars, clockVars, matchVars, stopVars,
                   cancelFile, wcsFile, history>>

Engine ==
    \/ AddIndex \/ StartJob \/ AssertFails \/ Plan \/ BeginRun \/ EndVerify \/ NextBatch
    \/ StopBatches \/ SkipField \/ StartField \/ FieldsDone \/ VerifyField \/ KeepMatch
    \/ Timer \/ Quit \/ Exhaust \/ RecordField \/ FinishRun

Ended == pc \in {"end", "abort"} /\ UNCHANGED vars

Next == Engine \/ UserCancels \/ OtherSolves \/ Ended

Spec == Init /\ [][Next]_vars

\* The engine keeps running; every call of solver_run is finite.
FairSpec == Spec /\ WF_vars(Engine)
--------------------------------------------------------------------------------
\* Well-typed state.
TypeOK ==
    /\ job \in Jobs
    /\ loaded \in 0 .. Len(Indexes)
    /\ ismallest \subseteq 1 .. loaded /\ ibiggest \subseteq 1 .. loaded
    /\ pc \in {"setup", "plan", "run", "next", "field", "search", "record", "write",
               "end", "abort"}
    /\ depth \in 1 .. Len(Depths) /\ scale \in 1 .. Len(Scales)
    /\ startobj \in Nat /\ endobj \in Nat
    /\ chosen \subseteq DOMAIN Indexes /\ batch \subseteq chosen
    /\ fieldlist \in Seq(Nat) /\ fi \in 1 .. Len(fieldlist) + 1 /\ wcsLeft \in Ranges
    /\ pc \in {"search", "record"} => Field \in 1 .. NumFields
    /\ todo \in Seq(SUBSET chosen)
    /\ now \in Nat /\ total_start \in 0 .. now /\ start \in 0 .. now
    /\ {verifying, hit_total, hit_limit, quit_now, best_match_solves,
        single_field_solved, cancelled, cancelFile} \subseteq BOOLEAN
    /\ solutions \subseteq [field : 1 .. NumFields, odds : 1 .. 2]
    /\ won \subseteq 1 .. NumFields /\ solvedFile \subseteq 1 .. NumFields
    /\ wcsFile \in [1 .. NumFields -> 0 .. 2]

Smallest(S) == {k \in S : \A j \in S : Indexes[k].lo <= Indexes[j].lo}
Biggest(S) == {k \in S : \A j \in S : Indexes[k].hi >= Indexes[j].hi}

\* add_index keeps exactly the index files of the smallest and of the largest
\* scale, in whatever order they are added.
ExtremesAreRight ==
    ismallest = Smallest(1 .. loaded) /\ ibiggest = Biggest(1 .. loaded)

\* The index files that a job at scale j should be searched with.
Asked(j) ==
    LET all == DOMAIN Indexes
        list == IF Fitting(j) # {} THEN Fitting(j)
                ELSE IF \A k \in all : Fmin(j) > Indexes[k].hi THEN Biggest(all)
                ELSE Smallest(all)
    IN  {k \in list : Indexes[k].near}

\* A run gets the index files that its scales ask for, although they were added
\* in any order and the sizes of the extreme ones were kept on the side.
ChoosesAsked == pc = "run" => chosen = Asked(scale)

Search(f, k, i, j) ==
    [field |-> f, index |-> k, start |-> IF Depths[i].lo = 0 THEN 0 ELSE Depths[i].lo - 1,
     end |-> Depths[i].hi, scale |-> j]

\* A job that was neither cancelled nor out of time has searched each field with
\* every index file asked for, at every depth and scale, or it is solved.
SearchesEverything ==
    pc = "end" /\ ~CancelExists /\ ~hit_total /\ ~hit_limit =>
        \A f \in 1 .. NumFields :
            \/ f \notin Range(job.fields) \/ f \in won \/ FieldSolved(f)
            \/ \A i \in DOMAIN Depths, j \in DOMAIN Scales : \A k \in Asked(j) :
                  Search(f, k, i, j) \in searched

\* No search of a field begins when the solved file has it, or when it is the
\* only field and the job has solved it.
SolvedNotSearched ==
    [][pc = "field" /\ pc' = "search" =>
          /\ ~FieldSolved(Field)
          /\ ~(Len(fieldlist) = 1 /\ Field \in won)]_vars

\* When the job ends every field it solved has a WCS that solves it: none is
\* lost between the search and the output, or overwritten by a weaker match.
SolvedHasWcs == pc = "end" => \A f \in won : wcsFile[f] = 2

\* A cancelled job tries no further index file, although the fields of the
\* current one are gone through: neither in this run nor in a later one.
CancelledTriesNoIndex == [][cancelled => ~(pc = "next" /\ pc' = "field")]_vars

\* "Use the (list of) smallest or largest indices if no other one fits." The
\* assertion after it says that this leaves no case out.
AlwaysAnIndex == pc # "abort"

\* "The first and last field objects to look at; default is all of them."
OpenDepthSearchesAll == pc = "run" /\ Depths[depth].hi = 0 => endobj = 0

\* "Wall-clock time limit reached!" is said when a job has run for that long.
LimitWasReached == hit_total \/ hit_limit => now - StartTime > Limit

\* The job ends.
JobEnds == <>(pc \in {"end", "abort"})
================================================================================
