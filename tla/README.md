# Astrometry.net: verification models

This directory holds TLA+ models of Astrometry.net, the TLC configurations that check them on small
instances, and TLAPS proofs about them for every instance. Paths are relative to `src/`.

## The system

| part | source | state | operations | hard behaviour |
|---|---|---|---|---|
| submission daemon | `net/process_submissions.py`, `net/nova-jobs.service` | two process pools and their results, the turn of the loop, its age | repair at startup, poll, enqueue submissions, launch jobs, daily exit; `try_dosub`, `try_dojob` in workers | interleaving with workers and users, crashes, lost workers, retries |
| database rows | `net/models.py`, `net/abstract_models.py` | `Submission`, `UserImage`, `Job` rows, flags and timestamps | saves of whole rows | no transactions: rows of one operation are saved one by one |
| web views and API | `net/views/*.py`, `net/api.py` | rows, sessions | upload, edit, hide, delete | read-modify-write of rows the daemon changes too |
| file store | `net/models.py` (`DiskFile`, `CachedFile`), `net/cleancache.py` | files by hash, rows that name them | get or create, clean | several processes, two steps per operation |
| engine | `solver/engine.c`, `solver/engine-main.c` | indexes, job (depths, scales, fields) | parse job, choose indexes, run | stop conditions, limits, cancel files |
| one field | `solver/onefield.c`, `solver/solvedfile.c` | indexes of the run, solutions, limits | run, callbacks, write solutions | time limits from two clocks, solved files |
| solver core | `solver/solver.c` | field stars, partial quads, best match, counters | enumerate quads, match codes, handle hits | each quad once over depths and indexes, early stop |
| verification | `solver/verify.c` | test and reference stars, two permutations, odds | filter, match stars, bail out, stop looking, report | conflicts for the same reference star, renumbering |
| job preparation | `solver/augment-xylist.c`, `solver/solve-field.c` | files | run external programs | I/O |
| index building | `solver/build-index.c`, `solver/uniformize-catalog.c`, `solver/hpquads.c`, `solver/quad-builder.c`, `solver/unpermute-*.c` | stars per cell, quads, star use counts, permutations | uniformize, build quads, loosen reuse, build trees, merge | limits that change between passes, parts numbered differently |
| kd-trees | `libkd/kdtree_internal.c` | points, permutation, splitting planes | build, range search, nearest neighbour | integer trees: rounding, ties, empty and single nodes |
| block lists | `util/bl.c`, `util/bl-nl.c`, `util/bl-sort.c` | linked nodes, tail, shortcut to the last node used | access, insert, remove, append, sort | pointers kept over operations |
| geometry | `util/healpix.c`, `util/starutil.c` | none | arithmetic | boundaries |
| not the program's own | `qfits-an/`, `gsl-an/`, `catalogs/` data, `win/` shims | | | |

How the parts interact: the web views write `Submission` and `UserImage` rows; the daemon polls them,
unpacks submissions into images, and starts the solver (`augment-xylist`, then the engine, locally or by
ssh) for every image without a job; the engine reads the job file, and for each depth and scale hands the
fields and indexes to `onefield_run`, which runs `solver_run` and `verify_hit` and writes solutions; the
daemon reads the WCS file the engine left and saves the calibration in the `Job`.

What makes the parts correct:

- daemon: one job per image; nothing finished is lost or redone; everything unfinished is taken up again,
  whatever failed; no more jobs out than workers;
- views: an edit does not undo what the daemon did;
- file store: a row has its file and a file its row;
- engine and one field: every field is tried with every eligible index until solved; limits and cancel
  requests end the run; a solved field is not tried again;
- solver: every quad of the requested depths is tried once with every index of its scale;
- verification: a reference star is matched at most once, the odds add up, and the correspondences name the stars
  that were tested;
- index building: the brightest stars and quads that the options allow, no star used too often, no quad twice,
  and the stars, quads and codes of the file belong together;
- trees and lists: a search finds exactly what is there; a list is a sequence whatever its nodes look like.

The hazards (where these can go wrong and a test would hardly notice) are in `PROJECT.json`, each at its line.

## Plan

Done, in this order:

1. `ProcessSubmissions`, with the abstract `JobLedger` it implements, and its proofs; `NovaWeb`, the daemon
   composed with the views that edit its rows.
2. `SolverQuads`, the enumeration of quads in `solver_run` against the set of quads as reference, and its proofs.
3. `EngineRun`, `engine_run_job` and `onefield_run`, and first proofs.
4. `VerifyHit`, what happens to a match; `QuadSearch` over `KdTree`, how one is found.
5. `IndexBuild` over `HpQuads` over `UniformizeCatalog`, where the index that is searched comes from.
6. `BlockList`, with the abstract `AbstractList` it implements.

7. Proofs about `EngineRun`, `VerifyHit`, `IndexBuild` with its parts, `NovaWeb`, `QuadSearch` over `KdTree`, and
   `BlockList` with `AbstractList` (see Proofs).

Every invariant and action property of the runs that pass is proved. Modules not planned any more:
the file store and the admin scripts of nova, connected components in `dfind.c` (see Not modelled).

## ProcessSubmissions

Rows are sets and functions over ids: a timestamp or flag is the set of rows that have it (`subStarted` is
`processing_started`, `jobEnded` is `end_time`, `hasJob` is `UserImage.has_job`). `pc` says where `main` is;
`subTask` and `jobTask` hold the state of the task of a submission or job: `"none"` (no result in the lists of
`main`), `"queued"`, `"running"`, `"calibrated"` (the calibration is saved, the status is not), `"ok"`,
`"failed"`, `"emfile"` (the result is ready), `"lost"` (the worker was killed: the result never gets ready).

| code | actions |
|---|---|
| repair at startup, 829-850 | `ResetSub`, `FindOldJobs`, `ReleaseImage` (one save per row), `DeleteOldJobs` |
| top of the loop, 869-951 | `Poll` reads the clock, the new submissions, the images without a job, collects ready results |
| exits and waits, 953-970 | `Quit`, `WaitForJobs`, `Idle`, `TakeWork` |
| submissions, 976-992 | `Enqueue`; `AwaitSub` when there is no pool |
| choice of images, 994-1063 | `PoolFull`, `SelectImages` |
| launch, 1065-1081 | `CreateJob`, then `QueueJob` (two saves), `AwaitJob` without a pool, `AllLaunched` |
| `dosub`, `try_dosub` | `SubRun`, `SubImage`, `SubBadFile`, `SubFinish`, `SubRaise`, `SubDbError` |
| `dojob`, `try_dojob` | `JobRun`, `JobCalibrate`, `JobSucceed`, `JobFail`, `JobOSError`, `JobDirFails` |
| the world | `Submit` (upload), `Tick`, `Crash`, `Start` (`Restart=always`), `SubWorkerDies`, `JobWorkerDies` |

Each save of a row is a step of its own, because the process can die between two. Reads that the code does in
one stretch of the loop are one step where nothing they decide depends on their order; the queryset `newsubs`
is the exception (`FoundSubs`): when its count was zero it is evaluated again later and may find more.

Abstractions: a submission is always unpacked to all of `Files`, each of which may turn out to be unusable; the
weighted lottery between users is an arbitrary choice of as many images as fit; an image and its `UserImage`
are one. A database error in the handler of a database error is not modelled.

`JobLedger` is what the daemon promises about images: `absent`, `waiting`, `taken`, `answered`; an image is
taken by one job, given back only by a restart, and an answer stays. `KeepsLedger` maps the rows to it.

## NovaWeb

`NovaWeb` extends the daemon with web requests on `UserImage` rows. A request reads a row (`ReadImage`), and
`edit` saves it twice, `hide` and `unhide` once (`SaveImage`); a save writes every column, `has_job` as it was
read included. `HasJobIsTrue` and `OneJobPerImage` do not survive this; what does is checked in `web_edit` and proved in
`NovaWeb_proofs`.

## SolverQuads

One depth after another, `solver_run` looks at stars in order of brightness (`newpoint`). A star first closes
pairs with every brighter one as the new *B* (`"diag"`), then is the new inner star of the pairs of brighter
ones (`"inside"`); for every index whose scale range the pair fits, `add_stars` adds inner stars to quads.
What the code does between two checks of `quit_now` is an *agenda*, the quads it is going to try; `TryQuad`
takes one of them away. Reference for what must be tried is a set without loops: all quads of the stars of the
depths, brightest first, that fit the index (`Due`).

| code | definitions |
|---|---|
| 786-822, 839-886: cap on stars, priming of the pairs of earlier depths | `StartRun`, `Prime`, `Cut`, `NumXY` |
| 898-948: next star, timer, scale and box of the new pairs | `BeginPoint`, `LastPoint`, `Cancel`, `NextPoint` |
| 950-976, 978-1025: the two families of loops | `DiagAgenda`, `TurnInside`, `InsideAgenda`, `Loops`, `TriedBefore`, `Lower` |
| 1027-1033: limits | `LimitHit`, `StopAtLimit` |
| `check_scale`, `check_inbox`, `add_stars`, `try_all_codes` | `CheckScale`, `CheckInbox`, `InCircle`, `Lower`, `TryQuad` |

Abstractions: geometry is a function of the run (`Scale` of a pair, which stars are in its circle); the order
within an agenda is that of the loops (`TriedBefore`); a quad may match (`MatchBound`
matches at most) or solve.

## EngineRun

One job from the first index file to the end. `pc` is the place in the nest of loops: `"plan"` (depths and scales
in `engine_run_job`), `"run"` and `"next"` (`onefield_run`: `todo` is what is left of the indexes, one by one or
all together), `"field"` (`solve_fields`), `"search"` (`solver_run`, or the verification of a WCS), `"record"`,
`"write"` (`write_solutions`).

| code | actions |
|---|---|
| `add_index` | `AddIndex` |
| `engine_run_job`, 546-686 | `StartJob`, `Plan`, `AssertFails`, `FinishRun` |
| `onefield_run`, 332-505 | `BeginRun`, `EndVerify`, `NextBatch`, `StopBatches`, `FinishRun` |
| `solve_fields`, 890-1018 | `SkipField`, `StartField`, `FieldsDone`, `VerifyField`, `Quit`, `Exhaust`, `RecordField` |
| callbacks, 716-817 | `KeepMatch`, `Timer` |
| the world | `UserCancels` (the cancel file), `OtherSolves` (an engine with the same solved file) |

`ValidFields` says which jobs the parser lets through, `VerifyPairs` which pairs of a field and a WCS there are to
verify, `ByWcs` in which order.

Abstractions: `job` is the parsed job, chosen at the start. Log-odds are 0 (not kept), 1 (kept) or 2 (solves).
Wall-clock and CPU time are limited alike, with one set of variables each; here there is one clock. One match that
solves is enough (`nsolves` is 1 in the engine). A solution that is tweaked keeps its odds.

## VerifyHit

`verify_hit` from the match it is given to the correspondences it reports, and `sort_rdls` of `onefield.c`, which
sorts them again when they are written.

| code | definitions |
|---|---|
| `verify_get_ref_stars`, `verify_get_test_stars`, `verify_apply_ror`: filters that move what they drop to the end of a permutation | `GetRefStars`, `GetTestStars`, `Partition`, `FindStars` |
| `real_verify_star_lists`: a star is a distractor, a match, or disputes a reference star with an earlier one | `Distractor`, `NewMatch`, `SwitchMatch`, `KeepMatch`, `SwitchFg`, `Losses`, `Finish` |
| `fixup_theta` and the stars of the quad put back | `Fixup`, `ReinsertQuad`, `Accept`, `Reject` |
| `sort_rdls` | `SortRefs` |

Abstractions: a tested star has some reference star nearest to it, or none, at some log-odds of a small set; which
filter drops which star is arbitrary; log-odds are integers, and `Total` adds them up. `LogOddsCoverScore` says what is true of the sum:
it is never below that of the assignment, and equal unless a match was moved past a distractor.

## AbstractList, BlockList

`BlockList` has the nodes of `bl.c` as a heap, the headers of the lists with head, tail, count and the shortcut
`last_access`, and one action per function: `Get` (`bl_access`, `bl_get`), `Copy`, `Set`, `Insert`,
`RemoveIndex`, `RemoveRange`, `Pop`, `RemoveAll`, `AppendList`, `Split`, `BlReverse`, `BlInsertSorted`, `BlFind`;
`BlSort` of `bl-sort.c`, whose pivots are drawn at random (`SortedNodes` has the nodes every draw can leave); from
`bl-nl.c` `InsertAscending`, `SortedIndexOf` and `RemoveValue`. To follow a pointer to a freed node is an error of
the run. `AbstractList` has sequences; the refinement compares every answer and every list. `RemoveValue` and `Split`
appear in `Spec` only where the code is right (`RemoveInFirst`, `SplitOne`), `RemoveAllButFirst` only in `ReuseSpec`,
see below. `dupe`, `merge_ascending` and `append_array` are reads and appends; `bl_extend` is an append whose element
the caller writes.

## UniformizeCatalog, HpQuads, IndexBuild

Three modules, each extending the one before, model `build_index`. `stage` is the step that comes next. Sorted lists
(`ByMag`, `Sweeps`, `Precedence`, `QuadOrder`) are built with `Ranking`, a small module of its own: the element of a
finite set that has so many before it, and the sum of a list.

| code | definitions |
|---|---|
| `uniformize_catalog`: sort and cut, cells with margin, duplicates, sweeps | `ReadCatalog`, `Margin`, `MarginContains`, `InBounds`, `IsDuplicate`, `Place`, `Sweep`, `WriteSweeps` |
| `hpquads`: passes, retries, loosened limits | `StartQuads`, `Visit`, `EndPass`, `EndLoosening`, `MergeQuads` |
| `find_stars`, `quadbuilder_create`, `check_full_quad`, `add_quad` | `FindStars`, `OnDiagonal`, `Inside`, `CreateQuad`, `IsNew`, `CountUses` |
| `step_startree`, `step_hpquads`, `step_codetree`, `step_unpermute_*`, in the order of `build_index` | `BuildStarTree`, `MakeQuads`, `WriteQuads`, `BuildCodeTree`, `UnpermuteStars`, `UnpermuteQuads` |
| `quad_write`: code and invariants | `ComputeCode`, `Flip`, `Arrange`, `QuadWrite` |

Abstractions: the sky is a great circle cut open with integer positions, so a cell, a healpix and the circle of a
quad are intervals, and a code has one number per inner star instead of two. A kd-tree is here what it does to its
points: a permutation, some of which are tried. Uses of a star are a byte, as in the code.

## KdTree, QuadSearch

`KdTree` is the tree with packed splitting planes that code and star trees are: built top down in `lr`, which is
both stack and result (`SplitThin`, `SplitNode`); then asked for ranges (`StartRange`, `RangeLeaf`, `RangeSplit`,
`RangeReal`) and for the nearest point (`StartNearest`, `NearPruned`, `NearLeaf`, `NearSplit`, `NearReal`), one
node of the search stack a step. The queries that do not fit the type of the tree take `RangeReal` and
`NearReal`. What memory nobody wrote holds is a choice from `Garbage`.

`QuadSearch` extends it with `try_all_codes`: both parities, both ways round of A and B (`TurnAround`), the inner
stars placed slot by slot (`PlaceStar`, `Skip`, `Backtrack`), a range search for each arrangement, and its matches
(`Resolve`). It is what `TryQuad` of `SolverQuads` does in one step, and it relies on the codes that
`IndexBuild` shows to obey the invariants.

Abstractions: external coordinates are two units to one of the tree; a match may end the search
(`quit_now`), and what verification makes of it is `VerifyHit`.

## Runs

| run | instance | what it shows |
|---|---|---|
| `daemon_crash` | 1 submission of 2 files, pools of 2, 2 faults | types, one job per image, `has_job`, tasks own their image, nothing ended is lost, nothing finished is begun again, the ledger |
| `daemon_subs` | 1 submission of 2 files in a pool of 2, jobs run by `main`, 1 fault, fairness | no turn enqueues a submission again; submissions finish |
| `daemon_live` | 1 submission of 2 files unpacked by `main`, 3 images, jobs in a pool of 2, 1 fault, fairness | images get an answer |
| `web_edit` | 2 images, jobs in a pool of 2, 4 job ids, 2 saves by the web, restarts by the daily exit | extra jobs only by lost updates; no more jobs out than workers; ended jobs stay |
| `quads` | 8 stars of which 7 are looked at, 3 depths with a gap, 3 indexes of quads of 3, 4 and 5 stars, limits, a largest quad size | all quads due are tried, each once per index, bright stars first; the cache is right |
| `engine` | 4 index files and five jobs: `SerialJob` (fields one index after the other, a WCS, solved file), `SingleJob` (one field; scales too small, too large and wide enough for all indexes), `ParallelJob` (all indexes at once, other engines), `SolvedCancelsJob` (`-s`), and one whose scales fall into a gap | the choice of index files, nothing asked for is left out, nothing solved is searched, solved fields have their WCS, a cancelled job tries no further index, every job ends |
| `verify` | 6 field stars, 5 reference stars, a quad of 3, up to 3 stars dropped, 3 tested against 2 | one match per reference, log-odds that cover the assignment, right correspondences |
| `lists` | 2 lists, 4 elements of 2 values, nodes of 2 | the nodes are sound, the shortcut is right, lists are sequences |
| `index_build` | 5 stars on 4 healpixes in every arrangement on two sets of places, 8 sets of options | no close stars, the brightest kept, reuse bounded, no quad twice, the brightest quad made and none missed, the merged index fits together |
| `code_search` | trees of 7 and 15 codes of quads of 4 stars, with ties, clumps and empty nodes | sound trees, exact searches, the orders skipped lose no match |
| `finding_margin` | as `index_build` | violated: stars of the margin are dropped |
| `finding_kd_limits` | as `code_search` | violated: codes within the tolerance are missed |

Bounds. `UIs` and `JobIds` bound the rows ever alive: with one job per image, as many job ids as images never
run out; `web_edit` has two more, one for each save that may cost a job. Images made twice by an interrupted
submission use up `UIs`, after which a file counts as unusable.
`MaxFaults` bounds crashes, killed workers and I/O errors together: two faults let a crash hit the repair after
an earlier fault. Two images and two workers give every pair of jobs in flight; a crash while a submission is
unpacked makes a third image in `daemon_live`, a lost flag a third job in `web_edit`: more than the pool takes. `MaxEdits` bounds the saves of the web site: one request of two saves (`edit`), or two. Seven stars give quads of five whose stars come from
several depths, the eighth is beyond the cap on objects; `MatchBound` is the number of matches up to which a limit
on matches can tell runs apart. `MaxTime` stops the clock one second after the limit can be found hit; the engine
may do everything else in no time. Two depths, scales and near indexes give every kind of turn of the loops.

In `verify` three tested stars are enough for a reference to change hands twice and for a distractor to lie between
(`MaxTests`, `MaxRefs`, `MaxDropped`); six and five stars leave room for the quad and for every filter to drop some.
In `lists` (`MaxLen`) four elements in nodes of two make first, inner and last nodes that are full, half full or
emptied; states that differ only in the last answer, which no operation depends on, or in `lastn` without a
shortcut, where it is not read, are one (`VIEW`), and the two lists are symmetric. In `index_build` five stars give quads of three and four that share stars, so that the
limits on reuse bind and loosening helps (`MaxPos` bounds the sky). The permutations a kd-tree may cause are
identity, reversal and a rotation: the last is not its own inverse. In `code_search` coordinates are 0 to 7
(`TMax`), 1.0 is 14 external units, the tolerance 3; seven points give two levels of splits, fifteen three.

A run stops at a deadlock, except where the system really ends: a verification (`verify`) and the building of an
index (`index_build`, `finding_margin`). The daemon always runs or restarts, a run of the solver or engine ends in
a stuttering step, lists and trees can always be asked again.

Fairness. `main` runs (weakly fair), time passes, and a task in a worker that was not killed goes on; users and
faults owe nothing. This is what the operating system and `Restart=always` give. `LongDay` is the
one assumption about speed: `maxtime` is a day and a turn of the loop is seconds, so the day does not end while
there is work the daemon could do; without it a daemon that exits before it starts each job never solves
anything. Safety runs use `LongDay = FALSE` where exits at awkward times matter.
In `EngineRun` the engine's own steps are weakly fair: it is one thread, and a search is finite because
its agenda is (`SolverQuads`). No other run asks for liveness.

## Proofs

`NovaWeb_proofs` proves about the daemon by itself, for every value of the constants:

- `Invariance`: `IInv` is invariant. `OneJobPerImage` alone is not inductive: that a job can be created for a
  selected image needs that selected images have no job (`LaunchIsFree`), which needs that an image without the
  flag has no job in the loop (`LoopIsFlagged`), which after a crash holds because the repair releases the
  images of exactly the jobs it deletes (`ReleasedInStartup`) while nothing else runs (`StartupIsIdle`);
  ended jobs keep their image flagged throughout (`EndedIsFlagged`). For submissions, tasks only exist for
  those started and not finished (`LiveIsStale`), those with a result or a lost worker are started too
  (`TasksAreStarted`), and the loop only enqueues those not started (`NewIsUnstarted`).
- from it `TypeCorrect`, `OneJob`, `TaskOwnership`, `FlagIsTrue`, `OutcomeOfFinished`; the action properties
  `EndedIsKept`, `FinishedIsLeftAlone` and `EnqueueIsNew`; and `Refinement`: the daemon implements `JobLedger`.
- `SlotsSuffice`: there are never more jobs out than workers. Results are counted when images are selected, and
  jobs made one at a time later: inductive is that the results, the images still selected and the job being made
  have room together (`RoomIsKept`).

and about the daemon together with the web views, for any number of saves:

- `WebInvariant`: an image has one job and at most one more for each save a request has done; a request of two saves
  counts from its first (`JobsArePaid`). Of the daemon's invariant little is left when views write `has_job` back, so
  this one is separate: the images selected and the image of the new job count as not flagged (`Open`), and in the
  repair what is counted is the ended jobs, as the others are about to be deleted (`PaidFor`).
- from it `LostFlagsCostOneJob` (lost updates of the flag, and nothing else, cost extra jobs),
  `WebSlotsSuffice`, and `EndedIsKeptInWeb`.

`Solver_proofs` proves about the quads tried, for any field, indexes and depths that do not overlap:

- `QuadsInvariance`: the inductive invariant says at every place of the loop what was tried together with what is on
  the agenda: exactly the quads due to the stars seen. It needs that the cached scale and box of every pair are
  those computed afresh (`CacheCorrect`), that an agenda is disjoint from what was tried, and that the two families
  of loops are the quads whose faintest star is the new one;
- from it `QuadsTypeCorrect`, `AllTried` (completeness), `OnceOnly` and `BrightnessOrder`.

`EngineRun_proofs` proves, for any index files and any job:

- `Invariance` of an inductive invariant about the choice of index files and about cancelling;
- `ExtremesRight`: the lists of the smallest and largest index files are right in whatever order they are added;
- `ChoosesRight`: a run gets exactly the index files that its scales ask for. This needs the size of the largest
  index file kept on the side to be that of the final lists, which are ready when a job starts (`ExtremesKnown`);
- `CancelStops`: a cancelled job tries no further index file. Between two indexes that is a test; with parallel
  indexes it holds as there is one batch (`OneBatch`), and between runs as the cancel file is still there
  (`CancelRemembered`);
- `TypeCorrect`, with the form of the places of a run (`Shape`): which batches are left, and whose search is on;
- `SolvedIsNotSearched`: no search begins of a field that the solved file has, nor of the only field of a job that has
  solved it. Inductive is that a job of one field knows when it has solved it, and does not begin then
  (`SolvedSingly`), and that a WCS is verified before any field is solved (`VerifiesFirst`);
- `SolvedKeepsWcs`: the WCS on disk of a field that was solved is one that solves, given `KeepsSolved`: a solved
  file that is read and written, or at most one field, or one run. Without it the statement is false (the next runs
  search the field again and overwrite its WCS, see below); all of the jobs of the run `engine` have it;
- `NothingLeftOut`: a job that was neither cancelled nor out of time has searched each field that is not solved with
  every index asked for at every depth and scale, given `OpenDepthsLead`: no depth without an end comes after one
  with an end. Without it the statement is false (`OpenDepthSearchesAll` below). The inductive invariant (`Coverage`)
  says it of the runs that came earlier, of the batches of this run that are done, and of the fields of the batch
  that are done, and that a search that ends early has a reason (`QuitsForReason`).

`Solver_proofs` proves about a match, for any numbers of stars, log-odds and orders of testing:

- `Invariant`: the two permutations stay permutations while filters move what they drop to the end and the stars of
  the quad are put back (`Permuted`, `QuadApart`); two tested stars do not match one reference star, since a star that
  disputes a match takes it over or becomes a conflict; what a star matches is nearest to it (`MatchedNearest`);
- from it `MatchesAreOneToOne`; `OddsAreNotLost` (the log-odds kept on the side, updated at each dispute by the
  difference to all later distractors, are never below those of the assignment); `RightStars` (after the two
  renumberings of the result, each correspondence names the star that was tested and the one it matched); `TypeCorrect`.

`IndexBuild_proofs` proves about the three modules of index building, for any catalog, options, and healpixes:

- `IndexInv`: of the cells, that each holds stars of its own, brightest first, and that what is not read yet is
  dimmer (`CellsHoldTheirRows`, `BrightestFirst`, `DimmerToCome`), which makes a star that is turned down one with enough
  brighter ones in its cells or one near by (`Accounted`); of the steps, what they leave alone (`Surroundings`);
- from it `TypeCorrect`, `StarsAreApart` and `BrightestAreKept`, which are about the cells that are turned into sweeps
  of the catalog written;
- `QuadsInv`: in every pass the counter of a star is the number of quads that have it, up to the limit of the pass
  (`UsesCounted`). That no quad is made twice cannot rest on the search for duplicates alone, which looks at the
  quads of earlier passes and is left out when quads are few: a healpix is visited once in a pass (`VisitedOnce`); it
  comes again with a larger limit only if every other quad it could get has a star at the old limit
  (`RetriesUsedUp`, `LoosenUsesUp`, `TodoUsedUp`), so what is made then is new;
- from it `ReuseIsBounded` and `QuadsAreDistinct`, for `Nloosen` of 255 at most (`SmallLimits`): counters are bytes, and
  the code refuses a larger `Nreuse` but not a larger `Nloosen` (see below);
- `BrightestAreMade`: the quads of a healpix are tried in the order of their dimmest star, and the first one tried
  that is new and free has none brighter left behind (`NoneLater`, `DimmestIsLast`). The stars that a quad
  of the healpix can have are all among those that `find_stars` returns (`QuadInReach`);
- `PassesAreMadeUp`, under `SmallLimits` again: the quads of a healpix and its places on the lists of those to retry
  are as many as its visits (`PassesCounted`), and one with fewer quads than visits has nothing left (`NothingOwed`,
  `LeftShrinks`), so that the loosening passes make up for what the passes missed (`PaidUp`);
- `MergedIndexRight`, given `ShufflesPermute`: a kd-tree puts any number of points in an order of their own, and loses
  none. Inductive is `PartsFit`: at every step code i is that of the quad `QuadOf(i)`, stars are looked up in the
  order the tree has at that step, and the quads name the rows that were built. The inverse of a permutation
  (`PermutesOnto`) and a renumbering of quads together with their rows (`SameCode`) keep it. That a code is balanced and
  sorted (`WellOrdered`) is from `QuadWritten`: turning A and B around takes the sum of the code to the rest of it
  (`TotalTurned`, `Flipped`), which needs that inner stars lie between A and B (`QuadsSpan`), and sorting
  leaves the sum alone (`TotalOrdered`, `Arranged`).

`QuadSearch_proofs` proves about a tree and the quads looked up in it, for any points, leaf size, queries and field:

- `TreeRight`: the tree that is built is sound. `lr` is overwritten while it is read, so the induction is about
  something it never holds all of: the first and the last place of each node known after k splits (`Nested`: siblings
  share out the places of their parent; `Apart`: nodes without children yet follow each other without a gap) of which
  `lr` has those that are still needed, at `Slot` (`Laid`). `Planes` says of each split that its two sides keep to
  theirs, as later splits move points only within a node (`SplitPlanes`, `CutKeeps`). `Packed` is about the dimension in
  the low bits: what is left of the plane is no more than the median, and `Cut` finds the place where it parts the points;
- `RangeRight`: what is in range was found or lies in a node on the stack (`RangeGood`). Truncating query and plane and
  rounding up the radius prune no point in range (`Rounding`, `BeyondReach`); a plane that nobody wrote can
  (`SomeoneAlone`). A radius as large as the tree makes a query that fits take `RangeReal`, whose planes are cut; it
  reaches beyond all of them;
- `NearestRight`: a point nearer than the best one so far is below a node on the stack that will not be pruned
  (`NearGood`), since `far` is a bound from the planes above it (`EntryGood`), and `closest`, which is
  put in the type of the tree, fits it (`TopRight`, `FarRight`);
- `PruningRight`: the orders of the inner stars are tried in lexicographic order, skipped or not, so that a place in the
  recursion of `try_permutations` parts the orders that are `Ahead` from the others; what is not `Open` was
  searched for, and its matches counted, or has none (`HitsGood`). A skipped one has none (`SkippedMiss`): were a code of the
  index within the tolerance t, two of its coordinates would be off by a and b with a² + b² ≤ t², so that 2(a + b) ≤ 3t
  (`Margin`), which is why the margin of the code, 1.5 t, is enough for the order of two stars; the mean of
  the first x of a sorted code is at most the mean of all (`MeanOfFirst`).

`BlockNodes_proofs` and `BlockList_proofs` prove about the block lists, for any lists, values, size of nodes and calls:

- `ListInv`: for every list there is a sequence of nodes, no two of them the same, linked in this order (`Links`), and a cut
  of its elements into pieces of at most `BlockSize`, one for each node (`Pieces`); the header knows the ends and the
  count, and the shortcut is at one of the cuts (`AtCut`); every node is in one list (`Layout`). The nodes are not a
  variable, but what `Nodes` and `Items` find along `next`: those functions are defined because a list has no cycle,
  and the function that reads off the cut is the one they must be (`AlongExists`). With that a search from the
  shortcut or from the head ends at the node of the element (`WalkFinds`);
- each operation replaces some nodes of a list by others (`Patch`): the cut is then the old one with the same nodes replaced
  (`CutsSplice`), and what changes in the elements follows. Nodes freed were of this list alone, and new ones of none
  (`Change`, `LayoutAfter`), so other lists keep theirs;
- the binary searches are about a shortcut that moves between two reads: inductive is that it is at a cut or nowhere,
  and that the place of the value stays between the bounds (`Between`);
- `bl_sort` leaves, for every choice of pivots, nodes that hold the elements in order (`SortsTo`), by a least counterexample
  in the depth of the recursion; that no element is lost is a bijection put together from those of the three lists
  (`Reorders`);
- from `ListInv`: `ListConsistent`, `ListShortcutRight`, `ListAccessFindsNth` (for the calls of `Spec`; with `remove_value`
  of any element it is false, see below);
- `ListsAreSequences`: the refinement. Every step of every operation, with its answer, is one of `AbstractList` on the elements
  that `Items` finds.

`Ranking_proofs` has the lemmas that these use: on `Ranking`, on filtered sequences, on sums (`TotalIsSum`), on sequences with
a part replaced (`Splice`), and on sequences cut into pieces (`Cuts`).

`OutcomeOfFinished` (`FinishedHasOutcome`), `ExtremesRight` (`ExtremesAreRight`) and the type invariants of
all but the daemon are left to the proofs, or to other properties of the runs.

Assumptions: those of the constants, which TLC evaluates in every run, and the hypotheses named above (`KeepsSolved`,
`OpenDepthsLead`, `SmallLimits`, `ShufflesPermute`). The last says for any number of points what `ShuffleAssumption`
says for as many as there are rows, so that TLC can evaluate it.

Only model-checked: liveness (`EverySubmissionFinishes`, `EveryImageGetsAnswer`, `JobEnds`), which with `ENABLED` is out
of this prover's reach. The induction theorems of the library are too, as they take an operator;
where a proof goes along the numbers (sums over a sequence, ranks in a set, nodes of a list, one sweep after the other) it
takes a least counterexample instead (`NatMin` in `Ranking_proofs`). `SelectSeq`, `SortSeq`, `SetToSortSeq`, `FlattenSeq` and
folds say nothing to the provers, therefore the models that are proved about use the functions of `Ranking`, `Total`,
`Sweeps` and `Chunks` in their place.

## Where code and text disagree

Shown by a run, and in `findings` of `PROJECT.json`:

- `finding_margin`: `solver/build-index-main.c:61` "add a margin of <margin> healpixels": the margin is a list of
  64-bit numbers that `solver/uniformize-catalog.c:259` searches as one of 32-bit numbers (`MarginContains`).
- `finding_kd_limits`: `include/astrometry/kdtree.h:574` "\"nres\" is the number of points within range.": the
  splitting plane is cut to a whole number for a query outside of the tree's limits (`RangeReal`).

Stated as a property, and shown by TLC when the cfg named is run with it instead of its own properties:

| property | with | text | code |
|---|---|---|---|
| `TaskFinishesSubmission` | `daemon_crash` | `net/process_submissions.py:1091` "Set the maximum number of times to retry processing a submission" | a retry calls `try_dosub` with arguments it does not have and raises `TypeError` (492) |
| `FlagAnswersItsComment` | `web_edit` | `net/models.py:1020` "Does this UserImage have at least one Job?" | an edit saves the row with `has_job` as it was read (`net/views/image.py:245`) |
| `AlwaysAnIndex` | `engine`, `Jobs <- GapJobs` | `solver/engine.c:627` "Use the (list of) smallest or largest indices if no other one fits." | scales between two index files reach `assert(0)` (635) |
| `OpenDepthSearchesAll` | `engine`, `Jobs <- OpenJobs` | `include/astrometry/solver.h:104` "The first and last field objects to look at; default is all of them." | a depth without end after one with an end keeps the end of that one (`solver/engine.c:604`) |
| `LimitWasReached` | `engine`, `Jobs <- VerifyJobs` | `solver/onefield.c:308` "Wall-clock time limit reached!" | time was measured from 0 while a WCS is verified: the limit is hit at once |
| `LogOddsAreScore` | `verify` | `solver/verify.c:622` "\"switchfg\" incorporates the cost of adjusting the previous probabilities." | distractors after the old match are adjusted by the step above the count of matches before them, not by the one below: the old match is still counted (599-607) |
| `SortedCorrespond` | `verify` | `include/astrometry/matchobj.h:114` "theta[i] is the reference star that matched, as an index in the "refxyz", "refxy", and "refstarid" arrays" | `solver/onefield.c:710` renumbers theta by the permutation of the sort and not by its inverse |
| `AccessFindsNth` | `lists`, `SPECIFICATION AnySpec` | `include/astrometry/bl.h:58` "Returns a pointer to the nth element." | `util/bl-nl.c:170` keeps the node before the value's with the count of elements before the latter; callers are `solve-field.c:1388` and `augment-xylist.c:991` |
| `Consistent` | `lists`, `SPECIFICATION SplitSpec` | `include/astrometry/bl.h:71` "Removes elements from \c split to the end of the list from \c src and appends them to \c dest." | `util/bl.c:127` moves the tail of `dest` to the first node it gets, and only if it was empty: the next append drops the elements behind it; only `test_bl.c:66` calls it, and never appends afterwards |
| `Consistent` | `lists`, `SPECIFICATION ReuseSpec` | `include/astrometry/bl.h:114` "it slightly faster for the case when you're going to add more elements right away" | the node kept has no elements (`util/bl.c:198`), which `bl_check_consistency` calls an error and a sorted insertion reads in front of (`util/bl-nl.c:305`); nothing calls it yet |

Part of the models, without a property of their own:

- `net/process_submissions.py:213` "Want to stop the main process, not just this pool worker process": EMFILE
  raised in a worker only makes its result unsuccessful, and main goes on (`JobOSError`).
- `include/astrometry/solver.h:126` "Number of field quads to try or zero for no limit.": `maxquads` is looked
  at after all quads of a star, so more are tried (`LimitHit`).
- `solver/solver.c:842` "the struct at index (B * numxy + A) holds information about quads that could be created
  using stars A,B": `startobj` is compared with the number of stars before that is cut to 1000 (791), so a depth
  that starts beyond it primes pairs the array has no room for (`StartRun`, `Prime`).
- `doc/readme.rst:307` "will make it give up after 30 seconds.": limits are counted from the start of every run
  of a depth and scale, and of every index (`BeginRun`, `NextBatch`).
- `solver/engine-main.c:192` "quit solving if this file appears": the fields left in the list are still begun, each
  until its first timer callback (`StartField`); `CancelledTriesNoIndex` is what holds.
- `solver/engine-main.c:194` "write to this file when a field is solved": `-s` falls through to `-C`
  (`CancelExists`).
- `solver/onefield.c:1539` "We only want the best solution for each field": the best of one run; a job of several
  fields without a solved file searches them again and overwrites a WCS by a later, weaker one (`FinishRun`).
- after `quit_now` the other parity and the slots before the last go on, and look at one verified match of each
  search (`Resolve`, `TurnAround`; `solver/solver.c:1082`).
- a star that was the best match when the odds were highest may become a `CONFLICT` later, and theta reports it
  so (`SwitchMatch`).
- a healpix that is a single cell of the uniformization gets no margin (`Margin`); no sweeps write an empty
  catalog, though the test for duplicates treats 0 as unlimited (`Place`, `WriteSweeps`).
- uses of a star are counted in a byte: `Nreuse` above 255 is refused and `Nloosen` is not (`CountUses`).
- a node of a single point gets no splitting plane, and a search may then miss that point (`SplitThin`,
  `SomeoneAlone`); the nearest neighbour in a tree of integers is that of the truncated query (`TQuery`).

## Hazards without a property

In `hazards` of `PROJECT.json`: `solver/onefield.c:710` and `libkd/kdtree_internal.c:2297`, which do go wrong (see
above). Others were left out of that list as no decision that is modelled depends on them:
`process_submissions.py` 662 (two submissions of one file create its image twice), 930 (a job deleted by hand under
the daemon), 1045 (an image whose user was deleted), 1070 (an owner's change of visibility is reverted by a save of
the row); `models.py` 312 (a file is in the store before its row), 1080 (solved jobs are overwritten by calibrated
ones); `cleancache.py` 51 (a file is deleted that a request is about to open); `onefield.c` 1041 (a solved file
without outputs after a kill); `solvedfile.c` 91 (an I/O error counts as solved); `engine.c` 915 (an inverted depth
ends the whole job file).

## Not modelled

`components` in `PROJECT.json` lists every part with its status and reason. In short:

- numerical work (source extraction, tweaking, projections, fitting, healpix numbering) is arithmetic on floating-point
  numbers with hardly any control: its results are choices in the models (which star is near, which quad fits);
- I/O formats, plotting, command-line drivers, the SDSS tools, the catalogues (most of the repository's lines are their
  data), vendored code (`gsl-an`, `qfits-an`), the Windows port and the build;
- of nova: the API and sessions, the file store and its cleaner, the admin scripts: two-step operations on rows and
  files that share no state with the modelled ones but the rows as a whole;
- of index building: `allquads.c`, `merge-index.c`, the variants that go through files; of `quad-builder.c` that its
  second phase lists quads again (`allquads.c` then writes them twice);
- of verification: `verify_count_hits`, intermediate logging, an existing WCS without sweep numbers (it would read
  `skdt->sweep`, 1337); the branch of `solver_handle_hit` that undoes a distortion;
- of the kd-trees: bounding boxes, trees of doubles, dual-tree searches, `linear_lr`; string lists (the `sl_` functions of
  `bl.c`), `bt.c`, `intmap.c`.

The models stand for the control of the parts they name; the share of all lines they map is small because most lines
are data and numerical code.
