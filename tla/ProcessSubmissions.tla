------------------------- MODULE ProcessSubmissions -------------------------
(***************************************************************************)
(* The submission daemon of the web service (net/process_submissions.py)   *)
(* and the database rows it works on (net/models.py).                      *)
(*                                                                         *)
(* One main process polls the database, hands new Submissions to a pool of *)
(* submission workers (try_dosub) and images that have no Job to a pool of *)
(* solver workers (try_dojob), and collects their results.  The rows are   *)
(* the only state that survives the process; whatever stops it (a crash,   *)
(* the daily exit, the service manager) loses the pools and the tasks in   *)
(* them, and the next start repairs the rows.                              *)
(*                                                                         *)
(* A flag or timestamp of a row is the set of the rows that have it.       *)
(***************************************************************************)
EXTENDS Naturals, FiniteSets

CONSTANTS
    Subs,             \* submissions that users may make
    Files,            \* the files inside a submission (a tarball, or one image)
    UIs,              \* ids of UserImage rows: bounds the images ever created
    JobIds,           \* ids of Job rows: bounds the jobs alive at a time
    None,             \* no job
    SubThreads,       \* -s: size of the submission pool, 1 for no pool
    JobThreads,       \* -j: size of the job pool, 1 for no pool
    MaxRetries,       \* -m: retries of a submission after database errors
    NoTimeout,        \* --no-timeout: never exit after a day
    LongDay,          \* the day lasts until the daemon has done what it can
    MaxFaults         \* bound on crashes, worker deaths and I/O errors

ASSUME SizeAssumption ==
    /\ SubThreads \in Nat \ {0} /\ JobThreads \in Nat \ {0}
    /\ MaxRetries \in Nat /\ MaxFaults \in Nat
    /\ IsFiniteSet(Subs) /\ IsFiniteSet(Files)
    /\ IsFiniteSet(UIs) /\ IsFiniteSet(JobIds)
ASSUME FlagAssumption ==
    /\ NoTimeout \in BOOLEAN /\ LongDay \in BOOLEAN
ASSUME NoneAssumption == None \notin JobIds

VARIABLES
    (* Rows of the database *)
    subs,         \* Submission rows
    subStarted,   \* processing_started is set
    subFinished,  \* processing_finished is set
    subError,     \* error_message is set
    retries,      \* processing_retries
    uiOf,         \* UserImage rows: id -> <<submission, file>>
    hasJob,       \* UserImages whose has_job is true
    jobUI,        \* Job rows: id -> user_image; all have queued_time set
    jobStarted,   \* start_time is set
    jobEnded,     \* end_time is set
    jobSolved,    \* status is 'S'; an ended job outside the set has 'F'
    calib,        \* calibration is set
    (* The main process *)
    pc,           \* where main is
    oldjobs,      \* startup: jobs whose image is still to be released
    newsubs,      \* Submissions found by this turn of the loop
    imagesSeen,   \* this turn counted images without a job (n_new_ui > 0)
    age,          \* "day", "late" after maxtime, "over" after extratime more
    seenAge,      \* age as read by this turn of the loop
    launch,       \* images selected to get a job in this turn
    cur,          \* the Job being created
    (* The pools: a task is in the results of main unless it is "none" *)
    subTask,      \* state of the submission's task
    left,         \* files the task has still to look at
    worked,       \* submissions whose task made an image (any_worked)
    jobTask,      \* state of the job's task
    faults        \* faults so far, at most MaxFaults

subRows == <<subs, subStarted, subFinished, subError, retries>>
jobRows == <<jobUI, jobStarted, jobEnded, jobSolved, calib>>
rows == <<subRows, uiOf, hasJob, jobRows>>
locals == <<oldjobs, newsubs, imagesSeen, seenAge, launch, cur>>
main == <<pc, locals>>
subPool == <<subTask, left, worked>>
pools == <<subPool, jobTask>>
vars == <<rows, main, age, pools, faults>>

-----------------------------------------------------------------------------
Ready == {"ok", "failed", "emfile"}      \* AsyncResult.ready()
Running == {"running", "calibrated"}
Live == Running \union {"queued"}

SubResults == {s \in Subs : subTask[s] # "none"}
JobResults == {j \in JobIds : jobTask[j] # "none"}
SubPooled == SubThreads > 1
JobPooled == JobThreads > 1

uis == DOMAIN uiOf                       \* UserImage rows
jobs == DOMAIN jobUI                     \* Job rows
\* Mutant of Unstarted: filters on processing_finished.
UnstartedByFinish == subs \ subFinished
Unstarted == subs \ subStarted           \* processing_started__isnull=True
\* Mutants of Stale: the finished ones too; not the ones that were retried.
StaleIgnoresFinish == subStarted
StaleSkipsRetried == {s \in subStarted \ subFinished : retries[s] = 0}
Stale == subStarted \ subFinished        \* started and not finished
WithoutJob == uis \ hasJob               \* has_job=False
\* Mutant of Unended: filters on status instead of end_time.
UnendedByStatus == jobs \ jobSolved
Unended == jobs \ jobEnded               \* end_time__isnull=True

LiveTasks == \/ \E s \in Subs : subTask[s] \in Live
             \/ \E j \in JobIds : jobTask[j] \in Live

\* The table f with the row id -> v; the id of a new row in a table.
WithRow(f, id, v) == [i \in DOMAIN f \union {id} |-> IF i = id THEN v ELSE f[i]]
NewId(Ids, f) == CHOOSE i \in Ids : i \notin DOMAIN f
NoRows == [i \in {} |-> i]

GoTo(from, to) == pc = from /\ pc' = to
Fault == faults < MaxFaults /\ faults' = faults + 1

Init ==
    /\ subs = {} /\ subStarted = {} /\ subFinished = {} /\ subError = {}
    /\ retries = [s \in Subs |-> 0]
    /\ uiOf = NoRows /\ hasJob = {}
    /\ jobUI = NoRows /\ jobStarted = {} /\ jobEnded = {} /\ jobSolved = {}
    /\ calib = {}
    /\ pc = "down" /\ oldjobs = {} /\ newsubs = {} /\ imagesSeen = FALSE
    /\ age = "day" /\ seenAge = "day" /\ launch = {} /\ cur = None
    /\ subTask = [s \in Subs |-> "none"] /\ left = [s \in Subs |-> {}]
    /\ worked = {}
    /\ jobTask = [j \in JobIds |-> "none"]
    /\ faults = 0

-----------------------------------------------------------------------------
(* Users and time *)

\* A user uploads a file or gives a URL: a new Submission row.
Submit(s) ==
    /\ s \notin subs
    /\ subs' = subs \union {s}
    /\ UNCHANGED <<subStarted, subFinished, subError, retries, uiOf, hasJob,
                   jobRows, main, age, pools, faults>>

\* There is work the daemon is doing or has the workers to do.
Busy ==
    \/ LiveTasks \/ Unstarted # {} \/ pc \notin {"poll", "decide"}
    \/ /\ WithoutJob # {}
       /\ JobPooled =>
            Cardinality({j \in JobIds : jobTask[j] = "lost"}) < JobThreads

\* The daemon gets older.
Tick ==
    /\ pc # "down"
    /\ \/ age = "day" /\ age' = "late" /\ (LongDay => ~Busy)
       \/ age = "late" /\ age' = "over" /\ (LongDay => ~LiveTasks)
    /\ UNCHANGED <<rows, main, pools, faults>>

-----------------------------------------------------------------------------
(* Starting and stopping *)

\* The process ends, and the pools with every task in them end with it.
Stop ==
    /\ pc' = "down"
    /\ oldjobs' = {} /\ newsubs' = {} /\ imagesSeen' = FALSE
    /\ seenAge' = "day" /\ age' = "day" /\ launch' = {} /\ cur' = None
    /\ subTask' = [s \in Subs |-> "none"]
    /\ left' = [s \in Subs |-> {}] /\ worked' = {}
    /\ jobTask' = [j \in JobIds |-> "none"]
    /\ UNCHANGED rows

Crash == pc # "down" /\ Stop /\ Fault

\* Restart=always: the service manager starts the daemon again.
Start ==
    /\ GoTo("down", "resetSubs")
    /\ UNCHANGED <<rows, locals, age, pools, faults>>

\* Submissions started but not finished: reset the start time to null.
ResetSub(s) ==
    /\ pc = "resetSubs" /\ s \in Stale
    /\ subStarted' = subStarted \ {s}
    /\ UNCHANGED <<subs, subFinished, subError, retries, uiOf, hasJob, jobRows,
                   main, age, pools, faults>>

\* Mutant of FindOldJobs: releases the images of the jobs that started only.
FindStartedJobs ==
    /\ GoTo("resetSubs", "release")
    /\ Stale = {}
    /\ oldjobs' = Unended \intersect jobStarted
    /\ UNCHANGED <<rows, newsubs, imagesSeen, seenAge, launch, cur, age, pools,
                   faults>>

FindOldJobs ==
    /\ GoTo("resetSubs", "release")
    /\ Stale = {}
    /\ oldjobs' = Unended
    /\ UNCHANGED <<rows, newsubs, imagesSeen, seenAge, launch, cur, age, pools,
                   faults>>

\* has_job = False for the image of every old job ...
ReleaseImage(j) ==
    /\ pc = "release" /\ j \in oldjobs
    /\ hasJob' = hasJob \ {jobUI[j]}
    /\ oldjobs' = oldjobs \ {j}
    /\ UNCHANGED <<subRows, uiOf, jobRows, pc, newsubs, imagesSeen, seenAge,
                   launch, cur, age, pools, faults>>

\* ... and only then are the old jobs deleted.
\* Mutant of DeleteOldJobs: deletes what is not solved.
DeleteUnsolvedJobs ==
    /\ GoTo("release", "poll")
    /\ oldjobs = {}
    /\ jobUI' = [j \in jobSolved |-> jobUI[j]]
    /\ jobStarted' = jobStarted \intersect jobSolved
    /\ jobEnded' = jobEnded \intersect jobSolved
    /\ calib' = calib \intersect jobSolved
    /\ UNCHANGED <<subRows, uiOf, hasJob, jobSolved, locals, age, pools, faults>>

DeleteOldJobs ==
    /\ GoTo("release", "poll")
    /\ oldjobs = {}
    /\ jobUI' = [j \in jobs \ Unended |-> jobUI[j]]
    /\ jobStarted' = jobStarted \ Unended
    /\ calib' = calib \ Unended
    /\ UNCHANGED <<subRows, uiOf, hasJob, jobEnded, jobSolved, locals, age, pools,
                   faults>>

-----------------------------------------------------------------------------
(* One turn of the loop of main *)

\* Results that are ready leave the lists, successful or not.
Collect(task) ==
    [t \in DOMAIN task |-> IF task[t] \in Ready THEN "none" ELSE task[t]]

Poll ==
    /\ GoTo("poll", "decide")
    /\ newsubs' = Unstarted
    /\ imagesSeen' = (WithoutJob # {})
    /\ seenAge' = IF NoTimeout THEN "day" ELSE age
    /\ subTask' = Collect(subTask)
    /\ jobTask' = Collect(jobTask)
    /\ left' = [s \in Subs |-> IF subTask'[s] = "none" THEN {} ELSE left[s]]
    /\ worked' = {s \in worked : subTask'[s] # "none"}
    /\ UNCHANGED <<rows, oldjobs, launch, cur, age, faults>>

\* Back to the top of the loop, where what the turn has read is read again.
NextTurn ==
    /\ pc' = "poll"
    /\ newsubs' = {} /\ imagesSeen' = FALSE /\ seenAge' = "day" /\ cur' = None
    /\ UNCHANGED <<rows, oldjobs, launch, age, pools, faults>>

\* Mutant of Quit: no end to the extra time.
QuitWhenDone ==
    /\ pc = "decide" /\ seenAge # "day"
    /\ JobResults = {}
    /\ Stop
    /\ UNCHANGED faults

\* The day is over: leave when no job is out, or when the extra time is over
\* too.  Submissions in the other pool are not waited for.
Quit ==
    /\ pc = "decide" /\ seenAge # "day"
    /\ JobResults = {} \/ seenAge = "over"
    /\ Stop
    /\ UNCHANGED faults

WaitForJobs ==
    /\ pc = "decide" /\ seenAge = "late" /\ JobResults # {}
    /\ NextTurn

\* An empty queryset was not cached by its count: it is evaluated again here.
FoundSubs == IF newsubs = {} THEN Unstarted ELSE newsubs

Idle ==
    /\ pc = "decide" /\ seenAge = "day"
    /\ FoundSubs = {} /\ ~imagesSeen
    /\ NextTurn

TakeWork ==
    /\ GoTo("decide", "enqueue")
    /\ seenAge = "day"
    /\ FoundSubs # {} \/ imagesSeen
    /\ newsubs' = FoundSubs
    /\ imagesSeen' = FALSE
    /\ UNCHANGED <<rows, oldjobs, seenAge, launch, cur, age, pools, faults>>

Enqueue(s) ==
    /\ GoTo("enqueue", IF SubPooled THEN "enqueue" ELSE "awaitSub")
    /\ s \in newsubs
    /\ newsubs' = newsubs \ {s}
    /\ subStarted' = subStarted \union {s}
    /\ subTask' = [subTask EXCEPT ![s] = "queued"]
    /\ left' = [left EXCEPT ![s] = Files]
    /\ worked' = worked \ {s}
    /\ UNCHANGED <<subs, subFinished, subError, retries, uiOf, hasJob, jobRows,
                   oldjobs, imagesSeen, seenAge, launch, cur, age, jobTask, faults>>

\* Without a pool main runs the task itself; what the task raises ends main.
AwaitSub(s) ==
    /\ pc = "awaitSub" /\ subTask[s] \in Ready
    /\ \/ /\ GoTo("awaitSub", "enqueue")
          /\ subTask[s] = "ok"
          /\ subTask' = [subTask EXCEPT ![s] = "none"]
          /\ UNCHANGED <<rows, locals, age, left, worked, jobTask>>
       \/ subTask[s] # "ok" /\ Stop
    /\ UNCHANGED faults

PoolFull ==
    /\ pc = "enqueue" /\ newsubs = {}
    /\ JobPooled /\ Cardinality(JobResults) >= JobThreads
    /\ NextTurn

\* Mutant of SelectImages: one more than there is room for.
SelectTooMany ==
    /\ GoTo("enqueue", "launch")
    /\ newsubs = {}
    /\ \/ ~JobPooled /\ launch' = WithoutJob
       \/ LET room == JobThreads - Cardinality(JobResults) IN
            /\ JobPooled /\ room > 0
            /\ \E S \in SUBSET WithoutJob :
                  /\ Cardinality(S) <= room + 1
                  /\ launch' = S
    /\ UNCHANGED <<rows, oldjobs, newsubs, imagesSeen, seenAge, cur, age, pools,
                   faults>>

\* Choose the images to start.  The users take turns at random, so any images
\* may be chosen, as many as there is room for; without a pool, all of them.
SelectImages ==
    /\ GoTo("enqueue", "launch")
    /\ newsubs = {}
    /\ \/ ~JobPooled /\ launch' = WithoutJob
       \/ LET room == JobThreads - Cardinality(JobResults) IN
            /\ JobPooled /\ room > 0
            /\ \E S \in SUBSET WithoutJob :
                  /\ Cardinality(S) <= room
                  /\ S = WithoutJob \/ Cardinality(S) = room
                  /\ launch' = S
    /\ UNCHANGED <<rows, oldjobs, newsubs, imagesSeen, seenAge, cur, age, pools,
                   faults>>

\* Save a new Job row.
CreateJob(u) ==
    /\ GoTo("launch", "mark")
    /\ u \in launch
    /\ JobIds \ jobs # {}
    /\ launch' = launch \ {u}
    /\ cur' = NewId(JobIds, jobUI)
    /\ jobUI' = WithRow(jobUI, cur', u)
    /\ UNCHANGED <<subRows, uiOf, hasJob, jobStarted, jobEnded, jobSolved, calib,
                   oldjobs, newsubs, imagesSeen, seenAge, age, pools, faults>>

\* Mutant of QueueJob: has_job is not saved.
QueueUnmarked ==
    /\ GoTo("mark", IF JobPooled THEN "launch" ELSE "awaitJob")
    /\ jobTask' = [jobTask EXCEPT ![cur] = "queued"]
    /\ UNCHANGED <<rows, locals, age, subPool, faults>>

\* Save has_job = True in the image, then hand the job to a worker.
QueueJob ==
    /\ GoTo("mark", IF JobPooled THEN "launch" ELSE "awaitJob")
    /\ hasJob' = hasJob \union {jobUI[cur]}
    /\ jobTask' = [jobTask EXCEPT ![cur] = "queued"]
    /\ UNCHANGED <<subRows, uiOf, jobRows, locals, age, subPool, faults>>

AwaitJob ==
    /\ pc = "awaitJob" /\ jobTask[cur] \in Ready
    /\ \/ /\ GoTo("awaitJob", "launch")
          /\ jobTask[cur] = "ok"
          /\ jobTask' = [jobTask EXCEPT ![cur] = "none"]
          /\ UNCHANGED <<rows, locals, age, subPool>>
       \/ jobTask[cur] # "ok" /\ Stop
    /\ UNCHANGED faults

AllLaunched ==
    /\ pc = "launch" /\ launch = {}
    /\ NextTurn

-----------------------------------------------------------------------------
(* Submission workers: try_dosub and dosub *)

SubRun(s) ==
    /\ subTask[s] = "queued"
    /\ Cardinality({t \in Subs : subTask[t] = "running"}) < SubThreads
    /\ subTask' = [subTask EXCEPT ![s] = "running"]
    /\ subStarted' = subStarted \union {s}
    /\ UNCHANGED <<subs, subFinished, subError, retries, uiOf, hasJob, jobRows,
                   main, age, left, worked, jobTask, faults>>

\* A file becomes an Image and a new UserImage: the get_or_create names a
\* CommentReceiver made one line earlier, so it never finds an old row.
SubImage(s, f) ==
    /\ subTask[s] = "running" /\ f \in left[s]
    /\ UIs \ uis # {}
    /\ uiOf' = WithRow(uiOf, NewId(UIs, uiOf), <<s, f>>)
    /\ left' = [left EXCEPT ![s] = @ \ {f}]
    /\ worked' = worked \union {s}
    /\ UNCHANGED <<subRows, hasJob, jobRows, main, age, subTask, jobTask, faults>>

\* A file of an unsupported type: the exception is kept, the next file tried.
SubBadFile(s, f) ==
    /\ subTask[s] = "running" /\ f \in left[s]
    /\ left' = [left EXCEPT ![s] = @ \ {f}]
    /\ UNCHANGED <<rows, main, age, subTask, worked, jobTask, faults>>

SubFinish(s) ==
    /\ subTask[s] = "running" /\ left[s] = {} /\ s \in worked
    /\ subFinished' = subFinished \union {s}
    /\ subTask' = [subTask EXCEPT ![s] = "ok"]
    /\ UNCHANGED <<subs, subStarted, subError, retries, uiOf, hasJob, jobRows,
                   main, age, left, worked, jobTask, faults>>

\* Mutant of GiveUp: processing_finished is not set.
GiveUpUnfinished(s) ==
    /\ subError' = subError \union {s}
    /\ subTask' = [subTask EXCEPT ![s] = "ok"]
    /\ UNCHANGED subFinished

\* An error is written to the submission, which counts as finished.
GiveUp(s) ==
    /\ subFinished' = subFinished \union {s}
    /\ subError' = subError \union {s}
    /\ subTask' = [subTask EXCEPT ![s] = "ok"]

\* Any exception but a database error: no file worked, a bad URL, a full disk.
SubRaise(s) ==
    /\ subTask[s] = "running"
    /\ GiveUp(s)
    /\ UNCHANGED <<subs, subStarted, retries, uiOf, hasJob, jobRows, main, age,
                   left, worked, jobTask, faults>>

\* A database error.  The retry calls try_dosub with arguments it does not
\* take: the TypeError ends the task and the submission stays unfinished.
SubDbError(s) ==
    /\ subTask[s] = "running" /\ Fault
    /\ \/ /\ retries[s] < MaxRetries
          /\ retries' = [retries EXCEPT ![s] = @ + 1]
          /\ subTask' = [subTask EXCEPT ![s] = "failed"]
          /\ UNCHANGED <<subFinished, subError>>
       \/ /\ retries[s] >= MaxRetries
          /\ GiveUp(s)
          /\ UNCHANGED retries
    /\ UNCHANGED <<subs, subStarted, uiOf, hasJob, jobRows, main, age, left, worked,
                   jobTask>>

\* A pool worker is killed: its result never becomes ready.
SubWorkerDies(s) ==
    /\ SubPooled /\ subTask[s] = "running" /\ Fault
    /\ subTask' = [subTask EXCEPT ![s] = "lost"]
    /\ UNCHANGED <<rows, main, age, left, worked, jobTask>>

-----------------------------------------------------------------------------
(* Job workers: try_dojob and dojob *)

JobRun(j) ==
    /\ jobTask[j] = "queued"
    /\ Cardinality({k \in JobIds : jobTask[k] \in Running}) < JobThreads
    /\ jobTask' = [jobTask EXCEPT ![j] = "running"]
    /\ jobStarted' = jobStarted \union {j}
    /\ UNCHANGED <<subRows, uiOf, hasJob, jobUI, jobEnded, jobSolved, calib, main,
                   age, subPool, faults>>

\* The job directory cannot be made: raised outside of the try statement.
JobDirFails(j) ==
    /\ jobTask[j] = "queued" /\ Fault
    /\ jobTask' = [jobTask EXCEPT ![j] = "failed"]
    /\ UNCHANGED <<rows, main, age, subPool>>

\* The solver left a WCS file: its calibration is saved in the job first.
JobCalibrate(j) ==
    /\ jobTask[j] = "running"
    /\ jobTask' = [jobTask EXCEPT ![j] = "calibrated"]
    /\ calib' = calib \union {j}
    /\ UNCHANGED <<subRows, uiOf, hasJob, jobUI, jobStarted, jobEnded, jobSolved,
                   main, age, subPool, faults>>

JobSucceed(j) ==
    /\ jobTask[j] = "calibrated"
    /\ jobTask' = [jobTask EXCEPT ![j] = "ok"]
    /\ jobEnded' = jobEnded \union {j}
    /\ jobSolved' = jobSolved \union {j}
    /\ UNCHANGED <<subRows, uiOf, hasJob, jobUI, jobStarted, calib, main, age,
                   subPool, faults>>

\* No WCS file, or an exception at any time: status 'F'.
JobFail(j) ==
    /\ jobTask[j] \in Running
    /\ jobTask' = [jobTask EXCEPT ![j] = "ok"]
    /\ jobEnded' = jobEnded \union {j}
    /\ UNCHANGED <<subRows, uiOf, hasJob, jobUI, jobStarted, jobSolved, calib, main,
                   age, subPool, faults>>

\* An OSError is caught and the job's row is left as it is; "too many open
\* files" is raised again and becomes the result of the task.
JobOSError(j) ==
    /\ jobTask[j] \in Running /\ Fault
    /\ \E result \in {"ok", "emfile"} :
          jobTask' = [jobTask EXCEPT ![j] = result]
    /\ UNCHANGED <<rows, main, age, subPool>>

JobWorkerDies(j) ==
    /\ JobPooled /\ jobTask[j] \in Running /\ Fault
    /\ jobTask' = [jobTask EXCEPT ![j] = "lost"]
    /\ UNCHANGED <<rows, main, age, subPool>>

-----------------------------------------------------------------------------
Startup ==
    \/ Start \/ FindOldJobs \/ DeleteOldJobs
    \/ \E s \in Subs : ResetSub(s)
    \/ \E j \in JobIds : ReleaseImage(j)

Loop ==
    \/ Poll \/ Quit \/ WaitForJobs \/ Idle \/ TakeWork
    \/ PoolFull \/ SelectImages \/ QueueJob \/ AwaitJob \/ AllLaunched
    \/ \E s \in Subs : Enqueue(s) \/ AwaitSub(s)
    \/ \E u \in UIs : CreateJob(u)

Main == Startup \/ Loop

SubWorks(s) ==
    \/ SubRun(s) \/ SubFinish(s) \/ SubRaise(s)
    \/ \E f \in Files : SubImage(s, f) \/ SubBadFile(s, f)
JobWorks(j) == JobRun(j) \/ JobCalibrate(j) \/ JobSucceed(j) \/ JobFail(j)

SubFault(s) == SubDbError(s) \/ SubWorkerDies(s)
JobFault(j) == JobDirFails(j) \/ JobOSError(j) \/ JobWorkerDies(j)

Next ==
    \/ Main \/ Tick \/ Crash
    \/ \E s \in Subs : Submit(s) \/ SubWorks(s) \/ SubFault(s)
    \/ \E j \in JobIds : JobWorks(j) \/ JobFault(j)

Spec == Init /\ [][Next]_vars

\* Main runs, time passes, and a worker that was not killed goes on.  Users and
\* faults owe nothing.  Liveness needs LongDay: a day (maxtime) is long against a
\* turn of the loop and a task, so work in reach is done before the day is over.
Fairness ==
    /\ WF_vars(Main) /\ WF_vars(Tick)
    /\ \A s \in Subs : WF_vars(SubWorks(s))
    /\ \A j \in JobIds : WF_vars(JobWorks(j))

FairSpec == Spec /\ Fairness

-----------------------------------------------------------------------------
TypeOK ==
    /\ subs \subseteq Subs /\ subStarted \subseteq subs
    /\ subFinished \subseteq subs /\ subError \subseteq subFinished
    /\ retries \in [Subs -> Nat]
    /\ uis \subseteq UIs /\ uiOf \in [uis -> subs \X Files]
    /\ hasJob \subseteq uis
    /\ jobs \subseteq JobIds /\ jobUI \in [jobs -> uis]
    /\ jobStarted \subseteq jobs /\ jobEnded \subseteq jobs
    /\ jobSolved \subseteq jobEnded /\ calib \subseteq jobs
    /\ pc \in {"down", "resetSubs", "release", "poll", "decide",
               "enqueue", "awaitSub", "launch", "mark", "awaitJob"}
    /\ oldjobs \subseteq jobs /\ newsubs \subseteq subs
    /\ imagesSeen \in BOOLEAN
    /\ age \in {"day", "late", "over"} /\ seenAge \in {"day", "late", "over"}
    /\ launch \subseteq uis /\ cur \in jobs \union {None}
    /\ pc \in {"mark", "awaitJob"} => cur # None
    /\ subTask \in [Subs -> {"none", "queued", "running", "lost"} \union Ready]
    /\ left \in [Subs -> SUBSET Files] /\ worked \subseteq subs
    /\ jobTask \in [JobIds -> {"none", "lost"} \union Live \union Ready]
    /\ \A j \in JobIds : jobTask[j] # "none" => j \in jobs
    /\ \A s \in Subs : subTask[s] # "none" => s \in subs
    /\ faults \in 0..MaxFaults
-----------------------------------------------------------------------------
(* Safety *)

\* An image never has two Jobs, across crashes and restarts at any point: main
\* creates one only for an image found without has_job, and startup releases the
\* image of an unfinished Job before deleting the Job (main, 841-850, 1065-1070).
OneJobPerImage == \A j, k \in jobs : jobUI[j] = jobUI[k] => j = k

Looping == pc \notin {"down", "resetSubs", "release"}

\* has_job answers "does this UserImage have at least one Job?" (models.py 1020)
\* whenever main looks at it: never true without a Job, and false with a Job only
\* between the two saves of a launch.
HasJobIsTrue ==
    Looping => \A u \in uis :
        (u \in hasJob) <=>
            \E j \in jobs : jobUI[j] = u /\ ~(pc = "mark" /\ j = cur)

\* A worker, or a result not yet collected, never refers to a Job whose image has
\* been released for another Job, and only an unfinished Job is worked on.
TasksOwnTheirImage ==
    \A j \in JobIds : jobTask[j] # "none" =>
        /\ Looping /\ j \in jobs /\ jobUI[j] \in hasJob
        /\ jobTask[j] \in Live => j \in Unended

\* Main never has more jobs out than the pool has workers (n_add): the choice of
\* the next user is made when a worker is free, not earlier (main, 994-1023).
JobSlots == JobPooled => Cardinality(JobResults) <= JobThreads

\* A submission counts as finished only when one of its files became an image or
\* the error is recorded, also when an interrupted attempt is repeated.
FinishedHasOutcome ==
    \A s \in subFinished : s \in subError \/ \E u \in uis : uiOf[u][1] = s

\* What a Job ended with is never lost or redone: the startup repair deletes
\* unfinished Jobs only, and no worker writes an ended Job again.
EndedStays ==
    [][\A j \in jobEnded :
          /\ j \in jobEnded' /\ j \in jobs' /\ jobUI'[j] = jobUI[j]
          /\ (j \in jobSolved') <=> (j \in jobSolved)
          /\ (j \in calib') <=> (j \in calib)]_vars

\* A finished submission is never processed again.
FinishedNotRestarted ==
    [][\A s \in subFinished : s \in subStarted' /\ subTask'[s] # "queued"]_vars

\* No turn of the loop enqueues again what an earlier one has enqueued, whether its
\* task still waits, runs, is lost with its worker, or has a result: main enqueues
\* what it found at the top of the turn or, when it found nothing, later (main,
\* 879, 954, 976-992).  Its files would become images twice.
EnqueuedOnce ==
    [][\A s \in Subs : subTask'[s] = "queued" /\ subTask[s] # "queued" =>
          s \notin subStarted /\ subTask[s] = "none"]_vars

(* The inductive invariant behind OneJobPerImage *)

\* Nothing runs while the daemon is down or repairs the rows.
StartupIsIdle ==
    ~Looping => /\ cur = None
                /\ \A j \in JobIds : jobTask[j] = "none"
                /\ \A s \in Subs : subTask[s] = "none"

\* A flag without a row does not exist, outside of the repair.
FlagHasRow == \A u \in hasJob : \E j \in jobs : jobUI[j] = u

\* An ended Job keeps the flag of its image.
EndedIsFlagged == \A j \in jobEnded : jobUI[j] \in hasJob

\* In the loop only the Job being created is not flagged yet.
LoopIsFlagged ==
    Looping => \A j \in jobs : jobUI[j] \in hasJob \/ (pc = "mark" /\ j = cur)

\* Startup has released the images of the Jobs it is about to delete.
ReleasedInStartup ==
    /\ oldjobs \subseteq Unended
    /\ pc # "release" => oldjobs = {}
    /\ pc = "release" => \A j \in Unended \ oldjobs : jobUI[j] \notin hasJob

\* The images selected for a Job have none.
LaunchIsFree ==
    /\ pc \notin {"launch", "mark", "awaitJob"} => launch = {}
    /\ launch \intersect hasJob = {}
    /\ \A j \in jobs : jobUI[j] \notin launch

\* The Job being created has no task yet and has not ended.
CreatedIsNew ==
    pc = "mark" => /\ cur \in Unended
                   /\ jobTask[cur] = "none"
                   /\ jobUI[cur] \notin hasJob

JobsInv ==
    /\ OneJobPerImage /\ TasksOwnTheirImage
    /\ StartupIsIdle /\ FlagHasRow /\ EndedIsFlagged /\ LoopIsFlagged
    /\ ReleasedInStartup /\ LaunchIsFree /\ CreatedIsNew

\* A task that made an image left one, and its submission is not forgotten.
WorkedHasImage == \A s \in worked : \E u \in uis : uiOf[u][1] = s

\* A submission is started before it is finished.
FinishedIsStarted == subFinished \subseteq subStarted

\* What a turn of the loop is about to enqueue is not started; nothing is found
\* before the first turn.
NewIsUnstarted ==
    /\ newsubs \intersect subStarted = {}
    /\ ~Looping => newsubs = {}

\* A task waits or runs only for a submission that is started and not finished.
LiveIsStale == \A s \in Subs : subTask[s] \in Live => s \in Stale

\* A task that is out, or whose result is not collected, belongs to a submission
\* that is started.
TasksAreStarted == \A s \in Subs : subTask[s] # "none" => s \in subStarted

SubsInv ==
    /\ FinishedHasOutcome /\ WorkedHasImage
    /\ FinishedIsStarted /\ NewIsUnstarted /\ LiveIsStale /\ TasksAreStarted

IInv == TypeOK /\ JobsInv /\ SubsInv

-----------------------------------------------------------------------------
(* What the daemon promises (JobLedger), and how its rows keep the promise *)

HasAnswer(u) == \E j \in jobEnded : jobUI[j] = u
IsTaken(u) == \E j \in jobs : jobUI[j] = u

LedgerState(u) ==
    IF u \notin uis THEN "absent"
    ELSE IF HasAnswer(u) THEN "answered"
    ELSE IF IsTaken(u) THEN "taken" ELSE "waiting"

Ledger == INSTANCE JobLedger
            WITH Images <- UIs, ledger <- [u \in UIs |-> LedgerState(u)]

\* The daemon implements the ledger: an image is taken only when it waits, it is
\* given back only by a restart, all at once, and only without an answer.
KeepsLedger == Ledger!Spec

-----------------------------------------------------------------------------
(* Liveness, under FairSpec *)

\* Every submission is finished in the end, even one whose worker was killed or
\* whose task ended with an exception: the daily exit and the repair at the next
\* start bring it back.
EverySubmissionFinishes ==
    \A s \in Subs : s \in subs ~> s \in subFinished

\* Every image gets a Job that ends, whatever happened to earlier Jobs for it.
EveryImageGetsAnswer ==
    \A u \in UIs : u \in uis ~> HasAnswer(u)

-----------------------------------------------------------------------------
(* What the comments and the help text say, and the code does not do *)

\* "Set the maximum number of times to retry processing a submission": the end of
\* a submission's task leaves it finished, after as many retries as allowed.
TaskFinishesSubmission ==
    \A s \in Subs : subTask[s] \in Ready => s \in subFinished
=============================================================================
