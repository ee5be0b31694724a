---------------------------- MODULE NovaWeb_proofs ----------------------------
(***************************************************************************)
(* Proofs about the submission daemon, first by itself and then together   *)
(* with the web site, for every value of the constants.                    *)
(*                                                                         *)
(* IInv, checked by TLC in the run daemon_crash, is inductive for the      *)
(* daemon; OneJobPerImage and the other invariants are conjuncts of it or  *)
(* follow from it.  With the web site, a save of a row read earlier may    *)
(* undo what the daemon wrote to has_job, so an image may have several     *)
(* Jobs; each save pays for one, which is what WebInv says.                *)
(***************************************************************************)
EXTENDS NovaWeb, FiniteSetTheorems, TLAPS

-----------------------------------------------------------------------------
(* Lemmas on the helpers *)

\* A new id does not name a row of the table (auto-increment ids of the database).
LEMMA NewIdIsNew ==
    ASSUME NEW Ids, NEW f, Ids \ DOMAIN f # {}
    PROVE  NewId(Ids, f) \in Ids \ DOMAIN f
BY DEF NewId

\* The process may stop in any state: the rows stay well typed, the rest is reset.
LEMMA StopTypeOK ==
    ASSUME TypeOK, Stop, Fault \/ UNCHANGED faults
    PROVE  TypeOK'
<1>1. UNCHANGED <<uis, jobs>>
  BY DEF Stop, rows, jobRows, uis, jobs
<1>2. faults' \in 0..MaxFaults
  BY SizeAssumption DEF TypeOK, Fault
<1>3. QED
  BY <1>1, <1>2 DEF TypeOK, Stop, rows, subRows, jobRows, uis, jobs

\* So does the return to the top of the loop.
LEMMA NextTurnTypeOK ==
    ASSUME TypeOK, NextTurn
    PROVE  TypeOK'
<1>1. UNCHANGED <<uis, jobs>>
  BY DEF NextTurn, rows, jobRows, uis, jobs
<1>2. QED
  BY <1>1 DEF TypeOK, NextTurn, rows, subRows, jobRows, pools, subPool, uis, jobs

-----------------------------------------------------------------------------
(* The initial state *)

\* An empty database and a daemon not yet started satisfy the invariant.
LEMMA InitIInv == Init => IInv
<1> SUFFICES ASSUME Init PROVE IInv
  OBVIOUS
<1>1. uis = {} /\ jobs = {}
  BY DEF Init, NoRows, uis, jobs
<1>2. TypeOK
  <2>1. /\ subs \subseteq Subs /\ subStarted \subseteq subs
        /\ subFinished \subseteq subs /\ subError \subseteq subFinished
        /\ retries \in [Subs -> Nat]
    BY DEF Init
  <2>2. /\ uis \subseteq UIs /\ uiOf \in [uis -> subs \X Files]
        /\ hasJob \subseteq uis
    BY <1>1 DEF Init, NoRows
  <2>3. /\ jobs \subseteq JobIds /\ jobUI \in [jobs -> uis]
        /\ jobStarted \subseteq jobs /\ jobEnded \subseteq jobs
        /\ jobSolved \subseteq jobEnded /\ calib \subseteq jobs
    BY <1>1 DEF Init, NoRows
  <2>4. faults \in 0..MaxFaults
    BY SizeAssumption DEF Init
  <2>5. QED
    BY <2>1, <2>2, <2>3, <2>4, <1>1 DEF TypeOK, Init
<1>3. JobsInv
  BY <1>1 DEF Init, JobsInv, OneJobPerImage, TasksOwnTheirImage, StartupIsIdle,
     FlagHasRow, EndedIsFlagged, LoopIsFlagged, ReleasedInStartup, LaunchIsFree,
     CreatedIsNew, Unended, Looping, jobs
<1>4. WorkedHasImage
  BY DEF Init, WorkedHasImage
<1>5. SubsInv
  BY <1>4 DEF Init, SubsInv, FinishedHasOutcome, FinishedIsStarted, NewIsUnstarted,
     LiveIsStale, TasksAreStarted, Live, Running
<1>6. QED
  BY <1>2, <1>3, <1>5 DEF IInv

-----------------------------------------------------------------------------
(* Types: only the deletion of old jobs needs more than the types themselves *)

\* Every step of the daemon preserves the types.
LEMMA TypeStep ==
    ASSUME TypeOK, StartupIsIdle, [Next]_vars
    PROVE  TypeOK'
<1> USE DEF TypeOK, vars, rows, subRows, jobRows, main, locals, pools, subPool, uis, jobs
<1>1. ASSUME NEW s \in Subs, Submit(s) PROVE TypeOK'
  BY <1>1 DEF Submit, Ready, Live, Running
<1>2. CASE Tick
  BY <1>2 DEF Tick
<1>3. CASE Crash
  BY <1>3, StopTypeOK DEF Crash
<1>4. CASE Start
  BY <1>4 DEF Start, GoTo
<1>5. ASSUME NEW s \in Subs, ResetSub(s) PROVE TypeOK'
  BY <1>5 DEF ResetSub, Stale
<1>6. CASE FindOldJobs
  BY <1>6 DEF FindOldJobs, GoTo, Stale, Unended
<1>7. ASSUME NEW j \in JobIds, ReleaseImage(j) PROVE TypeOK'
  BY <1>7 DEF ReleaseImage
<1>8. CASE DeleteOldJobs
  BY <1>8 DEF DeleteOldJobs, GoTo, Unended, StartupIsIdle, Looping
<1>9. CASE Poll
  BY <1>9 DEF Poll, GoTo, Collect, Unstarted, Ready, Live, Running
<1>10. CASE Quit
  BY <1>10, StopTypeOK DEF Quit
<1>11. CASE WaitForJobs
  BY <1>11, NextTurnTypeOK DEF WaitForJobs
<1>12. CASE Idle
  BY <1>12, NextTurnTypeOK DEF Idle
<1>13. CASE TakeWork
  BY <1>13 DEF TakeWork, GoTo, FoundSubs, Unstarted
<1>14. ASSUME NEW s \in Subs, Enqueue(s) PROVE TypeOK'
  BY <1>14 DEF Enqueue, GoTo, Ready, Live, Running
<1>15. ASSUME NEW s \in Subs, AwaitSub(s) PROVE TypeOK'
  BY <1>15, StopTypeOK DEF AwaitSub, GoTo, Ready
<1>16. CASE PoolFull
  BY <1>16, NextTurnTypeOK DEF PoolFull
<1>17. CASE SelectImages
  BY <1>17 DEF SelectImages, GoTo, WithoutJob
<1>18. ASSUME NEW u \in UIs, CreateJob(u) PROVE TypeOK'
  BY <1>18, NewIdIsNew, NoneAssumption DEF CreateJob, GoTo, WithRow
<1>19. CASE QueueJob
  BY <1>19 DEF QueueJob, GoTo, Ready, Live, Running
<1>20. CASE AwaitJob
  BY <1>20, StopTypeOK DEF AwaitJob, GoTo, Ready
<1>21. CASE AllLaunched
  BY <1>21, NextTurnTypeOK DEF AllLaunched
<1>22. ASSUME NEW s \in Subs, SubRun(s) PROVE TypeOK'
  BY <1>22 DEF SubRun, Ready, Live, Running
<1>23. ASSUME NEW s \in Subs, NEW f \in Files, SubImage(s, f) PROVE TypeOK'
  BY <1>23, NewIdIsNew DEF SubImage, WithRow, Ready, Live, Running
<1>24. ASSUME NEW s \in Subs, NEW f \in Files, SubBadFile(s, f) PROVE TypeOK'
  BY <1>24 DEF SubBadFile, Ready, Live, Running
<1>25. ASSUME NEW s \in Subs, SubFinish(s) PROVE TypeOK'
  BY <1>25 DEF SubFinish, Ready, Live, Running
<1>26. ASSUME NEW s \in Subs, SubRaise(s) PROVE TypeOK'
  BY <1>26 DEF SubRaise, GiveUp, Ready, Live, Running
<1>27. ASSUME NEW s \in Subs, SubDbError(s) PROVE TypeOK'
  BY <1>27, SizeAssumption DEF SubDbError, GiveUp, Fault, Ready, Live, Running
<1>28. ASSUME NEW s \in Subs, SubWorkerDies(s) PROVE TypeOK'
  BY <1>28, SizeAssumption DEF SubWorkerDies, Fault, Ready, Live, Running
<1>29. ASSUME NEW j \in JobIds, JobRun(j) PROVE TypeOK'
  BY <1>29 DEF JobRun, Ready, Live, Running
<1>30. ASSUME NEW j \in JobIds, JobDirFails(j) PROVE TypeOK'
  BY <1>30, SizeAssumption DEF JobDirFails, Fault, Ready, Live, Running
<1>31. ASSUME NEW j \in JobIds, JobCalibrate(j) PROVE TypeOK'
  BY <1>31 DEF JobCalibrate, Ready, Live, Running
<1>32. ASSUME NEW j \in JobIds, JobSucceed(j) PROVE TypeOK'
  BY <1>32 DEF JobSucceed, Ready, Live, Running
<1>33. ASSUME NEW j \in JobIds, JobFail(j) PROVE TypeOK'
  BY <1>33 DEF JobFail, Ready, Live, Running
<1>34. ASSUME NEW j \in JobIds, JobOSError(j) PROVE TypeOK'
  BY <1>34, SizeAssumption DEF JobOSError, Fault, Ready, Live, Running
<1>35. ASSUME NEW j \in JobIds, JobWorkerDies(j) PROVE TypeOK'
  BY <1>35, SizeAssumption DEF JobWorkerDies, Fault, Ready, Live, Running
<1>36. CASE UNCHANGED vars
  BY <1>36
<1>37. QED
  BY <1>1, <1>2, <1>3, <1>4, <1>5, <1>6, <1>7, <1>8, <1>9, <1>10, <1>11, <1>12, <1>13,
     <1>14, <1>15, <1>16, <1>17, <1>18, <1>19, <1>20, <1>21, <1>22, <1>23, <1>24, <1>25,
     <1>26, <1>27, <1>28, <1>29, <1>30, <1>31, <1>32, <1>33, <1>34, <1>35, <1>36
  DEF Next, Main, Startup, Loop, SubWorks, JobWorks, SubFault, JobFault
-----------------------------------------------------------------------------
(* Jobs and images *)

\* Every step of the daemon preserves the invariant about jobs and their images.
LEMMA JobsStep ==
    ASSUME TypeOK, JobsInv, [Next]_vars
    PROVE  JobsInv'
<1> USE DEF TypeOK, JobsInv, Looping, Unended,
        OneJobPerImage, TasksOwnTheirImage, StartupIsIdle, FlagHasRow, EndedIsFlagged,
        LoopIsFlagged, ReleasedInStartup, LaunchIsFree, CreatedIsNew,
        vars, rows, subRows, jobRows, main, locals, pools, subPool, uis, jobs
<1>1. ASSUME NEW s \in Subs, Submit(s) PROVE JobsInv'
  BY <1>1 DEF Submit, Ready, Live, Running
<1>2. CASE Tick
  BY <1>2 DEF Tick
<1>3. CASE Crash
  BY <1>3 DEF Crash, Stop, Fault
<1>4. CASE Start
  BY <1>4 DEF Start, GoTo
<1>5. ASSUME NEW s \in Subs, ResetSub(s) PROVE JobsInv'
  BY <1>5 DEF ResetSub, Stale
<1>6. CASE FindOldJobs
  BY <1>6 DEF FindOldJobs, GoTo, Stale
<1>7. ASSUME NEW j \in JobIds, ReleaseImage(j) PROVE JobsInv'
  BY <1>7 DEF ReleaseImage
<1>8. CASE DeleteOldJobs
  BY <1>8 DEF DeleteOldJobs, GoTo
<1>9. CASE Poll
  BY <1>9 DEF Poll, GoTo, Collect, Ready, Live, Running
<1>10. CASE Quit
  BY <1>10 DEF Quit, Stop
<1>11. CASE WaitForJobs
  BY <1>11 DEF WaitForJobs, NextTurn
<1>12. CASE Idle
  BY <1>12 DEF Idle, NextTurn
<1>13. CASE TakeWork
  BY <1>13 DEF TakeWork, GoTo, FoundSubs
<1>14. ASSUME NEW s \in Subs, Enqueue(s) PROVE JobsInv'
  BY <1>14 DEF Enqueue, GoTo, Ready, Live, Running
<1>15. ASSUME NEW s \in Subs, AwaitSub(s) PROVE JobsInv'
  BY <1>15 DEF AwaitSub, GoTo, Stop, Ready, Live, Running
<1>16. CASE PoolFull
  BY <1>16 DEF PoolFull, NextTurn
<1>17. CASE SelectImages
  BY <1>17 DEF SelectImages, GoTo, WithoutJob
<1>18. ASSUME NEW u \in UIs, CreateJob(u) PROVE JobsInv'
  BY <1>18, NewIdIsNew, NoneAssumption DEF CreateJob, GoTo, WithRow
<1>19. CASE QueueJob
  BY <1>19 DEF QueueJob, GoTo, Ready, Live, Running
<1>20. CASE AwaitJob
  BY <1>20 DEF AwaitJob, GoTo, Stop, Ready, Live, Running
<1>21. CASE AllLaunched
  BY <1>21 DEF AllLaunched, NextTurn
<1>22. ASSUME NEW s \in Subs, SubRun(s) PROVE JobsInv'
  BY <1>22 DEF SubRun, Ready, Live, Running
<1>23. ASSUME NEW s \in Subs, NEW f \in Files, SubImage(s, f) PROVE JobsInv'
  BY <1>23 DEF SubImage, WithRow, Ready, Live, Running
<1>24. ASSUME NEW s \in Subs, NEW f \in Files, SubBadFile(s, f) PROVE JobsInv'
  BY <1>24 DEF SubBadFile, Ready, Live, Running
<1>25. ASSUME NEW s \in Subs, SubFinish(s) PROVE JobsInv'
  BY <1>25 DEF SubFinish, Ready, Live, Running
<1>26. ASSUME NEW s \in Subs, SubRaise(s) PROVE JobsInv'
  BY <1>26 DEF SubRaise, GiveUp, Ready, Live, Running
<1>27. ASSUME NEW s \in Subs, SubDbError(s) PROVE JobsInv'
  BY <1>27 DEF SubDbError, GiveUp, Fault, Ready, Live, Running
<1>28. ASSUME NEW s \in Subs, SubWorkerDies(s) PROVE JobsInv'
  BY <1>28 DEF SubWorkerDies, Fault, Ready, Live, Running
<1>29. ASSUME NEW j \in JobIds, JobRun(j) PROVE JobsInv'
  BY <1>29 DEF JobRun, Ready, Live, Running
<1>30. ASSUME NEW j \in JobIds, JobDirFails(j) PROVE JobsInv'
  BY <1>30 DEF JobDirFails, Fault, Ready, Live, Running
<1>31. ASSUME NEW j \in JobIds, JobCalibrate(j) PROVE JobsInv'
  BY <1>31 DEF JobCalibrate, Ready, Live, Running
<1>32. ASSUME NEW j \in JobIds, JobSucceed(j) PROVE JobsInv'
  BY <1>32 DEF JobSucceed, Ready, Live, Running
<1>33. ASSUME NEW j \in JobIds, JobFail(j) PROVE JobsInv'
  BY <1>33 DEF JobFail, Ready, Live, Running
<1>34. ASSUME NEW j \in JobIds, JobOSError(j) PROVE JobsInv'
  BY <1>34 DEF JobOSError, Fault, Ready, Live, Running
<1>35. ASSUME NEW j \in JobIds, JobWorkerDies(j) PROVE JobsInv'
  BY <1>35 DEF JobWorkerDies, Fault, Ready, Live, Running
<1>36. CASE UNCHANGED vars
  BY <1>36
<1>37. QED
  BY <1>1, <1>2, <1>3, <1>4, <1>5, <1>6, <1>7, <1>8, <1>9, <1>10, <1>11, <1>12, <1>13,
     <1>14, <1>15, <1>16, <1>17, <1>18, <1>19, <1>20, <1>21, <1>22, <1>23, <1>24, <1>25,
     <1>26, <1>27, <1>28, <1>29, <1>30, <1>31, <1>32, <1>33, <1>34, <1>35, <1>36
  DEF Next, Main, Startup, Loop, SubWorks, JobWorks, SubFault, JobFault
-----------------------------------------------------------------------------
(* Submissions *)

\* Images are never deleted, so a task that made one keeps one.
LEMMA WorkedStep ==
    ASSUME TypeOK, WorkedHasImage, [Next]_vars
    PROVE  WorkedHasImage'
<1> USE DEF WorkedHasImage, vars, rows, subRows, jobRows, main, locals, pools, subPool, uis, jobs
<1>1. CASE worked' \subseteq worked /\ UNCHANGED uiOf
  BY <1>1
<1>2. ASSUME NEW s \in Subs, NEW f \in Files, SubImage(s, f)
      PROVE  WorkedHasImage'
  BY <1>2, NewIdIsNew DEF TypeOK, SubImage, WithRow
<1>3. [Next]_vars => \/ worked' \subseteq worked /\ UNCHANGED uiOf
                     \/ \E s \in Subs, f \in Files : SubImage(s, f)
  BY DEF Next, Main, Startup, Loop, SubWorks, JobWorks, SubFault, JobFault,
     Tick, Crash, Start, ResetSub, FindOldJobs, ReleaseImage, DeleteOldJobs, Poll,
     Quit, WaitForJobs, Idle, TakeWork, Enqueue, AwaitSub, PoolFull, SelectImages,
     CreateJob, QueueJob, AwaitJob, AllLaunched, Submit, SubRun, SubBadFile,
     SubFinish, SubRaise, SubDbError, SubWorkerDies, JobRun, JobDirFails,
     JobCalibrate, JobSucceed, JobFail, JobOSError, JobWorkerDies, Stop, NextTurn
<1>4. QED
  BY <1>1, <1>2, <1>3

\* Every step of the daemon preserves the invariant about submissions.
LEMMA SubsStep ==
    ASSUME TypeOK, StartupIsIdle, SubsInv, [Next]_vars
    PROVE  SubsInv'
<1> USE DEF TypeOK, SubsInv, Looping, Stale, StartupIsIdle,
        FinishedHasOutcome, FinishedIsStarted, NewIsUnstarted, LiveIsStale, TasksAreStarted,
        vars, rows, subRows, jobRows, main, locals, pools, subPool, uis, jobs
<1>0. WorkedHasImage'
  BY WorkedStep
<1>1. ASSUME NEW s \in Subs, Submit(s) PROVE SubsInv'
  BY <1>0, <1>1 DEF Submit, Ready, Live, Running
<1>2. CASE Tick
  BY <1>0, <1>2 DEF Tick
<1>3. CASE Crash
  BY <1>0, <1>3 DEF Crash, Stop, Fault, Live, Running
<1>4. CASE Start
  BY <1>0, <1>4 DEF Start, GoTo
<1>5. ASSUME NEW s \in Subs, ResetSub(s) PROVE SubsInv'
  BY <1>0, <1>5 DEF ResetSub, Live, Running
<1>6. CASE FindOldJobs
  BY <1>0, <1>6 DEF FindOldJobs, GoTo, Stale
<1>7. ASSUME NEW j \in JobIds, ReleaseImage(j) PROVE SubsInv'
  BY <1>0, <1>7 DEF ReleaseImage
<1>8. CASE DeleteOldJobs
  BY <1>0, <1>8 DEF DeleteOldJobs, GoTo
<1>9. CASE Poll
  BY <1>0, <1>9 DEF Poll, GoTo, Collect, Unstarted, Ready, Live, Running
<1>10. CASE Quit
  BY <1>0, <1>10 DEF Quit, Stop, Live, Running
<1>11. CASE WaitForJobs
  BY <1>0, <1>11 DEF WaitForJobs, NextTurn
<1>12. CASE Idle
  BY <1>0, <1>12 DEF Idle, NextTurn
<1>13. CASE TakeWork
  BY <1>0, <1>13 DEF TakeWork, GoTo, FoundSubs, Unstarted
<1>14. ASSUME NEW s \in Subs, Enqueue(s) PROVE SubsInv'
  BY <1>0, <1>14 DEF Enqueue, GoTo, Ready, Live, Running
<1>15. ASSUME NEW s \in Subs, AwaitSub(s) PROVE SubsInv'
  BY <1>0, <1>15 DEF AwaitSub, GoTo, Stop, Ready, Live, Running
<1>16. CASE PoolFull
  BY <1>0, <1>16 DEF PoolFull, NextTurn
<1>17. CASE SelectImages
  BY <1>0, <1>17 DEF SelectImages, GoTo, WithoutJob
<1>18. ASSUME NEW u \in UIs, CreateJob(u) PROVE SubsInv'
  BY <1>0, <1>18, NewIdIsNew, NoneAssumption DEF CreateJob, GoTo, WithRow
<1>19. CASE QueueJob
  BY <1>0, <1>19 DEF QueueJob, GoTo, Ready, Live, Running
<1>20. CASE AwaitJob
  BY <1>0, <1>20 DEF AwaitJob, GoTo, Stop, Ready, Live, Running
<1>21. CASE AllLaunched
  BY <1>0, <1>21 DEF AllLaunched, NextTurn
<1>22. ASSUME NEW s \in Subs, SubRun(s) PROVE SubsInv'
  BY <1>0, <1>22 DEF SubRun, Ready, Live, Running
<1>23. ASSUME NEW s \in Subs, NEW f \in Files, SubImage(s, f) PROVE SubsInv'
  BY <1>0, <1>23, NewIdIsNew DEF SubImage, WithRow, Ready, Live, Running
<1>24. ASSUME NEW s \in Subs, NEW f \in Files, SubBadFile(s, f) PROVE SubsInv'
  BY <1>0, <1>24 DEF SubBadFile, Ready, Live, Running
<1>25. ASSUME NEW s \in Subs, SubFinish(s) PROVE SubsInv'
  BY <1>0, <1>25 DEF SubFinish, WorkedHasImage, Ready, Live, Running
<1>26. ASSUME NEW s \in Subs, SubRaise(s) PROVE SubsInv'
  BY <1>0, <1>26 DEF SubRaise, GiveUp, Ready, Live, Running
<1>27. ASSUME NEW s \in Subs, SubDbError(s) PROVE SubsInv'
  BY <1>0, <1>27 DEF SubDbError, GiveUp, Fault, Ready, Live, Running
<1>28. ASSUME NEW s \in Subs, SubWorkerDies(s) PROVE SubsInv'
  BY <1>0, <1>28 DEF SubWorkerDies, Fault, Ready, Live, Running
<1>29. ASSUME NEW j \in JobIds, JobRun(j) PROVE SubsInv'
  BY <1>0, <1>29 DEF JobRun, Ready, Live, Running
<1>30. ASSUME NEW j \in JobIds, JobDirFails(j) PROVE SubsInv'
  BY <1>0, <1>30 DEF JobDirFails, Fault, Ready, Live, Running
<1>31. ASSUME NEW j \in JobIds, JobCalibrate(j) PROVE SubsInv'
  BY <1>0, <1>31 DEF JobCalibrate, Ready, Live, Running
<1>32. ASSUME NEW j \in JobIds, JobSucceed(j) PROVE SubsInv'
  BY <1>0, <1>32 DEF JobSucceed, Ready, Live, Running
<1>33. ASSUME NEW j \in JobIds, JobFail(j) PROVE SubsInv'
  BY <1>0, <1>33 DEF JobFail, Ready, Live, Running
<1>34. ASSUME NEW j \in JobIds, JobOSError(j) PROVE SubsInv'
  BY <1>0, <1>34 DEF JobOSError, Fault, Ready, Live, Running
<1>35. ASSUME NEW j \in JobIds, JobWorkerDies(j) PROVE SubsInv'
  BY <1>0, <1>35 DEF JobWorkerDies, Fault, Ready, Live, Running
<1>36. CASE UNCHANGED vars
  BY <1>0, <1>36
<1>37. QED
  BY <1>1, <1>2, <1>3, <1>4, <1>5, <1>6, <1>7, <1>8, <1>9, <1>10, <1>11, <1>12, <1>13,
     <1>14, <1>15, <1>16, <1>17, <1>18, <1>19, <1>20, <1>21, <1>22, <1>23, <1>24, <1>25,
     <1>26, <1>27, <1>28, <1>29, <1>30, <1>31, <1>32, <1>33, <1>34, <1>35, <1>36
  DEF Next, Main, Startup, Loop, SubWorks, JobWorks, SubFault, JobFault

-----------------------------------------------------------------------------
(* The invariants *)

\* The inductive invariant holds: rows, main and the pools agree at every step.
THEOREM Invariance == Spec => []IInv
<1>1. Init => IInv
  BY InitIInv
<1>2. IInv /\ [Next]_vars => IInv'
  BY TypeStep, JobsStep, SubsStep DEF IInv, JobsInv
<1>3. QED
  BY <1>1, <1>2, PTL DEF Spec

\* The rows and the state of the daemon are always well formed.
THEOREM TypeCorrect == Spec => []TypeOK
<1>1. IInv => TypeOK
  BY DEF IInv
<1>2. QED
  BY <1>1, Invariance, PTL

\* No interleaving of main, workers, crashes and restarts gives an image two Jobs.
THEOREM OneJob == Spec => []OneJobPerImage
<1>1. IInv => OneJobPerImage
  BY DEF IInv, JobsInv
<1>2. QED
  BY <1>1, Invariance, PTL

\* No worker and no result ever refers to a Job whose image was given to another.
THEOREM TaskOwnership == Spec => []TasksOwnTheirImage
<1>1. IInv => TasksOwnTheirImage
  BY DEF IInv, JobsInv
<1>2. QED
  BY <1>1, Invariance, PTL

\* Whenever main reads has_job, it says what the Job rows say.
THEOREM FlagIsTrue == Spec => []HasJobIsTrue
<1>1. IInv => HasJobIsTrue
  BY DEF IInv, TypeOK, JobsInv, HasJobIsTrue, FlagHasRow, LoopIsFlagged, CreatedIsNew,
     OneJobPerImage
<1>2. QED
  BY <1>1, Invariance, PTL

\* A finished submission left an image or an error, also after interruptions.
THEOREM OutcomeOfFinished == Spec => []FinishedHasOutcome
<1>1. IInv => FinishedHasOutcome
  BY DEF IInv, SubsInv
<1>2. QED
  BY <1>1, Invariance, PTL

-----------------------------------------------------------------------------
(* Steps *)

\* No step, the startup repair included, touches a Job that has ended.
THEOREM EndedIsKept == Spec => EndedStays
<1> DEFINE Kept == \A j \in jobEnded :
          /\ j \in jobEnded' /\ j \in jobs' /\ jobUI'[j] = jobUI[j]
          /\ (j \in jobSolved') <=> (j \in jobSolved)
          /\ (j \in calib') <=> (j \in calib)
<1>1. IInv /\ [Next]_vars => Kept
  <2> SUFFICES ASSUME IInv, [Next]_vars PROVE Kept
    OBVIOUS
  <2> USE DEF vars, rows, subRows, jobRows, uis, jobs
  <2>1. jobEnded \subseteq jobs /\ jobUI \in [jobs -> uis]
    BY DEF IInv, TypeOK
  <2>2. \A j \in JobIds : jobTask[j] \in Live => j \notin jobEnded
    BY DEF IInv, JobsInv, TasksOwnTheirImage, Unended, Live, Running
  <2>3. ASSUME NEW j \in JobIds, JobWorks(j)
        PROVE  Kept
    BY <2>1, <2>2, <2>3 DEF JobWorks, JobRun, JobCalibrate, JobSucceed, JobFail, Live, Running
  <2>4. CASE DeleteOldJobs
    BY <2>1, <2>4 DEF DeleteOldJobs, Unended
  <2>5. ASSUME NEW u \in UIs, CreateJob(u)
        PROVE  Kept
    BY <2>1, <2>5, NewIdIsNew DEF CreateJob, WithRow
  <2>6. CASE UNCHANGED jobRows
    BY <2>1, <2>6
  <2>7. \/ UNCHANGED jobRows \/ DeleteOldJobs
        \/ \E j \in JobIds : JobWorks(j)
        \/ \E u \in UIs : CreateJob(u)
    BY DEF Next, Main, Startup, Loop, SubWorks, SubFault, JobFault,
       Tick, Crash, Start, ResetSub, FindOldJobs, ReleaseImage, Poll,
       Quit, WaitForJobs, Idle, TakeWork, Enqueue, AwaitSub, PoolFull, SelectImages,
       QueueJob, AwaitJob, AllLaunched, Submit, SubRun, SubImage, SubBadFile,
       SubFinish, SubRaise, SubDbError, SubWorkerDies, JobDirFails,
       JobOSError, JobWorkerDies, Stop, NextTurn
  <2>8. QED
    BY <2>3, <2>4, <2>5, <2>6, <2>7
<1>2. QED
  BY <1>1, Invariance, PTL DEF Spec, EndedStays

\* No step, the startup repair included, queues a finished submission again.
THEOREM FinishedIsLeftAlone == Spec => FinishedNotRestarted
<1> DEFINE Left == \A s \in subFinished : s \in subStarted' /\ subTask'[s] # "queued"
<1>1. IInv /\ [Next]_vars => Left
  <2> SUFFICES ASSUME IInv, [Next]_vars, NEW s \in subFinished
               PROVE  s \in subStarted' /\ subTask'[s] # "queued"
    OBVIOUS
  <2>1. IInv'
    BY TypeStep, JobsStep, SubsStep DEF IInv, JobsInv
  <2>2. subFinished \subseteq subFinished'
    BY DEF Next, Main, Startup, Loop, SubWorks, JobWorks, SubFault, JobFault,
       Tick, Crash, Start, ResetSub, FindOldJobs, ReleaseImage, DeleteOldJobs, Poll,
       Quit, WaitForJobs, Idle, TakeWork, Enqueue, AwaitSub, PoolFull, SelectImages,
       CreateJob, QueueJob, AwaitJob, AllLaunched, Submit, SubRun, SubImage, SubBadFile,
       SubFinish, SubRaise, SubDbError, SubWorkerDies, GiveUp, JobRun, JobDirFails,
       JobCalibrate, JobSucceed, JobFail, JobOSError, JobWorkerDies, Stop, NextTurn,
       vars, rows, subRows
  <2>3. s \in subFinished' /\ s \in Subs
    BY <2>2 DEF IInv, TypeOK
  <2>4. QED
    BY <2>1, <2>3 DEF IInv, SubsInv, FinishedIsStarted, LiveIsStale, Stale, Live
<1>2. QED
  BY <1>1, Invariance, PTL DEF Spec, FinishedNotRestarted

\* What a turn of the loop enqueues was not enqueued before: the submissions found
\* are not started, and those whose task is anywhere are.
THEOREM EnqueueIsNew == Spec => EnqueuedOnce
<1> DEFINE Once == \A s \in Subs : subTask'[s] = "queued" /\ subTask[s] # "queued" =>
                      s \notin subStarted /\ subTask[s] = "none"
<1>1. IInv /\ [Next]_vars => Once
  <2> SUFFICES ASSUME IInv, [Next]_vars, NEW s \in Subs,
                      subTask'[s] = "queued", subTask[s] # "queued"
               PROVE  s \notin subStarted /\ subTask[s] = "none"
    OBVIOUS
  <2>0. subTask \in [Subs -> {"none", "queued", "running", "lost"} \union Ready]
    BY DEF IInv, TypeOK
  <2>1. PICK t \in Subs : Enqueue(t)
    <3> USE <2>0 DEF pools, subPool
    <3>1. ~(Tick \/ Crash \/ UNCHANGED vars)
      BY DEF Tick, Crash, Stop, vars
    <3>2. ~Startup
      BY DEF Startup, Start, ResetSub, FindOldJobs, ReleaseImage, DeleteOldJobs
    <3>3. ~(Poll \/ Quit \/ WaitForJobs \/ Idle \/ TakeWork \/ PoolFull \/ SelectImages)
      BY DEF Poll, Collect, Quit, Stop, WaitForJobs, Idle, TakeWork, PoolFull, SelectImages,
         NextTurn
    <3>4. ~(QueueJob \/ AwaitJob \/ AllLaunched \/ \E u \in UIs : CreateJob(u))
      BY DEF QueueJob, AwaitJob, AllLaunched, CreateJob, Stop, NextTurn
    <3>5. \A t \in Subs : ~(AwaitSub(t) \/ Submit(t) \/ SubWorks(t) \/ SubFault(t))
      BY DEF AwaitSub, Stop, Submit, SubWorks, SubRun, SubImage, SubBadFile, SubFinish,
         SubRaise, SubFault, SubDbError, SubWorkerDies, GiveUp
    <3>6. \A j \in JobIds : ~(JobWorks(j) \/ JobFault(j))
      BY DEF JobWorks, JobRun, JobCalibrate, JobSucceed, JobFail, JobFault, JobDirFails,
         JobOSError, JobWorkerDies
    <3>7. QED
      BY <3>1, <3>2, <3>3, <3>4, <3>5, <3>6 DEF Next, Main, Loop
  <2>2. s \in newsubs
    BY <2>1 DEF Enqueue, IInv, TypeOK
  <2>3. QED
    BY <2>2 DEF IInv, SubsInv, NewIsUnstarted, TasksAreStarted
<1>2. QED
  BY <1>1, Invariance, PTL DEF Spec, EnqueuedOnce

-----------------------------------------------------------------------------
(* Room in the job pool *)

\* The images selected for a job, and the job being created, have room in the
\* pool beside the jobs that are out.
RoomIsKept ==
    JobPooled => Cardinality(JobResults) + Cardinality(launch)
                     + (IF pc = "mark" THEN 1 ELSE 0) <= JobThreads

\* Jobs that are out, and images selected, are finitely many.
LEMMA JobsAreFew ==
    ASSUME TypeOK
    PROVE  /\ IsFiniteSet(JobResults) /\ Cardinality(JobResults) \in Nat
           /\ IsFiniteSet(launch) /\ Cardinality(launch) \in Nat
           /\ JobThreads \in Nat
<1>1. JobResults \subseteq JobIds /\ launch \subseteq UIs
  BY DEF TypeOK, JobResults
<1>2. IsFiniteSet(JobResults) /\ IsFiniteSet(launch)
  BY <1>1, SizeAssumption, FS_Subset
<1>3. QED
  BY <1>2, SizeAssumption, FS_CardinalityType

\* Only three steps of main take room in the pool.
LEMMA RoomTakers ==
    ASSUME TypeOK, [Next]_vars
    PROVE  \/ SelectImages \/ QueueJob \/ \E u \in UIs : CreateJob(u)
           \/ JobResults' \subseteq JobResults /\ launch' \subseteq launch
              /\ (pc' = "mark" => pc = "mark")
<1> DEFINE Less == JobResults' \subseteq JobResults /\ launch' \subseteq launch
                   /\ (pc' = "mark" => pc = "mark")
<1>0. jobTask \in [JobIds -> {"none", "lost"} \union Live \union Ready]
  BY DEF TypeOK
<1> USE <1>0 DEF JobResults, vars, main, locals, pools, subPool
<1>1. Tick \/ Crash \/ UNCHANGED vars => Less
  BY DEF Tick, Crash, Stop
<1>2. Startup => Less
  BY DEF Startup, Start, ResetSub, FindOldJobs, ReleaseImage, DeleteOldJobs, GoTo
<1>3. Poll \/ Quit \/ WaitForJobs \/ Idle \/ TakeWork \/ PoolFull => Less
  BY DEF Poll, Collect, Quit, Stop, WaitForJobs, Idle, TakeWork, PoolFull, NextTurn, GoTo
<1>4. AwaitJob \/ AllLaunched => Less
  BY DEF AwaitJob, AllLaunched, Stop, NextTurn, GoTo
<1>5. ASSUME NEW s \in Subs PROVE Enqueue(s) \/ AwaitSub(s) \/ Submit(s) => Less
  BY DEF Enqueue, AwaitSub, Stop, Submit, GoTo
<1>6. ASSUME NEW s \in Subs PROVE SubWorks(s) \/ SubFault(s) => Less
  BY DEF SubWorks, SubRun, SubImage, SubBadFile, SubFinish, SubRaise, SubFault, SubDbError,
     SubWorkerDies, GiveUp
<1>7. ASSUME NEW j \in JobIds PROVE JobWorks(j) \/ JobFault(j) => Less
  BY DEF JobWorks, JobRun, JobCalibrate, JobSucceed, JobFail, JobFault, JobDirFails,
     JobOSError, JobWorkerDies, Live, Running
<1>8. QED
  BY <1>1, <1>2, <1>3, <1>4, <1>5, <1>6, <1>7 DEF Next, Main, Loop

\* Every step keeps room for what main has selected.
LEMMA RoomStep ==
    ASSUME TypeOK, TypeOK', RoomIsKept, pc = "mark" => jobTask[cur] = "none", [Next]_vars
    PROVE  RoomIsKept'
<1> DEFINE out == Cardinality(JobResults)
           chosen == Cardinality(launch)
<1>1. /\ IsFiniteSet(JobResults) /\ out \in Nat /\ IsFiniteSet(launch) /\ chosen \in Nat
      /\ JobThreads \in Nat
  BY JobsAreFew
<1>2. /\ IsFiniteSet(JobResults') /\ out' \in Nat /\ IsFiniteSet(launch') /\ chosen' \in Nat
  <2>1. JobResults' \subseteq JobIds /\ launch' \subseteq UIs
    BY DEF TypeOK, JobResults
  <2>2. IsFiniteSet(JobResults') /\ IsFiniteSet(launch')
    BY <2>1, SizeAssumption, FS_Subset
  <2>3. QED
    BY <2>2, FS_CardinalityType
<1>3. CASE SelectImages
  <2>1. pc' = "launch" /\ jobTask' = jobTask
    BY <1>3 DEF SelectImages, GoTo, pools
  <2>2. JobPooled => chosen' <= JobThreads - out
    BY <1>3 DEF SelectImages
  <2>3. out' = out
    BY <2>1 DEF JobResults
  <2>4. QED
    BY <1>1, <1>2, <2>1, <2>2, <2>3 DEF RoomIsKept
<1>4. CASE QueueJob
  <2>1. /\ pc = "mark" /\ pc' # "mark" /\ launch' = launch
        /\ jobTask' = [jobTask EXCEPT ![cur] = "queued"]
    BY <1>4 DEF QueueJob, GoTo, locals
  <2>2. /\ cur \in JobIds /\ jobTask[cur] = "none"
        /\ jobTask \in [JobIds -> {"none", "lost"} \union Live \union Ready]
    BY <2>1 DEF TypeOK
  <2>3. JobResults' = JobResults \cup {cur} /\ cur \notin JobResults
    BY <2>1, <2>2 DEF JobResults
  <2>4. out' = out + 1
    BY <1>1, <2>3, FS_AddElement
  <2>5. QED
    BY <1>1, <2>1, <2>4 DEF RoomIsKept
<1>5. ASSUME NEW u \in UIs, CreateJob(u) PROVE RoomIsKept'
  <2>1. /\ pc = "launch" /\ pc' = "mark" /\ u \in launch /\ launch' = launch \ {u}
        /\ jobTask' = jobTask
    BY <1>5 DEF CreateJob, GoTo, pools
  <2>2. chosen' = chosen - 1
    BY <1>1, <2>1, FS_RemoveElement
  <2>3. out' = out
    BY <2>1 DEF JobResults
  <2>4. QED
    BY <1>1, <2>1, <2>2, <2>3 DEF RoomIsKept
<1>6. CASE JobResults' \subseteq JobResults /\ launch' \subseteq launch
           /\ (pc' = "mark" => pc = "mark")
  <2>1. out' <= out
    BY <1>1, <1>6, FS_Subset
  <2>2. chosen' <= chosen
    BY <1>1, <1>6, FS_Subset
  <2>3. QED
    BY <1>1, <1>2, <1>6, <2>1, <2>2 DEF RoomIsKept
<1>7. QED
  BY <1>3, <1>4, <1>5, <1>6, RoomTakers

\* Room for what is selected is room for the jobs that are out.
LEMMA RoomForJobs ==
    ASSUME TypeOK, RoomIsKept
    PROVE  JobSlots
<1>1. Cardinality(JobResults) \in Nat /\ Cardinality(launch) \in Nat /\ JobThreads \in Nat
  BY JobsAreFew
<1>2. QED
  BY <1>1 DEF RoomIsKept, JobSlots

\* At the start there is room.
LEMMA RoomInit == Init => RoomIsKept
<1> SUFFICES ASSUME Init PROVE RoomIsKept
  OBVIOUS
<1>1. JobResults = {} /\ launch = {} /\ pc # "mark"
  BY DEF Init, JobResults
<1>2. JobThreads \in Nat
  BY SizeAssumption
<1>3. QED
  BY <1>1, <1>2, FS_EmptySet DEF RoomIsKept

\* Main never has more jobs out than there are workers: it takes room for a job
\* when it selects the image, and what is out only gets less until the next turn.
THEOREM SlotsSuffice == Spec => []JobSlots
<1>1. Init => RoomIsKept
  BY RoomInit
<1>2. IInv /\ IInv' /\ RoomIsKept /\ [Next]_vars => RoomIsKept'
  BY RoomStep DEF IInv, JobsInv, CreatedIsNew
<1>3. IInv /\ RoomIsKept => JobSlots
  BY RoomForJobs DEF IInv
<1>4. QED
  BY <1>1, <1>2, <1>3, Invariance, PTL DEF Spec

-----------------------------------------------------------------------------
(* Refinement *)

\* One image changes its state in the ledger when its rows do and no other's.
LEMMA LedgerMove ==
    ASSUME NEW u \in UIs, NEW from, NEW to,
           LedgerState(u) = from, LedgerState(u)' = to,
           \A v \in UIs : v # u => LedgerState(v)' = LedgerState(v)
    PROVE  Ledger!Move(u, from, to)
BY DEF Ledger!Move

\* The daemon keeps the ledger: every step is a step of JobLedger or a stutter.
THEOREM Refinement == Spec => KeepsLedger
<1> DEFINE state == [u \in UIs |-> LedgerState(u)]
<1>1. Init => Ledger!Init
  BY DEF Init, NoRows, Ledger!Init, LedgerState, uis
<1>2. IInv /\ [Next]_vars => [Ledger!Next]_state
  <2> SUFFICES ASSUME IInv, [Next]_vars PROVE [Ledger!Next]_state
    OBVIOUS
  <2> USE DEF vars, rows, subRows, jobRows, uis, jobs, HasAnswer, IsTaken
  <2>1. /\ uis \subseteq UIs /\ jobs \subseteq JobIds
        /\ jobEnded \subseteq jobs /\ jobUI \in [jobs -> uis]
    BY DEF IInv, TypeOK
  <2>2. OneJobPerImage /\ TasksOwnTheirImage /\ LaunchIsFree
    BY DEF IInv, JobsInv
  <2>3. CASE UNCHANGED <<uiOf, jobUI, jobEnded>>
    BY <2>3 DEF LedgerState
  <2>4. ASSUME NEW s \in Subs, NEW f \in Files, SubImage(s, f)
        PROVE  Ledger!Next
    <3>1. PICK u \in UIs \ uis : uis' = uis \union {u} /\ UNCHANGED <<jobUI, jobEnded>>
      BY <2>4, NewIdIsNew DEF SubImage, WithRow
    <3>2. LedgerState(u) = "absent" /\ LedgerState(u)' = "waiting"
      BY <2>1, <3>1 DEF LedgerState
    <3>3. \A v \in UIs : v # u => LedgerState(v)' = LedgerState(v)
      BY <3>1 DEF LedgerState
    <3>4. Ledger!Arrive(u)
      BY <3>2, <3>3, LedgerMove DEF Ledger!Arrive
    <3>5. QED
      BY <3>4 DEF Ledger!Next
  <2>5. ASSUME NEW u \in UIs, CreateJob(u)
        PROVE  Ledger!Next
    <3>1. /\ cur' \notin jobs /\ jobs' = jobs \union {cur'}
          /\ jobUI'[cur'] = u /\ \A j \in jobs : jobUI'[j] = jobUI[j]
          /\ UNCHANGED <<uiOf, jobEnded>>
      BY <2>5, NewIdIsNew DEF CreateJob, WithRow
    <3>2. u \in uis /\ \A j \in jobs : jobUI[j] # u
      BY <2>2, <2>5 DEF CreateJob, LaunchIsFree, IInv, TypeOK
    <3>3. LedgerState(u) = "waiting" /\ LedgerState(u)' = "taken"
      BY <2>1, <3>1, <3>2 DEF LedgerState
    <3>4. \A v \in UIs : v # u => LedgerState(v)' = LedgerState(v)
      BY <2>1, <3>1 DEF LedgerState
    <3>5. Ledger!Take(u)
      BY <3>3, <3>4, LedgerMove DEF Ledger!Take
    <3>6. QED
      BY <3>5 DEF Ledger!Next
  <2>6. ASSUME NEW j \in JobIds, JobSucceed(j) \/ JobFail(j)
        PROVE  Ledger!Next
    <3>1. jobEnded' = jobEnded \union {j} /\ UNCHANGED <<uiOf, jobUI>>
      BY <2>6 DEF JobSucceed, JobFail
    <3>2. j \in jobs /\ j \notin jobEnded
      BY <2>2, <2>6 DEF JobSucceed, JobFail, TasksOwnTheirImage, Unended, Live, Running
    <3>3. PICK u \in uis : u = jobUI[j] /\ u \in UIs
      BY <2>1, <3>2
    <3>4. LedgerState(u) = "taken" /\ LedgerState(u)' = "answered"
      BY <2>1, <2>2, <3>1, <3>2, <3>3 DEF LedgerState, OneJobPerImage
    <3>5. \A v \in UIs : v # u => LedgerState(v)' = LedgerState(v)
      BY <3>1, <3>3 DEF LedgerState
    <3>6. Ledger!Answer(u)
      BY <3>3, <3>4, <3>5, LedgerMove DEF Ledger!Answer
    <3>7. QED
      BY <3>3, <3>6 DEF Ledger!Next
  <2>7. CASE DeleteOldJobs
    <3>1. /\ jobs' = jobEnded /\ \A j \in jobEnded : jobUI'[j] = jobUI[j]
          /\ UNCHANGED <<uiOf, jobEnded>>
      BY <2>1, <2>7 DEF DeleteOldJobs, Unended
    <3>2. \A u \in UIs :
            LedgerState(u)' = IF LedgerState(u) = "taken" THEN "waiting" ELSE LedgerState(u)
      BY <2>1, <3>1 DEF LedgerState
    <3>3. Ledger!GiveBack
      BY <3>2 DEF Ledger!GiveBack
    <3>4. QED
      BY <3>3 DEF Ledger!Next
  <2>8. \/ UNCHANGED <<uiOf, jobUI, jobEnded>> \/ DeleteOldJobs
        \/ \E j \in JobIds : JobSucceed(j) \/ JobFail(j)
        \/ \E s \in Subs, f \in Files : SubImage(s, f)
        \/ \E u \in UIs : CreateJob(u)
    BY DEF Next, Main, Startup, Loop, SubWorks, JobWorks, SubFault, JobFault,
       Tick, Crash, Start, ResetSub, FindOldJobs, ReleaseImage, Poll,
       Quit, WaitForJobs, Idle, TakeWork, Enqueue, AwaitSub, PoolFull, SelectImages,
       QueueJob, AwaitJob, AllLaunched, Submit, SubRun, SubBadFile,
       SubFinish, SubRaise, SubDbError, SubWorkerDies, JobRun, JobCalibrate,
       JobDirFails, JobOSError, JobWorkerDies, Stop, NextTurn
  <2>9. QED
    BY <2>3, <2>4, <2>5, <2>6, <2>7, <2>8
<1>3. QED
  BY <1>1, <1>2, Invariance, PTL DEF Spec, KeepsLedger, Ledger!Spec

-----------------------------------------------------------------------------
(* With the web site: the inductive invariant *)

\* Requests are about images that exist, and their saves are among those counted.
WebTypeOK ==
    /\ editing \in [UIs -> Nat] /\ edits \in Nat
    /\ \A u \in UIs : editing[u] <= edits /\ (editing[u] > 0 => u \in uis)

\* Only an unfinished Job is worked on.
LiveIsUnended == \A j \in JobIds : jobTask[j] \in Live => j \in Unended

\* The Job being created has no task yet and has not ended, and its image is no
\* longer among those selected.
CurIsNew ==
    pc = "mark" => cur \in Unended /\ jobTask[cur] = "none" /\ jobUI[cur] \notin launch

\* The jobs whose images the startup has still to release have not ended.
OldIsUnended == oldjobs \subseteq Unended /\ (pc # "release" => oldjobs = {})

\* Images are selected only while Jobs are created for them.
LaunchInTurn == pc \notin {"launch", "mark", "awaitJob"} => launch = {}

\* The Jobs of an image, and those of them that ended.
JobsOf(u) == {j \in jobs : jobUI[j] = u}
EndedOf(u) == {j \in jobEnded : jobUI[j] = u}

\* Main is to create a Job for the image, or may select it for one.
Open(u) == u \in launch \/ (u \notin hasJob /\ ~(pc = "mark" /\ jobUI[cur] = u))

\* An image has a Job for itself, and one for each save that was done.
Paid(u) == 1 + edits - editing[u]
PaidFor(u) ==
    /\ Cardinality(JobsOf(u)) <= Paid(u)
    /\ Looping /\ Open(u) => Cardinality(JobsOf(u)) + 1 <= Paid(u)
    /\ ~Looping /\ u \notin hasJob => Cardinality(EndedOf(u)) + 1 <= Paid(u)
JobsArePaid == \A u \in uis : PaidFor(u)

WebInv ==
    /\ TypeOK /\ StartupIsIdle /\ WebTypeOK
    /\ LiveIsUnended /\ CurIsNew /\ LaunchInTurn /\ OldIsUnended /\ JobsArePaid

-----------------------------------------------------------------------------
(* Steps of the daemon *)

\* What the invariant is about stays as it is.
Quiet ==
    /\ UNCHANGED <<uiOf, jobUI, jobEnded, hasJob, launch>>
    /\ Looping' <=> Looping
    /\ pc = "mark" \/ pc' = "mark" => pc' = pc /\ cur' = cur

\* A step is quiet, ends the process, or is one of those that create and release.
LEMMA DaemonSteps ==
    ASSUME [Next]_vars
    PROVE  \/ Quiet \/ Stop \/ DeleteOldJobs \/ SelectImages \/ QueueJob
           \/ \E j \in JobIds : ReleaseImage(j) \/ JobSucceed(j) \/ JobFail(j)
           \/ \E s \in Subs, f \in Files : SubImage(s, f)
           \/ \E u \in UIs : CreateJob(u)
<1> USE DEF Quiet, Looping, vars, rows, subRows, jobRows, main, locals, pools, subPool
<1>1. Tick \/ UNCHANGED vars => Quiet
  BY DEF Tick
<1>2. Crash \/ Quit => Stop
  BY DEF Crash, Quit
<1>3. Start \/ FindOldJobs \/ (\E s \in Subs : ResetSub(s)) => Quiet
  BY DEF Start, FindOldJobs, ResetSub, GoTo
<1>4. Poll \/ WaitForJobs \/ Idle \/ TakeWork \/ PoolFull \/ AllLaunched => Quiet
  BY DEF Poll, WaitForJobs, Idle, TakeWork, PoolFull, AllLaunched, NextTurn, GoTo
<1>5. AwaitJob => Quiet \/ Stop
  BY DEF AwaitJob, GoTo
<1>6. ASSUME NEW s \in Subs PROVE Enqueue(s) \/ AwaitSub(s) \/ Submit(s) => Quiet \/ Stop
  BY DEF Enqueue, AwaitSub, Submit, GoTo
<1>7. ASSUME NEW s \in Subs, SubWorks(s) \/ SubFault(s)
      PROVE  Quiet \/ \E f \in Files : SubImage(s, f)
  BY <1>7 DEF SubWorks, SubRun, SubBadFile, SubFinish, SubRaise, SubFault, SubDbError,
     SubWorkerDies, GiveUp
<1>8. ASSUME NEW j \in JobIds, JobWorks(j) \/ JobFault(j)
      PROVE  Quiet \/ JobSucceed(j) \/ JobFail(j)
  BY <1>8 DEF JobWorks, JobRun, JobCalibrate, JobFault, JobDirFails, JobOSError, JobWorkerDies
<1>9. QED
  BY <1>1, <1>2, <1>3, <1>4, <1>5, <1>6, <1>7, <1>8 DEF Next, Main, Startup, Loop

\* What a step does to the tasks of Jobs: a task is started only in the loop, and
\* ended with the process.
LEMMA TaskSteps ==
    ASSUME TypeOK, [Next]_vars
    PROVE  \/ /\ \A j \in JobIds : jobTask'[j] # jobTask[j] /\ jobTask'[j] \in Live
                                      => jobTask[j] \in Live
              /\ \A j \in JobIds : jobTask[j] = "none" => jobTask'[j] = "none"
              /\ \A s \in Subs : subTask[s] = "none" => subTask'[s] = "none"
              /\ Looping => Looping'
              /\ ~Looping' => cur' = cur
           \/ /\ Stop
              /\ \A j \in JobIds : jobTask'[j] = "none"
              /\ \A s \in Subs : subTask'[s] = "none"
              /\ cur' = None
           \/ /\ QueueJob /\ Looping'
              /\ jobTask' = [jobTask EXCEPT ![cur] = "queued"]
           \/ /\ Looping' /\ jobTask' = jobTask
<1> DEFINE Keep ==
              /\ \A j \in JobIds : jobTask'[j] # jobTask[j] /\ jobTask'[j] \in Live
                                      => jobTask[j] \in Live
              /\ \A j \in JobIds : jobTask[j] = "none" => jobTask'[j] = "none"
              /\ \A s \in Subs : subTask[s] = "none" => subTask'[s] = "none"
              /\ Looping => Looping'
              /\ ~Looping' => cur' = cur
           End ==
              /\ Stop
              /\ \A j \in JobIds : jobTask'[j] = "none"
              /\ \A s \in Subs : subTask'[s] = "none"
              /\ cur' = None
           Same == Looping' /\ jobTask' = jobTask
<1>0. /\ subTask \in [Subs -> {"none", "queued", "running", "lost"} \union Ready]
      /\ jobTask \in [JobIds -> {"none", "lost"} \union Live \union Ready]
  BY DEF TypeOK
<1> USE DEF Looping, vars, rows, subRows, jobRows, main, locals, pools, subPool
<1>1. Tick \/ UNCHANGED vars => Keep
  BY DEF Tick
<1>2. Stop => End
  BY DEF Stop
<1>3. Crash \/ Quit => Stop
  BY DEF Crash, Quit
<1>4. Startup => Keep
  BY DEF Startup, Start, ResetSub, FindOldJobs, ReleaseImage, DeleteOldJobs, GoTo
<1>5. Poll => Keep
  BY <1>0 DEF Poll, Collect, GoTo, Live, Running
<1>6. WaitForJobs \/ Idle \/ TakeWork \/ PoolFull \/ AllLaunched \/ SelectImages => Same
  BY DEF WaitForJobs, Idle, TakeWork, PoolFull, AllLaunched, SelectImages, NextTurn, GoTo
<1>7. AwaitJob => Stop \/ Keep
  BY <1>0 DEF AwaitJob, GoTo, Live, Running
<1>8. QueueJob => QueueJob /\ Looping' /\ jobTask' = [jobTask EXCEPT ![cur] = "queued"]
  BY DEF QueueJob, GoTo
<1>9. ASSUME NEW u \in UIs PROVE CreateJob(u) => Same
  BY DEF CreateJob, GoTo
<1>10. ASSUME NEW s \in Subs PROVE Enqueue(s) \/ AwaitSub(s) \/ Submit(s) => Stop \/ Same \/ Keep
  BY <1>0 DEF Enqueue, AwaitSub, Submit, GoTo
<1>11. ASSUME NEW s \in Subs PROVE SubWorks(s) \/ SubFault(s) => Keep
  BY <1>0 DEF SubWorks, SubRun, SubImage, SubBadFile, SubFinish, SubRaise, SubFault, SubDbError,
     SubWorkerDies, GiveUp
<1>12. ASSUME NEW j \in JobIds PROVE JobWorks(j) \/ JobFault(j) => Keep
  BY <1>0 DEF JobWorks, JobRun, JobCalibrate, JobSucceed, JobFail, JobFault, JobDirFails,
     JobOSError, JobWorkerDies, Live, Running
<1> HIDE DEF Keep, End, Same
<1>13. Keep \/ End \/ Same \/ (QueueJob /\ Looping' /\ jobTask' = [jobTask EXCEPT ![cur] = "queued"])
  BY <1>1, <1>2, <1>3, <1>4, <1>5, <1>6, <1>7, <1>8, <1>9, <1>10, <1>11, <1>12 DEF Next, Main, Loop
<1>14. QED
  BY <1>13 DEF Keep, End, Same


\* Images are not deleted, and a Job only by the startup.
LEMMA ImagesStay ==
    ASSUME [Next]_vars
    PROVE  uis \subseteq uis'
<1>1. UNCHANGED uiOf => uis' = uis
  BY DEF uis
<1>2. \A s \in Subs, f \in Files : SubImage(s, f) => uis \subseteq uis'
  BY DEF SubImage, WithRow, uis
<1>3. QED
  BY <1>1, <1>2, DaemonSteps
     DEF Quiet, Stop, rows, DeleteOldJobs, SelectImages, QueueJob, ReleaseImage, JobSucceed,
         JobFail, CreateJob

\* The daemon keeps what is said of its tasks.
LEMMA TasksStep ==
    ASSUME TypeOK, TypeOK', StartupIsIdle, LiveIsUnended, CurIsNew, LaunchInTurn, [Next]_vars
    PROVE  StartupIsIdle' /\ LiveIsUnended'
<1>0. jobTask \in [JobIds -> {"none", "lost"} \union Live \union Ready]
  BY DEF TypeOK
<1>1. StartupIsIdle'
  BY <1>0, TaskSteps DEF StartupIsIdle
<1>2. LiveIsUnended'
  <2>1. ASSUME NEW j \in JobIds, jobTask'[j] \in Live, jobTask[j] \in Live
        PROVE  j \in Unended'
    <3>1. j \in jobs /\ j \notin jobEnded /\ Looping
      BY <2>1 DEF LiveIsUnended, Unended, StartupIsIdle, Live, Running
    <3>2. CASE \E k \in JobIds : JobSucceed(k) \/ JobFail(k)
      <4>1. PICK k \in JobIds : JobSucceed(k) \/ JobFail(k)
        BY <3>2
      <4>2. jobTask' = [jobTask EXCEPT ![k] = "ok"] /\ jobEnded' = jobEnded \cup {k} /\ jobUI' = jobUI
        BY <4>1 DEF JobSucceed, JobFail
      <4>3. j # k
        BY <1>0, <2>1, <4>2 DEF Live, Running
      <4>4. QED
        BY <3>1, <4>2, <4>3 DEF Unended, jobs
    <3>3. CASE \E u \in UIs : CreateJob(u)
      BY <3>1, <3>3, NewIdIsNew DEF CreateJob, WithRow, Unended, jobs
    <3>4. CASE UNCHANGED <<jobUI, jobEnded>>
      BY <3>1, <3>4 DEF Unended, jobs
    <3>5. CASE DeleteOldJobs
      BY <3>1, <3>5 DEF DeleteOldJobs, GoTo, Looping
    <3>6. QED
      BY <3>2, <3>3, <3>4, <3>5, DaemonSteps
         DEF Quiet, Stop, rows, jobRows, SelectImages, QueueJob, ReleaseImage, SubImage
  <2>2. ASSUME NEW j \in JobIds, jobTask'[j] \in Live, jobTask[j] \notin Live
        PROVE  j \in Unended'
    <3>1. QueueJob /\ jobTask' = [jobTask EXCEPT ![cur] = "queued"]
      BY <1>0, <2>2, TaskSteps DEF Live, Running
    <3>2. j = cur /\ pc = "mark" /\ UNCHANGED <<jobUI, jobEnded>>
      BY <1>0, <2>2, <3>1 DEF QueueJob, GoTo, jobRows
    <3>3. QED
      BY <3>2 DEF CurIsNew, Unended, jobs
  <2>3. QED
    BY <2>1, <2>2 DEF LiveIsUnended
<1>3. QED
  BY <1>1, <1>2

\* It keeps what is said of the Job being created and the images selected.
LEMMA CreationStep ==
    ASSUME TypeOK, TypeOK', StartupIsIdle, LiveIsUnended, CurIsNew, LaunchInTurn, [Next]_vars
    PROVE  CurIsNew' /\ LaunchInTurn'
<1>0. /\ jobTask \in [JobIds -> {"none", "lost"} \union Live \union Ready]
      /\ \A j \in JobIds : jobTask[j] # "none" => j \in jobs
      /\ jobEnded \subseteq jobs /\ jobs \subseteq JobIds
  BY DEF TypeOK
<1>1. LaunchInTurn'
  <2> USE DEF LaunchInTurn, vars, rows, subRows, jobRows, main, locals, pools, subPool
  <2>1. Tick \/ Crash \/ UNCHANGED vars => LaunchInTurn'
    BY DEF Tick, Crash, Stop
  <2>2. Startup => LaunchInTurn'
    BY DEF Startup, Start, ResetSub, FindOldJobs, ReleaseImage, DeleteOldJobs, GoTo
  <2>3. Poll \/ Quit \/ WaitForJobs \/ Idle \/ TakeWork \/ PoolFull \/ SelectImages => LaunchInTurn'
    BY DEF Poll, Quit, Stop, WaitForJobs, Idle, TakeWork, PoolFull, SelectImages, NextTurn, GoTo
  <2>4. QueueJob \/ AwaitJob \/ AllLaunched \/ (\E u \in UIs : CreateJob(u)) => LaunchInTurn'
    BY DEF QueueJob, AwaitJob, AllLaunched, CreateJob, Stop, NextTurn, GoTo
  <2>5. ASSUME NEW s \in Subs
        PROVE  Enqueue(s) \/ AwaitSub(s) \/ Submit(s) => LaunchInTurn'
    BY DEF Enqueue, AwaitSub, Submit, Stop, GoTo
  <2>6. ASSUME NEW s \in Subs PROVE SubWorks(s) \/ SubFault(s) => LaunchInTurn'
    BY DEF SubWorks, SubRun, SubImage, SubBadFile, SubFinish, SubRaise, SubFault, SubDbError,
       SubWorkerDies, GiveUp
  <2>7. ASSUME NEW j \in JobIds PROVE JobWorks(j) \/ JobFault(j) => LaunchInTurn'
    BY DEF JobWorks, JobRun, JobCalibrate, JobSucceed, JobFail, JobFault, JobDirFails,
       JobOSError, JobWorkerDies
  <2>8. QED
    BY <2>1, <2>2, <2>3, <2>4, <2>5, <2>6, <2>7 DEF Next, Main, Loop
<1>2. CurIsNew'
  <2>1. SUFFICES ASSUME pc' = "mark"
                 PROVE  cur' \in Unended' /\ jobTask'[cur'] = "none" /\ jobUI'[cur'] \notin launch'
    BY DEF CurIsNew
  <2>2. CASE \E u \in UIs : CreateJob(u)
    <3>1. PICK u \in UIs : CreateJob(u)
      BY <2>2
    <3>2. /\ cur' \in JobIds \ jobs /\ jobUI' = WithRow(jobUI, cur', u) /\ launch' = launch \ {u}
          /\ jobEnded' = jobEnded /\ jobTask' = jobTask
      BY <3>1, NewIdIsNew DEF CreateJob, jobs, pools
    <3>3. cur' \in jobs' /\ jobUI'[cur'] = u /\ cur' \notin jobEnded /\ jobTask[cur'] = "none"
      BY <1>0, <3>2 DEF WithRow, jobs
    <3>4. QED
      BY <3>2, <3>3 DEF Unended
  <2>3. CASE pc = "mark" /\ cur' = cur /\ launch' = launch /\ ~QueueJob
    <3>1. cur \in JobIds /\ cur \in jobs /\ cur \notin jobEnded /\ jobTask[cur] = "none"
          /\ jobUI[cur] \notin launch
      BY <1>0, <2>3 DEF CurIsNew, Unended
    <3>2. Looping /\ Looping'
      BY <2>1, <2>3 DEF Looping
    <3>3. jobTask'[cur] = "none"
      BY <2>1, <2>3, <3>1, TaskSteps DEF Stop
    <3>4. CASE UNCHANGED <<jobUI, jobEnded>>
      BY <2>3, <3>1, <3>3, <3>4 DEF Unended, jobs
    <3>5. ASSUME NEW j \in JobIds, JobSucceed(j) \/ JobFail(j)
          PROVE  UNCHANGED jobUI /\ jobEnded' = jobEnded \cup {j} /\ j # cur
      BY <3>1, <3>5 DEF JobSucceed, JobFail, Running
    <3>6. CASE \E j \in JobIds : JobSucceed(j) \/ JobFail(j)
      BY <2>3, <3>1, <3>3, <3>5, <3>6 DEF Unended, jobs
    <3>7. QED
      BY <2>3, <3>2, <3>4, <3>6, DaemonSteps
         DEF Quiet, Stop, rows, jobRows, SelectImages, QueueJob, ReleaseImage, SubImage,
             DeleteOldJobs, CreateJob, GoTo, Looping
  <2>4. QED
    BY <2>1, <2>2, <2>3, DaemonSteps
       DEF Quiet, Stop, rows, jobRows, SelectImages, QueueJob, ReleaseImage, SubImage,
           DeleteOldJobs, JobSucceed, JobFail, GoTo, main, locals
<1>3. QED
  BY <1>1, <1>2


\* An image has finitely many Jobs, and no more that ended; fewer while one of them
\* has not ended.
LEMMA JobCounts ==
    ASSUME TypeOK, NEW u \in UIs
    PROVE  /\ Cardinality(JobsOf(u)) \in Nat /\ Cardinality(EndedOf(u)) \in Nat
           /\ Cardinality(EndedOf(u)) <= Cardinality(JobsOf(u))
           /\ \A j \in Unended : jobUI[j] = u =>
                  Cardinality(EndedOf(u)) + 1 <= Cardinality(JobsOf(u))
<1>1. JobsOf(u) \subseteq JobIds /\ EndedOf(u) \subseteq JobsOf(u)
  BY DEF TypeOK, JobsOf, EndedOf
<1>2. IsFiniteSet(JobsOf(u)) /\ IsFiniteSet(EndedOf(u))
  BY <1>1, SizeAssumption, FS_Subset
<1>3. /\ Cardinality(JobsOf(u)) \in Nat /\ Cardinality(EndedOf(u)) \in Nat
      /\ Cardinality(EndedOf(u)) <= Cardinality(JobsOf(u))
  BY <1>1, <1>2, FS_CardinalityType, FS_Subset
<1>4. ASSUME NEW j \in Unended, jobUI[j] = u
      PROVE  Cardinality(EndedOf(u)) + 1 <= Cardinality(JobsOf(u))
  <2>1. j \in JobsOf(u) \ EndedOf(u)
    BY <1>4 DEF Unended, JobsOf, EndedOf
  <2>2. EndedOf(u) \cup {j} \subseteq JobsOf(u)
    BY <1>1, <2>1
  <2>3. Cardinality(EndedOf(u) \cup {j}) = Cardinality(EndedOf(u)) + 1
    BY <1>2, <2>1, FS_AddElement
  <2>4. Cardinality(EndedOf(u) \cup {j}) <= Cardinality(JobsOf(u))
    BY <1>2, <2>2, FS_Subset
  <2>5. QED
    BY <2>3, <2>4
<1>5. QED
  BY <1>3, <1>4

\* What an image has paid for is a number, one at least.
LEMMA PaidIsPositive ==
    ASSUME WebTypeOK, NEW u \in UIs
    PROVE  Paid(u) \in Nat \ {0}
<1>1. editing[u] \in Nat /\ edits \in Nat /\ editing[u] <= edits
  BY DEF WebTypeOK
<1>2. QED
  BY <1>1 DEF Paid

\* A step that creates no Job for the image, and opens no way to one, leaves it paid.
LEMMA StaysPaid ==
    ASSUME WebInv, NEW u \in uis, UNCHANGED webVars,
           JobsOf(u)' = JobsOf(u), EndedOf(u)' = EndedOf(u),
           (Looping /\ Open(u))' => Looping /\ Open(u),
           (~Looping /\ u \notin hasJob)' =>
               \/ ~Looping /\ u \notin hasJob
               \/ Looping /\ Open(u)
               \/ \E j \in Unended : jobUI[j] = u
    PROVE  PaidFor(u)'
<1>1. u \in UIs /\ PaidFor(u)
  BY DEF WebInv, TypeOK, JobsArePaid
<1>2. Paid(u) \in Int /\ Paid(u)' = Paid(u)
  BY <1>1, PaidIsPositive DEF WebInv, webVars, Paid
<1>3. /\ Cardinality(JobsOf(u)) \in Nat /\ Cardinality(EndedOf(u)) \in Nat
      /\ Cardinality(EndedOf(u)) <= Cardinality(JobsOf(u))
      /\ (\E j \in Unended : jobUI[j] = u) =>
             Cardinality(EndedOf(u)) + 1 <= Cardinality(JobsOf(u))
  BY <1>1, JobCounts DEF WebInv
<1>4. /\ Cardinality(JobsOf(u))' = Cardinality(JobsOf(u))
      /\ Cardinality(EndedOf(u))' = Cardinality(EndedOf(u))
  OBVIOUS
<1>5. Cardinality(JobsOf(u))' <= Paid(u)'
  BY <1>1, <1>2, <1>4 DEF PaidFor
<1>6. (Looping /\ Open(u))' => Cardinality(JobsOf(u))' + 1 <= Paid(u)'
  BY <1>1, <1>2, <1>4 DEF PaidFor
<1>7. (~Looping /\ u \notin hasJob)' => Cardinality(EndedOf(u))' + 1 <= Paid(u)'
  <2>1. (~Looping /\ u \notin hasJob)' => Cardinality(EndedOf(u)) + 1 <= Paid(u)
    BY <1>1, <1>2, <1>3 DEF PaidFor
  <2>2. QED
    BY <1>2, <1>4, <2>1
<1>8. QED
  BY <1>5, <1>6, <1>7 DEF PaidFor


\* The jobs the startup works on have not ended.
LEMMA OldStep ==
    ASSUME TypeOK, TypeOK', StartupIsIdle, OldIsUnended, [Next]_vars
    PROVE  OldIsUnended'
<1>1. \/ oldjobs' = oldjobs /\ (pc = "release" <=> pc' = "release")
      \/ oldjobs' = {}
      \/ oldjobs' = Unended /\ pc' = "release" /\ UNCHANGED <<jobUI, jobEnded>>
      \/ oldjobs' \subseteq oldjobs /\ UNCHANGED <<pc, jobUI, jobEnded>>
  <2> DEFINE Moves ==
             \/ oldjobs' = oldjobs /\ (pc = "release" <=> pc' = "release")
             \/ oldjobs' = {}
             \/ oldjobs' = Unended /\ pc' = "release" /\ UNCHANGED <<jobUI, jobEnded>>
             \/ oldjobs' \subseteq oldjobs /\ UNCHANGED <<pc, jobUI, jobEnded>>
  <2> USE DEF vars, rows, jobRows, main, locals
  <2>1. Tick \/ Crash \/ UNCHANGED vars => Moves
    BY DEF Tick, Crash, Stop
  <2>2. Startup => Moves
    BY DEF Startup, Start, ResetSub, FindOldJobs, ReleaseImage, DeleteOldJobs, GoTo
  <2>3. Poll \/ Quit \/ WaitForJobs \/ Idle \/ TakeWork \/ PoolFull \/ SelectImages => Moves
    BY DEF Poll, Quit, Stop, WaitForJobs, Idle, TakeWork, PoolFull, SelectImages, NextTurn, GoTo
  <2>4. QueueJob \/ AwaitJob \/ AllLaunched \/ (\E u \in UIs : CreateJob(u)) => Moves
    BY DEF QueueJob, AwaitJob, AllLaunched, CreateJob, Stop, NextTurn, GoTo
  <2>5. ASSUME NEW s \in Subs PROVE Enqueue(s) \/ AwaitSub(s) \/ Submit(s) => Moves
    BY DEF Enqueue, AwaitSub, Submit, Stop, GoTo
  <2>6. ASSUME NEW s \in Subs PROVE SubWorks(s) \/ SubFault(s) => Moves
    BY DEF SubWorks, SubRun, SubImage, SubBadFile, SubFinish, SubRaise, SubFault, SubDbError,
       SubWorkerDies, GiveUp
  <2>7. ASSUME NEW j \in JobIds PROVE JobWorks(j) \/ JobFault(j) => Moves
    BY DEF JobWorks, JobRun, JobCalibrate, JobSucceed, JobFail, JobFault, JobDirFails,
       JobOSError, JobWorkerDies
  <2>8. QED
    BY <2>1, <2>2, <2>3, <2>4, <2>5, <2>6, <2>7 DEF Next, Main, Loop
<1>2. pc = "release" => UNCHANGED <<jobUI, jobEnded>> \/ DeleteOldJobs
  <2>1. \A j \in JobIds : ~(pc = "release" /\ (JobSucceed(j) \/ JobFail(j)))
    BY DEF StartupIsIdle, Looping, JobSucceed, JobFail, Running
  <2>2. QED
    BY <2>1, DaemonSteps DEF Quiet, Stop, rows, jobRows, SelectImages, QueueJob, ReleaseImage,
       SubImage, CreateJob, GoTo
<1>3. CASE DeleteOldJobs
  BY <1>3 DEF DeleteOldJobs, locals, GoTo, OldIsUnended
<1>4. CASE ~DeleteOldJobs
  BY <1>1, <1>2, <1>4 DEF OldIsUnended, Unended, jobs
<1>5. QED
  BY <1>3, <1>4

\* Every step of the daemon leaves each image no more Jobs than it paid for.
LEMMA PaidStep ==
    ASSUME WebInv, TypeOK', [Next]_vars, UNCHANGED webVars
    PROVE  JobsArePaid'
<1> USE DEF Looping
<1>0. /\ jobs \subseteq JobIds /\ jobUI \in [jobs -> uis] /\ jobEnded \subseteq jobs
      /\ uis \subseteq UIs /\ uis' \subseteq UIs /\ launch \subseteq uis
      /\ jobTask \in [JobIds -> {"none", "lost"} \union Live \union Ready]
  BY DEF WebInv, TypeOK
<1>1. CurIsNew /\ LaunchInTurn /\ StartupIsIdle /\ OldIsUnended
  BY DEF WebInv
<1>2. CASE \E s \in Subs, f \in Files : SubImage(s, f)
  <2>1. PICK u \in UIs \ uis :
             uis' = uis \cup {u} /\ UNCHANGED <<jobUI, jobEnded, hasJob, launch, pc, cur>>
    BY <1>2, NewIdIsNew DEF SubImage, WithRow, uis, jobRows, main, locals
  <2>2. ASSUME NEW v \in uis PROVE PaidFor(v)'
    <3>1. JobsOf(v)' = JobsOf(v) /\ EndedOf(v)' = EndedOf(v)
      BY <2>1 DEF JobsOf, EndedOf, jobs
    <3>2. (Open(v))' <=> Open(v)
      BY <2>1 DEF Open
    <3>3. QED
      BY <2>1, <3>1, <3>2, StaysPaid
  <2>3. PaidFor(u)'
    <3>1. JobsOf(u)' = {} /\ EndedOf(u)' = {}
      BY <1>0, <2>1 DEF JobsOf, EndedOf, jobs
    <3>2. Cardinality(JobsOf(u))' = 0 /\ Cardinality(EndedOf(u))' = 0
      BY <3>1, FS_EmptySet
    <3>3. Paid(u)' \in Nat \ {0}
      BY PaidIsPositive DEF WebInv, webVars, Paid
    <3>4. QED
      BY <3>2, <3>3 DEF PaidFor
  <2>4. QED
    BY <2>1, <2>2, <2>3 DEF JobsArePaid
<1>3. CASE \E u \in UIs : CreateJob(u)
  <2>1. PICK u \in UIs : CreateJob(u)
    BY <1>3
  <2>2. /\ pc = "launch" /\ pc' = "mark" /\ u \in launch /\ launch' = launch \ {u}
        /\ cur' \in JobIds \ jobs /\ jobUI' = WithRow(jobUI, cur', u)
        /\ UNCHANGED <<uiOf, jobEnded, hasJob>>
    BY <2>1, NewIdIsNew DEF CreateJob, GoTo, jobs
  <2>3. /\ jobs' = jobs \cup {cur'} /\ jobUI'[cur'] = u
        /\ \A j \in jobs : jobUI'[j] = jobUI[j]
    BY <2>2 DEF WithRow, jobs
  <2>4. ASSUME NEW v \in uis, v # u PROVE PaidFor(v)'
    <3>1. JobsOf(v)' = JobsOf(v) /\ EndedOf(v)' = EndedOf(v)
      BY <1>0, <2>2, <2>3, <2>4 DEF JobsOf, EndedOf
    <3>2. (Open(v))' => Open(v)
      BY <2>2 DEF Open
    <3>3. QED
      BY <2>2, <3>1, <3>2, StaysPaid
  <2>5. PaidFor(u)'
    <3>1. u \in uis /\ PaidFor(u) /\ Open(u) /\ Looping
      BY <1>0, <2>2 DEF WebInv, JobsArePaid, Open
    <3>2. JobsOf(u)' = JobsOf(u) \cup {cur'} /\ cur' \notin JobsOf(u)
      BY <2>2, <2>3 DEF JobsOf
    <3>3. JobsOf(u) \subseteq JobIds
      BY <1>0 DEF JobsOf
    <3>4. IsFiniteSet(JobsOf(u))
      BY <3>3, SizeAssumption, FS_Subset
    <3>5. Cardinality(JobsOf(u))' = Cardinality(JobsOf(u)) + 1
      BY <3>2, <3>4, FS_AddElement
    <3>6. ~(Open(u))' /\ Looping'
      BY <2>2, <2>3 DEF Open
    <3>7. Paid(u)' = Paid(u)
      BY DEF webVars, Paid
    <3>8. QED
      BY <3>1, <3>5, <3>6, <3>7 DEF PaidFor
  <2>6. QED
    BY <2>2, <2>4, <2>5 DEF JobsArePaid, uis
<1>4. CASE DeleteOldJobs
  <2>1. /\ pc = "release" /\ pc' = "poll" /\ jobUI' = [j \in jobs \ Unended |-> jobUI[j]]
        /\ UNCHANGED <<uiOf, jobEnded, hasJob, launch>>
    BY <1>4 DEF DeleteOldJobs, GoTo, locals
  <2>2. jobs' = jobEnded /\ \A j \in jobEnded : jobUI'[j] = jobUI[j]
    BY <1>0, <2>1 DEF Unended, jobs
  <2>3. ASSUME NEW u \in uis PROVE PaidFor(u)'
    <3>1. JobsOf(u)' = EndedOf(u)
      BY <2>1, <2>2 DEF JobsOf, EndedOf
    <3>2. u \in UIs /\ PaidFor(u)
      BY <1>0 DEF WebInv, JobsArePaid
    <3>3. (Open(u))' => u \notin hasJob
      BY <1>1, <2>1 DEF Open, LaunchInTurn
    <3>4. Paid(u)' = Paid(u) /\ Paid(u) \in Int
      BY <3>2, PaidIsPositive DEF WebInv, webVars, Paid
    <3>5. /\ Cardinality(EndedOf(u)) \in Nat /\ Cardinality(JobsOf(u)) \in Nat
          /\ Cardinality(EndedOf(u)) <= Cardinality(JobsOf(u))
      BY <3>2, JobCounts DEF WebInv
    <3>6. Cardinality(JobsOf(u))' = Cardinality(EndedOf(u))
      BY <3>1
    <3>7. Cardinality(EndedOf(u)) <= Paid(u)
      BY <3>2, <3>4, <3>5 DEF PaidFor
    <3>8. QED
      BY <2>1, <3>2, <3>3, <3>4, <3>6, <3>7 DEF PaidFor
  <2>4. QED
    BY <2>1, <2>3 DEF JobsArePaid, uis
<1>5. ASSUME NEW j \in JobIds, JobSucceed(j) \/ JobFail(j) PROVE JobsArePaid'
  <2>1. Looping /\ UNCHANGED <<uiOf, jobUI, hasJob, launch, pc, cur>>
    BY <1>1, <1>5 DEF JobSucceed, JobFail, StartupIsIdle, Running, main, locals
  <2>2. ASSUME NEW u \in uis PROVE PaidFor(u)'
    <3>1. u \in UIs /\ PaidFor(u)
      BY <1>0 DEF WebInv, JobsArePaid
    <3>2. JobsOf(u)' = JobsOf(u) /\ ((Open(u))' <=> Open(u))
      BY <2>1 DEF JobsOf, Open, jobs
    <3>3. Paid(u)' = Paid(u)
      BY DEF webVars, Paid
    <3>4. QED
      BY <2>1, <3>1, <3>2, <3>3 DEF PaidFor
  <2>3. QED
    BY <2>1, <2>2 DEF JobsArePaid, uis
<1>6. CASE UNCHANGED <<uiOf, jobUI, jobEnded>>
           /\ (Quiet \/ Stop \/ SelectImages \/ QueueJob \/ \E j \in JobIds : ReleaseImage(j))
  <2>1. ASSUME NEW u \in uis PROVE PaidFor(u)'
    <3>1. JobsOf(u)' = JobsOf(u) /\ EndedOf(u)' = EndedOf(u)
      BY <1>6 DEF JobsOf, EndedOf, jobs
    <3>2. CASE Quiet
      <4>1. (Looping' <=> Looping) /\ hasJob' = hasJob /\ ((Open(u))' <=> Open(u))
        BY <3>2 DEF Quiet, Open
      <4>2. QED
        BY <3>1, <4>1, StaysPaid
    <3>3. CASE Stop
      <4>1. ~Looping' /\ hasJob' = hasJob
        BY <3>3 DEF Stop, rows
      <4>2. u \notin hasJob => Open(u) \/ \E j \in Unended : jobUI[j] = u
        BY <1>1 DEF Open, CurIsNew
      <4>3. QED
        BY <3>1, <4>1, <4>2, StaysPaid
    <3>4. CASE SelectImages
      <4>1. Looping /\ Looping' /\ pc # "mark" /\ launch' \subseteq WithoutJob /\ hasJob' = hasJob
        BY <3>4 DEF SelectImages, GoTo, rows
      <4>2. (Open(u))' => Open(u)
        BY <4>1 DEF Open, WithoutJob
      <4>3. QED
        BY <3>1, <4>1, <4>2, StaysPaid
    <3>5. CASE QueueJob
      <4>1. /\ Looping /\ Looping' /\ launch' = launch
            /\ hasJob' = hasJob \cup {jobUI[cur]}
        BY <3>5 DEF QueueJob, GoTo, locals
      <4>2. (Open(u))' => Open(u)
        BY <4>1 DEF Open
      <4>3. QED
        BY <3>1, <4>1, <4>2, StaysPaid
    <3>6. ASSUME NEW j \in JobIds, ReleaseImage(j) PROVE PaidFor(u)'
      <4>1. /\ ~Looping /\ ~Looping' /\ j \in Unended
            /\ hasJob' = hasJob \ {jobUI[j]}
        BY <1>1, <3>6 DEF ReleaseImage, OldIsUnended
      <4>2. QED
        BY <3>1, <4>1, StaysPaid
    <3>7. QED
      BY <1>6, <3>2, <3>3, <3>4, <3>5, <3>6
  <2>2. QED
    BY <1>6, <2>1 DEF JobsArePaid, uis
<1>7. QED
  BY <1>2, <1>3, <1>4, <1>5, <1>6, DaemonSteps
     DEF Quiet, Stop, rows, jobRows, SelectImages, QueueJob, ReleaseImage


-----------------------------------------------------------------------------
(* Steps of the web site *)

\* A view changes the flags of existing images, and nothing else of the daemon's.
LEMMA ViewSteps ==
    ASSUME WebTypeOK, TypeOK, NEW u \in UIs, ReadImage(u) \/ SaveImage(u)
    PROVE  /\ UNCHANGED <<uiOf, jobUI, jobEnded, jobSolved, jobTask, subTask,
                          pc, oldjobs, launch, cur>>
           /\ TypeOK' /\ WebTypeOK'
<1>1. /\ editing \in [UIs -> Nat] /\ edits \in Nat /\ u \in UIs
      /\ \A v \in UIs : editing[v] <= edits /\ (editing[v] > 0 => v \in uis)
  BY DEF WebTypeOK
<1>2. CASE ReadImage(u)
  <2>1. PICK saves \in 1..2 : /\ editing' = [editing EXCEPT ![u] = saves]
                              /\ edits' = edits + saves
    BY <1>2 DEF ReadImage
  <2>2. UNCHANGED vars /\ u \in uis
    BY <1>2 DEF ReadImage
  <2>3. TypeOK'
    BY <2>2 DEF TypeOK, vars, rows, subRows, jobRows, main, locals, pools, subPool, uis, jobs,
       Live, Running, Ready
  <2>4. uis' = uis
    BY <2>2 DEF vars, rows, uis
  <2>5. WebTypeOK'
    BY <1>1, <2>1, <2>2, <2>4 DEF WebTypeOK
  <2>6. QED
    BY <2>2, <2>3, <2>5 DEF vars, rows, jobRows, main, locals, pools, subPool
<1>3. CASE SaveImage(u)
  <2>1. /\ UNCHANGED <<subRows, uiOf, jobRows, main, age, pools, faults, edits>>
        /\ editing[u] > 0 /\ editing' = [editing EXCEPT ![u] = @ - 1]
        /\ hasJob' \subseteq hasJob \cup {u}
    BY <1>3 DEF SaveImage
  <2>2. uis' = uis /\ jobs' = jobs /\ u \in uis
    BY <1>1, <2>1 DEF jobRows, uis, jobs
  <2>3. hasJob' \subseteq uis'
    BY <2>1, <2>2 DEF TypeOK
  <2>4. TypeOK'
    BY <2>1, <2>2, <2>3
       DEF TypeOK, subRows, jobRows, main, locals, pools, subPool, Live, Running, Ready
  <2>5. WebTypeOK'
    BY <1>1, <2>1, <2>2 DEF WebTypeOK
  <2>6. QED
    BY <2>1, <2>4, <2>5 DEF jobRows, main, locals, pools, subPool
<1>4. QED
  BY <1>2, <1>3

\* A save pays for the Job that may follow it; a view that is open pays for none.
LEMMA ViewPays ==
    ASSUME WebInv, NEW u \in UIs, ReadImage(u) \/ SaveImage(u)
    PROVE  JobsArePaid'
<1>1. /\ UNCHANGED <<uiOf, jobUI, jobEnded, pc, launch, cur>> /\ WebTypeOK /\ WebTypeOK'
  BY ViewSteps DEF WebInv
<1>2. SUFFICES ASSUME NEW v \in uis PROVE PaidFor(v)'
  BY <1>1 DEF JobsArePaid, uis
<1>3. v \in UIs /\ PaidFor(v)
  BY DEF WebInv, TypeOK, JobsArePaid
<1>4. /\ Cardinality(JobsOf(v))' = Cardinality(JobsOf(v))
      /\ Cardinality(EndedOf(v))' = Cardinality(EndedOf(v)) /\ (Looping' <=> Looping)
  BY <1>1 DEF JobsOf, EndedOf, jobs, Looping
<1>5. /\ Cardinality(JobsOf(v)) \in Nat /\ Cardinality(EndedOf(v)) \in Nat
      /\ Cardinality(EndedOf(v)) <= Cardinality(JobsOf(v))
  BY <1>3, JobCounts DEF WebInv
<1>6. Paid(v) \in Nat
  BY <1>1, <1>3, PaidIsPositive
<1>7. CASE hasJob' = hasJob /\ Paid(v)' \in Nat /\ Paid(v)' >= Paid(v)
  <2>1. (Open(v))' <=> Open(v)
    BY <1>1, <1>7 DEF Open
  <2>2. QED
    BY <1>3, <1>4, <1>5, <1>6, <1>7, <2>1 DEF PaidFor
<1>8. CASE Paid(v)' = Paid(v) + 1
  BY <1>3, <1>4, <1>5, <1>6, <1>8 DEF PaidFor
<1>9. CASE v # u /\ Paid(v)' = Paid(v) /\ hasJob' \ {u} = hasJob \ {u}
  <2>1. (v \in hasJob' <=> v \in hasJob) /\ ((Open(v))' <=> Open(v))
    BY <1>1, <1>9 DEF Open
  <2>2. QED
    BY <1>3, <1>4, <1>9, <2>1 DEF PaidFor
<1>10. /\ editing \in [UIs -> Nat] /\ edits \in Nat
       /\ editing[v] \in Nat /\ editing[u] \in Nat
  BY <1>1, <1>3 DEF WebTypeOK
<1>11. CASE ReadImage(u)
  <2>1. PICK saves \in 1..2 : /\ editing' = [editing EXCEPT ![u] = saves]
                              /\ edits' = edits + saves /\ editing[u] = 0
    BY <1>11 DEF ReadImage
  <2>2. hasJob' = hasJob
    BY <1>11 DEF ReadImage, vars, rows
  <2>3. Paid(v)' \in Nat /\ Paid(v)' >= Paid(v)
    <3>1. CASE v = u
      BY <1>10, <2>1, <3>1 DEF Paid
    <3>2. CASE v # u
      <4>1. Paid(v)' = Paid(v) + saves
        BY <1>3, <1>10, <2>1, <3>2 DEF Paid
      <4>2. QED
        BY <1>6, <4>1
    <3>3. QED
      BY <3>1, <3>2
  <2>4. QED
    BY <1>7, <2>2, <2>3
<1>12. CASE SaveImage(u)
  <2>1. /\ editing' = [editing EXCEPT ![u] = @ - 1] /\ edits' = edits
        /\ hasJob' \ {u} = hasJob \ {u}
    BY <1>12 DEF SaveImage
  <2>2. CASE v = u
    <3>1. Paid(v)' = Paid(v) + 1
      BY <1>10, <2>1, <2>2 DEF Paid
    <3>2. QED
      BY <1>8, <3>1
  <2>3. CASE v # u
    <3>1. Paid(v)' = Paid(v)
      BY <1>3, <1>10, <2>1, <2>3 DEF Paid
    <3>2. QED
      BY <1>9, <2>1, <2>3, <3>1
  <2>4. QED
    BY <2>2, <2>3
<1>13. QED
  BY <1>11, <1>12

-----------------------------------------------------------------------------
(* Theorems *)

\* The daemon and the site start with what the invariant says.
LEMMA WebInitInv == WebInit => WebInv
<1> SUFFICES ASSUME WebInit PROVE WebInv
  OBVIOUS
<1>1. Init
  BY DEF WebInit
<1>2. TypeOK /\ StartupIsIdle
  BY <1>1, InitIInv DEF IInv, JobsInv
<1>3. WebTypeOK
  BY DEF WebInit, WebTypeOK
<1>4. LiveIsUnended /\ CurIsNew /\ LaunchInTurn /\ OldIsUnended
  BY <1>1 DEF Init, LiveIsUnended, CurIsNew, LaunchInTurn, OldIsUnended, Live, Running
<1>5. JobsArePaid
  BY <1>1 DEF Init, NoRows, JobsArePaid, uis
<1>6. QED
  BY <1>2, <1>3, <1>4, <1>5 DEF WebInv

\* A step of either keeps it.
LEMMA WebInvStep ==
    ASSUME WebInv, [WebNext]_allVars
    PROVE  WebInv'
<1>0. /\ TypeOK /\ StartupIsIdle /\ WebTypeOK
      /\ LiveIsUnended /\ CurIsNew /\ LaunchInTurn /\ OldIsUnended
  BY DEF WebInv
<1>1. CASE [Next]_vars /\ UNCHANGED webVars
  <2>1. TypeOK'
    BY <1>0, <1>1, TypeStep
  <2>2. WebTypeOK'
    BY <1>0, <1>1, ImagesStay DEF WebTypeOK, webVars
  <2>3. StartupIsIdle' /\ LiveIsUnended'
    BY <1>0, <1>1, <2>1, TasksStep
  <2>4. CurIsNew' /\ LaunchInTurn'
    BY <1>0, <1>1, <2>1, CreationStep
  <2>5. OldIsUnended'
    BY <1>0, <1>1, <2>1, OldStep
  <2>6. JobsArePaid'
    BY <1>1, <2>1, PaidStep
  <2>7. QED
    BY <2>1, <2>2, <2>3, <2>4, <2>5, <2>6 DEF WebInv
<1>2. ASSUME NEW u \in UIs, ReadImage(u) \/ SaveImage(u)
      PROVE  WebInv'
  <2>1. /\ UNCHANGED <<uiOf, jobUI, jobEnded, jobTask, subTask, pc, oldjobs, launch, cur>>
        /\ TypeOK' /\ WebTypeOK'
    BY <1>0, <1>2, ViewSteps
  <2>2. StartupIsIdle' /\ LiveIsUnended' /\ CurIsNew' /\ LaunchInTurn' /\ OldIsUnended'
    BY <1>0, <2>1 DEF StartupIsIdle, LiveIsUnended, CurIsNew, LaunchInTurn, OldIsUnended,
       Looping, Unended, jobs
  <2>3. JobsArePaid'
    BY <1>2, ViewPays
  <2>4. QED
    BY <2>1, <2>2, <2>3 DEF WebInv
<1>3. QED
  BY <1>1, <1>2 DEF WebNext, allVars

\* The invariant holds of the daemon and the site together.
THEOREM WebInvariant == WebSpec => []WebInv
BY WebInitInv, WebInvStep, PTL DEF WebSpec

\* A lost update of has_job costs at most one Job: an image has never more Jobs than
\* one and the saves that the web site did (views/image.py, edit, 206-245).
THEOREM LostFlagsCostOneJob == WebSpec => []ExtraJobsAreEdits
<1>1. WebInv => ExtraJobsAreEdits
  <2> SUFFICES ASSUME WebInv, NEW u \in uis
               PROVE  Cardinality({j \in jobs : jobUI[j] = u}) <= 1 + edits
    BY DEF ExtraJobsAreEdits
  <2>1. u \in UIs /\ WebTypeOK /\ PaidFor(u)
    BY DEF WebInv, TypeOK, JobsArePaid
  <2>2. Cardinality(JobsOf(u)) \in Nat
    BY <2>1, JobCounts DEF WebInv
  <2>3. edits \in Nat /\ editing[u] \in Nat
    BY <2>1 DEF WebTypeOK
  <2>4. Cardinality(JobsOf(u)) <= 1 + edits
    BY <2>1, <2>2, <2>3 DEF PaidFor, Paid
  <2>5. QED
    BY <2>4 DEF JobsOf
<1>2. QED
  BY <1>1, WebInvariant, PTL

\* The pool has room for every job that is out, also when the site has undone flags
\* that the daemon wrote (main, 1009-1014).
THEOREM WebSlotsSuffice == WebSpec => []JobSlots
<1>1. WebInit => RoomIsKept
  BY RoomInit DEF WebInit
<1>2. WebInv /\ WebInv' /\ RoomIsKept /\ [WebNext]_allVars => RoomIsKept'
  <2> SUFFICES ASSUME WebInv, WebInv', RoomIsKept, [WebNext]_allVars
               PROVE  RoomIsKept'
    OBVIOUS
  <2>1. CASE [Next]_vars
    BY <2>1, RoomStep DEF WebInv, CurIsNew
  <2>2. CASE UNCHANGED <<jobTask, launch, pc>>
    BY <2>2 DEF RoomIsKept, JobResults
  <2>3. QED
    BY <2>1, <2>2, ViewSteps DEF WebNext, allVars, WebInv
<1>3. WebInv /\ RoomIsKept => JobSlots
  BY RoomForJobs DEF WebInv
<1>4. QED
  BY <1>1, <1>2, <1>3, WebInvariant, PTL DEF WebSpec

\* A Job that ended stays and keeps its outcome, whatever the site does to the flags:
\* startup deletes what has not ended, and no worker has an ended Job.
THEOREM EndedIsKeptInWeb == WebSpec => EndedStaysInWeb
<1> DEFINE Keeps == \A j \in jobEnded :
                       j \in jobEnded' /\ j \in jobs' /\ (j \in jobSolved' <=> j \in jobSolved)
<1>1. WebInv /\ [WebNext]_allVars => [Keeps]_allVars
  <2> SUFFICES ASSUME WebInv, [WebNext]_allVars PROVE Keeps
    OBVIOUS
  <2>1. jobEnded \subseteq jobs /\ jobs \subseteq JobIds /\ LiveIsUnended
    BY DEF WebInv, TypeOK
  <2>2. CASE UNCHANGED <<jobUI, jobEnded, jobSolved>>
    BY <2>1, <2>2 DEF jobs
  <2>3. ASSUME NEW j \in JobIds, JobSucceed(j) \/ JobFail(j) PROVE Keeps
    <3>1. j \notin jobEnded
      BY <2>1, <2>3 DEF JobSucceed, JobFail, LiveIsUnended, Unended, Live, Running
    <3>2. /\ jobEnded' = jobEnded \cup {j} /\ jobUI' = jobUI
          /\ jobSolved' = jobSolved \/ jobSolved' = jobSolved \cup {j}
      BY <2>3 DEF JobSucceed, JobFail
    <3>3. QED
      BY <2>1, <3>1, <3>2 DEF jobs
  <2>4. ASSUME NEW u \in UIs, CreateJob(u) PROVE Keeps
    BY <2>1, <2>4 DEF CreateJob, WithRow, jobs
  <2>5. CASE DeleteOldJobs
    BY <2>1, <2>5 DEF DeleteOldJobs, Unended, jobs
  <2>6. CASE [Next]_vars
    <3>1. \/ UNCHANGED <<jobUI, jobEnded, jobSolved>> \/ DeleteOldJobs
          \/ \E j \in JobIds : JobSucceed(j) \/ JobFail(j)
          \/ \E u \in UIs : CreateJob(u)
      BY <2>6 DEF Next, Main, Startup, Loop, SubWorks, JobWorks, SubFault, JobFault, vars, rows,
         jobRows, Tick, Crash, Start, ResetSub, FindOldJobs, ReleaseImage, Poll, Quit,
         WaitForJobs, Idle, TakeWork, Enqueue, AwaitSub, PoolFull, SelectImages, QueueJob,
         AwaitJob, AllLaunched, Submit, SubRun, SubImage, SubBadFile, SubFinish, SubRaise,
         SubDbError, SubWorkerDies, JobRun, JobCalibrate, JobDirFails, JobOSError,
         JobWorkerDies, Stop, NextTurn
    <3>2. QED
      BY <2>2, <2>3, <2>4, <2>5, <3>1
  <2>7. QED
    BY <2>2, <2>6, ViewSteps DEF WebNext, allVars, WebInv
<1>2. QED
  BY <1>1, WebInvariant, PTL DEF WebSpec, EndedStaysInWeb
================================================================================
