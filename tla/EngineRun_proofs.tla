--------------------------- MODULE EngineRun_proofs ---------------------------
(***************************************************************************)
(* Proofs about one job of the engine, for any index files, any job and    *)
(* any clock.                                                              *)
(***************************************************************************)
EXTENDS EngineRun, Ranking_proofs

-----------------------------------------------------------------------------
\* The part of the types that the proofs need.
Places ==
    /\ job \in Jobs
    /\ loaded \in 0 .. Len(Indexes)
    /\ depth \in 1 .. Len(Depths) /\ scale \in 1 .. Len(Scales)

\* The lists of extreme index files are right, and ready when a job needs them.
ExtremesKnown ==
    /\ ExtremesAreRight
    /\ loaded > 0 => ismallest # {} /\ ibiggest # {}
    /\ pc # "setup" => loaded = Len(Indexes)

\* When the timer has seen the cancel file, it is there to stay, and the loop
\* over depths and scales is left after this run.
CancelRemembered ==
    cancelled => CancelExists /\ ~verifying /\ pc \notin {"setup", "plan", "run"}

\* With parallel indexes there is one batch; a cancelled one leaves none.
OneBatch ==
    job.inparallel /\ ~verifying =>
        /\ pc \in {"field", "search", "record"} => todo = <<>>
        /\ pc = "next" => todo \in {<<>>, <<chosen>>}
        /\ pc = "next" /\ cancelled => todo = <<>>

IInv == Places /\ ExtremesKnown /\ ChoosesAsked /\ CancelRemembered /\ OneBatch

-----------------------------------------------------------------------------
(* Lemmas *)

\* Every index file has a range of scales.
LEMMA IndexRange ==
    ASSUME NEW k \in 1 .. Len(Indexes)
    PROVE  Indexes[k].lo \in Nat /\ Indexes[k].hi \in Nat
<1> DEFINE T == [lo : Nat, hi : Nat, near : BOOLEAN]
<1>1. Indexes \in Seq(T)
  BY IndexAssumption
<1>2. Indexes[k] \in T
  BY <1>1, ElementOfSeq
<1>3. QED
  BY <1>2

\* The first m numbers with the least f.
Least(f, m) == {k \in 1 .. m : \A j \in 1 .. m : f[k] <= f[j]}

\* The step of add_index, for any measure of the index files: the list of those
\* with the least is updated with one more to the list for all.
LEMMA LeastUpdated ==
    ASSUME NEW n \in Nat, NEW f, \A k \in 1 .. n + 1 : f[k] \in Int,
           n > 0 => Least(f, n) # {}
    PROVE  /\ Least(f, n + 1) =
                 {k \in Least(f, n) : f[k] <= f[n + 1]} \cup
                 {k \in {n + 1} : \A j \in Least(f, n) : f[k] <= f[j]}
           /\ Least(f, n + 1) # {}
<1> DEFINE S == Least(f, n)
           T == {k \in S : f[k] <= f[n + 1]} \cup
                {k \in {n + 1} : \A j \in S : f[k] <= f[j]}
           L == {k \in 1 .. n + 1 : \A j \in 1 .. n + 1 : f[k] <= f[j]}
<1> USE DEF Least
<1>1. CASE n = 0
  <2>1. S = {}
    BY <1>1
  <2>2. T = {n + 1}
    BY <2>1
  <2>3. L = {n + 1}
    BY <1>1
  <2>4. QED
    BY <2>2, <2>3
<1>2. CASE n > 0
  <2>1. PICK m \in S : TRUE
    BY <1>2
  <2>2. m \in 1 .. n /\ \A j \in 1 .. n : f[m] <= f[j]
    BY <2>1
  <2>3. T \subseteq L
    <3>1. ASSUME NEW k \in S, f[k] <= f[n + 1]
          PROVE  k \in L
      BY <3>1
    <3>2. ASSUME \A j \in S : f[n + 1] <= f[j]
          PROVE  n + 1 \in L
      <4>1. f[n + 1] <= f[m]
        BY <3>2, <2>1
      <4>2. \A j \in 1 .. n : f[n + 1] <= f[j]
        BY <4>1, <2>2
      <4>3. QED
        BY <4>2
    <3>3. QED
      BY <3>1, <3>2
  <2>4. L \subseteq T
    <3> SUFFICES ASSUME NEW k \in L PROVE k \in T
      OBVIOUS
    <3>1. CASE k = n + 1
      BY <3>1
    <3>2. CASE k \in 1 .. n
      BY <3>2
    <3>3. QED
      BY <3>1, <3>2
  <2>5. T # {}
    <3>1. CASE f[m] <= f[n + 1]
      BY <3>1, <2>1
    <3>2. CASE ~(f[m] <= f[n + 1])
      <4>1. \A j \in S : f[n + 1] <= f[j]
        BY <3>2, <2>2
      <4>2. QED
        BY <4>1
    <3>3. QED
      BY <3>1, <3>2
  <2>6. QED
    BY <2>3, <2>4, <2>5
<1>3. QED
  BY <1>1, <1>2
-----------------------------------------------------------------------------
(* The lists of extreme index files *)

\* After add_index both lists are those of the index files added so far.
LEMMA AddIndexKnown ==
    ASSUME Places, ExtremesKnown, AddIndex
    PROVE  ExtremesKnown'
<1> DEFINE n == loaded
           N == n + 1
<1>1. n \in Nat /\ N \in 1 .. Len(Indexes) /\ loaded' = N /\ pc' = pc /\ pc = "setup"
  BY IndexAssumption, LenProperties DEF Places, AddIndex
<1>2. \A k \in 1 .. N : Indexes[k].lo \in Nat /\ Indexes[k].hi \in Nat
  BY <1>1, IndexRange
<1>3. ismallest' = Smallest(1 .. N) /\ ismallest' # {}
  <2> DEFINE f == [k \in 1 .. N |-> Indexes[k].lo]
  <2>1. \A k \in 1 .. n + 1 : f[k] = Indexes[k].lo /\ f[k] \in Int
    BY <1>1, <1>2
  <2> HIDE DEF f
  <2>2. \A m \in {n, N} : Smallest(1 .. m) = Least(f, m)
    <3> SUFFICES ASSUME NEW m \in {n, N} PROVE Smallest(1 .. m) = Least(f, m)
      OBVIOUS
    <3>1. \A k, j \in 1 .. m : k \in 1 .. N /\ j \in 1 .. N
      BY <1>1
    <3>2. \A k, j \in 1 .. m : f[k] <= f[j] <=> Indexes[k].lo <= Indexes[j].lo
      BY <3>1, <2>1, <1>2
    <3>3. QED
      BY <3>2 DEF Smallest, Least
  <2>3. ismallest = Least(f, n) /\ (n > 0 => ismallest # {})
    BY <1>1, <2>2 DEF ExtremesKnown, ExtremesAreRight
  <2>4. ismallest \subseteq 1 .. N /\ N = n + 1
    BY <2>3, <1>1 DEF Least
  <2>5. ismallest' = {k \in ismallest : f[k] <= f[n + 1]} \cup
                 {k \in {n + 1} : \A j \in ismallest : f[k] <= f[j]}
    <3>1. ismallest' = {k \in ismallest : Indexes[k].lo <= Indexes[N].lo} \cup
              {k \in {N} : \A j \in ismallest : Indexes[k].lo <= Indexes[j].lo}
      BY <1>1 DEF AddIndex
    <3>2. \A k, j \in 1 .. N : f[k] <= f[j] <=> Indexes[k].lo <= Indexes[j].lo
      BY <2>1, <1>2
    <3>3. \A k \in ismallest : k \in 1 .. N /\ N \in 1 .. N
      BY <2>4, <1>1
    <3>4. {k \in ismallest : Indexes[k].lo <= Indexes[N].lo} = {k \in ismallest : f[k] <= f[N]}
      BY <3>2, <3>3
    <3>5. {k \in {N} : \A j \in ismallest : Indexes[k].lo <= Indexes[j].lo}
            = {k \in {N} : \A j \in ismallest : f[k] <= f[j]}
      BY <3>2, <3>3
    <3>6. QED
      BY <3>1, <3>4, <3>5
  <2>6. ismallest' = Least(f, n + 1) /\ ismallest' # {}
    <3>1. n \in Nat /\ \A k \in 1 .. n + 1 : f[k] \in Int
      BY <1>1, <2>1
    <3>2. n > 0 => Least(f, n) # {}
      BY <2>3
    <3>3. /\ Least(f, n + 1) =
                {k \in Least(f, n) : f[k] <= f[n + 1]} \cup
                {k \in {n + 1} : \A j \in Least(f, n) : f[k] <= f[j]}
          /\ Least(f, n + 1) # {}
      BY <3>1, <3>2, LeastUpdated
    <3>4. QED
      BY <3>3, <2>3, <2>5
  <2>7. QED
    BY <2>2, <2>4, <2>6
<1>4. ibiggest' = Biggest(1 .. N) /\ ibiggest' # {}
  <2> DEFINE f == [k \in 1 .. N |-> 0 - Indexes[k].hi]
  <2>1. \A k \in 1 .. n + 1 : f[k] = 0 - Indexes[k].hi /\ f[k] \in Int
    BY <1>1, <1>2
  <2> HIDE DEF f
  <2>2. \A m \in {n, N} : Biggest(1 .. m) = Least(f, m)
    <3> SUFFICES ASSUME NEW m \in {n, N} PROVE Biggest(1 .. m) = Least(f, m)
      OBVIOUS
    <3>1. \A k, j \in 1 .. m : k \in 1 .. N /\ j \in 1 .. N
      BY <1>1
    <3>2. \A k, j \in 1 .. m : f[k] <= f[j] <=> Indexes[k].hi >= Indexes[j].hi
      BY <3>1, <2>1, <1>2
    <3>3. QED
      BY <3>2 DEF Biggest, Least
  <2>3. ibiggest = Least(f, n) /\ (n > 0 => ibiggest # {})
    BY <1>1, <2>2 DEF ExtremesKnown, ExtremesAreRight
  <2>4. ibiggest \subseteq 1 .. N /\ N = n + 1
    BY <2>3, <1>1 DEF Least
  <2>5. ibiggest' = {k \in ibiggest : f[k] <= f[n + 1]} \cup
                 {k \in {n + 1} : \A j \in ibiggest : f[k] <= f[j]}
    <3>1. ibiggest' = {k \in ibiggest : Indexes[k].hi >= Indexes[N].hi} \cup
              {k \in {N} : \A j \in ibiggest : Indexes[k].hi >= Indexes[j].hi}
      BY <1>1 DEF AddIndex
    <3>2. \A k, j \in 1 .. N : f[k] <= f[j] <=> Indexes[k].hi >= Indexes[j].hi
      BY <2>1, <1>2
    <3>3. \A k \in ibiggest : k \in 1 .. N /\ N \in 1 .. N
      BY <2>4, <1>1
    <3>4. {k \in ibiggest : Indexes[k].hi >= Indexes[N].hi} = {k \in ibiggest : f[k] <= f[N]}
      BY <3>2, <3>3
    <3>5. {k \in {N} : \A j \in ibiggest : Indexes[k].hi >= Indexes[j].hi}
            = {k \in {N} : \A j \in ibiggest : f[k] <= f[j]}
      BY <3>2, <3>3
    <3>6. QED
      BY <3>1, <3>4, <3>5
  <2>6. ibiggest' = Least(f, n + 1) /\ ibiggest' # {}
    <3>1. n \in Nat /\ \A k \in 1 .. n + 1 : f[k] \in Int
      BY <1>1, <2>1
    <3>2. n > 0 => Least(f, n) # {}
      BY <2>3
    <3>3. /\ Least(f, n + 1) =
                {k \in Least(f, n) : f[k] <= f[n + 1]} \cup
                {k \in {n + 1} : \A j \in Least(f, n) : f[k] <= f[j]}
          /\ Least(f, n + 1) # {}
      BY <3>1, <3>2, LeastUpdated
    <3>4. QED
      BY <3>3, <2>3, <2>5
  <2>7. QED
    BY <2>2, <2>4, <2>6
<1>5. QED
  BY <1>1, <1>3, <1>4 DEF ExtremesKnown, ExtremesAreRight

-----------------------------------------------------------------------------
(* The choice of index files *)

\* The smallest quad that a job at this scale looks for is a number.
LEMMA ScaleIsNumber ==
    ASSUME Places
    PROVE  Fmin(scale) \in Int
<1>1. job \in JobType /\ scale \in 1 .. Len(Scales)
  BY JobAssumption DEF Places
<1>2. Scales \in Seq([lo : Nat, hi : Nat])
  BY <1>1 DEF JobType, Ranges, Scales
<1>3. Scales[scale] \in [lo : Nat, hi : Nat]
  BY <1>1, <1>2, ElementOfSeq
<1>4. Default(Scales[scale].lo, WideMin) \in Nat /\ QuadMin \in Nat
  BY <1>3, NumberAssumption DEF Default
<1>5. QED
  BY <1>4 DEF Fmin

\* When all index files are added and the scales are not in a gap, the list that
\* engine_run_job makes is the one asked for.
LEMMA ListIsAsked ==
    ASSUME ExtremesKnown, Places, loaded = Len(Indexes)
    PROVE  {k \in IndexList(scale) : Indexes[k].near} = Asked(scale)
<1> DEFINE all == DOMAIN Indexes
<1>1. all = 1 .. Len(Indexes) /\ Len(Indexes) \in Nat /\ Len(Indexes) > 0
  BY IndexAssumption, LenProperties, EmptySeq
<1>2. ismallest = Smallest(all) /\ ibiggest = Biggest(all) /\ ibiggest # {}
  BY <1>1 DEF ExtremesKnown, ExtremesAreRight
<1>3. PICK b : b = (CHOOSE k \in ibiggest : TRUE)
  OBVIOUS
<1>4. b \in all /\ SizeBiggest = Indexes[b].hi /\ \A k \in all : Indexes[b].hi >= Indexes[k].hi
  BY <1>2, <1>3 DEF SizeBiggest, Biggest
<1>5. Fmin(scale) \in Int
  BY ScaleIsNumber
<1>6. \A k \in all : Indexes[k].hi \in Nat
  BY <1>1, IndexRange
<1>7. (Fmin(scale) > SizeBiggest) <=> \A k \in all : Fmin(scale) > Indexes[k].hi
  BY <1>4, <1>5, <1>6
<1>8. QED
  BY <1>2, <1>7 DEF IndexList, Asked

-----------------------------------------------------------------------------
(* The invariant *)

\* Nothing is loaded or planned at the start.
LEMMA InitIInv == Init => IInv
<1> SUFFICES ASSUME Init PROVE IInv
  OBVIOUS
<1>1. Places
  <2>1. job \in JobType /\ job.depths # <<>> /\ job.scales # <<>>
    BY JobAssumption DEF Init
  <2>2. Len(Depths) \in Nat \ {0} /\ Len(Scales) \in Nat \ {0}
    BY <2>1, LenProperties, EmptySeq DEF JobType, Ranges, Depths, Scales
  <2>3. Len(Indexes) \in Nat
    BY IndexAssumption, LenProperties
  <2>4. QED
    BY <2>2, <2>3 DEF Init, Places
<1>2. ExtremesKnown
  BY DEF Init, ExtremesKnown, ExtremesAreRight, Smallest, Biggest
<1>3. QED
  BY <1>1, <1>2 DEF Init, IInv, ChoosesAsked, CancelRemembered, OneBatch

\* Only add_index and the turn of the loops move the places.
LEMMA PlacesKept ==
    ASSUME Places, UNCHANGED job, Engine \/ UserCancels \/ OtherSolves \/ UNCHANGED vars
    PROVE  Places'
<1>1. Len(Indexes) \in Nat
  BY IndexAssumption, LenProperties
<1>2. Len(Depths) \in Nat /\ Len(Scales) \in Nat
  BY JobAssumption, LenProperties DEF Places, JobType, Ranges, Depths, Scales
<1>3. CASE AddIndex
  BY <1>1, <1>3 DEF Places, AddIndex, planVars, Depths, Scales
<1>4. CASE FinishRun
  BY <1>2, <1>4 DEF Places, FinishRun, engineVars, Depths, Scales
<1>5. CASE UNCHANGED <<loaded, depth, scale>>
  BY <1>5 DEF Places, Depths, Scales
<1>6. UNCHANGED <<loaded, depth, scale>> \/ AddIndex \/ FinishRun
  BY DEF Engine, StartJob, AssertFails, Plan, BeginRun, EndVerify, NextBatch, StopBatches,
     SkipField, StartField, FieldsDone, VerifyField, KeepMatch, Timer, Quit, Exhaust, RecordField,
     UserCancels, OtherSolves,
     vars, engineVars, planVars
<1>7. QED
  BY <1>3, <1>4, <1>5, <1>6

\* The lists change only while the engine is set up.
LEMMA ExtremesKept ==
    ASSUME IInv, Engine \/ UserCancels \/ OtherSolves \/ UNCHANGED vars
    PROVE  ExtremesKnown'
<1>1. CASE AddIndex
  BY <1>1, AddIndexKnown DEF IInv
<1>2. CASE UNCHANGED engineVars /\ (pc' # "setup" => pc # "setup" \/ StartJob)
  BY <1>2 DEF IInv, ExtremesKnown, ExtremesAreRight, Smallest, Biggest, engineVars, StartJob
<1>3. AddIndex \/ (UNCHANGED engineVars /\ (pc' # "setup" => pc # "setup" \/ StartJob))
  BY DEF Engine, AssertFails, Plan, BeginRun, EndVerify, NextBatch, StopBatches, SkipField,
     StartField, FieldsDone, VerifyField, KeepMatch, Timer, Quit, Exhaust, RecordField, FinishRun,
     UserCancels, OtherSolves,
     StartJob, vars
<1>4. QED
  BY <1>1, <1>2, <1>3

\* Plan gives a run its index files; the run takes them before anything else.
LEMMA ChoiceKept ==
    ASSUME IInv, UNCHANGED job, Engine \/ UserCancels \/ OtherSolves \/ UNCHANGED vars
    PROVE  ChoosesAsked'
<1>1. ASSUME pc' = "run"
      PROVE  Plan \/ UNCHANGED <<pc, chosen, scale>>
  BY <1>1 DEF Engine, AddIndex, StartJob, AssertFails, BeginRun, EndVerify, NextBatch, StopBatches,
     SkipField, StartField, FieldsDone, VerifyField, KeepMatch, Timer, Quit, Exhaust, RecordField,
     FinishRun, UserCancels, OtherSolves,
     vars, planVars
<1>2. ASSUME UNCHANGED scale
      PROVE  Asked(scale)' = Asked(scale)
  BY <1>2 DEF Asked, Fitting, Overlaps, Fmin, Fmax, Default, Scales, Smallest, Biggest
<1>3. CASE Plan
  <2>1. chosen' = Asked(scale) /\ UNCHANGED scale
    BY <1>3, ListIsAsked DEF Plan, IInv, ExtremesKnown
  <2>2. QED
    BY <2>1, <1>2 DEF ChoosesAsked
<1>4. CASE UNCHANGED <<pc, chosen, scale>>
  BY <1>4, <1>2 DEF ChoosesAsked, IInv
<1>5. QED
  BY <1>1, <1>3, <1>4 DEF ChoosesAsked

\* Only the timer notices the cancel file, in a search; the end of the run that
\* it ends is the end of the job.
LEMMA CancelKept ==
    ASSUME IInv, Engine \/ UserCancels \/ OtherSolves \/ UNCHANGED vars
    PROVE  CancelRemembered'
<1>1. CancelExists => CancelExists'
  BY DEF Engine, AddIndex, StartJob, AssertFails, Plan, BeginRun, EndVerify, NextBatch,
     StopBatches, SkipField, StartField, FieldsDone, VerifyField, KeepMatch, Timer, Quit,
     Exhaust, RecordField, FinishRun, UserCancels, OtherSolves, MarkSolved, vars, planVars,
     fileVars, CancelExists
<1>2. CASE cancelled' /\ ~cancelled
  <2>1. Timer
    BY <1>2 DEF Engine, AddIndex, StartJob, AssertFails, Plan, BeginRun, EndVerify, NextBatch,
       StopBatches, SkipField, StartField, FieldsDone, VerifyField, KeepMatch, Quit, Exhaust,
       RecordField, FinishRun, UserCancels, OtherSolves, vars, stopVars
  <2>2. CancelExists
    BY <1>2, <2>1 DEF Timer
  <2>3. QED
    BY <1>1, <2>1, <2>2 DEF CancelRemembered, Timer, runVars
<1>3. CASE cancelled' /\ cancelled
  <2>1. CancelExists /\ ~verifying /\ pc \notin {"setup", "plan", "run"}
    BY <1>3 DEF IInv, CancelRemembered
  <2>2. ~verifying'
    BY <2>1 DEF Engine, AddIndex, StartJob, AssertFails, Plan, BeginRun, EndVerify, NextBatch,
       StopBatches, SkipField, StartField, FieldsDone, VerifyField, KeepMatch, Timer, Quit,
       Exhaust, RecordField, FinishRun, UserCancels, OtherSolves, vars, runVars
  <2>3. pc' \notin {"setup", "plan", "run"}
    BY <2>1 DEF Engine, AddIndex, StartJob, AssertFails, Plan, BeginRun, EndVerify, NextBatch,
       StopBatches, SkipField, StartField, FieldsDone, VerifyField, KeepMatch, Timer, Quit,
       Exhaust, RecordField, FinishRun, UserCancels, OtherSolves, vars, Obsolete
  <2>4. QED
    BY <1>1, <2>1, <2>2, <2>3 DEF CancelRemembered
<1>4. QED
  BY <1>2, <1>3 DEF CancelRemembered

\* A run with parallel indexes makes one batch of them, and takes it.
LEMMA BatchKept ==
    ASSUME IInv, UNCHANGED job, Engine \/ UserCancels \/ OtherSolves \/ UNCHANGED vars
    PROVE  OneBatch'
<1> SUFFICES ASSUME job.inparallel, ~verifying'
             PROVE  /\ pc' \in {"field", "search", "record"} => todo' = <<>>
                    /\ pc' = "next" => todo' \in {<<>>, <<chosen'>>}
                    /\ pc' = "next" /\ cancelled' => todo' = <<>>
  BY DEF OneBatch
<1>1. CASE BeginRun
  <2>1. pc' = "next" /\ todo' \in {<<>>, <<chosen'>>}
    BY <1>1 DEF BeginRun, SolveBatches, planVars
  <2>2. ~cancelled'
    BY <1>1 DEF BeginRun, IInv, CancelRemembered, stopVars
  <2>3. QED
    BY <2>1, <2>2
<1>2. CASE EndVerify
  <2>1. pc' = "next" /\ todo' \in {<<>>, <<chosen'>>}
    BY <1>2 DEF EndVerify, SolveBatches, planVars
  <2>2. ~cancelled'
    BY <1>2 DEF EndVerify, IInv, CancelRemembered
  <2>3. QED
    BY <2>1, <2>2
<1>3. CASE NextBatch
  <2>1. ~verifying /\ pc = "next" /\ todo # <<>> /\ todo' = Tail(todo) /\ pc' = "field"
    BY <1>3 DEF NextBatch
  <2>2. todo = <<chosen>>
    BY <2>1 DEF IInv, OneBatch
  <2>3. Tail(<<chosen>>) = <<>>
    OBVIOUS
  <2>4. QED
    BY <2>1, <2>2, <2>3
<1>4. CASE FinishRun
  BY <1>4 DEF FinishRun
<1>5. CASE Timer
  <2>1. ~verifying /\ pc = "search" /\ pc' = "search" /\ todo' = todo
    BY <1>5 DEF Timer, runVars
  <2>2. QED
    BY <2>1 DEF IInv, OneBatch
<1>6. CASE \/ AddIndex \/ StartJob \/ AssertFails \/ Plan \/ StopBatches \/ SkipField
           \/ StartField \/ FieldsDone \/ VerifyField \/ KeepMatch \/ Quit \/ Exhaust
           \/ RecordField \/ UserCancels \/ OtherSolves \/ UNCHANGED vars
  <2>1. UNCHANGED <<todo, cancelled, verifying>>
    BY <1>6 DEF AddIndex, StartJob, AssertFails, Plan, StopBatches, SkipField, StartField,
       FieldsDone, VerifyField, KeepMatch, Quit, Exhaust, RecordField, UserCancels,
       OtherSolves, vars, runVars, stopVars
  <2>2. /\ pc' \in {"field", "search", "record", "next"} =>
              pc = pc' \/ pc \in {"field", "search", "record"}
        /\ pc' = "next" /\ pc = "next" => UNCHANGED chosen
    BY <1>6 DEF AddIndex, StartJob, AssertFails, Plan, StopBatches, SkipField, StartField,
       FieldsDone, VerifyField, KeepMatch, Quit, Exhaust, RecordField, UserCancels,
       OtherSolves, vars, planVars
  <2>3. QED
    BY <2>1, <2>2 DEF IInv, OneBatch
<1>7. QED
  BY <1>1, <1>2, <1>3, <1>4, <1>5, <1>6 DEF Engine

\* No step changes the job.
LEMMA JobKept == ASSUME [Next]_vars PROVE UNCHANGED job
BY DEF Next, Engine, AddIndex, StartJob, AssertFails, Plan, BeginRun, EndVerify, NextBatch,
   StopBatches, SkipField, StartField, FieldsDone, VerifyField, KeepMatch, Timer, Quit,
   Exhaust, RecordField, FinishRun, UserCancels, OtherSolves, Ended, vars, planVars

\* The invariant of the engine: the choice of index files is right, and a
\* cancelled job is on its way out.
THEOREM Invariance == Spec => []IInv
<1>1. Init => IInv
  BY InitIInv
<1>2. ASSUME IInv, [Next]_vars
      PROVE  IInv'
  <2>1. Engine \/ UserCancels \/ OtherSolves \/ UNCHANGED vars
    BY <1>2 DEF Next, Ended
  <2>2. QED
    BY <1>2, <2>1, JobKept, PlacesKept, ExtremesKept, ChoiceKept, CancelKept, BatchKept
    DEF IInv
<1>3. QED
  BY <1>1, <1>2, PTL DEF Spec

-----------------------------------------------------------------------------
(* What follows *)

\* In whatever order index files are added, add_index keeps the lists of those of
\* the smallest and of the largest scales.
THEOREM ExtremesRight == Spec => []ExtremesAreRight
<1>1. IInv => ExtremesAreRight
  BY DEF IInv, ExtremesKnown
<1>2. QED
  BY <1>1, Invariance, PTL

\* Every run of onefield_run gets exactly the index files that its scales ask for.
THEOREM ChoosesRight == Spec => []ChoosesAsked
<1>1. IInv => ChoosesAsked
  BY DEF IInv
<1>2. QED
  BY <1>1, Invariance, PTL

\* Once the cancel file is noticed, no further index file is tried, with indexes
\* one by one or in parallel, in this run or a later one.
THEOREM CancelStops == Spec => CancelledTriesNoIndex
<1>1. ASSUME IInv, [Next]_vars
      PROVE  cancelled => ~(pc = "next" /\ pc' = "field")
  <2> SUFFICES ASSUME cancelled, pc = "next", pc' = "field"
               PROVE  FALSE
    OBVIOUS
  <2>1. NextBatch
    BY <1>1 DEF Next, Engine, AddIndex, StartJob, AssertFails, Plan, BeginRun, EndVerify,
       StopBatches, SkipField, StartField, FieldsDone, VerifyField, KeepMatch, Timer, Quit,
       Exhaust, RecordField, FinishRun, UserCancels, OtherSolves, Ended, vars
  <2>2. ~verifying
    BY <1>1 DEF IInv, CancelRemembered
  <2>3. job.inparallel /\ todo # <<>>
    BY <2>1, <2>2 DEF NextBatch, Stopped
  <2>4. QED
    BY <1>1, <2>2, <2>3 DEF IInv, OneBatch
<1>2. QED
  <2>1. IInv /\ [Next]_vars => [cancelled => ~(pc = "next" /\ pc' = "field")]_vars
    BY <1>1
  <2>2. QED
    BY <2>1, Invariance, PTL DEF Spec, CancelledTriesNoIndex
\* The fields of the list all exist: true once a run has begun.
FieldsValid == \A p \in 1 .. Len(fieldlist) : fieldlist[p] \in ValidFields

\* What the types rest on: between runs nothing is planned, the list of fields has
\* not been worked on before it is cleaned, and a search has a field.
Shape ==
    /\ pc \in {"setup", "plan", "run", "end", "abort"} =>
          todo = <<>> /\ batch = {} /\ solutions = {}
    /\ \/ FieldsValid
       \/ /\ fi = 1 /\ won = {} /\ ~single_field_solved
          /\ pc \in {"setup", "plan", "run", "end", "abort"}
    /\ pc \in {"search", "record"} => fi <= Len(fieldlist)

\* A job of one field knows that it has solved it, and then begins no search.
SolvedSingly ==
    /\ single_field_solved => Len(fieldlist) = 1 /\ fieldlist[1] \in won
    /\ won # {} /\ Len(fieldlist) = 1 => single_field_solved
    /\ \A m \in solutions : \E p \in 1 .. Len(fieldlist) : m.field = fieldlist[p]
    /\ pc \in {"search", "record"} => ~single_field_solved
    /\ pc = "field" /\ single_field_solved => fi > Len(fieldlist)
    /\ pc = "next" /\ job.inparallel /\ ~verifying /\ todo # <<>> => ~single_field_solved

\* WCSs are verified in the first run, before any field is solved.
VerifiesFirst ==
    /\ verifying => won = {} /\ pc \in {"next", "field", "search", "record"}
    /\ wcsLeft # <<>> /\ pc \in {"setup", "plan", "run"} => won = {}
    /\ pc = "setup" => won = {}
    /\ verifying /\ pc \in {"search", "record"} => ~best_match_solves

Solves(f) == [field |-> f, odds |-> 2]

\* One run, one field, or a solved file that is written and read.
OneRun == Len(Depths) = 1 /\ Len(Scales) = 1
KeepsSolved == (job.solvedIn /\ job.solvedOut) \/ Len(job.fields) <= 1 \/ OneRun

\* The WCS of a solved field is among the solutions of the run, or written and then
\* left alone.
WinsKept ==
    /\ job.solvedOut => won \subseteq solvedFile
    /\ Len(job.fields) <= 1 => Len(fieldlist) <= 1
    /\ pc \in {"search", "record"} /\ best_match_solves => Solves(Field) \in solutions
    /\ KeepsSolved /\ pc \in {"search", "record"} => Field \notin won \/ OneRun
    /\ KeepsSolved => \A f \in won :
          \/ Solves(f) \in solutions
          \/ /\ wcsFile[f] = 2 /\ \A m \in solutions : m.field # f
             /\ OneRun => pc = "end"

\* No depth without an end comes after one with an end.
OpenDepthsLead ==
    \A m, i \in DOMAIN Depths : m <= i /\ Depths[i].hi = 0 => Depths[m].hi = 0

Clean == ~CancelExists /\ ~hit_total /\ ~hit_limit
Due(f) == f \in ValidFields /\ f \in Range(job.fields) /\ f \notin won /\ ~FieldSolved(f)
Tried(f, k) ==
    [field |-> f, index |-> k, start |-> startobj, end |-> endobj, scale |-> scale] \in searched
Done(f, i, j) == \A k \in Asked(j) : Search(f, k, i, j) \in searched
Earlier(i, j) == i < depth \/ (i = depth /\ j < scale)
Pending(f, k) ==
    \/ \E n \in 1 .. Len(todo) : k \in todo[n]
    \/ /\ pc \in {"field", "search", "record"} /\ k \in batch
       /\ \E p \in fi .. Len(fieldlist) : fieldlist[p] = f

\* The fields asked for that exist stay in the list.
FieldsKept ==
    \A f \in ValidFields \cap Range(job.fields) :
        \E p \in 1 .. Len(fieldlist) : fieldlist[p] = f

\* A run has the index files and the objects of its depth and scale.
RunIsPlanned ==
    /\ endobj # 0 => \E m \in 1 .. depth : Depths[m].hi # 0
    /\ pc \in {"run", "next", "field", "search", "record", "write"} =>
          /\ chosen = Asked(scale)
          /\ startobj = IF Depths[depth].lo = 0 THEN 0 ELSE Depths[depth].lo - 1
          /\ OpenDepthsLead => endobj = Depths[depth].hi

\* A search that ends early has a reason.
QuitsForReason ==
    ~verifying /\ Clean =>
        /\ pc = "search" /\ quit_now => best_match_solves \/ FieldSolved(Field)
        /\ pc = "record" => best_match_solves \/ FieldSolved(Field)
                            \/ \A k \in batch : Tried(Field, k)

\* What this run should search is searched or still to come.
RunCovered ==
    Clean => \A f \in ValidFields : Due(f) => \A k \in chosen :
        /\ pc \in {"next", "field", "search", "record"} /\ ~verifying => Pending(f, k) \/ Tried(f, k)
        /\ pc = "write" => Tried(f, k)

\* What earlier runs should have searched is searched.
EarlierCovered ==
    OpenDepthsLead /\ Clean => \A f \in ValidFields : Due(f) =>
        \A i \in DOMAIN Depths, j \in DOMAIN Scales : Earlier(i, j) \/ pc = "end" => Done(f, i, j)
-----------------------------------------------------------------------------
\* A job is what its type says.
LEMMA JobParts ==
    ASSUME job \in Jobs
    PROVE  /\ job \in JobType
           /\ Depths \in Seq([lo : Nat, hi : Nat]) /\ Len(Depths) \in Nat \ {0}
           /\ Scales \in Seq([lo : Nat, hi : Nat]) /\ Len(Scales) \in Nat \ {0}
           /\ job.wcs \in Seq([lo : Nat, hi : Nat]) /\ job.fields \in Seq(Nat)
           /\ NumFields \in Nat /\ Limit \in Nat
           /\ {job.solvedIn, job.solvedOut, job.solvedIsCancel, job.others, job.inparallel}
                 \subseteq BOOLEAN
<1>1. job \in JobType /\ job.depths # <<>> /\ job.scales # <<>>
  BY JobAssumption
<1>2. Depths \in Seq([lo : Nat, hi : Nat]) /\ Scales \in Seq([lo : Nat, hi : Nat])
  BY <1>1 DEF JobType, Ranges, Depths, Scales
<1>3. Len(Depths) \in Nat \ {0} /\ Len(Scales) \in Nat \ {0}
  BY <1>1, <1>2, EmptySeq DEF Depths, Scales
<1>4. QED
  BY <1>1, <1>2, <1>3 DEF JobType, Ranges, NumFields, Limit

\* The index files, taken one by one or all at once, are the chosen ones.
LEMMA SolveBatchesCover ==
    ASSUME chosen \subseteq DOMAIN Indexes
    PROVE  /\ SolveBatches \in Seq(SUBSET chosen)
           /\ \A k \in chosen : \E n \in 1 .. Len(SolveBatches) : k \in SolveBatches[n]
<1>1. IsFiniteSet(chosen) /\ chosen \in SUBSET Int
  <2>1. DOMAIN Indexes = 1 .. Len(Indexes) /\ Len(Indexes) \in Nat
    BY IndexAssumption, LenProperties
  <2>2. IsFiniteSet(1 .. Len(Indexes))
    BY <2>1, FS_Interval
  <2>3. IsFiniteSet(chosen)
    BY <2>1, <2>2, FS_Subset
  <2>4. QED
    BY <2>1, <2>3
<1> DEFINE s == Increasing(chosen)
<1>2. /\ s \in Seq(chosen)
      /\ Len(s) \in Nat
      /\ \A i \in 1 .. Len(s) : s[i] \in chosen
      /\ \A x \in chosen : \E i \in 1 .. Len(s) : s[i] = x
  BY <1>1, IncreasingNumbers
<1> HIDE DEF s
<1>3. Singly(chosen) = [n \in 1 .. Len(s) |-> {s[n]}]
  BY <1>2, LenProperties DEF Singly, s
<1>4. Singly(chosen) \in [1 .. Len(s) -> SUBSET chosen]
  BY <1>2, <1>3
<1>5. Singly(chosen) \in Seq(SUBSET chosen) /\ Len(Singly(chosen)) = Len(s)
  BY <1>2, <1>4, FunctionIsSequence
<1>6. \A k \in chosen : \E n \in 1 .. Len(Singly(chosen)) : k \in Singly(chosen)[n]
  BY <1>2, <1>3, <1>5
<1>7. CASE job.inparallel
  <2>1. SolveBatches = <<chosen>>
    BY <1>7 DEF SolveBatches
  <2>2. <<chosen>> \in Seq(SUBSET chosen) /\ Len(<<chosen>>) = 1 /\ <<chosen>>[1] = chosen
    OBVIOUS
  <2>3. QED
    BY <2>1, <2>2
<1>8. CASE ~job.inparallel
  BY <1>5, <1>6, <1>8 DEF SolveBatches
<1>9. QED
  BY <1>7, <1>8

\* So are those that the WCSs are verified with.
LEMMA VerifyBatchesType ==
    ASSUME chosen \subseteq DOMAIN Indexes, wcsLeft \in Seq([lo : Nat, hi : Nat])
    PROVE  VerifyBatches \in Seq(SUBSET chosen)
<1> DEFINE n == Len(Indexes)
           m == Len(wcsLeft)
<1>1. DOMAIN Indexes = 1 .. n /\ n \in Nat /\ DOMAIN wcsLeft = 1 .. m /\ m \in Nat
  BY IndexAssumption, LenProperties
<1>2. VerifyPairs \subseteq (1 .. m) \X chosen /\ chosen \subseteq 1 .. n
  BY <1>1 DEF VerifyPairs
<1>3. IsFiniteSet(VerifyPairs)
  <2>1. IsFiniteSet(1 .. m) /\ IsFiniteSet(chosen)
    <3>1. IsFiniteSet(1 .. m) /\ IsFiniteSet(1 .. n)
      BY <1>1, FS_Interval
    <3>2. QED
      BY <3>1, <1>2, FS_Subset
  <2>2. IsFiniteSet((1 .. m) \X chosen)
    BY <2>1, FS_Product
  <2>3. QED
    BY <2>2, <1>2, FS_Subset
<1>4. StrictOrder(ByWcs, VerifyPairs)
  <2>1. \A w \in VerifyPairs : w[1] \in Int /\ w[2] \in Int
    BY <1>2
  <2>2. \A v, w \in VerifyPairs :
            <<v, w>> \in ByWcs <=> v[1] < w[1] \/ (v[1] = w[1] /\ v[2] < w[2])
    BY DEF ByWcs
  <2>3. \A v \in VerifyPairs : <<v, v>> \notin ByWcs
    BY <2>1, <2>2
  <2>4. ASSUME NEW u \in VerifyPairs, NEW v \in VerifyPairs, NEW w \in VerifyPairs,
               <<u, v>> \in ByWcs, <<v, w>> \in ByWcs
        PROVE  <<u, w>> \in ByWcs
    <3>1. u[1] < v[1] \/ (u[1] = v[1] /\ u[2] < v[2])
      BY <2>2, <2>4
    <3>2. v[1] < w[1] \/ (v[1] = w[1] /\ v[2] < w[2])
      BY <2>2, <2>4
    <3>3. u[1] < w[1] \/ (u[1] = w[1] /\ u[2] < w[2])
      BY <2>1, <3>1, <3>2
    <3>4. QED
      BY <2>2, <3>3
  <2>5. \A v, w \in VerifyPairs : v # w => <<v, w>> \in ByWcs \/ <<w, v>> \in ByWcs
    <3> SUFFICES ASSUME NEW v \in VerifyPairs, NEW w \in VerifyPairs, v # w
                 PROVE  <<v, w>> \in ByWcs \/ <<w, v>> \in ByWcs
      OBVIOUS
    <3>1. v[1] # w[1] \/ v[2] # w[2]
      BY <1>2
    <3>2. QED
      BY <2>1, <2>2, <3>1
  <2>6. QED
    BY <2>3, <2>4, <2>5 DEF StrictOrder
<1> DEFINE s == InOrderOf(ByWcs, VerifyPairs)
<1>5. s \in Seq(VerifyPairs) /\ \A i \in 1 .. Len(s) : s[i] \in VerifyPairs
  BY <1>3, <1>4, Sorting
<1> HIDE DEF s
<1>6. DOMAIN s = 1 .. Len(s) /\ Len(s) \in Nat
  BY <1>5, LenProperties
<1>7. VerifyBatches = [i \in 1 .. Len(s) |-> {s[i][2]}]
  BY <1>6 DEF VerifyBatches, s
<1>8. VerifyBatches \in [1 .. Len(s) -> SUBSET chosen]
  <2>1. \A i \in 1 .. Len(s) : s[i][2] \in chosen
    BY <1>2, <1>5
  <2>2. QED
    BY <1>7, <2>1
<1>9. QED
  BY <1>6, <1>8, FunctionIsSequence
-----------------------------------------------------------------------------
(* Types *)

\* Nothing is planned at the start.
LEMMA InitTypes == Init => TypeOK /\ Shape
<1> SUFFICES ASSUME Init PROVE TypeOK /\ Shape
  OBVIOUS
<1>1. job \in Jobs
  BY DEF Init
<1>2. /\ Len(Depths) \in Nat \ {0} /\ Len(Scales) \in Nat \ {0}
      /\ job.fields \in Seq(Nat) /\ Len(job.fields) \in Nat
      /\ job.wcs \in Ranges
  BY <1>1, JobParts, LenProperties DEF Ranges
<1>3. Len(Indexes) \in Nat /\ StartTime \in Nat
  BY IndexAssumption, LenProperties, NumberAssumption
<1>4. <<>> \in Seq(SUBSET {})
  OBVIOUS
<1>5. TypeOK
  <2>1. wcsFile \in [1 .. NumFields -> 0 .. 2]
    BY DEF Init
  <2>2. job \in Jobs /\ depth \in 1 .. Len(Depths) /\ scale \in 1 .. Len(Scales)
    BY <1>1, <1>2 DEF Init
  <2>3. fieldlist \in Seq(Nat) /\ wcsLeft \in Ranges /\ fi \in 1 .. Len(fieldlist) + 1
    BY <1>2 DEF Init
  <2>4. chosen \subseteq DOMAIN Indexes /\ batch \subseteq chosen /\ todo \in Seq(SUBSET chosen)
    BY <1>4 DEF Init
  <2>5. {verifying, hit_total, hit_limit, quit_now, best_match_solves,
         single_field_solved, cancelled, cancelFile} \subseteq BOOLEAN
    BY DEF Init
  <2>6. /\ loaded \in 0 .. Len(Indexes) /\ ismallest \subseteq 1 .. loaded
        /\ ibiggest \subseteq 1 .. loaded /\ startobj \in Nat /\ endobj \in Nat
        /\ now \in Nat /\ total_start \in 0 .. now /\ start \in 0 .. now
        /\ solutions = {} /\ won = {} /\ solvedFile = {} /\ pc = "setup"
    BY <1>3 DEF Init
  <2>7. QED
    BY <2>1, <2>2, <2>3, <2>4, <2>5, <2>6 DEF TypeOK
<1>6. Shape
  BY DEF Init, Shape
<1>7. QED
  BY <1>5, <1>6

\* What is written for a field are the best odds of its solutions.
LEMMA BestOdds ==
    ASSUME solutions \subseteq [field : 1 .. NumFields, odds : 1 .. 2], NEW f,
           \E m \in solutions : m.field = f
    PROVE  LET m == CHOOSE n \in Best(solutions) : n.field = f
           IN  m \in Best(solutions) /\ m.field = f /\ m.odds \in 1 .. 2
<1>1. \E n \in Best(solutions) : n.field = f
  <2>1. CASE \E n \in solutions : n.field = f /\ n.odds = 2
    <3>1. PICK n \in solutions : n.field = f /\ n.odds = 2
      BY <2>1
    <3>2. \A o \in solutions : o.odds <= n.odds
      BY <3>1
    <3>3. QED
      BY <3>1, <3>2 DEF Best
  <2>2. CASE \A n \in solutions : n.field = f => n.odds # 2
    <3>1. PICK n \in solutions : n.field = f
      OBVIOUS
    <3>2. \A o \in solutions : o.field = f => o.odds = 1
      BY <2>2
    <3>3. QED
      BY <3>1, <3>2 DEF Best
  <2>3. QED
    BY <2>1, <2>2
<1>2. Best(solutions) \subseteq solutions
  BY DEF Best
<1>3. QED
  BY <1>1, <1>2

\* Every step keeps the types.
LEMMA StepTypes ==
    ASSUME TypeOK, Shape, [Next]_vars
    PROVE  TypeOK' /\ Shape'
<1> USE DEF engineVars, planVars, runVars, clockVars, matchVars, stopVars, fileVars,
           history
<1>0. /\ Len(Depths) \in Nat \ {0} /\ Len(Scales) \in Nat \ {0}
      /\ Len(Indexes) \in Nat /\ Depths' = Depths /\ Scales' = Scales
      /\ NumFields \in Nat /\ NumFields' = NumFields
  BY JobParts, JobKept, IndexAssumption, LenProperties DEF TypeOK, Depths, Scales, NumFields
<1>1. CASE AddIndex
  <2>1. loaded' \in 0 .. Len(Indexes) /\ ismallest' \subseteq 1 .. loaded' /\ ibiggest' \subseteq 1 .. loaded'
    <3>1. loaded \in Nat /\ loaded < Len(Indexes) /\ loaded' = loaded + 1
      BY <1>0, <1>1 DEF AddIndex, TypeOK
    <3>2. ismallest' \subseteq ismallest \cup {loaded'} /\ ibiggest' \subseteq ibiggest \cup {loaded'}
      BY <1>1 DEF AddIndex
    <3>3. QED
      BY <1>0, <3>1, <3>2 DEF TypeOK
  <2>2. QED
    BY <1>0, <1>1, <2>1 DEF AddIndex, TypeOK, Shape, FieldsValid, ValidFields, Field
<1>2. CASE StartJob
  BY <1>0, <1>2 DEF StartJob, TypeOK, Shape, FieldsValid, ValidFields, Field
<1>3. CASE AssertFails
  BY <1>0, <1>3 DEF AssertFails, TypeOK, Shape, FieldsValid, ValidFields, Field
<1>4. CASE NextBatch
  <2>1. Head(todo) \subseteq chosen /\ Tail(todo) \in Seq(SUBSET chosen)
    <3>1. Head(todo) \in SUBSET chosen /\ Tail(todo) \in Seq(SUBSET chosen)
      BY <1>4, HeadTailProperties DEF NextBatch, TypeOK
    <3>2. QED
      BY <3>1
  <2>2. start' \in 0 .. now /\ now \in Nat /\ FieldsValid /\ Len(fieldlist) \in Nat
    BY <1>4, LenProperties DEF NextBatch, TypeOK, Shape
  <2>3. TypeOK'
    <3>1. batch' \subseteq chosen' /\ todo' \in Seq(SUBSET chosen') /\ chosen' = chosen
          /\ fi' \in 1 .. Len(fieldlist') + 1 /\ pc' = "field"
      BY <1>4, <2>1, <2>2 DEF NextBatch
    <3>2. QED
      BY <1>0, <1>4, <2>2, <3>1 DEF NextBatch, TypeOK
  <2>4. Shape'
    BY <1>0, <1>4, <2>2 DEF NextBatch, Shape, FieldsValid, ValidFields
  <2>5. QED
    BY <2>3, <2>4
<1>5. CASE StopBatches
  BY <1>0, <1>5 DEF StopBatches, TypeOK, Shape, FieldsValid, ValidFields, Field
<1>6. CASE SkipField
  <2>1. Len(fieldlist) \in Nat /\ fi' \in 1 .. Len(fieldlist) + 1 /\ FieldsValid
    BY <1>6, LenProperties DEF SkipField, TypeOK, Shape
  <2>2. QED
    BY <1>0, <1>6, <2>1 DEF SkipField, TypeOK, Shape, FieldsValid, ValidFields, Field
<1>7. CASE StartField
  <2>1. Len(fieldlist) \in Nat /\ Field \in 1 .. NumFields /\ FieldsValid
    <3>1. Len(fieldlist) \in Nat /\ fi \in 1 .. Len(fieldlist) /\ FieldsValid
      BY <1>7, LenProperties DEF StartField, TypeOK, Shape
    <3>2. QED
      BY <3>1 DEF FieldsValid, ValidFields, Field
  <2>2. {quit_now', best_match_solves'} \subseteq BOOLEAN
    BY <1>7 DEF StartField
  <2>3. QED
    BY <1>0, <1>7, <2>1, <2>2 DEF StartField, TypeOK, Shape, FieldsValid, ValidFields, Field
<1>8. CASE FieldsDone
  BY <1>0, <1>8 DEF FieldsDone, TypeOK, Shape, FieldsValid, ValidFields, Field
<1>9. CASE VerifyField
  <2>1. {hit_total', hit_limit'} \subseteq BOOLEAN
    BY <1>9 DEF VerifyField, CheckTimeLimits, TypeOK
  <2>2. solutions' \subseteq [field : 1 .. NumFields, odds : 1 .. 2]
    BY <1>9 DEF VerifyField, TypeOK
  <2>3. QED
    BY <1>0, <1>9, <2>1, <2>2 DEF VerifyField, TypeOK, Shape, FieldsValid, ValidFields,
       Field
<1>10. CASE KeepMatch
  <2>1. {hit_total', hit_limit', quit_now', best_match_solves'} \subseteq BOOLEAN
    BY <1>10 DEF KeepMatch, CheckTimeLimits, TypeOK
  <2>2. solutions' \subseteq [field : 1 .. NumFields, odds : 1 .. 2]
    BY <1>10 DEF KeepMatch, TypeOK
  <2>3. now' \in Nat /\ total_start \in 0 .. now' /\ start \in 0 .. now'
    BY <1>10 DEF KeepMatch, Elapse, TypeOK
  <2>4. QED
    BY <1>0, <1>10, <2>1, <2>2, <2>3 DEF KeepMatch, TypeOK, Shape, FieldsValid,
       ValidFields, Field
<1>11. CASE Timer
  <2>1. {hit_total', hit_limit', quit_now', cancelled'} \subseteq BOOLEAN
    BY <1>11 DEF Timer, CheckTimeLimits, TypeOK
  <2>2. now' \in Nat /\ total_start \in 0 .. now' /\ start \in 0 .. now'
    BY <1>11 DEF Timer, Elapse, TypeOK
  <2>3. QED
    BY <1>0, <1>11, <2>1, <2>2 DEF Timer, TypeOK, Shape, FieldsValid, ValidFields, Field
<1>12. CASE Quit
  BY <1>0, <1>12 DEF Quit, TypeOK, Shape, FieldsValid, ValidFields, Field
<1>13. CASE Exhaust
  <2>1. now' \in Nat /\ total_start \in 0 .. now' /\ start \in 0 .. now'
    BY <1>13 DEF Exhaust, Elapse, TypeOK
  <2>2. QED
    BY <1>0, <1>13, <2>1 DEF Exhaust, TypeOK, Shape, FieldsValid, ValidFields, Field
<1>14. CASE RecordField
  <2>1. Len(fieldlist) \in Nat /\ Field \in 1 .. NumFields /\ FieldsValid
    BY <1>14, LenProperties DEF RecordField, TypeOK, Shape, FieldsValid, ValidFields, Field
  <2>2. single_field_solved' \in BOOLEAN
    BY <1>14 DEF RecordField, MarkSolved
  <2>3. won' \subseteq 1 .. NumFields /\ solvedFile' \subseteq 1 .. NumFields
    BY <1>14, <2>1 DEF RecordField, MarkSolved, TypeOK
  <2>4. fi' \in 1 .. Len(fieldlist) + 1
    BY <1>14, <2>1 DEF RecordField, TypeOK, Shape
  <2>5. QED
    BY <1>0, <1>14, <2>1, <2>2, <2>3, <2>4 DEF RecordField, TypeOK, Shape, FieldsValid,
       ValidFields, Field
<1>15. CASE UserCancels
  BY <1>0, <1>15 DEF UserCancels, TypeOK, Shape, FieldsValid, ValidFields, Field
<1>16. CASE OtherSolves
  BY <1>0, <1>16 DEF OtherSolves, TypeOK, Shape, FieldsValid, ValidFields, Field
<1>17. CASE UNCHANGED vars
  BY <1>0, <1>17 DEF vars, TypeOK, Shape, FieldsValid, ValidFields, Field
<1>18. CASE Plan
  <2>1. Depths[depth].lo \in Nat /\ Depths[depth].hi \in Nat
    <3>1. Depths[depth] \in [lo : Nat, hi : Nat]
      BY JobParts, ElementOfSeq DEF TypeOK
    <3>2. QED
      BY <3>1
  <2>2. startobj' \in Nat /\ endobj' \in Nat
    <3>1. endobj \in Nat
      BY DEF TypeOK
    <3>2. /\ startobj' = IF Depths[depth].lo = 0 THEN 0 ELSE Depths[depth].lo - 1
          /\ endobj' = Default(Depths[depth].hi, endobj)
      BY <1>18 DEF Plan
    <3>3. QED
      BY <2>1, <3>1, <3>2 DEF Default
  <2>3. IndexList(scale) \subseteq DOMAIN Indexes
    <3>1. DOMAIN Indexes = 1 .. Len(Indexes)
      BY IndexAssumption, LenProperties
    <3>2. ismallest \subseteq 1 .. Len(Indexes) /\ ibiggest \subseteq 1 .. Len(Indexes)
      BY <1>0 DEF TypeOK
    <3>3. QED
      BY <3>1, <3>2 DEF IndexList, Fitting
  <2>4. chosen' \subseteq DOMAIN Indexes /\ todo' = <<>> /\ batch' = {} /\ solutions' = {}
    BY <1>18, <2>3 DEF Plan, Shape
  <2>5. todo' \in Seq(SUBSET chosen')
    BY <2>4
  <2>6. QED
    BY <1>0, <1>18, <2>2, <2>4, <2>5 DEF Plan, TypeOK, Shape, FieldsValid, ValidFields,
       Field
<1>19. CASE BeginRun
  <2>1. /\ fieldlist' \in Seq(Nat) /\ Len(fieldlist') \in Nat
        /\ \A p \in 1 .. Len(fieldlist') : fieldlist'[p] \in ValidFields
    BY <1>19, Filtering DEF BeginRun, TypeOK
  <2>2. FieldsValid'
    BY <1>0, <2>1 DEF FieldsValid, ValidFields
  <2>3. fi' \in 1 .. Len(fieldlist') + 1
    <3>1. CASE FieldsValid
      <4>1. fieldlist' = fieldlist
        BY <1>19, <3>1, FilterAllGood DEF BeginRun, TypeOK, FieldsValid
      <4>2. QED
        BY <1>19, <4>1 DEF BeginRun, TypeOK
    <3>2. CASE ~FieldsValid
      BY <1>19, <2>1, <3>2 DEF BeginRun, Shape
    <3>3. QED
      BY <3>1, <3>2
  <2>4. todo' \in Seq(SUBSET chosen)
    <3>1. SolveBatches \in Seq(SUBSET chosen) /\ VerifyBatches \in Seq(SUBSET chosen)
      BY SolveBatchesCover, VerifyBatchesType DEF TypeOK, Ranges
    <3>2. todo' \in {VerifyBatches, <<>>, SolveBatches}
      BY <1>19 DEF BeginRun
    <3>3. <<>> \in Seq(SUBSET chosen)
      OBVIOUS
    <3>4. QED
      BY <3>1, <3>2, <3>3
  <2>5. verifying' \in BOOLEAN /\ chosen' = chosen /\ todo' \in Seq(SUBSET chosen')
    BY <1>19, <2>4 DEF BeginRun
  <2>6. TypeOK'
    <3>1. now' \in Nat /\ total_start' \in 0 .. now' /\ start' \in 0 .. now'
      BY <1>19 DEF BeginRun, TypeOK
    <3>2. wcsLeft' \in Ranges /\ pc' = "next"
      BY <1>19 DEF BeginRun, TypeOK
    <3>3. QED
      BY <1>0, <1>19, <2>1, <2>3, <2>5, <3>1, <3>2 DEF BeginRun, TypeOK
  <2>7. Shape'
    BY <1>19, <2>2 DEF BeginRun, Shape
  <2>8. QED
    BY <2>6, <2>7
<1>20. CASE EndVerify
  <2>1. solutions' \subseteq solutions
    BY <1>20 DEF EndVerify, Best
  <2>2. won' \subseteq 1 .. NumFields /\ solvedFile' \subseteq 1 .. NumFields
    <3> DEFINE fs == {m.field : m \in {n \in solutions' : n.odds = 2}}
    <3>1. fs \subseteq 1 .. NumFields
      BY <2>1 DEF TypeOK
    <3>2. won' = won \cup fs /\ solvedFile' \subseteq solvedFile \cup fs
      BY <1>20 DEF EndVerify, MarkSolved
    <3>3. QED
      BY <3>1, <3>2 DEF TypeOK
  <2>3. single_field_solved' \in BOOLEAN
    BY <1>20 DEF EndVerify, MarkSolved
  <2>4. todo' \in Seq(SUBSET chosen)
    BY <1>20, SolveBatchesCover DEF EndVerify, TypeOK
  <2>5. QED
    BY <1>0, <1>20, <2>1, <2>2, <2>3, <2>4 DEF EndVerify, TypeOK, Shape, FieldsValid,
       ValidFields,
       Field
<1>21. CASE FinishRun
  <2>1. wcsFile' \in [1 .. NumFields -> 0 .. 2]
    <3> DEFINE v(f) == IF \E m \in solutions : m.field = f
                       THEN (CHOOSE m \in Best(solutions) : m.field = f).odds ELSE wcsFile[f]
    <3>1. wcsFile' = [f \in 1 .. NumFields |-> v(f)]
      BY <1>21 DEF FinishRun, TypeOK
    <3>2. ASSUME NEW f \in 1 .. NumFields PROVE v(f) \in 0 .. 2
      <4>1. CASE \E m \in solutions : m.field = f
        <5>1. (CHOOSE m \in Best(solutions) : m.field = f).odds \in 1 .. 2
          BY <4>1, BestOdds DEF TypeOK
        <5>2. v(f) = (CHOOSE m \in Best(solutions) : m.field = f).odds
          BY <4>1
        <5> HIDE DEF v
        <5>3. QED
          BY <5>1, <5>2
      <4>2. CASE ~\E m \in solutions : m.field = f
        BY <4>2 DEF TypeOK
      <4>3. QED
        BY <4>1, <4>2
    <3> HIDE DEF v
    <3>3. QED
      BY <3>1, <3>2
  <2>2. depth' \in 1 .. Len(Depths) /\ scale' \in 1 .. Len(Scales)
    <3>1. depth \in 1 .. Len(Depths) /\ scale \in 1 .. Len(Scales)
      BY DEF TypeOK
    <3>2. \/ UNCHANGED <<depth, scale>>
          \/ scale = Len(Scales) /\ depth # Len(Depths) /\ scale' = 1 /\ depth' = depth + 1
          \/ scale # Len(Scales) /\ scale' = scale + 1 /\ depth' = depth
      BY <1>21 DEF FinishRun
    <3>3. QED
      BY <1>0, <3>1, <3>2
  <2>3. /\ solutions' = {} /\ chosen' = {} /\ todo' = <<>> /\ batch' = {}
        /\ todo' \in Seq(SUBSET chosen') /\ wcsLeft' \in Ranges
    BY <1>21 DEF FinishRun, Ranges
  <2>4. pc' \in {"plan", "end"}
    BY <1>21 DEF FinishRun
  <2>5. QED
    BY <1>0, <1>21, <2>1, <2>2, <2>3, <2>4 DEF FinishRun, TypeOK, Shape, FieldsValid,
       ValidFields,
       Field
<1>22. QED
  BY <1>1, <1>2, <1>3, <1>4, <1>5, <1>6, <1>7, <1>8, <1>9, <1>10, <1>11, <1>12, <1>13,
     <1>14,
     <1>15, <1>16, <1>17, <1>18, <1>19, <1>20, <1>21 DEF Next, Engine, Ended

\* The state stays well-typed.
THEOREM TypeCorrect == Spec => [](TypeOK /\ Shape)
BY InitTypes, StepTypes, PTL DEF Spec

-----------------------------------------------------------------------------
(* Solved fields *)

\* At the start nothing is solved.
LEMMA InitSolved == Init => SolvedSingly /\ VerifiesFirst
BY DEF Init, SolvedSingly, VerifiesFirst

\* Whatever the order of events, a job of one field notices that it is solved.
LEMMA StepSolved ==
    ASSUME TypeOK, Shape, OneBatch, SolvedSingly, VerifiesFirst, [Next]_vars, TypeOK'
    PROVE  SolvedSingly' /\ VerifiesFirst'
<1> USE DEF engineVars, planVars, runVars, clockVars, matchVars, stopVars, fileVars,
           history
<1>0. job' = job /\ Len(fieldlist) \in Nat
  BY JobKept, LenProperties DEF TypeOK
<1>1. CASE AddIndex
  BY <1>0, <1>1 DEF AddIndex, SolvedSingly, VerifiesFirst
<1>2. CASE StartJob
  BY <1>0, <1>2 DEF StartJob, SolvedSingly, VerifiesFirst
<1>3. CASE AssertFails
  BY <1>0, <1>3 DEF AssertFails, SolvedSingly, VerifiesFirst
<1>4. CASE NextBatch
  BY <1>0, <1>4 DEF NextBatch, Stopped, SolvedSingly, VerifiesFirst
<1>5. CASE StopBatches
  BY <1>0, <1>5 DEF StopBatches, SolvedSingly, VerifiesFirst
<1>6. CASE SkipField
  BY <1>0, <1>6 DEF SkipField, TypeOK, SolvedSingly, VerifiesFirst
<1>7. CASE StartField
  BY <1>0, <1>7 DEF StartField, TypeOK, SolvedSingly, VerifiesFirst
<1>8. CASE FieldsDone
  BY <1>0, <1>8 DEF FieldsDone, OneBatch, SolvedSingly, VerifiesFirst
<1>9. CASE VerifyField
  <2>1. \A m \in solutions' : m \in solutions \/ m.field = Field
    BY <1>9 DEF VerifyField
  <2>2. fi \in 1 .. Len(fieldlist) /\ UNCHANGED <<fieldlist, fi>>
    BY <1>0, <1>9 DEF VerifyField, TypeOK, Shape
  <2>3. \A m \in solutions' : \E p \in 1 .. Len(fieldlist) : m.field = fieldlist[p]
    BY <2>1, <2>2 DEF SolvedSingly, Field
  <2>4. QED
    BY <1>0, <1>9, <2>2, <2>3 DEF VerifyField, SolvedSingly, VerifiesFirst
<1>10. CASE KeepMatch
  <2>1. \A m \in solutions' : m \in solutions \/ m.field = Field
    BY <1>10 DEF KeepMatch
  <2>2. fi \in 1 .. Len(fieldlist) /\ UNCHANGED <<fieldlist, fi>>
    BY <1>0, <1>10 DEF KeepMatch, TypeOK, Shape
  <2>3. \A m \in solutions' : \E p \in 1 .. Len(fieldlist) : m.field = fieldlist[p]
    BY <2>1, <2>2 DEF SolvedSingly, Field
  <2>4. QED
    BY <1>0, <1>10, <2>2, <2>3 DEF KeepMatch, SolvedSingly, VerifiesFirst
<1>11. CASE Timer
  BY <1>0, <1>11 DEF Timer, SolvedSingly, VerifiesFirst
<1>12. CASE Quit
  BY <1>0, <1>12 DEF Quit, SolvedSingly, VerifiesFirst
<1>13. CASE Exhaust
  BY <1>0, <1>13 DEF Exhaust, SolvedSingly, VerifiesFirst
<1>14. CASE RecordField
  <2>1. fi \in 1 .. Len(fieldlist) /\ fi' = fi + 1 /\ fieldlist' = fieldlist /\ ~single_field_solved
    BY <1>0, <1>14 DEF RecordField, TypeOK, Shape, SolvedSingly
  <2>2. CASE best_match_solves
    <3>1. won' = won \cup {Field} /\ (single_field_solved' <=> Len(fieldlist) = 1)
      BY <1>14, <2>1, <2>2 DEF RecordField, MarkSolved
    <3>2. Len(fieldlist) = 1 => Field = fieldlist[1] /\ fi' > Len(fieldlist)
      BY <2>1 DEF Field
    <3>3. ~verifying
      BY <1>14, <2>2 DEF RecordField, VerifiesFirst
    <3>4. QED
      BY <1>0, <1>14, <2>1, <3>1, <3>2, <3>3 DEF RecordField, SolvedSingly, VerifiesFirst
  <2>3. CASE ~best_match_solves
    <3>1. won' = won /\ ~single_field_solved'
      <4>1. {g \in {Field} : best_match_solves} = {}
        BY <2>3
      <4>2. QED
        BY <1>14, <2>1, <4>1 DEF RecordField, MarkSolved
    <3>2. QED
      BY <1>0, <1>14, <2>1, <3>1 DEF RecordField, SolvedSingly, VerifiesFirst
  <2>4. QED
    BY <2>2, <2>3
<1>15. CASE UserCancels
  BY <1>0, <1>15 DEF UserCancels, SolvedSingly, VerifiesFirst
<1>16. CASE OtherSolves
  BY <1>0, <1>16 DEF OtherSolves, SolvedSingly, VerifiesFirst
<1>17. CASE UNCHANGED vars
  BY <1>0, <1>17 DEF vars, SolvedSingly, VerifiesFirst
<1>18. CASE Plan
  BY <1>18 DEF Plan, SolvedSingly, VerifiesFirst
<1>19. CASE BeginRun
  <2>1. CASE FieldsValid
    <3>1. fieldlist' = fieldlist
      BY <1>19, <2>1, FilterAllGood DEF BeginRun, TypeOK, FieldsValid
    <3>2. QED
      BY <1>0, <1>19, <3>1 DEF BeginRun, SolvedSingly, VerifiesFirst
  <2>2. CASE ~FieldsValid
    <3>1. won = {} /\ ~single_field_solved /\ solutions = {}
      BY <1>19, <2>2 DEF BeginRun, Shape
    <3>2. QED
      BY <1>0, <1>19, <3>1 DEF BeginRun, SolvedSingly, VerifiesFirst
  <2>3. QED
    BY <2>1, <2>2
<1>20. CASE EndVerify
  <2> DEFINE fs == {m.field : m \in {n \in solutions' : n.odds = 2}}
  <2>1. won = {} /\ ~single_field_solved /\ fieldlist' = fieldlist
    BY <1>20 DEF EndVerify, VerifiesFirst, SolvedSingly
  <2>2. won' = fs /\ (single_field_solved' <=> fs # {} /\ Len(fieldlist) = 1)
    BY <1>20, <2>1 DEF EndVerify, MarkSolved
  <2>3. solutions' \subseteq solutions
    BY <1>20 DEF EndVerify, Best
  <2>4. \A f \in fs : \E p \in 1 .. Len(fieldlist) : f = fieldlist[p]
    BY <2>3 DEF SolvedSingly
  <2>5. single_field_solved' => fieldlist[1] \in won'
    <3> HIDE DEF fs
    <3>1. ASSUME fs # {}, Len(fieldlist) = 1 PROVE fieldlist[1] \in fs
      BY <2>4, <3>1
    <3>2. QED
      BY <2>2, <3>1
  <2>6. \A m \in solutions' : \E p \in 1 .. Len(fieldlist) : m.field = fieldlist[p]
    BY <2>3 DEF SolvedSingly
  <2>7. todo' # <<>> => ~single_field_solved'
    BY <1>20 DEF EndVerify
  <2>8. pc' = "next" /\ ~verifying'
    BY <1>20 DEF EndVerify
  <2> HIDE DEF fs
  <2>9. SolvedSingly'
    BY <2>1, <2>2, <2>5, <2>6, <2>7, <2>8 DEF SolvedSingly
  <2>10. VerifiesFirst'
    BY <2>8 DEF VerifiesFirst
  <2>11. QED
    BY <2>9, <2>10
<1>21. CASE FinishRun
  BY <1>0, <1>21 DEF FinishRun, SolvedSingly, VerifiesFirst
<1>22. QED
  BY <1>1, <1>2, <1>3, <1>4, <1>5, <1>6, <1>7, <1>8, <1>9, <1>10, <1>11, <1>12, <1>13,
     <1>14,
     <1>15, <1>16, <1>17, <1>18, <1>19, <1>20, <1>21 DEF Next, Engine, Ended

\* Solved fields are kept track of, in every state.
THEOREM SolvedKnown == Spec => [](SolvedSingly /\ VerifiesFirst)
<1>1. Init => SolvedSingly /\ VerifiesFirst
  BY InitSolved
<1>2. TypeOK /\ Shape /\ OneBatch /\ SolvedSingly /\ VerifiesFirst /\ [Next]_vars /\ TypeOK'
        => SolvedSingly' /\ VerifiesFirst'
  BY StepSolved
<1>3. IInv => OneBatch
  BY DEF IInv
<1>4. QED
  BY <1>1, <1>2, <1>3, TypeCorrect, Invariance, PTL DEF Spec

\* No search begins of a field that the solved file has, and none of the only field
\* once it is solved, with indexes one by one or in parallel.
THEOREM SolvedIsNotSearched == Spec => SolvedNotSearched
<1>1. ASSUME TypeOK, SolvedSingly, [Next]_vars, pc = "field", pc' = "search"
      PROVE  ~FieldSolved(Field) /\ ~(Len(fieldlist) = 1 /\ Field \in won)
  <2>1. StartField
    BY <1>1 DEF Next, Engine, AddIndex, StartJob, AssertFails, Plan, BeginRun, EndVerify,
       NextBatch, StopBatches, SkipField, FieldsDone, VerifyField, KeepMatch, Timer, Quit,
       Exhaust, RecordField, FinishRun, UserCancels, OtherSolves, Ended, vars
  <2>2. fi <= Len(fieldlist) /\ fi \in Nat /\ Len(fieldlist) \in Nat /\ ~FieldSolved(Field)
    BY <1>1, <2>1, LenProperties DEF StartField, TypeOK
  <2>3. ~(Len(fieldlist) = 1 /\ Field \in won)
    BY <1>1, <2>2 DEF SolvedSingly
  <2>4. QED
    BY <2>2, <2>3
<1>2. QED
  <2>1. TypeOK /\ SolvedSingly /\ [Next]_vars =>
          [pc = "field" /\ pc' = "search" =>
             ~FieldSolved(Field) /\ ~(Len(fieldlist) = 1 /\ Field \in won)]_vars
    BY <1>1
  <2>2. QED
    BY <2>1, TypeCorrect, SolvedKnown, PTL DEF Spec, SolvedNotSearched

-----------------------------------------------------------------------------
(* The WCS of a solved field *)

\* Nothing is won at the start.
LEMMA InitWins == Init => WinsKept
BY DEF Init, WinsKept, KeepsSolved, OneRun

\* No step loses the WCS of a solved field.
LEMMA StepWins ==
    ASSUME TypeOK, Shape, SolvedSingly, VerifiesFirst, WinsKept, [Next]_vars, TypeOK'
    PROVE  WinsKept'
<1> USE DEF engineVars, planVars, runVars, clockVars, matchVars, stopVars, fileVars,
           history
<1>0. /\ job' = job /\ Len(fieldlist) \in Nat /\ Depths' = Depths /\ Scales' = Scales
      /\ (OneRun <=> OneRun') /\ (KeepsSolved <=> KeepsSolved')
  BY JobKept, LenProperties DEF TypeOK, OneRun, KeepsSolved, Depths, Scales
<1>1. CASE AddIndex
  BY <1>0, <1>1 DEF AddIndex, WinsKept, Solves, Field
<1>2. CASE StartJob
  BY <1>0, <1>2 DEF StartJob, WinsKept, Solves, Field
<1>3. CASE AssertFails
  BY <1>0, <1>3 DEF AssertFails, WinsKept, Solves, Field
<1>4. CASE NextBatch
  BY <1>0, <1>4 DEF NextBatch, WinsKept, Solves, Field
<1>5. CASE StopBatches
  BY <1>0, <1>5 DEF StopBatches, WinsKept, Solves, Field
<1>6. CASE SkipField
  BY <1>0, <1>6 DEF SkipField, WinsKept, Solves, Field
<1>7. CASE StartField
  <2>1. /\ fi \in 1 .. Len(fieldlist) /\ ~single_field_solved /\ ~FieldSolved(Field)
        /\ Field' = Field /\ ~best_match_solves' /\ won' = won
    BY <1>0, <1>7 DEF StartField, TypeOK, SolvedSingly, Field
  <2>2. KeepsSolved => Field \notin won \/ OneRun
    <3>1. CASE job.solvedIn /\ job.solvedOut
      BY <2>1, <3>1 DEF WinsKept, FieldSolved
    <3>2. CASE Len(job.fields) <= 1
      <4>1. Len(fieldlist) = 1
        <5>1. Len(fieldlist) <= 1
          BY <3>2 DEF WinsKept
        <5>2. fi \in 1 .. Len(fieldlist) /\ Len(fieldlist) \in Nat
          BY <1>0, <2>1
        <5>3. \A n \in Nat : fi \in 1 .. n /\ n <= 1 => n = 1
          OBVIOUS
        <5>4. QED
          BY <5>1, <5>2, <5>3
      <4>2. QED
        BY <2>1, <4>1 DEF SolvedSingly
    <3>3. QED
      BY <3>1, <3>2 DEF KeepsSolved
  <2>3. QED
    BY <1>0, <1>7, <2>1, <2>2 DEF StartField, WinsKept, Solves
<1>8. CASE FieldsDone
  BY <1>0, <1>8 DEF FieldsDone, WinsKept, Solves, Field
<1>9. CASE VerifyField
  BY <1>0, <1>9 DEF VerifyField, WinsKept, Solves, Field
<1>10. CASE KeepMatch
  <2>1. /\ Field' = Field /\ pc = "search" /\ pc' = "search" /\ solutions \subseteq solutions'
        /\ \A m \in solutions' : m \in solutions \/ m.field = Field
        /\ UNCHANGED <<won, fieldlist, fileVars>>
    BY <1>10 DEF KeepMatch, Field
  <2>2. best_match_solves' => Solves(Field) \in solutions'
    BY <1>10 DEF KeepMatch, Solves
  <2>3. KeepsSolved => \A f \in won :
          \/ Solves(f) \in solutions'
          \/ ~OneRun /\ wcsFile[f] = 2 /\ \A m \in solutions' : m.field # f
    BY <2>1 DEF WinsKept
  <2>4. QED
    BY <1>0, <2>1, <2>2, <2>3 DEF WinsKept, Solves
<1>11. CASE Timer
  BY <1>0, <1>11 DEF Timer, WinsKept, Solves, Field
<1>12. CASE Quit
  BY <1>0, <1>12 DEF Quit, WinsKept, Solves, Field
<1>13. CASE Exhaust
  BY <1>0, <1>13 DEF Exhaust, WinsKept, Solves, Field
<1>14. CASE RecordField
  BY <1>0, <1>14 DEF RecordField, MarkSolved, WinsKept, Solves, Field
<1>15. CASE UserCancels
  BY <1>0, <1>15 DEF UserCancels, WinsKept, Solves, Field
<1>16. CASE OtherSolves
  BY <1>0, <1>16 DEF OtherSolves, WinsKept, Solves, Field
<1>17. CASE UNCHANGED vars
  BY <1>0, <1>17 DEF vars, WinsKept, Solves, Field
<1>18. CASE Plan
  BY <1>0, <1>18 DEF Plan, WinsKept, Solves, Field
<1>19. CASE BeginRun
  <2>1. Len(fieldlist') \in Nat /\ Len(fieldlist') <= Len(fieldlist)
    BY <1>19, Filtering DEF BeginRun, TypeOK
  <2>2. Len(job.fields) <= 1 => Len(fieldlist') <= 1
    <3>1. CASE Len(job.fields) <= 1
      <4>1. Len(fieldlist) <= 1
        BY <3>1 DEF WinsKept
      <4>2. QED
        BY <1>0, <2>1, <4>1
    <3>2. QED
      BY <3>1
  <2>3. QED
    BY <1>0, <1>19, <2>2 DEF BeginRun, WinsKept, Solves
<1>20. CASE EndVerify
  <2> DEFINE fs == {m.field : m \in {n \in solutions' : n.odds = 2}}
  <2>1. won = {} /\ won' = fs /\ (job.solvedOut => fs \subseteq solvedFile')
    BY <1>20 DEF EndVerify, MarkSolved, VerifiesFirst
  <2>2. ASSUME NEW g \in fs PROVE Solves(g) \in solutions'
    <3>1. PICK m \in solutions' : m.field = g /\ m.odds = 2
      OBVIOUS
    <3>2. m = [field |-> g, odds |-> 2]
      BY <3>1 DEF TypeOK
    <3>3. QED
      BY <3>1, <3>2 DEF Solves
  <2>3. \A g \in won' : Solves(g) \in solutions'
    BY <2>1, <2>2
  <2>4. fieldlist' = fieldlist /\ pc' = "next"
    BY <1>20 DEF EndVerify
  <2> HIDE DEF fs
  <2>5. QED
    BY <1>0, <2>1, <2>3, <2>4 DEF WinsKept, Solves
<1>21. CASE FinishRun
  <2>1. /\ pc = "write" /\ pc' \in {"plan", "end"} /\ solutions' = {}
        /\ UNCHANGED <<fieldlist, won, solvedFile>>
    BY <1>21 DEF FinishRun
  <2>2. OneRun => pc' = "end"
    BY <1>21 DEF FinishRun, OneRun, TypeOK
  <2>3. ASSUME KeepsSolved, NEW g \in won PROVE wcsFile'[g] = 2
    <3>1. g \in DOMAIN wcsFile
      BY DEF TypeOK
    <3>2. CASE Solves(g) \in solutions
      <4>1. \E m \in solutions : m.field = g
        BY <3>2 DEF Solves
      <4> DEFINE b == CHOOSE m \in Best(solutions) : m.field = g
      <4>2. b \in Best(solutions) /\ b.field = g /\ b.odds \in 1 .. 2
        BY <4>1, BestOdds DEF TypeOK
      <4>3. b.odds >= 2
        BY <3>2, <4>2 DEF Best, Solves
      <4>4. wcsFile'[g] = b.odds
        BY <1>21, <3>1, <4>1 DEF FinishRun
      <4> HIDE DEF b
      <4>5. QED
        BY <4>2, <4>3, <4>4
    <3>3. CASE Solves(g) \notin solutions
      <4>1. wcsFile[g] = 2 /\ \A m \in solutions : m.field # g
        BY <2>3, <3>3 DEF WinsKept
      <4>2. QED
        BY <1>21, <3>1, <4>1 DEF FinishRun
    <3>4. QED
      BY <3>2, <3>3
  <2>4. QED
    BY <1>0, <2>1, <2>2, <2>3 DEF WinsKept
<1>22. QED
  BY <1>1, <1>2, <1>3, <1>4, <1>5, <1>6, <1>7, <1>8, <1>9, <1>10, <1>11, <1>12, <1>13,
     <1>14,
     <1>15, <1>16, <1>17, <1>18, <1>19, <1>20, <1>21 DEF Next, Engine, Ended

\* In a job of one field or one run, or with a solved file that is written and read,
\* every field that was solved ends up with a WCS that solves it.
THEOREM SolvedKeepsWcs == Spec => [](KeepsSolved => SolvedHasWcs)
<1>1. Init => WinsKept
  BY InitWins
<1>2. TypeOK /\ Shape /\ SolvedSingly /\ VerifiesFirst /\ WinsKept /\ [Next]_vars /\ TypeOK'
        => WinsKept'
  BY StepWins
<1>3. WinsKept /\ Shape => (KeepsSolved => SolvedHasWcs)
  BY DEF WinsKept, SolvedHasWcs, Shape
<1>4. QED
  BY <1>1, <1>2, <1>3, TypeCorrect, SolvedKnown, PTL DEF Spec

-----------------------------------------------------------------------------
(* Everything asked for is searched *)

\* What a step can only do one way: the clock limits and the cancel file stay, a
\* field that is solved stays solved, and what is searched stays searched.
LEMMA StepForward ==
    ASSUME [Next]_vars
    PROVE  /\ job' = job /\ Depths' = Depths /\ Scales' = Scales /\ ValidFields' = ValidFields
           /\ Clean' => Clean
           /\ \A f : Due(f)' => Due(f)
           /\ searched \subseteq searched'
           /\ \A j : Asked(j)' = Asked(j)
           /\ OpenDepthsLead' <=> OpenDepthsLead
<1>1. job' = job
  BY JobKept
<1>2. solvedFile \subseteq solvedFile' /\ (cancelFile => cancelFile') /\ won \subseteq won'
      /\ searched \subseteq searched'
  BY DEF Next, Engine, AddIndex, StartJob, AssertFails, Plan, BeginRun, EndVerify,
     NextBatch, StopBatches, SkipField, StartField, FieldsDone, VerifyField, KeepMatch,
     Timer, Quit, Exhaust, RecordField, FinishRun, UserCancels, OtherSolves, Ended,
     MarkSolved, vars, fileVars, history
<1>3. (hit_total => hit_total') /\ (hit_limit => hit_limit')
  <2>1. \/ CheckTimeLimits(now) \/ CheckTimeLimits(now')
        \/ UNCHANGED <<hit_total, hit_limit>>
    BY DEF Next, Engine, AddIndex, StartJob, AssertFails, Plan, BeginRun, EndVerify,
       NextBatch, StopBatches, SkipField, StartField, FieldsDone, VerifyField, KeepMatch,
       Timer, Quit, Exhaust, RecordField, FinishRun, UserCancels, OtherSolves, Ended,
       vars, clockVars
  <2>2. ASSUME NEW t, CheckTimeLimits(t)
        PROVE  (hit_total => hit_total') /\ (hit_limit => hit_limit')
    <3>1. hit_total => hit_total'
      BY <2>2 DEF CheckTimeLimits
    <3>2. hit_limit => hit_limit'
      BY <2>2 DEF CheckTimeLimits
    <3>3. QED
      BY <3>1, <3>2
  <2>3. ASSUME UNCHANGED <<hit_total, hit_limit>>
        PROVE  (hit_total => hit_total') /\ (hit_limit => hit_limit')
    BY <2>3
  <2>4. QED
    BY <2>1, <2>2, <2>3
<1>4. CancelExists => CancelExists'
  BY <1>1, <1>2 DEF CancelExists
<1>5. \A f : FieldSolved(f) => FieldSolved(f)'
  BY <1>1, <1>2 DEF FieldSolved
<1>6. \A j : Asked(j)' = Asked(j)
  BY <1>1 DEF Asked, Fitting, Overlaps, Fmin, Fmax, Default, Scales, Smallest, Biggest
<1>7. QED
  BY <1>1, <1>2, <1>3, <1>4, <1>5, <1>6 DEF Depths, Scales, ValidFields, NumFields, Clean,
     Due,
     OpenDepthsLead

\* The plan of a run is made before it and changed after it.
LEMMA PlanFrame ==
    ASSUME [Next]_vars
    PROVE  \/ Plan
           \/ FinishRun
           \/ UNCHANGED <<depth, scale, startobj, endobj, chosen>>
BY DEF Next, Engine, AddIndex, StartJob, AssertFails, BeginRun, EndVerify, NextBatch,
     StopBatches, SkipField, StartField, FieldsDone, VerifyField, KeepMatch, Timer, Quit,
     Exhaust, RecordField, UserCancels, OtherSolves, Ended,
   vars, planVars

\* Fields that exist are never taken from the list.
LEMMA StepFields ==
    ASSUME TypeOK, FieldsKept, [Next]_vars
    PROVE  FieldsKept'
<1>1. job' = job /\ ValidFields' = ValidFields
  BY StepForward
<1>2. fieldlist' = fieldlist \/ BeginRun
  BY DEF Next, Engine, AddIndex, StartJob, AssertFails, Plan, EndVerify, NextBatch,
     StopBatches, SkipField, StartField, FieldsDone, VerifyField, KeepMatch, Timer, Quit,
     Exhaust, RecordField, FinishRun, UserCancels, OtherSolves, Ended,
     vars, runVars
<1>3. CASE fieldlist' = fieldlist
  BY <1>1, <1>3 DEF FieldsKept
<1>4. CASE BeginRun
  <2> SUFFICES ASSUME NEW f \in ValidFields \cap Range(job.fields)
               PROVE  \E p \in 1 .. Len(fieldlist') : fieldlist'[p] = f
    BY <1>1 DEF FieldsKept
  <2>1. PICK n \in 1 .. Len(fieldlist) : fieldlist[n] = f
    BY DEF FieldsKept
  <2>2. fieldlist' = Filter(fieldlist, ValidFields) /\ fieldlist \in Seq(Nat)
    BY <1>4 DEF BeginRun, TypeOK
  <2>3. \E p \in 1 .. Len(Filter(fieldlist, ValidFields)) :
            Filter(fieldlist, ValidFields)[p] = fieldlist[n]
    BY <2>1, <2>2, FilterKeeps
  <2>4. QED
    BY <2>1, <2>2, <2>3
<1>5. QED
  BY <1>2, <1>3, <1>4

\* The search of a run looks at the objects of its depth.
LEMMA StepPlanned ==
    ASSUME TypeOK, IInv, RunIsPlanned, [Next]_vars, IInv'
    PROVE  RunIsPlanned'
<1>1. job' = job /\ Depths' = Depths /\ (\A j : Asked(j)' = Asked(j))
      /\ (OpenDepthsLead' <=> OpenDepthsLead) /\ depth \in 1 .. Len(Depths) /\ Len(Depths) \in Nat
  BY StepForward, JobParts DEF TypeOK
<1>2. CASE Plan
  <2>1. /\ depth' = depth /\ scale' = scale /\ pc' = "run"
        /\ startobj' = IF Depths[depth].lo = 0 THEN 0 ELSE Depths[depth].lo - 1
        /\ endobj' = IF Depths[depth].hi = 0 THEN endobj ELSE Depths[depth].hi
    BY <1>2 DEF Plan, Default
  <2>2. chosen' = Asked(scale)
    BY <1>1, <2>1 DEF IInv, ChoosesAsked
  <2>3. endobj' # 0 => \E m \in 1 .. depth : Depths[m].hi # 0
    BY <1>1, <2>1 DEF RunIsPlanned
  <2>4. OpenDepthsLead => endobj' = Depths[depth].hi
    <3> SUFFICES ASSUME OpenDepthsLead, Depths[depth].hi = 0 PROVE endobj' = 0
      BY <2>1
    <3>1. DOMAIN Depths = 1 .. Len(Depths)
      BY JobParts, LenProperties DEF TypeOK
    <3>2. \A m \in 1 .. depth : Depths[m].hi = 0
      BY <1>1, <3>1 DEF OpenDepthsLead
    <3>3. QED
      BY <2>3, <3>2
  <2>5. QED
    BY <1>1, <2>1, <2>2, <2>3, <2>4 DEF RunIsPlanned
<1>3. CASE FinishRun
  <2>1. pc' \in {"plan", "end"} /\ depth' \in {depth, depth + 1} /\ endobj' = endobj
    BY <1>3 DEF FinishRun
  <2>2. QED
    BY <1>1, <2>1 DEF RunIsPlanned
<1>4. CASE ~Plan /\ UNCHANGED <<depth, scale, startobj, endobj, chosen>>
  <2>1. pc' \in {"run", "next", "field", "search", "record", "write"} =>
            pc \in {"run", "next", "field", "search", "record", "write"}
    BY <1>4 DEF Next, Engine, AddIndex, StartJob, AssertFails, BeginRun, EndVerify,
       NextBatch,
     StopBatches, SkipField, StartField, FieldsDone, VerifyField, KeepMatch, Timer, Quit,
     Exhaust, RecordField, FinishRun, UserCancels, OtherSolves, Ended,
       vars
  <2>2. QED
    BY <1>1, <1>4, <2>1 DEF RunIsPlanned
<1>5. QED
  BY <1>2, <1>3, <1>4, PlanFrame

\* A search ends because the field is solved or nothing is left to try.
LEMMA StepQuits ==
    ASSUME TypeOK, QuitsForReason, VerifiesFirst, [Next]_vars
    PROVE  QuitsForReason'
<1>1. /\ Clean' => Clean /\ job' = job
      /\ \A f : FieldSolved(f) => FieldSolved(f)'
  <2>1. solvedFile \subseteq solvedFile'
    BY DEF Next, Engine, AddIndex, StartJob, AssertFails, Plan, BeginRun, EndVerify,
       NextBatch, StopBatches, SkipField, StartField, FieldsDone, VerifyField, KeepMatch,
       Timer, Quit, Exhaust, RecordField, FinishRun, UserCancels, OtherSolves, Ended,
       MarkSolved, vars, fileVars
  <2>2. QED
    BY <2>1, StepForward DEF FieldSolved
<1> SUFFICES ASSUME Clean', ~verifying'
             PROVE  /\ pc' = "search" /\ quit_now' => best_match_solves' \/ FieldSolved(Field)'
                    /\ pc' = "record" => \/ best_match_solves' \/ FieldSolved(Field)'
                                         \/ \A k \in batch' : Tried(Field, k)'
  BY DEF QuitsForReason
<1>2. CASE KeepMatch
  BY <1>1, <1>2 DEF KeepMatch, Clean
<1>3. CASE Timer
  BY <1>1, <1>3 DEF Timer, Clean, Field, FieldSolved, CancelExists, runVars, fileVars,
     planVars
<1>4. CASE Quit
  BY <1>1, <1>4 DEF Quit, QuitsForReason, Field, FieldSolved, runVars, fileVars, planVars,
     matchVars
<1>5. CASE Exhaust
  <2>1. \A k \in batch : Tried(Field, k)'
    BY <1>5 DEF Exhaust, Tried, Field, runVars, planVars
  <2>2. QED
    BY <1>5, <2>1 DEF Exhaust, runVars, Field, Tried, planVars
<1>6. CASE VerifyField
  BY <1>6 DEF VerifyField, runVars
<1>7. CASE StartField
  BY <1>7 DEF StartField
<1>8. CASE OtherSolves \/ UserCancels \/ UNCHANGED vars
  <2>1. UNCHANGED <<pc, quit_now, best_match_solves, batch, fieldlist, fi, verifying, searched,
                    startobj, endobj, scale>>
    BY <1>8 DEF OtherSolves, UserCancels, vars, planVars, runVars, matchVars, history
  <2>2. Field' = Field /\ \A k : Tried(Field, k)' <=> Tried(Field, k)
    BY <2>1 DEF Field, Tried
  <2>3. QED
    BY <1>1, <2>1, <2>2 DEF QuitsForReason
<1>9. CASE ~(pc' = "search" \/ pc' = "record")
  BY <1>9
<1>10. QED
  BY <1>2, <1>3, <1>4, <1>5, <1>6, <1>7, <1>8, <1>9
  DEF Next, Engine, AddIndex, StartJob, AssertFails, Plan, BeginRun, EndVerify, NextBatch,
      StopBatches, SkipField, FieldsDone, RecordField, FinishRun, Ended

\* No field is due when the only one is solved.
LEMMA NoneDue ==
    ASSUME FieldsKept, Len(fieldlist) = 1,
           fieldlist[1] \in won \/ FieldSolved(fieldlist[1]), NEW f, Due(f)
    PROVE  FALSE
<1>1. f \in ValidFields \cap Range(job.fields)
  BY DEF Due
<1>2. PICK p \in 1 .. Len(fieldlist) : fieldlist[p] = f
  BY <1>1 DEF FieldsKept
<1>3. p = 1
  BY <1>2
<1>4. QED
  BY <1>2, <1>3 DEF Due

\* Every step keeps what is still to be searched among the batches to come and the
\* fields to come.
LEMMA StepRunCovered ==
    ASSUME TypeOK, IInv, SolvedSingly, FieldsKept, QuitsForReason, RunCovered, [Next]_vars,
           TypeOK', SolvedSingly', FieldsKept'
    PROVE  RunCovered'
<1> SUFFICES ASSUME Clean', NEW f \in ValidFields', Due(f)', NEW k \in chosen'
             PROVE  /\ pc' \in {"next", "field", "search", "record"} /\ ~verifying' =>
                           Pending(f, k)' \/ Tried(f, k)'
                    /\ pc' = "write" => Tried(f, k)'
  BY DEF RunCovered
<1>0. /\ job' = job /\ ValidFields' = ValidFields /\ Clean /\ Due(f)
      /\ searched \subseteq searched' /\ f \in ValidFields
      /\ Len(fieldlist) \in Nat /\ fi \in 1 .. Len(fieldlist) + 1
      /\ Len(todo) \in Nat
  BY StepForward, LenProperties DEF TypeOK
<1>1. CASE pc' \notin {"next", "field", "search", "record", "write"} \/ (pc' # "write" /\ verifying')
  BY <1>1
<1>2. CASE (BeginRun \/ EndVerify) /\ ~verifying'
  <2>1. /\ pc' = "next" /\ chosen' = chosen
        /\ todo' = IF single_field_solved' THEN <<>> ELSE SolveBatches
    BY <1>2 DEF BeginRun, EndVerify, planVars, stopVars
  <2>2. ~single_field_solved'
    <3> SUFFICES ASSUME single_field_solved' PROVE FALSE
      OBVIOUS
    <3>1. Len(fieldlist') = 1 /\ fieldlist'[1] \in won'
      BY DEF SolvedSingly
    <3>2. PICK p \in 1 .. Len(fieldlist') : fieldlist'[p] = f
      BY DEF FieldsKept, Due
    <3>3. QED
      BY <3>1, <3>2 DEF Due
  <2>3. \E n \in 1 .. Len(SolveBatches) : k \in SolveBatches[n]
    BY <2>1, SolveBatchesCover DEF TypeOK
  <2>4. QED
    BY <2>1, <2>2, <2>3 DEF Pending
<1>3. CASE NextBatch
  <2>1. /\ pc = "next" /\ pc' = "field" /\ verifying' = verifying /\ chosen' = chosen
        /\ batch' = Head(todo) /\ todo' = Tail(todo) /\ todo # <<>> /\ fi' = 1
        /\ UNCHANGED <<fieldlist, startobj, endobj, scale, searched>>
    BY <1>3 DEF NextBatch, planVars, history
  <2>2. CASE Tried(f, k)
    BY <2>1, <2>2 DEF Tried
  <2>3. CASE ~Tried(f, k) /\ ~verifying
    <3>1. PICK n \in 1 .. Len(todo) : k \in todo[n]
      BY <1>0, <2>1, <2>3 DEF RunCovered, Pending
    <3>2. /\ Head(todo) = todo[1] /\ Len(Tail(todo)) = Len(todo) - 1
          /\ \A i \in 1 .. Len(Tail(todo)) : Tail(todo)[i] = todo[i + 1]
      BY <2>1, HeadTailProperties DEF TypeOK
    <3>3. CASE n = 1
      <4>1. \E p \in 1 .. Len(fieldlist) : fieldlist[p] = f
        BY <1>0 DEF FieldsKept, Due
      <4>2. QED
        BY <2>1, <3>1, <3>2, <3>3, <4>1 DEF Pending
    <3>4. CASE n # 1
      <4>1. n - 1 \in 1 .. Len(Tail(todo)) /\ Tail(todo)[n - 1] = todo[n]
        BY <1>0, <3>1, <3>2, <3>4
      <4>2. QED
        BY <2>1, <3>1, <4>1 DEF Pending
    <3>5. QED
      BY <3>3, <3>4
  <2>4. QED
    BY <2>1, <2>2, <2>3
<1>4. CASE StopBatches
  <2>1. /\ pc = "next" /\ pc' = "write" /\ ~verifying /\ (todo = <<>> \/ Stopped)
        /\ UNCHANGED <<chosen, startobj, endobj, scale, searched>>
    BY <1>4 DEF StopBatches, planVars, history
  <2>2. ~Stopped
    <3>1. ~cancelled /\ ~hit_total
      BY <1>0 DEF Clean, IInv, CancelRemembered
    <3>2. ~single_field_solved
      BY <1>0, NoneDue DEF SolvedSingly
    <3>3. QED
      BY <3>1, <3>2 DEF Stopped
  <2>3. ~Pending(f, k)
    BY <2>1, <2>2 DEF Pending
  <2>4. QED
    BY <1>0, <2>1, <2>3 DEF RunCovered, Tried
<1>5. CASE SkipField
  <2>1. /\ pc = "field" /\ pc' = "field" /\ fi' = fi + 1 /\ f # Field
        /\ UNCHANGED <<chosen, todo, batch, fieldlist, verifying, startobj, endobj, scale, searched>>
    BY <1>0, <1>5 DEF SkipField, planVars, history, Due
  <2>2. \A p \in fi .. Len(fieldlist) : fieldlist[p] = f => p \in fi' .. Len(fieldlist)
    BY <1>0, <2>1 DEF Field
  <2>3. QED
    BY <1>0, <2>1, <2>2 DEF RunCovered, Pending, Tried
<1>6. CASE FieldsDone
  <2>1. /\ pc = "field" /\ pc' = "next" /\ fi > Len(fieldlist)
        /\ UNCHANGED <<chosen, todo, verifying, startobj, endobj, scale, searched>>
    BY <1>6 DEF FieldsDone, planVars, runVars, history
  <2>2. fi .. Len(fieldlist) = {}
    BY <1>0, <2>1
  <2>3. QED
    BY <1>0, <2>1, <2>2 DEF RunCovered, Pending, Tried
<1>7. CASE RecordField
  <2>1. /\ pc = "record" /\ pc' = "field" /\ fi' = fi + 1
        /\ UNCHANGED <<chosen, todo, batch, fieldlist, verifying, startobj, endobj, scale, searched>>
    BY <1>7 DEF RecordField, planVars
  <2>2. CASE f = Field /\ k \in batch /\ ~verifying
    <3>1. ~best_match_solves
      <4>1. best_match_solves => Field \in won'
        BY <1>7 DEF RecordField, MarkSolved
      <4>2. QED
        BY <2>2, <4>1 DEF Due
    <3>2. ~FieldSolved(Field)
      BY <1>0, <2>2 DEF Due
    <3>3. Tried(f, k)
      BY <1>0, <2>1, <2>2, <3>1, <3>2 DEF QuitsForReason
    <3>4. QED
      BY <2>1, <3>3 DEF Tried
  <2>3. CASE f # Field
    <3>1. \A p \in fi .. Len(fieldlist) : fieldlist[p] = f => p \in fi' .. Len(fieldlist)
      BY <1>0, <2>1, <2>3 DEF Field
    <3>2. QED
      BY <1>0, <2>1, <3>1 DEF RunCovered, Pending, Tried
  <2>4. CASE k \notin batch
    BY <1>0, <2>1, <2>4 DEF RunCovered, Pending, Tried
  <2>5. QED
    BY <2>1, <2>2, <2>3, <2>4
<1>8. CASE /\ pc \in {"next", "field", "search", "record"} /\ pc' \in {"next", "field", "search", "record"}
           /\ (pc = "next" <=> pc' = "next")
           /\ UNCHANGED <<chosen, todo, batch, fi, fieldlist, verifying, startobj, endobj, scale>>
  BY <1>0, <1>8 DEF RunCovered, Pending, Tried
<1>9. CASE pc = "write" /\ pc' = "write" /\ UNCHANGED <<chosen, startobj, endobj, scale>>
  BY <1>0, <1>9 DEF RunCovered, Tried
<1>10. QED
  BY <1>1, <1>2, <1>3, <1>4, <1>5, <1>6, <1>7, <1>8, <1>9
  DEF Next, Engine, AddIndex, StartJob, AssertFails, Plan, BeginRun, EndVerify, StartField,
      VerifyField, KeepMatch, Timer, Quit, Exhaust, FinishRun, UserCancels, OtherSolves,
      Ended, vars, planVars, runVars

\* What a run that ends should have searched is searched, and so is what the runs
\* before it should have.
LEMMA StepEarlierCovered ==
    ASSUME TypeOK, FieldsKept, RunIsPlanned, RunCovered, EarlierCovered, [Next]_vars
    PROVE  EarlierCovered'
<1> SUFFICES ASSUME OpenDepthsLead, Clean', NEW f \in ValidFields, Due(f)',
                    NEW i \in DOMAIN Depths, NEW j \in DOMAIN Scales,
                    Earlier(i, j)' \/ pc' = "end"
             PROVE  Done(f, i, j)'
  BY StepForward DEF EarlierCovered
<1>0. /\ job' = job /\ Depths' = Depths /\ Clean /\ Due(f) /\ searched \subseteq searched'
      /\ \A x : Asked(x)' = Asked(x)
      /\ depth \in 1 .. Len(Depths) /\ scale \in 1 .. Len(Scales)
      /\ DOMAIN Depths = 1 .. Len(Depths) /\ DOMAIN Scales = 1 .. Len(Scales)
      /\ Len(Depths) \in Nat /\ Len(Scales) \in Nat
  BY StepForward, JobParts, LenProperties DEF TypeOK
<1>1. Done(f, i, j) => Done(f, i, j)'
  BY <1>0 DEF Done, Search
<1>2. Earlier(i, j) \/ pc = "end" => Done(f, i, j)
  BY <1>0 DEF EarlierCovered
<1>3. Len(fieldlist) = 1 => ~FieldSolved(fieldlist[1])
  BY <1>0, NoneDue
<1>4. ~Obsolete
  BY <1>0, <1>3 DEF Obsolete, Clean
<1>5. CASE FinishRun
  <2>1. i = depth /\ j = scale => Done(f, i, j)
    <3>1. \A k \in Asked(scale) : Tried(f, k)
      BY <1>0, <1>5 DEF FinishRun, RunIsPlanned, RunCovered
    <3>2. \A k : Search(f, k, depth, scale) \in searched <=> Tried(f, k)
      BY <1>5 DEF FinishRun, RunIsPlanned, Search, Tried
    <3>3. QED
      BY <3>1, <3>2 DEF Done
  <2>2. Earlier(i, j) \/ (i = depth /\ j = scale)
    <3>1. CASE pc' = "end"
      <4>1. depth = Len(Depths) /\ scale = Len(Scales)
        BY <1>4, <1>5, <3>1 DEF FinishRun
      <4>2. QED
        BY <1>0, <4>1 DEF Earlier
    <3>2. CASE pc' # "end"
      <4>1. \/ scale = Len(Scales) /\ scale' = 1 /\ depth' = depth + 1
            \/ scale' = scale + 1 /\ depth' = depth
        BY <1>4, <1>5, <3>2 DEF FinishRun
      <4>2. i < depth' \/ (i = depth' /\ j < scale')
        BY <3>2 DEF Earlier
      <4>3. /\ i \in Nat /\ j \in Nat /\ j <= Len(Scales) /\ depth \in Nat /\ scale \in Nat
            /\ Len(Scales) \in Nat
        BY <1>0
      <4>4. i < depth \/ (i = depth /\ j <= scale)
        BY <4>1, <4>2, <4>3
      <4>5. QED
        BY <4>3, <4>4 DEF Earlier
    <3>3. QED
      BY <3>1, <3>2
  <2>3. QED
    BY <1>1, <1>2, <2>1, <2>2
<1>6. CASE UNCHANGED <<depth, scale>> /\ (pc' = "end" => pc = "end")
  BY <1>1, <1>2, <1>6 DEF Earlier
<1>7. (UNCHANGED <<depth, scale>> /\ (pc' = "end" => pc = "end")) \/ FinishRun
  BY <1>4 DEF Next, Engine, AddIndex, StartJob, AssertFails, Plan, BeginRun, EndVerify,
     NextBatch, StopBatches, SkipField, StartField, FieldsDone, VerifyField, KeepMatch, Timer,
     Quit, Exhaust, RecordField, UserCancels, OtherSolves, Ended, vars, planVars
<1>8. QED
  BY <1>5, <1>6, <1>7

\* What is covered of a job, run by run.
Coverage == FieldsKept /\ RunIsPlanned /\ QuitsForReason /\ RunCovered /\ EarlierCovered

\* Nothing is due before the first run.
LEMMA InitCoverage == Init => Coverage
<1> SUFFICES ASSUME Init PROVE Coverage
  OBVIOUS
<1>1. job.fields \in Seq(Nat) /\ fieldlist = job.fields
  BY JobParts DEF Init
<1>2. FieldsKept
  BY <1>1, RangeEquality DEF FieldsKept
<1>3. DOMAIN Depths = 1 .. Len(Depths) /\ DOMAIN Scales = 1 .. Len(Scales)
      /\ Len(Depths) \in Nat /\ Len(Scales) \in Nat
  BY JobParts, LenProperties DEF Init
<1>4. EarlierCovered
  BY <1>3 DEF Init, EarlierCovered, Earlier
<1>5. RunIsPlanned /\ QuitsForReason /\ RunCovered
  BY DEF Init, RunIsPlanned, QuitsForReason, RunCovered
<1>6. QED
  BY <1>2, <1>4, <1>5 DEF Coverage

\* A job that was neither cancelled nor out of time has searched each field that is
\* not solved with every index file asked for, at every depth and scale, provided no
\* depth without an end comes after one with an end.
THEOREM NothingLeftOut == Spec => [](OpenDepthsLead => SearchesEverything)
<1>1. Init => Coverage
  BY InitCoverage
<1>2. ASSUME TypeOK, IInv, SolvedSingly, VerifiesFirst, Coverage, [Next]_vars,
             TypeOK', IInv', SolvedSingly'
      PROVE  Coverage'
  <2>1. FieldsKept'
    BY <1>2, StepFields DEF Coverage
  <2>2. RunIsPlanned'
    BY <1>2, StepPlanned DEF Coverage
  <2>3. QuitsForReason'
    BY <1>2, StepQuits DEF Coverage
  <2>4. RunCovered'
    BY <1>2, <2>1, StepRunCovered DEF Coverage
  <2>5. EarlierCovered'
    BY <1>2, StepEarlierCovered DEF Coverage
  <2>6. QED
    BY <2>1, <2>2, <2>3, <2>4, <2>5 DEF Coverage
<1>3. Coverage => (OpenDepthsLead => SearchesEverything)
  <2> SUFFICES ASSUME EarlierCovered, OpenDepthsLead, pc = "end", Clean,
                      NEW f \in 1 .. NumFields, f \in Range(job.fields), f \notin won,
                      ~FieldSolved(f), NEW i \in DOMAIN Depths, NEW j \in DOMAIN Scales,
                      NEW k \in Asked(j)
               PROVE  Search(f, k, i, j) \in searched
    BY DEF Coverage, SearchesEverything, Clean
  <2>1. f \in ValidFields /\ Due(f)
    BY DEF Due, ValidFields
  <2>2. Done(f, i, j)
    BY <2>1 DEF EarlierCovered
  <2>3. QED
    BY <2>2 DEF Done
<1>4. QED
  BY <1>1, <1>2, <1>3, TypeCorrect, Invariance, SolvedKnown, PTL DEF Spec

===============================================================================
