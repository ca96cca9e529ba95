---------------------------- MODULE StoreProofs ----------------------------
(***************************************************************************)
(* Proof that updateBackend implements ReleaseStore under the mapping of   *)
(* Updater.tla (StoreCurrent, the record, RollbackReported), for every    *)
(* number of releases and jobs.  It rests on the invariants of            *)
(* UpdaterProofs.  updateFrontend does not refine it: its failed rollback  *)
(* empties the live path with no callback told.                           *)
(***************************************************************************)
EXTENDS UpdaterProofs

USE UpdaterAssumption

\* The image of the state under the refinement mapping.
storeMap == <<StoreCurrent, version, RollbackReported>>

\* The initial states map to initial states of ReleaseStore: release 1
\* installed, the record unknown or 1, no rollback failure.
LEMMA InitStore == Init => Store!Init
<1> SUFFICES ASSUME Init PROVE Store!Init
  OBVIOUS
<1>1. StoreCurrent = 1 /\ 1 \in Versions
  BY DEF Init, StoreCurrent, Versions
<1>2. ~RollbackReported
  BY DEF Init, RollbackReported, NoJob
<1>3. QED
  BY <1>1, <1>2 DEF Init, Store!Init, Unknown

\* A step of job j maps to a stutter, to Install(u.Latest) when it commits,
\* or to Break when its rollback rename fails.
LEMMA JobStore ==
    ASSUME IInv, TrackInv, Strategy = "backend", NEW j \in JobId, JobStep(j)
    PROVE  [Store!Next]_storeMap
<1>0. /\ jobs[j].pc \in Holding
      /\ \A k \in JobId \ {j} : jobs'[k] = jobs[k]
      /\ lock' \in {0, j}
  BY JobFrame
<1>1. /\ lock = j /\ j # 0 /\ ~jobs[j].rbFailed
      /\ jobs \in [JobId -> JobRecord]
  BY <1>0 DEF IInv, LockInv, RbInv, Holding, TypeOK, JobId
<1>2. TrackJob(j)
  BY DEF TrackInv
\* RollbackReported moves only with job j's rollback flag.
<1>3. jobs'[j].rbFailed = jobs[j].rbFailed => RollbackReported' = RollbackReported
  BY <1>0, <1>1 DEF RollbackReported
\* A step that keeps updateMu and job j's record of Lock().
<1>s. ASSUME lock' = j, jobs'[j].live0 = jobs[j].live0, version' = version,
             jobs'[j].rbFailed = jobs[j].rbFailed
      PROVE  UNCHANGED storeMap
  BY <1>1, <1>3, <1>s DEF storeMap, StoreCurrent
\* A return that leaves the live path as it was at Lock().
<1>r. ASSUME lock' = 0, live' = jobs[j].live0, version' = version,
             jobs'[j].rbFailed = jobs[j].rbFailed
      PROVE  UNCHANGED storeMap
  BY <1>1, <1>3, <1>r DEF storeMap, StoreCurrent
\* A return with the live path empty and ErrUpdateRollback reported.
<1>b. ASSUME lock' = 0, live' = NoFile, version' = version,
             jobs'[j].rbFailed, jobs'[j].reported
      PROVE  [Store!Next]_storeMap
  <2>1. RollbackReported'
    BY <1>b DEF RollbackReported
  <2>2. Store!Break
    BY <1>b, <2>1 DEF Store!Break, StoreCurrent
  <2>3. QED
    BY <2>2 DEF Store!Next
\* Fail keeps the flag and returns; the caller says where the live path is.
<1>f. ASSUME NEW e, Fail(j, e), live' = jobs[j].live0, version' = version
      PROVE  UNCHANGED storeMap
  BY <1>f, <1>r, FailFacts DEF IInv
\* A move to a phase that keeps the lock.
<1>m. ASSUME NEW p, jobs' = [jobs EXCEPT ![j].pc = p], lock' = lock,
             version' = version
      PROVE  UNCHANGED storeMap
  BY <1>1, <1>m, <1>s
<1>a. CASE BinFetchFail(j) \/ FeFetchFail(j)
  <2>1. PICK e : Fail(j, e)
    BY <1>a DEF BinFetchFail, FeFetchFail
  <2>2. QED
    BY <1>a, <1>2, <1>f, <2>1 DEF BinFetchFail, FeFetchFail, TrackJob
<1>c. CASE BinStage(j) \/ FeStall(j) \/ FeExtract(j)
  <2>1. jobs[j].pc = "fetch" /\ live' = live /\ version' = version
    BY <1>c DEF BinStage, FeStall, FeExtract
  <2>2. live = jobs[j].live0
    BY <1>2, <2>1 DEF TrackJob
  <2>3. QED
    BY <1>c, <1>f, <1>m, <2>1, <2>2 DEF BinStage, FeStall, FeExtract
<1>d. CASE BinBackup(j) \/ FeBackup(j)
  <2>1. jobs[j].pc = "staged" /\ live = jobs[j].live0 /\ version' = version
    BY <1>d, <1>2 DEF BinBackup, FeBackup, TrackJob
  <2>2. QED
    BY <1>d, <1>f, <1>m, <2>1 DEF BinBackup, FeBackup
<1>e. CASE BinSwap(j)
  <2>1. /\ jobs[j].pc = "backedup" /\ bak = jobs[j].live0 /\ live = NoFile
        /\ version' = version
    BY <1>e, <1>2 DEF BinSwap, TrackJob, IInv, BackedUpInv
  <2>2. CASE /\ live' = jobs[j].want /\ jobs' = [jobs EXCEPT ![j].pc = "swapped"]
             /\ lock' = lock
    BY <1>m, <2>1, <2>2
  <2>3. CASE live' = bak /\ Fail(j, "apply")
    BY <1>f, <2>1, <2>3
  <2>4. CASE /\ live' = live /\ lock' = 0
             /\ jobs' = [jobs EXCEPT ![j].pc = "done", ![j].err = "apply",
                                     ![j].reported = TRUE, ![j].rbFailed = TRUE]
    <3>1. jobs'[j].rbFailed /\ jobs'[j].reported
      BY <1>1, <2>4
    <3>2. QED
      BY <1>b, <2>1, <2>4, <3>1
  <2>5. QED
    BY <1>e, <2>2, <2>3, <2>4 DEF BinSwap
<1>g. CASE Commit(j)
  <2>0. BinCommit(j)
    BY <1>g DEF Commit, FeCommit
  <2>1. jobs[j].pc = "swapped" /\ live = jobs[j].want
    BY <2>0, <1>2 DEF BinCommit, TrackJob
  <2>2. jobs[j].want \in Versions
    BY <1>0 DEF IInv, WantInv, Holding
  <2>3. jobs'[j].rbFailed = jobs[j].rbFailed
    BY <2>0, <1>1 DEF BinCommit
  <2>4. /\ StoreCurrent' = jobs[j].want /\ version' = jobs[j].want
        /\ RollbackReported' = RollbackReported
    BY <2>0, <1>3, <2>1, <2>3 DEF BinCommit, StoreCurrent
  <2>5. QED
    BY <2>2, <2>4 DEF Store!Next, Store!Install
<1>h. QED
  BY <1>a, <1>c, <1>d, <1>e, <1>g DEF JobStep, Store!Next, FeStall, FeExtract,
     FeBackup, FeSwap

\* Every step of the engine maps to a step of ReleaseStore or a stutter.
LEMMA NextStore ==
    ASSUME Strategy = "backend"
    PROVE  IInv /\ TrackInv /\ [Next]_vars => [Store!Next]_storeMap
<1> SUFFICES ASSUME IInv, TrackInv, [Next]_vars PROVE [Store!Next]_storeMap
  OBVIOUS
<1>0. jobs \in [JobId -> JobRecord]
  BY DEF IInv, TypeOK
<1>1. CASE Notify
  <2> DEFINE n == njobs + 1
  <2>1. n \in JobId /\ jobs[n] = NoJob
    BY <1>1 DEF Notify, IInv, TypeOK, FreshJobs, JobId
  <2>2. lock # n
    BY <2>1 DEF IInv, LockInv, NoJob, Holding
  <2>3. \A k \in JobId \ {n} : jobs'[k] = jobs[k]
    BY <1>0, <1>1 DEF Notify
  <2>4. ~jobs'[n].rbFailed /\ ~jobs[n].rbFailed
    BY <1>0, <1>1, <2>1 DEF Notify, NoJob
  <2>5. RollbackReported' = RollbackReported
    BY <2>3, <2>4 DEF RollbackReported
  <2>6. QED
    BY <1>1, <2>2, <2>3, <2>5 DEF Notify, storeMap, StoreCurrent, IInv, TypeOK
<1>2. CASE Release \/ HeartbeatQuiet \/ UNCHANGED vars
  BY <1>2 DEF Release, HeartbeatQuiet, vars, storeMap, StoreCurrent,
     RollbackReported
<1>3. ASSUME NEW j \in JobId, Acquire(j) PROVE [Store!Next]_storeMap
  <2>1. lock = 0 /\ lock' = j /\ j # 0
    BY <1>3 DEF Acquire, JobId
  <2>2. /\ jobs'[j].live0 = live /\ jobs'[j].rbFailed = jobs[j].rbFailed
        /\ jobs'[j].reported = jobs[j].reported
    BY <1>0, <1>3 DEF Acquire
  <2>3. \A k \in JobId \ {j} : jobs'[k] = jobs[k]
    BY <1>0, <1>3 DEF Acquire
  <2>4. RollbackReported' = RollbackReported
    BY <2>2, <2>3 DEF RollbackReported
  <2>5. QED
    BY <1>3, <2>1, <2>2, <2>4 DEF Acquire, storeMap, StoreCurrent
<1>4. ASSUME NEW j \in JobId, JobStep(j) PROVE [Store!Next]_storeMap
  BY <1>4, JobStore
<1>5. QED
  BY <1>1, <1>2, <1>3, <1>4 DEF Next

\* updateBackend implements ReleaseStore: seen from outside updateMu, an
\* update installs its release and sets the record in one step, or loses
\* the release in the step that hands OnUpdateResult ErrUpdateRollback;
\* no other step of the engine or the dispatch changes any of the three.
THEOREM StoreRefinedHolds ==
    ASSUME Strategy = "backend"
    PROVE  Spec => StoreRefined
<1>1. Init => IInv /\ TrackInv
  BY InitIInv, InitTrack
<1>2. IInv /\ TrackInv /\ [Next]_vars => (IInv /\ TrackInv)'
  BY IInvNext, TrackNext
<1>3. Init => Store!Init
  BY InitStore
<1>4. IInv /\ TrackInv /\ [Next]_vars => [Store!Next]_storeMap
  BY NextStore
<1>5. QED
  BY <1>1, <1>2, <1>3, <1>4, PTL DEF Spec, StoreRefined, Store!Spec,
     Store!storeVars, storeMap

=============================================================================
