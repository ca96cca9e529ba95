--------------------------- MODULE UpdaterProofs ---------------------------
(***************************************************************************)
(* Proofs about Updater for every value of its constants: the type         *)
(* invariant, and that a complete release is always on disk unless a      *)
(* rollback has failed (IntactCopy).                                       *)
(***************************************************************************)
EXTENDS Updater, TLAPS

USE UpdaterAssumption

\* A dispatched job always targets a real release (u.Latest of a notification).
WantInv == \A j \in JobId : jobs[j].pc # "idle" => jobs[j].want \in Versions

\* The phases in which a job holds updateMu (FeStall's job never lets go).
Holding == {"fetch", "staged", "backedup", "swapped", "stalled"}

\* updateMu is held by exactly the job in a holding phase.
LockInv == \A j \in JobId : (jobs[j].pc \in Holding) <=> (lock = j)

\* Notify fills the slots in order: the slots above njobs are untouched.
FreshJobs == \A j \in JobId : j > njobs => jobs[j] = NoJob

\* Between the two renames the live path is empty; after the second it
\* holds a release.
BackedUpInv == \A j \in JobId : jobs[j].pc = "backedup" => live = NoFile
SwappedInv == \A j \in JobId : jobs[j].pc = "swapped" => live \in Versions

\* An empty live path is the window of a swap with the old release at
\* .bak, or the aftermath of a failed rollback.
MissingInv ==
    live = NoFile =>
        \/ RollbackHasFailed
        \/ (\E j \in JobId : jobs[j].pc = "backedup") /\ bak \in Versions

\* Only a job that has returned can have seen its rollback fail.
RbInv == \A j \in JobId : jobs[j].rbFailed => jobs[j].pc = "done"

\* The inductive invariant behind IntactCopy.
IInv == /\ TypeOK /\ WantInv /\ LockInv /\ FreshJobs /\ RbInv
        /\ BackedUpInv /\ SwappedInv /\ MissingInv

\* The record a Notify writes is a well-typed waiting job.
LEMMA NewJobType ==
    ASSUME latest \in Versions
    PROVE  [NoJob EXCEPT !.pc = "wait", !.want = latest] \in JobRecord
BY DEF NoJob, JobRecord, Pcs, ErrClasses, Versions, Unknown, NoFile

\* The record of a slot no Notify has filled is well typed.
LEMMA NoJobType == NoJob \in JobRecord
BY DEF NoJob, JobRecord, Pcs, ErrClasses, Versions, Unknown, NoFile

\* Fail keeps the jobs and the lock well typed.
LEMMA FailType ==
    ASSUME TypeOK, NEW j \in JobId, NEW e \in ErrClasses, Fail(j, e)
    PROVE  jobs' \in [JobId -> JobRecord] /\ lock' \in JobId \cup {0}
<1>1. [jobs[j] EXCEPT !.pc = "done", !.err = e,
                      !.reported = (Strategy = "backend")] \in JobRecord
  BY DEF TypeOK, JobRecord, Pcs
<1>2. QED
  BY <1>1 DEF Fail, TypeOK

\* Every step keeps every variable in its set.
LEMMA TypeNext == TypeOK /\ WantInv /\ [Next]_vars => TypeOK'
<1> SUFFICES ASSUME TypeOK, WantInv, [Next]_vars PROVE TypeOK'
  OBVIOUS
<1>1. CASE Notify
  <2>1. njobs + 1 \in JobId
    BY <1>1 DEF Notify, TypeOK, JobId
  <2>2. [NoJob EXCEPT !.pc = "wait", !.want = latest] \in JobRecord
    BY NewJobType DEF TypeOK
  <2>3. jobs' \in [JobId -> JobRecord]
    BY <1>1, <2>1, <2>2 DEF Notify, TypeOK
  <2>4. QED
    BY <1>1, <2>3 DEF Notify, TypeOK
<1>2. CASE HeartbeatQuiet
  BY <1>2 DEF HeartbeatQuiet, vars, TypeOK
<1>3. CASE Release
  BY <1>3 DEF Release, TypeOK, Versions
<1>4. ASSUME NEW j \in JobId, Acquire(j) PROVE TypeOK'
  <2>1. (IF Strategy = "backend" THEN version ELSE Unknown) \in Versions \cup {Unknown}
    BY DEF TypeOK
  <2>2. [jobs[j] EXCEPT !.pc = "fetch", !.live0 = live,
            !.old = IF Strategy = "backend" THEN version ELSE Unknown] \in JobRecord
    BY <2>1 DEF TypeOK, JobRecord, Pcs
  <2>3. jobs' \in [JobId -> JobRecord]
    BY <1>4, <2>2 DEF Acquire, TypeOK
  <2>4. QED
    BY <1>4, <2>3 DEF Acquire, TypeOK
<1>5. ASSUME NEW j \in JobId, JobStep(j) PROVE TypeOK'
  <2> USE DEF TypeOK
  <2>1. CASE BinFetchFail(j)
    BY <2>1, FailType DEF BinFetchFail, BinFetchErrors, ErrClasses
  <2>2. CASE BinStage(j)
    BY <2>2, FailType DEF BinStage, JobRecord, Pcs, ErrClasses
  <2>3. CASE BinBackup(j)
    BY <2>3, FailType DEF BinBackup, JobRecord, Pcs, ErrClasses, NoFile
  <2>4. CASE BinSwap(j)
    <3>1. jobs[j].want \in Versions
      BY <2>4 DEF BinSwap, WantInv
    <3>2. QED
      BY <2>4, <3>1, FailType DEF BinSwap, JobRecord, Pcs, ErrClasses, NoFile
  <2>5. CASE FeFetchFail(j)
    BY <2>5, FailType DEF FeFetchFail, ErrClasses
  <2>6. CASE FeStall(j)
    BY <2>6 DEF FeStall, JobRecord, Pcs
  <2>7. CASE FeExtract(j)
    BY <2>7 DEF FeExtract, JobRecord, Pcs
  <2>8. CASE FeBackup(j)
    BY <2>8, FailType DEF FeBackup, JobRecord, Pcs, ErrClasses, NoFile
  <2>9. CASE FeSwap(j)
    <3>1. jobs[j].want \in Versions
      BY <2>9 DEF FeSwap, WantInv
    <3>2. QED
      BY <2>9, <3>1, FailType DEF FeSwap, JobRecord, Pcs, ErrClasses, NoFile
  <2>10. CASE Commit(j)
    <3>1. jobs[j].want \in Versions
      BY <2>10 DEF Commit, BinCommit, FeCommit, WantInv
    <3>4. jobs' \in [JobId -> JobRecord]
      <4>1. CASE BinCommit(j)
        <5>1. [jobs[j] EXCEPT !.pc = "done", !.ok = TRUE, !.reported = TRUE]
                \in JobRecord
          BY DEF JobRecord, Pcs
        <5>2. QED
          BY <4>1, <5>1 DEF BinCommit
      <4>2. CASE FeCommit(j)
        <5>1. [jobs[j] EXCEPT !.pc = "done", !.ok = TRUE, !.reported = TRUE,
                 !.old = version] \in JobRecord
          BY DEF JobRecord, Pcs
        <5>2. QED
          BY <4>2, <5>1 DEF FeCommit
      <4>3. QED
        BY <2>10, <4>1, <4>2 DEF Commit
    <3>5. QED
      BY <2>10, <3>1, <3>4 DEF Commit, BinCommit, FeCommit
  <2>11. QED
    BY <1>5, <2>1, <2>2, <2>3, <2>4, <2>5, <2>6, <2>7, <2>8, <2>9, <2>10
    DEF JobStep
<1>6. CASE UNCHANGED vars
  BY <1>6 DEF vars, TypeOK
<1>7. QED
  BY <1>1, <1>2, <1>3, <1>4, <1>5, <1>6 DEF Next

\* A failing return: job j is done, the lock free, no other job touched.
LEMMA FailFacts ==
    ASSUME TypeOK, NEW j \in JobId, NEW e, Fail(j, e)
    PROVE  /\ jobs'[j].pc = "done"
           /\ jobs'[j].rbFailed = jobs[j].rbFailed
           /\ jobs'[j].want = jobs[j].want
           /\ \A k \in JobId \ {j} : jobs'[k] = jobs[k]
           /\ lock' = 0
BY DEF Fail, TypeOK, JobRecord

\* The installed release, the optional old backup and the empty slots of
\* New() satisfy the strengthening.
LEMMA InitIInv == Init => IInv
<1> SUFFICES ASSUME Init PROVE IInv
  OBVIOUS
<1>1. TypeOK
  BY NoJobType DEF Init, TypeOK, Versions, Unknown, NoFile
<1>2. WantInv /\ FreshJobs /\ BackedUpInv /\ SwappedInv /\ RbInv
  BY DEF Init, WantInv, FreshJobs, BackedUpInv, SwappedInv, RbInv, NoJob
<1>5. LockInv
  BY DEF Init, LockInv, NoJob, Holding, JobId
<1>3. MissingInv
  BY DEF Init, MissingInv, NoFile, Versions
<1>4. QED
  BY <1>1, <1>2, <1>3, <1>5 DEF IInv

\* A step that changes no variable the invariant reads but latest.
LEMMA ReleaseIInv ==
    ASSUME IInv, Release \/ HeartbeatQuiet \/ UNCHANGED vars
    PROVE  IInv'
<1>1. TypeOK'
  BY TypeNext DEF IInv, Next
<1>2. UNCHANGED <<version, live, bak, lock, jobs, njobs>>
  BY DEF Release, HeartbeatQuiet, vars
<1>3. QED
  BY <1>1, <1>2 DEF IInv, WantInv, LockInv, FreshJobs, RbInv, BackedUpInv,
     SwappedInv, MissingInv, RollbackHasFailed

\* A new goroutine takes the first untouched slot, in phase "wait".
LEMMA NotifyIInv ==
    ASSUME IInv, Notify
    PROVE  IInv'
<1> DEFINE n == njobs + 1
<1>1. TypeOK'
  BY TypeNext DEF IInv, Next
<1>2. n \in JobId /\ jobs[n] = NoJob
  BY DEF Notify, IInv, TypeOK, FreshJobs, JobId
<1>3. jobs'[n].pc = "wait" /\ jobs'[n].want = latest /\ ~jobs'[n].rbFailed
  BY <1>2 DEF Notify, IInv, TypeOK, NoJob
<1>4. \A k \in JobId \ {n} : jobs'[k] = jobs[k]
  BY DEF Notify, IInv, TypeOK
<1>5. lock # n
  BY <1>2 DEF IInv, LockInv, NoJob, Holding
<1>6. UNCHANGED <<live, bak, lock, latest>>
  BY DEF Notify
<1>7. WantInv'
  BY <1>3, <1>4 DEF IInv, WantInv, TypeOK
<1>8. LockInv'
  BY <1>2, <1>3, <1>4, <1>5, <1>6 DEF IInv, LockInv, Holding
<1>9. FreshJobs'
  BY <1>4 DEF Notify, IInv, FreshJobs, JobId, TypeOK
<1>10. BackedUpInv' /\ SwappedInv'
  BY <1>3, <1>4, <1>6 DEF IInv, BackedUpInv, SwappedInv
<1>11. RollbackHasFailed' = RollbackHasFailed
  BY <1>2, <1>3, <1>4 DEF RollbackHasFailed, NoJob
<1>12. (\E j \in JobId : jobs'[j].pc = "backedup") =
         (\E j \in JobId : jobs[j].pc = "backedup")
  BY <1>2, <1>3, <1>4 DEF NoJob
<1>13. MissingInv'
  BY <1>6, <1>11, <1>12 DEF IInv, MissingInv
<1>15. RbInv'
  BY <1>3, <1>4 DEF IInv, RbInv
<1>14. QED
  BY <1>1, <1>7, <1>8, <1>9, <1>10, <1>13, <1>15 DEF IInv

\* Taking the free lock: no job was between the renames, so an empty live
\* path can only come from a failed rollback.
LEMMA AcquireIInv ==
    ASSUME IInv, NEW j \in JobId, Acquire(j)
    PROVE  IInv'
<1>1. TypeOK'
  BY TypeNext DEF IInv, Next
<1>2. \A k \in JobId : jobs[k].pc \notin Holding
  BY DEF Acquire, IInv, LockInv, JobId
<1>3. /\ jobs'[j].pc = "fetch" /\ jobs'[j].want = jobs[j].want
      /\ jobs'[j].rbFailed = jobs[j].rbFailed
      /\ \A k \in JobId \ {j} : jobs'[k] = jobs[k]
  BY DEF Acquire, IInv, TypeOK
<1>4. UNCHANGED <<live, bak, njobs>> /\ lock' = j
  BY DEF Acquire
<1>5. WantInv'
  BY <1>3 DEF Acquire, IInv, WantInv
<1>6. LockInv'
  BY <1>2, <1>3, <1>4 DEF IInv, LockInv, Holding
<1>7. FreshJobs'
  <2>1. ~(j > njobs)
    BY DEF Acquire, IInv, FreshJobs, NoJob
  <2>2. QED
    BY <1>3, <1>4, <2>1 DEF IInv, FreshJobs
<1>8. BackedUpInv' /\ SwappedInv'
  BY <1>2, <1>3, <1>4 DEF IInv, BackedUpInv, SwappedInv, Holding
<1>9. RollbackHasFailed' = RollbackHasFailed
  BY <1>3 DEF RollbackHasFailed
<1>10. MissingInv'
  BY <1>2, <1>4, <1>9 DEF IInv, MissingInv, Holding
<1>12. RbInv'
  BY <1>3 DEF Acquire, IInv, RbInv
<1>11. QED
  BY <1>1, <1>5, <1>6, <1>7, <1>8, <1>10, <1>12 DEF IInv

\* What every step of a job shares: it is the lock holder, it touches only
\* its own record and never its target, and it keeps or frees the lock.
LEMMA JobFrame ==
    ASSUME IInv, NEW j \in JobId, JobStep(j)
    PROVE  /\ jobs[j].pc \in Holding
           /\ \A k \in JobId \ {j} : jobs'[k] = jobs[k]
           /\ jobs'[j].want = jobs[j].want
           /\ jobs'[j].pc # "idle"
           /\ njobs' = njobs
           /\ lock' \in {0, j}
           /\ (lock' = j) <=> (jobs'[j].pc \in Holding)
           /\ jobs'[j].pc = "done" \/ jobs'[j].rbFailed = jobs[j].rbFailed
<1>0. TypeOK /\ (lock = j <=> jobs[j].pc \in Holding)
  BY DEF IInv, LockInv
<1>j. j # 0
  BY DEF JobId
\* The failing returns, shared by every action below.
<1>f. ASSUME NEW e, Fail(j, e), jobs[j].pc \in Holding, njobs' = njobs
      PROVE  /\ jobs[j].pc \in Holding
             /\ \A k \in JobId \ {j} : jobs'[k] = jobs[k]
             /\ jobs'[j].want = jobs[j].want
             /\ jobs'[j].pc # "idle"
             /\ njobs' = njobs
             /\ lock' \in {0, j}
             /\ (lock' = j) <=> (jobs'[j].pc \in Holding)
             /\ jobs'[j].pc = "done" \/ jobs'[j].rbFailed = jobs[j].rbFailed
  BY <1>0, <1>j, <1>f, FailFacts DEF Holding
\* The steps that keep the lock and move job j to phase p.
<1>m. ASSUME NEW p \in Holding, jobs[j].pc \in Holding,
             jobs' = [jobs EXCEPT ![j].pc = p], lock' = lock, njobs' = njobs
      PROVE  /\ jobs[j].pc \in Holding
             /\ \A k \in JobId \ {j} : jobs'[k] = jobs[k]
             /\ jobs'[j].want = jobs[j].want
             /\ jobs'[j].pc # "idle"
             /\ njobs' = njobs
             /\ lock' \in {0, j}
             /\ (lock' = j) <=> (jobs'[j].pc \in Holding)
             /\ jobs'[j].pc = "done" \/ jobs'[j].rbFailed = jobs[j].rbFailed
  BY <1>0, <1>m DEF Holding, TypeOK
<1>1. CASE BinFetchFail(j)
  <2>1. PICK e \in {"download", "verify"} : Fail(j, e)
    BY <1>1 DEF BinFetchFail, BinFetchErrors
  <2>2. QED
    BY <1>1, <2>1, <1>f DEF BinFetchFail, Holding
<1>2. CASE FeFetchFail(j)
  <2>1. PICK e \in {"download", "verify", "apply"} : Fail(j, e)
    BY <1>2 DEF FeFetchFail
  <2>2. QED
    BY <1>2, <2>1, <1>f DEF FeFetchFail, Holding
<1>3. CASE BinStage(j)
  <2>1. jobs[j].pc \in Holding /\ njobs' = njobs
    BY <1>3 DEF BinStage, Holding
  <2>2. QED
    BY <1>3, <2>1, <1>f, <1>m DEF BinStage, Holding
<1>4. CASE BinBackup(j)
  <2>1. jobs[j].pc \in Holding /\ njobs' = njobs
    BY <1>4 DEF BinBackup, Holding
  <2>2. QED
    BY <1>4, <2>1, <1>f, <1>m DEF BinBackup, Holding
<1>5. CASE FeBackup(j)
  <2>1. jobs[j].pc \in Holding /\ njobs' = njobs
    BY <1>5 DEF FeBackup, Holding
  <2>2. QED
    BY <1>5, <2>1, <1>f, <1>m DEF FeBackup, Holding
<1>6. CASE BinSwap(j)
  <2>1. jobs[j].pc \in Holding /\ njobs' = njobs
    BY <1>6 DEF BinSwap, Holding
  <2>2. CASE jobs' = [jobs EXCEPT ![j].pc = "done", ![j].err = "apply",
                        ![j].reported = TRUE, ![j].rbFailed = TRUE]
             /\ lock' = 0
    <3>1. /\ jobs'[j].pc = "done" /\ jobs'[j].want = jobs[j].want
          /\ \A k \in JobId \ {j} : jobs'[k] = jobs[k]
      BY <2>2, <1>0 DEF TypeOK
    <3>2. QED
      BY <2>1, <2>2, <3>1, <1>j DEF Holding
  <2>3. QED
    BY <1>6, <2>1, <2>2, <1>f, <1>m DEF BinSwap, Holding
<1>7. CASE FeSwap(j)
  <2>1. jobs[j].pc \in Holding /\ njobs' = njobs
    BY <1>7 DEF FeSwap, Holding
  <2>2. CASE jobs' = [jobs EXCEPT ![j].pc = "done", ![j].err = "apply",
                        ![j].rbFailed = (bak # NoFile)]
             /\ lock' = 0
    BY <2>1, <2>2, <1>0, <1>j DEF Holding, TypeOK
  <2>3. QED
    BY <1>7, <2>1, <2>2, <1>f, <1>m DEF FeSwap, Holding
<1>8. CASE FeStall(j) \/ FeExtract(j)
  BY <1>8, <1>m DEF FeStall, FeExtract, Holding
<1>9. CASE Commit(j)
  <2>1. CASE BinCommit(j)
    BY <2>1, <1>0, <1>j DEF BinCommit, Holding, TypeOK
  <2>2. CASE FeCommit(j)
    BY <2>2, <1>0, <1>j DEF FeCommit, Holding, TypeOK
  <2>3. QED
    BY <1>9, <2>1, <2>2 DEF Commit
<1>10. QED
  BY <1>1, <1>2, <1>3, <1>4, <1>5, <1>6, <1>7, <1>8, <1>9 DEF JobStep

\* The lock, target and slot bookkeeping survive every step of a job.
LEMMA JobBookkeeping ==
    ASSUME IInv, NEW j \in JobId, JobStep(j)
    PROVE  WantInv' /\ LockInv' /\ FreshJobs' /\ RbInv'
<1>0. /\ jobs[j].pc \in Holding
      /\ \A k \in JobId \ {j} : jobs'[k] = jobs[k]
      /\ jobs'[j].want = jobs[j].want
      /\ jobs'[j].pc # "idle"
      /\ njobs' = njobs
      /\ lock' \in {0, j}
      /\ (lock' = j) <=> (jobs'[j].pc \in Holding)
      /\ jobs'[j].pc = "done" \/ jobs'[j].rbFailed = jobs[j].rbFailed
  BY JobFrame
<1>1. lock = j
  BY <1>0 DEF IInv, LockInv
<1>2. \A k \in JobId \ {j} : jobs[k].pc \notin Holding
  BY <1>1 DEF IInv, LockInv
<1>3. ~(j > njobs)
  BY <1>0 DEF IInv, FreshJobs, NoJob, Holding
<1>4. WantInv'
  <2> SUFFICES ASSUME NEW k \in JobId, jobs'[k].pc # "idle"
               PROVE  jobs'[k].want \in Versions
    BY DEF WantInv
  <2>1. CASE k = j
    BY <1>0, <2>1 DEF IInv, WantInv, Holding
  <2>2. CASE k # j
    BY <1>0, <2>2 DEF IInv, WantInv
  <2>3. QED
    BY <2>1, <2>2
<1>5. LockInv'
  <2> SUFFICES ASSUME NEW k \in JobId
               PROVE  (jobs'[k].pc \in Holding) <=> (lock' = k)
    BY DEF LockInv
  <2>1. CASE k = j
    BY <1>0, <2>1
  <2>2. CASE k # j
    BY <1>0, <1>2, <2>2 DEF JobId
  <2>3. QED
    BY <2>1, <2>2
<1>6. FreshJobs'
  <2> SUFFICES ASSUME NEW k \in JobId, k > njobs'
               PROVE  jobs'[k] = NoJob
    BY DEF FreshJobs
  <2>1. k # j
    BY <1>0, <1>3 DEF JobId
  <2>2. QED
    BY <1>0, <2>1 DEF IInv, FreshJobs
<1>8. RbInv'
  <2> SUFFICES ASSUME NEW k \in JobId, jobs'[k].rbFailed
               PROVE  jobs'[k].pc = "done"
    BY DEF RbInv
  <2>1. CASE k = j
    BY <1>0, <2>1 DEF IInv, RbInv, Holding
  <2>2. CASE k # j
    BY <1>0, <2>2 DEF IInv, RbInv
  <2>3. QED
    BY <2>1, <2>2
<1>7. QED
  BY <1>4, <1>5, <1>6, <1>8

\* The disk facts survive every step of a job: only job j can be between
\* the renames, and each rename either leaves a release at one of the two
\* paths or records the failed rollback.
LEMMA JobDisk ==
    ASSUME IInv, NEW j \in JobId, JobStep(j)
    PROVE  BackedUpInv' /\ SwappedInv' /\ MissingInv'
<1>0. /\ jobs[j].pc \in Holding
      /\ \A k \in JobId \ {j} : jobs'[k] = jobs[k]
      /\ lock' \in {0, j}
  BY JobFrame
<1>1. \A k \in JobId \ {j} : jobs[k].pc \notin Holding
  <2>1. lock = j
    BY <1>0 DEF IInv, LockInv
  <2>2. QED
    BY <2>1 DEF IInv, LockInv
<1>2. \A k \in JobId \ {j} :
        jobs'[k].pc \notin {"backedup", "swapped"} /\ jobs[k].pc # "backedup"
  BY <1>0, <1>1 DEF Holding
<1>3. RollbackHasFailed => RollbackHasFailed'
  <2>1. ~jobs[j].rbFailed
    BY <1>0 DEF IInv, RbInv, Holding
  <2>2. QED
    BY <1>0, <2>1 DEF RollbackHasFailed
<1>4. jobs[j].want \in Versions
  BY <1>0 DEF IInv, WantInv, Holding
<1>5. ASSUME jobs'[j].pc = "backedup" => live' = NoFile,
             jobs'[j].pc = "swapped" => live' \in Versions,
             live' = NoFile =>
               RollbackHasFailed' \/ (jobs'[j].pc = "backedup" /\ bak' \in Versions)
      PROVE  BackedUpInv' /\ SwappedInv' /\ MissingInv'
  BY <1>2, <1>5 DEF BackedUpInv, SwappedInv, MissingInv
<1>6. (\A k \in JobId : jobs[k].pc # "backedup") => (live = NoFile => RollbackHasFailed)
  BY DEF IInv, MissingInv
<1>7. jobs[j].pc = "backedup" =>
        live = NoFile /\ (RollbackHasFailed \/ bak \in Versions)
  BY DEF IInv, BackedUpInv, MissingInv
<1>8. ASSUME jobs[j].pc # "backedup", jobs'[j].pc \notin {"backedup", "swapped"},
             live' = live
      PROVE  BackedUpInv' /\ SwappedInv' /\ MissingInv'
  BY <1>2, <1>3, <1>5, <1>6, <1>8
<1>9. ASSUME NEW e, Fail(j, e) PROVE jobs'[j].pc = "done" /\ lock' = 0
  BY <1>9, FailFacts DEF IInv
<1>a. CASE BinFetchFail(j) \/ FeFetchFail(j)
  <2>1. PICK e : Fail(j, e)
    BY <1>a DEF BinFetchFail, FeFetchFail
  <2>2. QED
    BY <1>a, <1>8, <1>9, <2>1 DEF BinFetchFail, FeFetchFail
<1>b. CASE BinStage(j)
  <2>1. CASE jobs' = [jobs EXCEPT ![j].pc = "staged"]
    <3>1. jobs'[j].pc = "staged"
      BY <2>1 DEF IInv, TypeOK
    <3>2. QED
      BY <1>b, <1>8, <3>1 DEF BinStage
  <2>2. CASE Fail(j, "apply")
    BY <1>b, <1>8, <1>9, <2>2 DEF BinStage
  <2>3. QED
    BY <1>b, <2>1, <2>2 DEF BinStage
<1>c. CASE FeStall(j) \/ FeExtract(j)
  <2>0. jobs \in [JobId -> JobRecord]
    BY DEF IInv, TypeOK
  <2>1. CASE FeStall(j)
    <3>1. jobs'[j].pc = "stalled" /\ jobs[j].pc = "fetch" /\ live' = live
      BY <2>0, <2>1 DEF FeStall
    <3>2. QED
      BY <1>8, <3>1
  <2>2. CASE FeExtract(j)
    <3>1. jobs'[j].pc = "staged" /\ jobs[j].pc = "fetch" /\ live' = live
      BY <2>0, <2>2 DEF FeExtract
    <3>2. QED
      BY <1>8, <3>1
  <2>3. QED
    BY <1>c, <2>1, <2>2
<1>d. CASE BinBackup(j) \/ FeBackup(j)
  <2>1. jobs[j].pc = "staged" /\ live \in Versions \cup {NoFile}
    BY <1>d DEF BinBackup, FeBackup, IInv, TypeOK
  <2>2. CASE /\ live # NoFile /\ bak' = live /\ live' = NoFile
             /\ jobs' = [jobs EXCEPT ![j].pc = "backedup"]
    BY <1>5, <2>1, <2>2 DEF IInv, TypeOK
  <2>3. CASE bak' = NoFile /\ live' = live /\ Fail(j, "apply")
    BY <1>2, <1>3, <1>5, <1>6, <1>9, <2>1, <2>3
  <2>4. CASE /\ live = NoFile /\ live' = live
             /\ jobs' = [jobs EXCEPT ![j].pc = "backedup"]
    BY <1>2, <1>3, <1>5, <1>6, <2>1, <2>4 DEF IInv, TypeOK
  <2>5. QED
    BY <1>d, <2>2, <2>3, <2>4 DEF BinBackup, FeBackup
<1>e. CASE BinSwap(j) \/ FeSwap(j)
  <2>1. jobs[j].pc = "backedup" /\ live = NoFile /\ (RollbackHasFailed \/ bak \in Versions)
    BY <1>e, <1>7 DEF BinSwap, FeSwap
  <2>2. CASE live' = jobs[j].want /\ jobs' = [jobs EXCEPT ![j].pc = "swapped"]
    <3>1. jobs'[j].pc = "swapped"
      BY <2>2 DEF IInv, TypeOK
    <3>2. live' \in Versions /\ live' # NoFile
      BY <1>4, <2>2 DEF Versions, NoFile
    <3>3. QED
      BY <1>5, <3>1, <3>2
  <2>3. CASE live' = bak /\ Fail(j, "apply")
    <3>1. jobs'[j].pc = "done"
      BY <1>9, <2>3
    <3>2. live' = NoFile => RollbackHasFailed
      BY <2>1, <2>3 DEF NoFile, Versions
    <3>3. QED
      BY <1>3, <1>5, <3>1, <3>2
  <2>4. CASE jobs' = [jobs EXCEPT ![j].pc = "done", ![j].err = "apply",
                                  ![j].reported = TRUE, ![j].rbFailed = TRUE]
    <3>1. jobs'[j].rbFailed /\ jobs'[j].pc = "done"
      BY <2>4 DEF IInv, TypeOK
    <3>2. QED
      BY <1>5, <3>1 DEF RollbackHasFailed
  <2>5. CASE /\ bak = NoFile /\ live' = live
             /\ jobs' = [jobs EXCEPT ![j].pc = "done", ![j].err = "apply",
                                     ![j].rbFailed = (bak # NoFile)]
    <3>1. jobs'[j].pc = "done"
      BY <2>5 DEF IInv, TypeOK
    <3>2. QED
      BY <1>3, <1>5, <2>1, <3>1, <2>5 DEF NoFile, Versions
  <2>6. CASE /\ bak # NoFile
             /\ jobs' = [jobs EXCEPT ![j].pc = "done", ![j].err = "apply",
                                     ![j].rbFailed = (bak # NoFile)]
    <3>1. jobs'[j].rbFailed = (bak # NoFile) /\ jobs'[j].pc = "done"
      BY <2>6 DEF IInv, TypeOK
    <3>2. jobs'[j].rbFailed
      BY <2>6, <3>1
    <3>3. QED
      BY <1>5, <3>1, <3>2 DEF RollbackHasFailed
  <2>7. QED
    BY <1>e, <2>2, <2>3, <2>4, <2>5, <2>6 DEF BinSwap, FeSwap
<1>f. CASE Commit(j)
  <2>1. live \in Versions /\ live' = live /\ jobs'[j].pc = "done"
    <3>1. CASE BinCommit(j)
      BY <3>1 DEF BinCommit, IInv, SwappedInv, TypeOK
    <3>2. CASE FeCommit(j)
      BY <3>2 DEF FeCommit, IInv, SwappedInv, TypeOK
    <3>3. QED
      BY <1>f, <3>1, <3>2 DEF Commit
  <2>2. QED
    BY <1>5, <2>1 DEF NoFile, Versions
<1>g. QED
  BY <1>a, <1>b, <1>c, <1>d, <1>e, <1>f DEF JobStep

\* IInv is inductive.
LEMMA IInvNext == IInv /\ [Next]_vars => IInv'
<1> SUFFICES ASSUME IInv, [Next]_vars PROVE IInv'
  OBVIOUS
<1>1. CASE Notify
  BY <1>1, NotifyIInv
<1>2. CASE Release \/ HeartbeatQuiet \/ UNCHANGED vars
  BY <1>2, ReleaseIInv
<1>3. ASSUME NEW j \in JobId, Acquire(j) PROVE IInv'
  BY <1>3, AcquireIInv
<1>4. ASSUME NEW j \in JobId, JobStep(j) PROVE IInv'
  <2>1. TypeOK'
    BY <1>4, TypeNext DEF IInv, Next
  <2>2. QED
    BY <1>4, <2>1, JobBookkeeping, JobDisk DEF IInv
<1>5. QED
  BY <1>1, <1>2, <1>3, <1>4 DEF Next

\* The strengthening implies the property: with no failed rollback, an
\* empty live path means a swap is between its renames with .bak full.
LEMMA IInvIntact == IInv => IntactCopy
BY DEF IInv, TypeOK, MissingInv, IntactCopy

\* Every reachable state of the update engine is well typed, for every
\* strategy, number of releases and number of dispatched goroutines.
THEOREM UpdaterTypeCorrect == Spec => []TypeOK
<1>1. IInv => TypeOK
  BY DEF IInv
<1>2. QED
  BY <1>1, InitIInv, IInvNext, PTL DEF Spec

\* Through every update of either strategy (the two renames of
\* update.Apply or of updateFrontend, their failures and rollbacks), a
\* complete release stays at the live path or at the backup path unless a
\* rollback rename has failed.
THEOREM IntactCopyHolds == Spec => []IntactCopy
BY InitIInv, IInvNext, IInvIntact, PTL DEF Spec

-----------------------------------------------------------------------------
(* The version record.                                                     *)

\* What a job holding updateMu knows of the disk: until the first rename
\* the live path holds what it held at Lock(), after it .bak does, after
\* the second rename the live path holds u.Latest; and a known record
\* named the live release when the job took the lock.
TrackJob(j) ==
    /\ jobs[j].pc \in {"fetch", "staged", "stalled"} => live = jobs[j].live0
    /\ jobs[j].pc = "backedup" => bak = jobs[j].live0
    /\ jobs[j].pc = "swapped" => live = jobs[j].want
    /\ jobs[j].pc \in Holding /\ version # Unknown /\ jobs[j].live0 # NoFile
         => version = jobs[j].live0

\* The strengthening of VersionTracksDisk.
TrackInv == VersionTracksDisk /\ \A j \in JobId : TrackJob(j)

\* At start no job holds updateMu, and the record is unknown or names
\* release 1, which is installed.
LEMMA InitTrack == Init => TrackInv
BY DEF Init, TrackInv, TrackJob, VersionTracksDisk, NoJob, Holding, Unknown,
   NoFile

\* A job step keeps the record tracking the disk: every failing return
\* leaves the live path as it was at Lock() (or empty after a failed
\* rollback), and Commit records the release the swap put there.
LEMMA JobTrack ==
    ASSUME IInv, TrackInv, NEW j \in JobId, JobStep(j)
    PROVE  TrackInv'
<1>0. /\ jobs[j].pc \in Holding
      /\ \A k \in JobId \ {j} : jobs'[k] = jobs[k]
      /\ lock' \in {0, j}
  BY JobFrame
<1>1. \A k \in JobId \ {j} : TrackJob(k)'
  <2>1. lock = j
    BY <1>0 DEF IInv, LockInv
  <2>2. \A k \in JobId \ {j} : jobs[k].pc \notin Holding
    BY <2>1 DEF IInv, LockInv
  <2>3. QED
    BY <1>0, <2>2 DEF TrackJob, Holding
<1>2. TrackJob(j)
  BY DEF TrackInv
<1>3. ASSUME jobs'[j].pc = "done", lock' = 0, version' = version,
             live' = jobs[j].live0 \/ live' = NoFile
      PROVE  TrackInv'
  BY <1>0, <1>1, <1>2, <1>3 DEF TrackInv, TrackJob, VersionTracksDisk, Holding
<1>4. ASSUME lock' # 0, version' = version, jobs'[j].live0 = jobs[j].live0,
             jobs'[j].pc \in Holding,
             jobs'[j].pc \in {"fetch", "staged", "stalled"} => live' = jobs'[j].live0,
             jobs'[j].pc = "backedup" => bak' = jobs'[j].live0,
             jobs'[j].pc = "swapped" => live' = jobs'[j].want
      PROVE  TrackInv'
  BY <1>0, <1>1, <1>2, <1>4 DEF TrackInv, TrackJob, VersionTracksDisk
<1>5. ASSUME NEW e, Fail(j, e) PROVE jobs'[j].pc = "done" /\ lock' = 0
  BY <1>5, FailFacts DEF IInv
<1>6. jobs[j].pc \in {"fetch", "staged"} => live = jobs[j].live0
  BY <1>2 DEF TrackJob
<1>7. j # 0
  BY DEF JobId
<1>a. CASE BinFetchFail(j) \/ FeFetchFail(j)
  <2>1. PICK e : Fail(j, e)
    BY <1>a DEF BinFetchFail, FeFetchFail
  <2>2. QED
    BY <1>a, <1>3, <1>5, <1>6, <2>1 DEF BinFetchFail, FeFetchFail
\* The steps from "fetch" that keep the lock.
<1>8. ASSUME NEW p \in {"staged", "stalled"}, jobs[j].pc = "fetch",
             jobs' = [jobs EXCEPT ![j].pc = p], lock' = lock,
             UNCHANGED <<version, live, bak>>
      PROVE  TrackInv'
  <2>1. lock = j
    BY <1>0, <1>8 DEF IInv, LockInv, Holding
  <2>2. jobs'[j].pc = p /\ jobs'[j].live0 = jobs[j].live0
    BY <1>8 DEF IInv, TypeOK
  <2>3. QED
    BY <1>4, <1>6, <1>7, <1>8, <2>1, <2>2 DEF Holding
<1>b. CASE BinStage(j)
  <2>1. CASE jobs' = [jobs EXCEPT ![j].pc = "staged"] /\ lock' = lock
    BY <1>b, <1>8, <2>1 DEF BinStage
  <2>2. CASE Fail(j, "apply")
    BY <1>b, <1>3, <1>5, <1>6, <2>2 DEF BinStage
  <2>3. QED
    BY <1>b, <2>1, <2>2 DEF BinStage
<1>h. CASE FeStall(j) \/ FeExtract(j)
  BY <1>h, <1>8 DEF FeStall, FeExtract
<1>c. CASE BinBackup(j) \/ FeBackup(j)
  <2>1. /\ jobs[j].pc = "staged" /\ live = jobs[j].live0
        /\ UNCHANGED version /\ lock = j
    BY <1>c, <1>6, <1>0 DEF BinBackup, FeBackup, IInv, LockInv
  <2>2. CASE /\ bak' = live /\ jobs' = [jobs EXCEPT ![j].pc = "backedup"]
             /\ lock' = lock
    BY <1>4, <1>7, <2>1, <2>2 DEF IInv, TypeOK, Holding
  <2>3. CASE live' = live /\ Fail(j, "apply")
    BY <1>3, <1>5, <2>1, <2>3
  <2>4. QED
    BY <1>c, <2>2, <2>3 DEF BinBackup, FeBackup
<1>d. CASE BinSwap(j) \/ FeSwap(j)
  <2>1. /\ jobs[j].pc = "backedup" /\ bak = jobs[j].live0 /\ live = NoFile
        /\ UNCHANGED version /\ lock = j
    BY <1>d, <1>2, <1>0 DEF BinSwap, FeSwap, TrackJob, IInv, LockInv, BackedUpInv
  <2>2. CASE /\ live' = jobs[j].want /\ jobs' = [jobs EXCEPT ![j].pc = "swapped"]
             /\ lock' = lock
    BY <1>4, <1>7, <2>1, <2>2 DEF IInv, TypeOK, Holding
  <2>3. CASE live' = bak /\ Fail(j, "apply")
    BY <1>3, <1>5, <2>1, <2>3
  <2>4. CASE /\ live' = live /\ lock' = 0
             /\ \/ jobs' = [jobs EXCEPT ![j].pc = "done", ![j].err = "apply",
                                        ![j].reported = TRUE, ![j].rbFailed = TRUE]
                \/ jobs' = [jobs EXCEPT ![j].pc = "done", ![j].err = "apply",
                                        ![j].rbFailed = (bak # NoFile)]
    <3>1. jobs \in [JobId -> JobRecord]
      BY DEF IInv, TypeOK
    <3>2. jobs'[j].pc = "done"
      <4>1. CASE jobs' = [jobs EXCEPT ![j].pc = "done", ![j].err = "apply",
                                      ![j].reported = TRUE, ![j].rbFailed = TRUE]
        BY <3>1, <4>1
      <4>2. CASE jobs' = [jobs EXCEPT ![j].pc = "done", ![j].err = "apply",
                                      ![j].rbFailed = (bak # NoFile)]
        BY <3>1, <4>2
      <4>3. QED
        BY <2>4, <4>1, <4>2
    <3>3. QED
      BY <1>3, <2>1, <2>4, <3>2
  <2>5. QED
    BY <1>d, <2>2, <2>3, <2>4 DEF BinSwap, FeSwap
<1>e. CASE Commit(j)
  <2>1. CASE BinCommit(j)
    BY <2>1, <1>0, <1>1 DEF BinCommit, IInv, TypeOK, TrackInv, TrackJob,
       VersionTracksDisk, Holding
  <2>2. CASE FeCommit(j)
    BY <2>2, <1>0, <1>1 DEF FeCommit, IInv, TypeOK, TrackInv, TrackJob,
       VersionTracksDisk, Holding
  <2>3. QED
    BY <1>e, <2>1, <2>2 DEF Commit
<1>f. QED
  BY <1>a, <1>b, <1>c, <1>d, <1>e, <1>h DEF JobStep

\* Taking the free lock: the record named the live release, and the job
\* notes that release as live0.
LEMMA AcquireTrack ==
    ASSUME IInv, TrackInv, NEW j \in JobId, Acquire(j)
    PROVE  TrackInv'
<1>1. \A k \in JobId : jobs[k].pc \notin Holding
  BY DEF Acquire, IInv, LockInv, JobId
<1>2. /\ jobs'[j].pc = "fetch" /\ jobs'[j].live0 = live
      /\ \A k \in JobId \ {j} : jobs'[k] = jobs[k]
  BY DEF Acquire, IInv, TypeOK
<1>3. version # Unknown /\ live # NoFile => version = live
  BY DEF Acquire, TrackInv, VersionTracksDisk
<1>4. QED
  BY <1>1, <1>2, <1>3 DEF Acquire, TrackInv, TrackJob, VersionTracksDisk,
     Holding, JobId

\* A dispatch adds a waiting job and touches nothing a holder reads.
LEMMA NotifyTrack ==
    ASSUME IInv, TrackInv, Notify
    PROVE  TrackInv'
<1> DEFINE n == njobs + 1
<1>1. n \in JobId /\ jobs'[n].pc = "wait"
  BY DEF Notify, IInv, TypeOK, JobId
<1>2. \A k \in JobId \ {n} : jobs'[k] = jobs[k]
  BY DEF Notify, IInv, TypeOK
<1>3. QED
  BY <1>1, <1>2 DEF Notify, TrackInv, TrackJob, VersionTracksDisk, Holding

\* IInv /\ TrackInv is inductive.
LEMMA TrackNext == IInv /\ TrackInv /\ [Next]_vars => TrackInv'
<1> SUFFICES ASSUME IInv, TrackInv, [Next]_vars PROVE TrackInv'
  OBVIOUS
<1>1. CASE Notify
  BY <1>1, NotifyTrack
<1>2. CASE Release \/ HeartbeatQuiet \/ UNCHANGED vars
  BY <1>2 DEF Release, HeartbeatQuiet, vars, TrackInv, TrackJob,
     VersionTracksDisk
<1>3. ASSUME NEW j \in JobId, Acquire(j) PROVE TrackInv'
  BY <1>3, AcquireTrack
<1>4. ASSUME NEW j \in JobId, JobStep(j) PROVE TrackInv'
  BY <1>4, JobTrack
<1>5. QED
  BY <1>1, <1>2, <1>3, <1>4 DEF Next

\* Whenever updateMu is free, a known version record names the release at
\* the live path: the record is set only after a successful swap, and every
\* failed swap is rolled back (or leaves the path empty) before Unlock.
THEOREM VersionTracksDiskHolds == Spec => []VersionTracksDisk
<1>1. Init => IInv /\ TrackInv
  BY InitIInv, InitTrack
<1>2. IInv /\ TrackInv /\ [Next]_vars => (IInv /\ TrackInv)'
  BY IInvNext, TrackNext
<1>3. IInv /\ TrackInv => VersionTracksDisk
  BY DEF TrackInv
<1>4. QED
  BY <1>1, <1>2, <1>3, PTL DEF Spec

-----------------------------------------------------------------------------
(* Failed attempts.                                                        *)

\* The step FailureKeepsLive constrains.
KeepsLive ==
    \A j \in JobId :
        (jobs[j].pc # "done" /\ jobs'[j].pc = "done" /\ ~jobs'[j].ok
         /\ ~jobs'[j].rbFailed)
           => (live' = jobs[j].live0 /\ version' = version)

\* Job j gives up without a failed rollback only where the live path is
\* back to what it held at Lock().
LEMMA JobKeepsLive ==
    ASSUME IInv, TrackInv, NEW j \in JobId, JobStep(j),
           jobs'[j].pc = "done", ~jobs'[j].ok, ~jobs'[j].rbFailed
    PROVE  live' = jobs[j].live0 /\ version' = version
<1>0. jobs[j].pc \in Holding
  BY JobFrame
<1>1. TrackJob(j) /\ ~jobs[j].rbFailed
  BY <1>0 DEF TrackInv, IInv, RbInv, Holding
<1>a. CASE BinFetchFail(j) \/ FeFetchFail(j) \/ BinStage(j) \/ FeStall(j)
           \/ FeExtract(j) \/ BinBackup(j) \/ FeBackup(j)
  <2>0. jobs \in [JobId -> JobRecord]
    BY DEF IInv, TypeOK
  <2>1. jobs[j].pc \in {"fetch", "staged"} /\ version' = version
    BY <1>a DEF BinFetchFail, FeFetchFail, BinStage, FeStall, FeExtract,
       BinBackup, FeBackup
  <2>a. live' = live
    <3>1. CASE BinFetchFail(j) \/ FeFetchFail(j) \/ BinStage(j) \/ FeStall(j)
               \/ FeExtract(j)
      BY <3>1 DEF BinFetchFail, FeFetchFail, BinStage, FeStall, FeExtract
    <3>2. CASE BinBackup(j) \/ FeBackup(j)
      <4>1. jobs' # [jobs EXCEPT ![j].pc = "backedup"]
        <5>1. SUFFICES ASSUME jobs' = [jobs EXCEPT ![j].pc = "backedup"]
                       PROVE  FALSE
          OBVIOUS
        <5>2. jobs'[j].pc = "backedup"
          BY <2>0, <5>1
        <5>3. QED
          BY <5>2
      <4>2. QED
        BY <3>2, <4>1 DEF BinBackup, FeBackup
    <3>3. QED
      BY <1>a, <3>1, <3>2
  <2>2. QED
    BY <1>1, <2>1, <2>a DEF TrackJob
<1>b. CASE BinSwap(j) \/ FeSwap(j)
  <2>1. /\ jobs[j].pc = "backedup" /\ bak = jobs[j].live0 /\ live = NoFile
        /\ version' = version
    BY <1>b, <1>1 DEF BinSwap, FeSwap, TrackJob, IInv, BackedUpInv
  <2>2. CASE live' = bak
    BY <2>1, <2>2
  <2>3. CASE /\ live' = live
             /\ jobs' = [jobs EXCEPT ![j].pc = "done", ![j].err = "apply",
                                     ![j].rbFailed = (bak # NoFile)]
    <3>1. jobs'[j].rbFailed = (bak # NoFile)
      BY <2>3 DEF IInv, TypeOK
    <3>2. QED
      BY <2>1, <2>3, <3>1
  <2>4. CASE jobs' = [jobs EXCEPT ![j].pc = "done", ![j].err = "apply",
                                  ![j].reported = TRUE, ![j].rbFailed = TRUE]
    BY <2>4 DEF IInv, TypeOK
  <2>5. CASE jobs' = [jobs EXCEPT ![j].pc = "swapped"]
    BY <2>5 DEF IInv, TypeOK
  <2>6. QED
    BY <1>b, <2>2, <2>3, <2>4, <2>5 DEF BinSwap, FeSwap
<1>c. CASE Commit(j)
  <2>1. CASE BinCommit(j)
    BY <2>1 DEF BinCommit, IInv, TypeOK
  <2>2. CASE FeCommit(j)
    BY <2>2 DEF FeCommit, IInv, TypeOK
  <2>3. QED
    BY <1>c, <2>1, <2>2 DEF Commit
<1>d. QED
  BY <1>a, <1>b, <1>c DEF JobStep

\* Every step satisfies KeepsLive: a dispatch or Lock() finishes no job.
LEMMA KeepsLiveNext == IInv /\ TrackInv /\ [Next]_vars => [KeepsLive]_vars
<1> SUFFICES ASSUME IInv, TrackInv, [Next]_vars PROVE [KeepsLive]_vars
  OBVIOUS
<1>1. CASE Notify
  <2>1. \A k \in JobId : jobs'[k].pc # "done" \/ jobs'[k] = jobs[k]
    BY <1>1 DEF Notify, IInv, TypeOK, NoJob
  <2>2. QED
    BY <2>1 DEF KeepsLive
<1>2. CASE Release \/ HeartbeatQuiet \/ UNCHANGED vars
  BY <1>2 DEF Release, HeartbeatQuiet, vars, KeepsLive
<1>3. ASSUME NEW j \in JobId, Acquire(j) PROVE [KeepsLive]_vars
  <2>1. \A k \in JobId : jobs'[k].pc # "done" \/ jobs'[k] = jobs[k]
    BY <1>3 DEF Acquire, IInv, TypeOK
  <2>2. QED
    BY <2>1 DEF KeepsLive
<1>4. ASSUME NEW j \in JobId, JobStep(j) PROVE [KeepsLive]_vars
  <2>1. \A k \in JobId \ {j} : jobs'[k] = jobs[k]
    BY <1>4, JobFrame
  <2>2. QED
    BY <1>4, <2>1, JobKeepsLive DEF KeepsLive
<1>5. QED
  BY <1>1, <1>2, <1>3, <1>4 DEF Next

\* A job that gives up, its rollback aside, leaves the live path with the
\* release it held when the job took updateMu and the record unchanged:
\* every early return of updateBackend and updateFrontend comes
\* before the first rename or after a successful rollback rename.
THEOREM FailureKeepsLiveHolds == Spec => FailureKeepsLive
<1>1. Init => IInv /\ TrackInv
  BY InitIInv, InitTrack
<1>2. IInv /\ TrackInv /\ [Next]_vars => (IInv /\ TrackInv)'
  BY IInvNext, TrackNext
<1>3. IInv /\ TrackInv /\ [Next]_vars => [KeepsLive]_vars
  BY KeepsLiveNext
<1>4. QED
  BY <1>1, <1>2, <1>3, PTL DEF Spec, FailureKeepsLive, KeepsLive

=============================================================================
