---------------------------- MODULE ReportProofs ----------------------------
(***************************************************************************)
(* Proof about what updateBackend reports (src/updater.go): every job      *)
(* that returns has called OnUpdateResult.  It holds for the binary        *)
(* strategy only: updateFrontend calls OnUpdateResult on success alone     *)
(* (README, "Frontend divergences").                                       *)
(***************************************************************************)
EXTENDS UpdaterProofs

USE UpdaterAssumption

\* What job k has reported: nothing while it runs; once it has returned,
\* a result.
JobResult(k) ==
    /\ jobs[k].pc # "done" => jobs[k].err = "none"
    /\ jobs[k].pc = "done" => jobs[k].reported

\* The strengthening of FailureReported.
ResultInv == \A k \in JobId : JobResult(k)

\* The empty slots of New() have reported nothing.
LEMMA InitResult == Init => ResultInv
BY DEF Init, ResultInv, JobResult, NoJob

\* A step of job j that keeps it running leaves its error class alone.
LEMMA MoveResult ==
    ASSUME TypeOK, NEW j \in JobId, JobResult(j), jobs[j].pc # "done",
           NEW p \in Pcs \ {"done"}, jobs' = [jobs EXCEPT ![j].pc = p]
    PROVE  JobResult(j)'
BY DEF JobResult, TypeOK

\* A failing return of the binary path reports its result.
LEMMA FailResult ==
    ASSUME IInv, Strategy = "backend", NEW j \in JobId,
           jobs[j].pc \in Holding, NEW e \in ErrClasses,
           Fail(j, e)
    PROVE  JobResult(j)'
<1>0. jobs[j] \in JobRecord /\ ~jobs[j].rbFailed
  BY DEF IInv, TypeOK, RbInv, Holding
<1>1. jobs'[j] = [jobs[j] EXCEPT !.pc = "done", !.err = e, !.reported = TRUE]
  BY DEF Fail, IInv, TypeOK
<1>2. /\ jobs'[j].pc = "done" /\ jobs'[j].err = e /\ jobs'[j].reported
      /\ jobs'[j].rbFailed = FALSE
  BY <1>0, <1>1 DEF JobRecord
<1>3. QED
  BY <1>2 DEF JobResult

\* Every step of a binary-path job keeps its report right: the early
\* returns, the rolled-back swap and the failed rollback report a failure;
\* Commit reports success.
LEMMA JobResultStep ==
    ASSUME IInv, ResultInv, Strategy = "backend", NEW j \in JobId, JobStep(j)
    PROVE  JobResult(j)'
<1>0. jobs[j].pc \in Holding /\ JobResult(j) /\ TypeOK /\ jobs[j] \in JobRecord
  BY JobFrame DEF ResultInv, IInv, TypeOK
<1>1. jobs[j].pc # "done" /\ ~jobs[j].rbFailed
  BY <1>0 DEF Holding, IInv, RbInv
<1>a. CASE BinFetchFail(j)
  <2>1. PICK e \in BinFetchErrors : Fail(j, e)
    BY <1>a DEF BinFetchFail
  <2>2. QED
    BY <1>0, <2>1, FailResult DEF BinFetchErrors, ErrClasses
<1>b. CASE BinStage(j)
  BY <1>b, <1>0, <1>1, MoveResult, FailResult DEF BinStage, Pcs,
     ErrClasses
<1>c. CASE BinBackup(j)
  BY <1>c, <1>0, <1>1, MoveResult, FailResult DEF BinBackup, Pcs, ErrClasses
<1>d. CASE BinSwap(j)
  <2>1. CASE jobs' = [jobs EXCEPT ![j].pc = "swapped"]
    BY <2>1, <1>0, <1>1, MoveResult DEF Pcs
  <2>2. CASE Fail(j, "apply")
    BY <2>2, <1>0, FailResult DEF ErrClasses
  <2>3. CASE jobs' = [jobs EXCEPT ![j].pc = "done", ![j].err = "apply",
                                  ![j].reported = TRUE, ![j].rbFailed = TRUE]
    <3>1. jobs'[j] = [jobs[j] EXCEPT !.pc = "done", !.err = "apply",
                                     !.reported = TRUE, !.rbFailed = TRUE]
      BY <2>3, <1>0 DEF TypeOK
    <3>2. QED
      BY <3>1, <1>0 DEF JobResult, JobRecord
  <2>4. QED
    BY <1>d, <2>1, <2>2, <2>3 DEF BinSwap
<1>e. CASE Commit(j)
  <2>0. BinCommit(j)
    BY <1>e DEF Commit, FeCommit
  <2>1. jobs'[j] = [jobs[j] EXCEPT !.pc = "done", !.ok = TRUE, !.reported = TRUE]
    BY <2>0, <1>0 DEF BinCommit, TypeOK
  <2>2. jobs[j].err = "none"
    BY <1>0, <1>1 DEF JobResult
  <2>3. /\ jobs'[j].pc = "done" /\ jobs'[j].reported
        /\ jobs'[j].err = "none" /\ jobs'[j].rbFailed = FALSE
    BY <1>0, <1>1, <2>1, <2>2 DEF JobRecord
  <2>4. QED
    BY <2>3 DEF JobResult
<1>f. QED
  BY <1>a, <1>b, <1>c, <1>d, <1>e DEF JobStep, BinFetchFail, BinStage,
     BinBackup, BinSwap, FeFetchFail, FeStall, FeExtract, FeBackup, FeSwap

\* ResultInv is inductive on the binary path: a dispatch adds an empty
\* slot, Lock() moves a waiting job, and only job j's own step changes it.
LEMMA ResultNext ==
    ASSUME Strategy = "backend", IInv, ResultInv, [Next]_vars
    PROVE  ResultInv'
<1>0. jobs \in [JobId -> JobRecord]
  BY DEF IInv, TypeOK
<1>1. CASE Notify
  <2>1. njobs + 1 \in JobId /\ jobs[njobs + 1] = NoJob
    BY <1>1 DEF Notify, IInv, TypeOK, FreshJobs, JobId
  <2>2. QED
    BY <1>0, <1>1, <2>1 DEF Notify, ResultInv, JobResult, NoJob
<1>2. CASE Release \/ HeartbeatQuiet \/ UNCHANGED vars
  BY <1>2 DEF Release, HeartbeatQuiet, vars, ResultInv, JobResult
<1>3. ASSUME NEW j \in JobId, Acquire(j) PROVE ResultInv'
  BY <1>0, <1>3 DEF Acquire, ResultInv, JobResult
<1>4. ASSUME NEW j \in JobId, JobStep(j) PROVE ResultInv'
  <2>1. \A k \in JobId \ {j} : jobs'[k] = jobs[k]
    BY <1>4, JobFrame
  <2>2. JobResult(j)'
    BY <1>4, JobResultStep
  <2>3. QED
    BY <2>1, <2>2 DEF ResultInv, JobResult
<1>5. QED
  BY <1>1, <1>2, <1>3, <1>4 DEF Next

\* Spec 4.4 on the binary path: every updateBackend goroutine that has
\* returned, after an early error, a rolled-back or failed rollback or a
\* commit, has called OnUpdateResult.
THEOREM FailureReportedHolds ==
    ASSUME Strategy = "backend"
    PROVE  Spec => []FailureReported
<1>1. Init => IInv /\ ResultInv
  BY InitIInv, InitResult
<1>2. IInv /\ ResultInv /\ [Next]_vars => (IInv /\ ResultInv)'
  BY IInvNext, ResultNext
<1>3. ResultInv => FailureReported
  BY DEF ResultInv, JobResult, FailureReported
<1>4. QED
  BY <1>1, <1>2, <1>3, PTL DEF Spec

=============================================================================
