------------------------------ MODULE Updater ------------------------------
(***************************************************************************)
(* The update engine (src/updater.go) for one component, and the part of   *)
(* sendHeartbeat (src/unnamed/part_006) that dispatches to it.             *)
(*                                                                         *)
(* Each update notification a heartbeat returns spawns a goroutine: job j. *)
(* All jobs of all components serialize on g.updateMu (lock).  The         *)
(* component lives at one path (the executable, or mc.Dir) with a backup   *)
(* beside it (path + ".bak"); live and bak say which release each holds.   *)
(* version is the component's entry in g.version / g.managedVersions.     *)
(* Strategy selects updateBackend (with update.Apply of go-selfupdate) or  *)
(* updateFrontend.  Download, hashing, signature and extraction are        *)
(* abstracted to their outcomes: success, or the typed error class the     *)
(* job reports.  src/unnamed/part_002 is a later revision of the same      *)
(* algorithm (updateBinaryComponent, shared with managed backends).        *)
(***************************************************************************)
EXTENDS Integers

CONSTANTS
    Strategy,    \* "backend" (updateBackend) or "frontend" (updateFrontend)
    MaxVersion,  \* bound: releases are 1..MaxVersion
    MaxJobs      \* bound: update goroutines dispatched

ASSUME UpdaterAssumption ==
    /\ Strategy \in {"backend", "frontend"}
    /\ MaxVersion \in Nat \ {0}
    /\ MaxJobs \in Nat

VARIABLES
    version,  \* the version record of the component
    live,     \* what the live path holds
    bak,      \* what path + ".bak" holds
    latest,   \* the release the authority currently offers
    lock,     \* g.updateMu: the job holding it, 0 when free
    jobs,     \* jobs[j]: update goroutine j
    njobs     \* goroutines dispatched so far

vars == <<version, live, bak, latest, lock, jobs, njobs>>

Versions == 1..MaxVersion
JobId == 1..MaxJobs

\* managedVersions[slug] = "unknown" as New() sets it.
Unknown == 0
\* No file or directory at the path.
NoFile == -1

\* The staged OTA error classes (ErrUpdateDownload, ErrUpdateVerify,
\* ErrUpdateApply, ErrUpdateRollback) of the SDK's error table; the jobs wrap
\* them with %w, so errors.Is tells the class of what a callback receives.
ErrClasses == {"none", "download", "verify", "apply", "rollback"}

Pcs == {"idle", "wait", "fetch", "staged", "backedup", "swapped",
        "stalled", "done"}

\* want: u.Latest; old: the oldVersion it reports; live0: what the live
\* path held when it took the lock; err: the class of the error given to
\* OnUpdateFailure; reported: OnUpdateResult was called (with the raw error
\* of the failed step); rbFailed: a rollback rename failed.
JobRecord == [pc : Pcs, want : Versions \cup {Unknown},
              old : Versions \cup {Unknown}, live0 : Versions \cup {NoFile},
              ok : BOOLEAN, err : ErrClasses, reported : BOOLEAN,
              rbFailed : BOOLEAN]

NoJob == [pc |-> "idle", want |-> Unknown, old |-> Unknown, live0 |-> NoFile,
          ok |-> FALSE, err |-> "none", reported |-> FALSE, rbFailed |-> FALSE]

\* A rollback rename has failed: the live path is empty.
RollbackHasFailed == \E j \in JobId : jobs[j].rbFailed

\* A host callback has been given an error of class ErrUpdateRollback: only
\* updateBackend's OnUpdateResult, which receives the error of
\* applyBackendBinaryWithSelfupdate unwrapped.
RollbackReported == \E j \in JobId : jobs[j].rbFailed /\ jobs[j].reported

-----------------------------------------------------------------------------
(* Dispatch (sendHeartbeat, handleUpdateNotification).                     *)

\* A heartbeat reports the version snapshot taken under g.mu.RLock; the
\* authority answers update_available when it differs from its latest
\* release; OTA is enabled and not frozen, so handleUpdateNotification
\* starts `go update...(u)` with u.Latest = latest.  No check against a
\* job already running or waiting for the same release.
Notify ==
    /\ njobs < MaxJobs
    /\ version # latest
    /\ njobs' = njobs + 1
    /\ jobs' = [jobs EXCEPT ![njobs + 1] = [NoJob EXCEPT !.pc = "wait",
                                                        !.want = latest]]
    /\ UNCHANGED <<version, live, bak, latest, lock>>

\* A heartbeat that dispatches nothing: no update, or update_frozen.
HeartbeatQuiet ==
    UNCHANGED vars

\* The authority publishes a newer release.
Release ==
    /\ latest < MaxVersion
    /\ latest' = latest + 1
    /\ UNCHANGED <<version, live, bak, lock, jobs, njobs>>

-----------------------------------------------------------------------------
(* updateBackend and updateFrontend: the steps under updateMu.             *)

\* g.updateMu.Lock() returns to a waiting job.  sync.Mutex is not FIFO: any
\* waiter may get it.  The binary path reads oldVersion right away.
Acquire(j) ==
    /\ jobs[j].pc = "wait"
    /\ lock = 0
    /\ lock' = j
    /\ jobs' = [jobs EXCEPT ![j].pc = "fetch", ![j].live0 = live,
                            ![j].old = IF Strategy = "backend" THEN version
                                                               ELSE Unknown]
    /\ UNCHANGED <<version, live, bak, latest, njobs>>

\* Mutant: OnUpdateResult(false) left out of the failure paths.
FailNoResult(j, e) ==
    /\ jobs' = [jobs EXCEPT ![j].pc = "done", ![j].err = e]
    /\ lock' = 0

\* Mutant: the early return does not release updateMu.
FailKeepsLock(j, e) ==
    /\ jobs' = [jobs EXCEPT ![j].pc = "done", ![j].err = e,
                            ![j].reported = (Strategy = "backend")]
    /\ lock' = lock

\* The job returns early with error class e: OnUpdateFailure, and on the
\* binary path OnUpdateResult(false); the deferred Unlock runs.
Fail(j, e) ==
    /\ jobs' = [jobs EXCEPT ![j].pc = "done", ![j].err = e,
                            ![j].reported = (Strategy = "backend")]
    /\ lock' = 0

\* How the fetch of the binary path can fail: requestDownloadMeta (a
\* transport error, the DownloadTimeout deadline or resp.Error) and
\* downloadArtifactWithProgress (request, status, temp file or copy) give
\* ErrUpdateDownload; the digest comparison and verifySignature (base64 or
\* ed25519) give ErrUpdateVerify.
BinFetchErrors == {"download", "verify"}

\* Binary path: one of those fetch steps fails and the job returns early.
BinFetchFail(j) ==
    /\ Strategy = "backend"
    /\ jobs[j].pc = "fetch"
    /\ \E e \in BinFetchErrors : Fail(j, e)
    /\ UNCHANGED <<version, live, bak, latest, njobs>>

\* Binary path: meta, download, digest and signature succeed; os.Executable,
\* opening the temp artifact and update.Apply writing it to .target.new
\* succeed, or one fails with ErrUpdateApply.
BinStage(j) ==
    /\ Strategy = "backend"
    /\ jobs[j].pc = "fetch"
    /\ \/ jobs' = [jobs EXCEPT ![j].pc = "staged"] /\ lock' = lock
       \/ Fail(j, "apply")
    /\ UNCHANGED <<version, live, bak, latest, njobs>>

\* Mutant: the old backup removed after the rename instead of before it.
BinBackupRemovesAfterRename(j) ==
    /\ Strategy = "backend"
    /\ jobs[j].pc = "staged"
    /\ \/ /\ live # NoFile
          /\ bak' = NoFile
          /\ live' = NoFile
          /\ jobs' = [jobs EXCEPT ![j].pc = "backedup"]
          /\ lock' = lock
       \/ /\ bak' = NoFile
          /\ live' = live
          /\ Fail(j, "apply")
    /\ UNCHANGED <<version, latest, njobs>>

\* update.Apply: os.Remove(.bak) (error ignored), then os.Rename(target,
\* .bak); if that fails (it always does when target is missing) Apply
\* returns the error.
BinBackup(j) ==
    /\ Strategy = "backend"
    /\ jobs[j].pc = "staged"
    /\ \/ /\ live # NoFile
          /\ bak' = live
          /\ live' = NoFile
          /\ jobs' = [jobs EXCEPT ![j].pc = "backedup"]
          /\ lock' = lock
       \/ /\ bak' = NoFile
          /\ live' = live
          /\ Fail(j, "apply")
    /\ UNCHANGED <<version, latest, njobs>>

\* Mutant: setVersion also on the rolled-back path.
BinSwapSetsVersionOnRollback(j) ==
    /\ Strategy = "backend"
    /\ jobs[j].pc = "backedup"
    /\ \/ /\ live' = jobs[j].want
          /\ jobs' = [jobs EXCEPT ![j].pc = "swapped"]
          /\ UNCHANGED <<bak, lock, version>>
       \/ /\ live' = bak
          /\ bak' = NoFile
          /\ version' = jobs[j].want
          /\ Fail(j, "apply")
       \/ /\ UNCHANGED <<live, bak, version>>
          /\ jobs' = [jobs EXCEPT ![j].pc = "done", ![j].err = "apply",
                                  ![j].reported = TRUE, ![j].rbFailed = TRUE]
          /\ lock' = 0
    /\ UNCHANGED <<latest, njobs>>

\* Mutant: no rollback after the failed second rename.
BinSwapNoRollback(j) ==
    /\ Strategy = "backend"
    /\ jobs[j].pc = "backedup"
    /\ \/ /\ live' = jobs[j].want
          /\ jobs' = [jobs EXCEPT ![j].pc = "swapped"]
          /\ UNCHANGED <<bak, lock>>
       \/ /\ UNCHANGED <<live, bak>>
          /\ Fail(j, "apply")
    /\ UNCHANGED <<version, latest, njobs>>

\* update.Apply: os.Rename(.target.new, target); on failure it renames .bak
\* back to target, and if that fails too returns a rollbackErr, which
\* applyBackendBinaryWithSelfupdate wraps as ErrUpdateRollback.  Either
\* way updateBackend gives OnUpdateFailure ErrUpdateApply with that error
\* flattened by %v, and OnUpdateResult the error itself.
BinSwap(j) ==
    /\ Strategy = "backend"
    /\ jobs[j].pc = "backedup"
    /\ \/ /\ live' = jobs[j].want
          /\ jobs' = [jobs EXCEPT ![j].pc = "swapped"]
          /\ UNCHANGED <<bak, lock>>
       \/ /\ live' = bak
          /\ bak' = NoFile
          /\ Fail(j, "apply")
       \/ /\ UNCHANGED <<live, bak>>
          /\ jobs' = [jobs EXCEPT ![j].pc = "done", ![j].err = "apply",
                                  ![j].reported = TRUE, ![j].rbFailed = TRUE]
          /\ lock' = 0
    /\ UNCHANGED <<version, latest, njobs>>

\* Frontend path: an early return before the swap, with OnUpdateFailure
\* only: the download request, resp.Error, http.Get or its status
\* (ErrUpdateDownload), MkdirTemp or writing an entry (ErrUpdateApply), the
\* gzip or tar reader or the digest check after extraction (ErrUpdateVerify).
FeFetchFail(j) ==
    /\ Strategy = "frontend"
    /\ jobs[j].pc = "fetch"
    /\ \E e \in {"download", "verify", "apply"} : Fail(j, e)
    /\ UNCHANGED <<version, live, bak, latest, njobs>>

\* Frontend path: http.Get uses the default client, which has no timeout,
\* and the body is read with no deadline: a stalled server blocks the job
\* forever, holding updateMu.
FeStall(j) ==
    /\ Strategy = "frontend"
    /\ jobs[j].pc = "fetch"
    /\ jobs' = [jobs EXCEPT ![j].pc = "stalled"]
    /\ UNCHANGED <<version, live, bak, latest, lock, njobs>>

\* Frontend path: the archive is extracted into tmpDir (entries escaping it
\* skipped) and its digest matches.
FeExtract(j) ==
    /\ Strategy = "frontend"
    /\ jobs[j].pc = "fetch"
    /\ jobs' = [jobs EXCEPT ![j].pc = "staged"]
    /\ UNCHANGED <<version, live, bak, latest, lock, njobs>>

\* Mutant: os.RemoveAll(dir.bak) moved after the rename of dir.
FeBackupRemovesAfterRename(j) ==
    /\ Strategy = "frontend"
    /\ jobs[j].pc = "staged"
    /\ \/ /\ live # NoFile
          /\ bak' = NoFile
          /\ live' = NoFile
          /\ jobs' = [jobs EXCEPT ![j].pc = "backedup"]
          /\ lock' = lock
       \/ /\ live # NoFile
          /\ bak' = NoFile
          /\ live' = live
          /\ Fail(j, "apply")
       \/ /\ live = NoFile
          /\ bak' = NoFile
          /\ live' = live
          /\ jobs' = [jobs EXCEPT ![j].pc = "backedup"]
          /\ lock' = lock
    /\ UNCHANGED <<version, latest, njobs>>

\* Frontend swap, first half: os.RemoveAll(dir.bak); if os.Stat(dir)
\* succeeds, os.Rename(dir, dir.bak), returning ErrUpdateApply on failure.
FeBackup(j) ==
    /\ Strategy = "frontend"
    /\ jobs[j].pc = "staged"
    /\ \/ /\ live # NoFile
          /\ bak' = live
          /\ live' = NoFile
          /\ jobs' = [jobs EXCEPT ![j].pc = "backedup"]
          /\ lock' = lock
       \/ /\ live # NoFile
          /\ bak' = NoFile
          /\ live' = live
          /\ Fail(j, "apply")
       \/ /\ live = NoFile
          /\ bak' = NoFile
          /\ live' = live
          /\ jobs' = [jobs EXCEPT ![j].pc = "backedup"]
          /\ lock' = lock
    /\ UNCHANGED <<version, latest, njobs>>

\* Mutant: the rollback rename left out.
FeSwapNoRollback(j) ==
    /\ Strategy = "frontend"
    /\ jobs[j].pc = "backedup"
    /\ \/ /\ live' = jobs[j].want
          /\ jobs' = [jobs EXCEPT ![j].pc = "swapped"]
          /\ UNCHANGED <<bak, lock>>
       \/ /\ UNCHANGED <<live, bak>>
          /\ Fail(j, "apply")
    /\ UNCHANGED <<version, latest, njobs>>

\* Frontend swap, second half: os.Rename(tmpDir, dir); on failure
\* os.Rename(dir.bak, dir) as rollback, its error ignored, and
\* ErrUpdateApply either way.
FeSwap(j) ==
    /\ Strategy = "frontend"
    /\ jobs[j].pc = "backedup"
    /\ \/ /\ live' = jobs[j].want
          /\ jobs' = [jobs EXCEPT ![j].pc = "swapped"]
          /\ UNCHANGED <<bak, lock>>
       \/ /\ bak # NoFile
          /\ live' = bak
          /\ bak' = NoFile
          /\ Fail(j, "apply")
       \/ /\ UNCHANGED <<live, bak>>
          /\ jobs' = [jobs EXCEPT ![j].pc = "done", ![j].err = "apply",
                                  ![j].rbFailed = (bak # NoFile)]
          /\ lock' = 0
    /\ UNCHANGED <<version, latest, njobs>>

\* Binary path, after the swap: g.version = u.Latest under g.mu,
\* OnUpdateResult(true) with the oldVersion read at Lock(), progress
\* "completed"; the deferred Unlock runs.
BinCommit(j) ==
    /\ Strategy = "backend"
    /\ jobs[j].pc = "swapped"
    /\ version' = jobs[j].want
    /\ jobs' = [jobs EXCEPT ![j].pc = "done", ![j].ok = TRUE,
                            ![j].reported = TRUE]
    /\ lock' = 0
    /\ UNCHANGED <<live, bak, latest, njobs>>

\* Mutant: the version record not updated after the swap.
FeCommitKeepsVersion(j) ==
    /\ Strategy = "frontend"
    /\ jobs[j].pc = "swapped"
    /\ version' = version
    /\ jobs' = [jobs EXCEPT ![j].pc = "done", ![j].ok = TRUE,
                            ![j].reported = TRUE, ![j].old = version]
    /\ lock' = 0
    /\ UNCHANGED <<live, bak, latest, njobs>>

\* Frontend path, after the swap: under g.mu it reads oldVersion and sets
\* the record, then OnUpdateResult(true), progress "completed", PostUpdate
\* with its error dropped; the deferred Unlock runs.
FeCommit(j) ==
    /\ Strategy = "frontend"
    /\ jobs[j].pc = "swapped"
    /\ version' = jobs[j].want
    /\ jobs' = [jobs EXCEPT ![j].pc = "done", ![j].ok = TRUE,
                            ![j].reported = TRUE, ![j].old = version]
    /\ lock' = 0
    /\ UNCHANGED <<live, bak, latest, njobs>>

Commit(j) == BinCommit(j) \/ FeCommit(j)

-----------------------------------------------------------------------------
\* Release 1 is installed; the record is "unknown" unless the host called
\* SetManagedVersion/SetVersion (or AutoResolveVersion) before Start; a
\* backup of an earlier install may be left beside it.
Init ==
    /\ version \in {Unknown, 1}
    /\ live = 1
    /\ bak \in {NoFile, 1}
    /\ latest = 1
    /\ lock = 0
    /\ jobs = [j \in JobId |-> NoJob]
    /\ njobs = 0

\* The steps job j takes once it holds updateMu.
JobStep(j) ==
    \/ BinFetchFail(j) \/ BinStage(j) \/ BinBackup(j) \/ BinSwap(j)
    \/ FeFetchFail(j) \/ FeStall(j) \/ FeExtract(j) \/ FeBackup(j)
    \/ FeSwap(j) \/ Commit(j)

Next ==
    \/ Notify
    \/ HeartbeatQuiet
    \/ Release
    \/ \E j \in JobId : Acquire(j) \/ JobStep(j)

Spec == Init /\ [][Next]_vars

\* Go's sync.Mutex hands the lock to a waiter that has waited over 1ms
\* (starvation mode), so a waiter that keeps being offered the lock gets
\* it; a running goroutine keeps being scheduled.
FairSpec ==
    Spec /\ \A j \in JobId : SF_vars(Acquire(j)) /\ WF_vars(JobStep(j))

-----------------------------------------------------------------------------
(* Refinement of ReleaseStore.  Outside updateMu the installed release is  *)
(* what the live path holds; while a job holds updateMu it is what the     *)
(* live path held when the job took the lock, since nobody else looks at  *)
(* the files until the job lets go.  A missing live path is Broken, and    *)
(* the alarm is an ErrUpdateRollback some callback has received.  Only    *)
(* updateBackend refines it: updateFrontend ignores its rollback's error.  *)

StoreCurrent == IF lock # 0 THEN jobs[lock].live0 ELSE live

Store == INSTANCE ReleaseStore WITH
    Releases <- Versions, NoRelease <- Unknown, Broken <- NoFile,
    current <- StoreCurrent, record <- version, alarm <- RollbackReported

-----------------------------------------------------------------------------
(* Properties.                                                             *)

TypeOK ==
    /\ version \in Versions \cup {Unknown}
    /\ live \in Versions \cup {NoFile}
    /\ bak \in Versions \cup {NoFile}
    /\ latest \in Versions
    /\ lock \in JobId \cup {0}
    /\ jobs \in [JobId -> JobRecord]
    /\ njobs \in 0..MaxJobs

\* Spec 4.4 and glossary "atomic swap": at every point of every update, so
\* also where a crash would stop it, a complete release is on disk at the
\* live path or at the backup path, unless a rollback rename has failed.
IntactCopy ==
    RollbackHasFailed \/ live \in Versions \/ bak \in Versions

\* Whenever no update holds updateMu, a known version record names what
\* the live path holds: the record is set only after a successful swap, and
\* every failed swap is rolled back before the lock is released.
VersionTracksDisk ==
    (lock = 0 /\ version # Unknown /\ live # NoFile) => version = live

\* Spec 4.4: a failed attempt leaves the prior state untouched: the step
\* in which a job gives up (a rollback failure aside) leaves the live path
\* with what it held when the job took the lock, and the record unchanged.
FailureKeepsLive ==
    [][\A j \in JobId :
         (jobs[j].pc # "done" /\ jobs'[j].pc = "done" /\ ~jobs'[j].ok
          /\ ~jobs'[j].rbFailed)
            => (live' = jobs[j].live0 /\ version' = version)]_vars

\* Spec 4.4: every failed attempt invokes OnFailure and then OnResult with
\* success=false: a job that gave up has reported a result.
FailureReported ==
    \A j \in JobId : jobs[j].pc = "done" => jobs[j].reported

\* Spec 4.4 (on a failure OnFailure, then OnResult, with the typed error)
\* and spec 7 (a rollback failure is a distinct, more severe class): a job
\* whose rollback rename failed gives OnUpdateFailure ErrUpdateRollback.
RollbackFailureAlerted ==
    \A j \in JobId : (jobs[j].pc = "done" /\ jobs[j].rbFailed)
                        => jobs[j].err = "rollback"

\* Spec 4.4 step 2 and section 5 (each update and download call carries
\* DownloadTimeout): every dispatched update eventually finishes, and so
\* releases updateMu.
UpdatesTerminate ==
    \A j \in JobId : jobs[j].pc = "wait" ~> jobs[j].pc = "done"

\* Team plan (part_003, risk 2): same-version idempotency protects against
\* concurrent updates: no job goes on to apply the release the record
\* already holds when it takes the lock.
IdempotentUpdate ==
    \A j \in JobId : jobs[j].pc \in {"staged", "backedup", "swapped"}
                        => jobs[j].old # jobs[j].want

\* Spec 4.4: an update is atomic as seen from outside updateMu: the
\* release at the live path and the version record change together in a
\* commit, or the release is lost in the same step as a callback receives
\* ErrUpdateRollback; every other step of the engine leaves both as they
\* were, and no ErrUpdateRollback is reported without the loss.
StoreRefined == Store!Spec

=============================================================================
