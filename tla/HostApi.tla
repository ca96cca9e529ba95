------------------------------ MODULE HostApi ------------------------------
(***************************************************************************)
(* The calls a host makes into the guard while the heartbeat dispatches    *)
(* updates (Updater): UpdatePlugin (src/plugins.go), which runs the update *)
(* engine synchronously in the caller's goroutine, and AutoResolveVersion  *)
(* (src/guard.go) with the sync.Once memo of GetBinaryHash                 *)
(* (src/unnamed/part_006).  The catalog request is abstracted to what it   *)
(* says of the component: the latest release, or one of the early-return  *)
(* rejections.  One host goroutine calls UpdatePlugin, one call at a time. *)
(***************************************************************************)
EXTENDS Updater

VARIABLES
    call,  \* the UpdatePlugin call in the host goroutine
    memo,  \* binaryHashOnce with binaryHashValue / binaryHashError
    res    \* an AutoResolveVersion request in flight

hostVars == <<vars, call, memo, res>>

\* The process keeps running the binary it started from: update.Apply
\* replaces the file, not the running image, and restarts are not modelled.
\* GetBinaryHash hashes the file os.Executable() names, which on Linux is
\* /proc/self/exe: the running image's inode, which update.Apply moved to
\* the backup path.  Its hash, taken before or after an update, is that of
\* the release the process started from (or the open fails).
Running == 1

\* st: where the call is; job: the update it runs; want: u.Latest from the
\* catalog; ret: what it returned (nil, ErrUpdateApply, or an early error).
CallRecord == [st : {"idle", "running", "returned"}, job : JobId \cup {0},
               want : Versions \cup {Unknown},
               ret : {"none", "nil", "apply", "rejected"}]

NoCall == [st |-> "idle", job |-> 0, want |-> Unknown, ret |-> "none"]

-----------------------------------------------------------------------------
(* UpdatePlugin.                                                           *)

\* The host calls UpdatePlugin(slug) (when no call of its is running).  It
\* returns an error early for an empty slug, a failed catalog request, a
\* frozen catalog, a plugin not found, OTA disabled, no update, no
\* permission or no latest version, and for a slug no managed component
\* has; it returns nil when the record already names the catalog's latest
\* release (read outside updateMu); otherwise it calls the update engine
\* with u.Latest, a job that waits for updateMu like any dispatched one.
PluginCall ==
    /\ call.st # "running"
    /\ \/ /\ call' = [NoCall EXCEPT !.st = "returned", !.ret = "rejected"]
          /\ UNCHANGED vars
       \/ /\ version = latest
          /\ call' = [NoCall EXCEPT !.st = "returned", !.want = latest,
                                    !.ret = "nil"]
          /\ UNCHANGED vars
       \/ /\ version # latest
          /\ njobs < MaxJobs
          /\ njobs' = njobs + 1
          /\ jobs' = [jobs EXCEPT ![njobs + 1] =
                          [NoJob EXCEPT !.pc = "wait", !.want = latest]]
          /\ call' = [NoCall EXCEPT !.st = "running", !.job = njobs + 1,
                                    !.want = latest]
          /\ UNCHANGED <<version, live, bak, latest, lock>>
    /\ UNCHANGED <<memo, res>>

\* The engine has returned (updateMu released); UpdatePlugin reads the
\* record again and returns ErrUpdateApply unless it names u.Latest.
PluginReturn ==
    /\ call.st = "running"
    /\ jobs[call.job].pc = "done"
    /\ call' = [call EXCEPT !.st = "returned",
                            !.ret = IF version = call.want THEN "nil"
                                                           ELSE "apply"]
    /\ UNCHANGED <<vars, memo, res>>

-----------------------------------------------------------------------------
(* AutoResolveVersion and GetBinaryHash.                                   *)

\* AutoResolveVersion: GetBinaryHash runs binaryHashOnce.Do the first time,
\* hashing os.Executable(); any of its three steps may fail, and the error
\* is kept as binaryHashError for every later call.  A hash error returns;
\* otherwise the hash goes to /api/v1/version/resolve.
AutoResolveSend ==
    /\ Strategy = "backend"
    /\ res = "idle"
    /\ \E m \in IF memo = "unset" THEN {"hash", "err"} ELSE {memo} :
          /\ memo' = m
          /\ res' = IF m = "hash" THEN "pending" ELSE "idle"
    /\ UNCHANGED <<vars, call>>

\* The resolve reply: a transport failure, the 10s timeout or resp.Error
\* returns an error; otherwise g.version is set, under g.mu only, to the
\* release the server maps the hash to: the running binary's, which is not
\* the one on disk once an update has committed.
AutoResolveReply ==
    /\ res = "pending"
    /\ res' = "idle"
    /\ \/ version' = Running
       \/ version' = version
    /\ UNCHANGED <<live, bak, latest, lock, jobs, njobs, call, memo>>

\* ResetBinaryHashCache: a fresh sync.Once, value and error cleared.
ResetBinaryHashCache ==
    /\ memo' = "unset"
    /\ UNCHANGED <<vars, call, res>>

-----------------------------------------------------------------------------
HostInit ==
    /\ Init
    /\ call = NoCall
    /\ memo = "unset"
    /\ res = "idle"

HostNext ==
    \/ Next /\ UNCHANGED <<call, memo, res>>
    \/ PluginCall
    \/ PluginReturn
    \/ AutoResolveSend
    \/ AutoResolveReply
    \/ ResetBinaryHashCache

HostSpec == HostInit /\ [][HostNext]_hostVars

\* A host that never calls AutoResolveVersion: UpdatePlugin and the
\* heartbeat's jobs only.
PluginNext ==
    \/ Next /\ UNCHANGED <<call, memo, res>>
    \/ PluginCall
    \/ PluginReturn

PluginSpec == HostInit /\ [][PluginNext]_hostVars

\* The host goroutine blocked in UpdatePlugin resumes once the engine
\* returns; updateMu and the jobs are scheduled as in FairSpec.
HostFair ==
    /\ HostSpec
    /\ \A j \in JobId : SF_hostVars(Acquire(j) /\ UNCHANGED <<call, memo, res>>)
                        /\ WF_hostVars(JobStep(j) /\ UNCHANGED <<call, memo, res>>)
    /\ WF_hostVars(PluginReturn)

-----------------------------------------------------------------------------
(* Properties.                                                             *)

HostTypeOK ==
    /\ TypeOK
    /\ call \in CallRecord
    /\ call.st = "running" => call.job \in JobId
    /\ memo \in {"unset", "hash", "err"}
    /\ res \in {"idle", "pending"}

\* Every UpdatePlugin call that runs the engine returns: its job gets
\* updateMu, each of its steps ends, and a failing job releases the lock.
PluginReturns ==
    call.st = "running" ~> call.st = "returned"

\* Spec 4.4 (Apply returns success or a typed error for the attempt):
\* UpdatePlugin reports ErrUpdateApply only when its own update failed.
PluginErrorFaithful ==
    (call.st = "returned" /\ call.ret = "apply") => ~jobs[call.job].ok

=============================================================================
