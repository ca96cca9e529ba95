----------------------------- MODULE HostProofs -----------------------------
(***************************************************************************)
(* Proofs about the host's calls into the guard (HostApi): UpdatePlugin   *)
(* (src/plugins.go) and AutoResolveVersion with the GetBinaryHash memo     *)
(* (src/guard.go, src/unnamed/part_006), for every value of the constants. *)
(*                                                                         *)
(* The host's calls keep the engine's inductive invariant IInv: the call   *)
(* that runs the engine dispatches its job exactly as Notify does, and a   *)
(* resolve reply writes only the version record, which IInv reads for its *)
(* type alone.  With IInv, HostTypeOK is inductive.                       *)
(***************************************************************************)
EXTENDS HostApi, UpdaterProofs

USE UpdaterAssumption

\* What the host adds to the engine's state: a typed call, whose running
\* engine job is a dispatched slot.
CallInv ==
    /\ call \in CallRecord
    /\ call.st = "running" => call.job \in JobId
    /\ memo \in {"unset", "hash", "err"}
    /\ res \in {"idle", "pending"}

\* The inductive invariant behind HostTypeOK.
HInv == IInv /\ CallInv

\* The initial state of a host process: New() and no call yet.
LEMMA InitHInv == HostInit => HInv
BY InitIInv DEF HostInit, HInv, CallInv, NoCall, CallRecord, Unknown

\* A resolve reply sets the version record to the running binary's release
\* or leaves it: no conjunct of IInv but the record's type reads it.
LEMMA ReplyIInv ==
    ASSUME IInv, AutoResolveReply
    PROVE  IInv'
<1>1. version' \in Versions \cup {Unknown}
  BY DEF AutoResolveReply, IInv, TypeOK, Running, Versions
<1>2. UNCHANGED <<live, bak, latest, lock, jobs, njobs>>
  BY DEF AutoResolveReply
<1>3. QED
  BY <1>1, <1>2 DEF IInv, TypeOK, WantInv, LockInv, FreshJobs, RbInv,
     BackedUpInv, SwappedInv, MissingInv, RollbackHasFailed

\* The branch of UpdatePlugin that calls the engine dispatches its job the
\* way handleUpdateNotification does.
LEMMA PluginDispatch ==
    ASSUME TypeOK, PluginCall, call'.st = "running"
    PROVE  /\ Notify
           /\ call'.job = njobs + 1 /\ njobs + 1 \in JobId
<1>1. /\ version # latest /\ njobs < MaxJobs /\ njobs' = njobs + 1
      /\ jobs' = [jobs EXCEPT ![njobs + 1] =
                      [NoJob EXCEPT !.pc = "wait", !.want = latest]]
      /\ UNCHANGED <<version, live, bak, latest, lock>>
      /\ call' = [NoCall EXCEPT !.st = "running", !.job = njobs + 1,
                                !.want = latest]
  BY DEF PluginCall, NoCall
<1>2. njobs + 1 \in JobId
  BY <1>1 DEF JobId, TypeOK
<1>3. QED
  BY <1>1, <1>2 DEF Notify, NoCall

\* Every step of a host process keeps IInv.
LEMMA HostIInv ==
    ASSUME IInv, CallInv, [HostNext]_hostVars
    PROVE  IInv'
<1>1. CASE Next
  BY <1>1, IInvNext
<1>2. CASE PluginCall /\ call'.st = "running"
  BY <1>2, PluginDispatch, IInvNext DEF Next, IInv
<1>3. CASE PluginCall /\ call'.st # "running"
  <2>1. UNCHANGED vars
    BY <1>3 DEF PluginCall, NoCall
  <2>2. QED
    BY <2>1, IInvNext
<1>4. CASE PluginReturn \/ AutoResolveSend \/ ResetBinaryHashCache
             \/ UNCHANGED hostVars
  <2>1. UNCHANGED vars
    BY <1>4 DEF PluginReturn, AutoResolveSend, ResetBinaryHashCache, hostVars
  <2>2. QED
    BY <2>1, IInvNext
<1>5. CASE AutoResolveReply
  BY <1>5, ReplyIInv
<1>6. QED
  BY <1>1, <1>2, <1>3, <1>4, <1>5 DEF HostNext

\* Every step of a host process keeps the call typed.
LEMMA HostCallInv ==
    ASSUME IInv, CallInv, [HostNext]_hostVars
    PROVE  CallInv'
<1>0. /\ version \in Versions \cup {Unknown} /\ latest \in Versions
      /\ njobs \in 0..MaxJobs
  BY DEF IInv, TypeOK
<1>1. CASE Next /\ UNCHANGED <<call, memo, res>>
  BY <1>1 DEF CallInv
<1>2. CASE PluginCall
  <2>1. CASE call'.st = "running"
    <3>1. call' = [NoCall EXCEPT !.st = "running", !.job = njobs + 1,
                                 !.want = latest]
      BY <1>2, <2>1 DEF PluginCall, NoCall
    <3>2. njobs + 1 \in JobId
      BY <1>2, <2>1, PluginDispatch DEF IInv
    <3>3. QED
      BY <1>0, <1>2, <3>1, <3>2 DEF PluginCall, CallInv, CallRecord, NoCall
  <2>2. CASE call'.st # "running"
    <3>1. \/ call' = [NoCall EXCEPT !.st = "returned", !.ret = "rejected"]
          \/ call' = [NoCall EXCEPT !.st = "returned", !.want = latest,
                                    !.ret = "nil"]
      BY <1>2, <2>2 DEF PluginCall, NoCall
    <3>2. QED
      BY <1>0, <1>2, <3>1 DEF PluginCall, CallInv, CallRecord, NoCall, Unknown
  <2>3. QED
    BY <2>1, <2>2
<1>3. CASE PluginReturn
  BY <1>3 DEF PluginReturn, CallInv, CallRecord
<1>4. CASE AutoResolveSend
  BY <1>4 DEF AutoResolveSend, CallInv
<1>5. CASE AutoResolveReply \/ ResetBinaryHashCache \/ UNCHANGED hostVars
  BY <1>5 DEF AutoResolveReply, ResetBinaryHashCache, hostVars, CallInv
<1>6. QED
  BY <1>1, <1>2, <1>3, <1>4, <1>5 DEF HostNext

\* For every value of the constants, every state of a host process that
\* calls UpdatePlugin and AutoResolveVersion while updates are dispatched is
\* well typed: a running UpdatePlugin call waits on a dispatched job.
THEOREM HostTypeCorrect == HostSpec => []HostTypeOK
<1>1. HostInit => HInv
  BY InitHInv
<1>2. HInv /\ [HostNext]_hostVars => HInv'
  BY HostIInv, HostCallInv DEF HInv
<1>3. HInv => HostTypeOK
  BY DEF HInv, IInv, CallInv, HostTypeOK
<1>4. QED
  BY <1>1, <1>2, <1>3, PTL DEF HostSpec

=============================================================================
