------------------------------- MODULE Guard -------------------------------
(***************************************************************************)
(* The Guard's licensing core: Start/Stop (guard.go), license             *)
(* verification with its on-disk cache (license.go) and the heartbeat     *)
(* goroutines (startHeartbeat, sendHeartbeat, isFatalError in              *)
(* src/unnamed/part_006), driving the state machine of StateMachine.tla.  *)
(*                                                                         *)
(* Every call of Start is numbered i \in StartId: it creates the context   *)
(* ctx_i, stores its cancel func in g.cancel and, when the license         *)
(* verifies, spawns heartbeat goroutine i.  hb[i] holds what goroutine i   *)
(* keeps: where it is in its loop, whether ctx_i is done, when its         *)
(* time.After fires and its local graceStart.  The authority and the       *)
(* network are the environment: online says whether a request reaches it,  *)
(* authority whether it still authorizes this machine.  A process restart  *)
(* loses everything but the clock, the environment and the cache file.     *)
(***************************************************************************)
EXTENDS Integers, StateMachine

CONSTANTS
    MaxOfflineDuration, \* cfg.GracePolicy.MaxOfflineDuration, in clock ticks
    IntervalMin,        \* least value of interval * (0.9 + rand*0.2), in ticks
    IntervalMax,        \* greatest value of it
    MaxStarts,          \* bound: calls of Start per process incarnation
    MaxRestarts,        \* bound: process restarts
    MaxTime             \* bound: the clock

ASSUME GuardAssumption ==
    /\ MaxOfflineDuration \in Nat
    /\ IntervalMin \in Nat \ {0}
    /\ IntervalMax \in Nat
    /\ IntervalMin <= IntervalMax
    /\ MaxStarts \in Nat \ {0}
    /\ MaxRestarts \in Nat
    /\ MaxTime \in Nat

VARIABLES
    sm,            \* g.sm.state
    now,           \* time.Now(), in ticks
    online,        \* a request reaches the authority and gets its answer
    authority,     \* "valid", or "revoked" once the machine is banned/suspended
    cache,         \* the license.cache file: "absent", "trusted" or "untrusted"
    hb,            \* hb[i]: ctx of Start call i and its heartbeat goroutine
    cancelRef,     \* g.cancel: the Start call whose cancel func it holds (0 = nil)
    starts,        \* Start calls in this incarnation
    restarts,      \* process restarts so far
    contact,       \* history: last verification or successful heartbeat, this incarnation
    stopped,       \* history: Stop was called after the last successful Start
    serverContact, \* history: last time the authority itself authorized the machine
    killed         \* history: the authority has answered a heartbeat with status kill

vars == <<sm, now, online, authority, cache, hb, cancelRef, starts, restarts,
          contact, stopped, serverContact, killed>>

StartId == 1..MaxStarts

\* The zero time.Time that graceStart holds while no failure is pending.
NoTime == -1

\* Where goroutine i is: not spawned, blocked in the select of the loop,
\* inside sendHeartbeat, between OnHeartbeatFail and OnGracePeriodExpired,
\* or returned.
Phases == {"none", "sleep", "send", "expire", "exited"}
Running == {"sleep", "send", "expire"}

CacheStates == {"absent", "trusted", "untrusted"}

HbRecord == [phase : Phases, cancelled : BOOLEAN, wakeAt : Nat,
             graceStart : Nat \cup {NoTime}, lastOk : Nat]

\* A Start call that has not happened (or a context with no goroutine).
NoLoop == [phase |-> "none", cancelled |-> FALSE, wakeAt |-> 0,
           graceStart |-> NoTime, lastOk |-> 0]

\* Mutant: the jitter subtracted instead of added (a sign slip).
NextWakeNegative == {now - d : d \in IntervalMin..IntervalMax}

\* The instants at which a time.After(jitter) armed now may fire.
NextWake == {now + d : d \in IntervalMin..IntervalMax}

-----------------------------------------------------------------------------
(* License verification (license.go).                                      *)

\* loadCachedLicense succeeds, the signature decodes and ed25519.Verify
\* accepts it over sha256(PublicData): verifyLicense returns nil at once.
CacheHit == cache = "trusted"

\* The POST /api/v1/verify gets an answer with an empty error field.
RemoteVerifyOk == online /\ authority = "valid"

\* cacheLicense: MkdirAll and WriteFile errors are ignored, so the file ends
\* up with the new signed payload, keeps what it had (open failed) or is
\* left truncated.
CacheWrites == {"trusted", cache, "untrusted"}

-----------------------------------------------------------------------------
(* Guard.Start and Guard.Stop (guard.go).                                  *)

\* Start call i: g.cancel is replaced first; verifyLicense succeeds, so
\* OnVerifySuccess runs and goroutine i is spawned with its first jitter.
StartSucceeds(i) ==
    /\ sm' = OnVerifySuccess(sm)
    /\ \E w \in NextWake :
          hb' = [hb EXCEPT ![i] = [NoLoop EXCEPT !.phase = "sleep",
                                                 !.wakeAt = w,
                                                 !.lastOk = now]]
    /\ contact' = now
    /\ stopped' = FALSE

\* Start call i: verifyLicense returns an error, Start calls cancel() and
\* returns; g.cancel keeps the cancelled func.
StartFails(i) ==
    /\ hb' = [hb EXCEPT ![i].cancelled = TRUE]
    /\ UNCHANGED <<sm, cache, contact, stopped, serverContact>>

Start ==
    /\ starts < MaxStarts
    /\ starts' = starts + 1
    /\ cancelRef' = starts + 1
    /\ \/ /\ CacheHit
          /\ StartSucceeds(starts + 1)
          /\ UNCHANGED <<cache, serverContact>>
       \/ /\ ~CacheHit
          /\ RemoteVerifyOk
          /\ cache' \in CacheWrites
          /\ serverContact' = now
          /\ StartSucceeds(starts + 1)
       \/ /\ ~CacheHit
          /\ ~RemoteVerifyOk    \* NetworkError, or an error code of the answer
          /\ StartFails(starts + 1)
    /\ UNCHANGED <<now, online, authority, restarts, killed>>

\* Stop cancels the context whose cancel func g.cancel holds, and only it.
Stop ==
    /\ cancelRef # 0
    /\ hb' = [hb EXCEPT ![cancelRef].cancelled = TRUE]
    /\ stopped' = TRUE
    /\ UNCHANGED <<sm, now, online, authority, cache, cancelRef, starts,
                   restarts, contact, serverContact, killed>>

-----------------------------------------------------------------------------
(* The heartbeat goroutine (startHeartbeat, sendHeartbeat).                *)

\* The select returns on time.After: sendHeartbeat begins.
HbWake(i) ==
    /\ hb[i].phase = "sleep"
    /\ ~hb[i].cancelled
    /\ now = hb[i].wakeAt
    /\ hb' = [hb EXCEPT ![i].phase = "send"]
    /\ UNCHANGED <<sm, now, online, authority, cache, cancelRef, starts,
                   restarts, contact, stopped, serverContact, killed>>

\* The select returns on ctx.Done(): the goroutine returns.
HbCancelled(i) ==
    /\ hb[i].phase = "sleep"
    /\ hb[i].cancelled
    /\ hb' = [hb EXCEPT ![i].phase = "exited"]
    /\ UNCHANGED <<sm, now, online, authority, cache, cancelRef, starts,
                   restarts, contact, stopped, serverContact, killed>>

\* Mutant: the success path forgets graceStart = time.Time{}.
HbOkKeepsGrace(i) ==
    /\ hb[i].phase = "send"
    /\ online
    /\ authority = "valid"
    /\ sm' = OnHeartbeatOK(sm)
    /\ \E w \in NextWake :
          hb' = [hb EXCEPT ![i] = [@ EXCEPT !.phase = "sleep", !.wakeAt = w,
                                            !.lastOk = now]]
    /\ contact' = now
    /\ serverContact' = now
    /\ UNCHANGED <<now, online, authority, cache, cancelRef, starts,
                   restarts, stopped, killed>>

\* sendHeartbeat returns nil: OnHeartbeatOK, graceStart reset, continue.
HbOk(i) ==
    /\ hb[i].phase = "send"
    /\ online
    /\ authority = "valid"
    /\ sm' = OnHeartbeatOK(sm)
    /\ \E w \in NextWake :
          hb' = [hb EXCEPT ![i] = [@ EXCEPT !.phase = "sleep", !.wakeAt = w,
                                            !.graceStart = NoTime,
                                            !.lastOk = now]]
    /\ contact' = now
    /\ serverContact' = now
    /\ UNCHANGED <<now, online, authority, cache, cancelRef, starts,
                   restarts, stopped, killed>>

\* The answer has status "kill": sendHeartbeat calls OnKill and returns
\* ErrBanned, which isFatalError recognises: OnKill again, return.
HbKill(i) ==
    /\ hb[i].phase = "send"
    /\ online
    /\ authority = "revoked"
    /\ sm' = OnKill(OnKill(sm))
    /\ hb' = [hb EXCEPT ![i].phase = "exited"]
    /\ killed' = TRUE
    /\ UNCHANGED <<now, online, authority, cache, cancelRef, starts,
                   restarts, contact, stopped, serverContact>>

\* Mutant: the IsZero test dropped, the marker moves on every failure.
GraceMarkerAlwaysNow(i) == now

\* The grace marker after a failure: set on the first consecutive failure.
GraceMarker(i) ==
    IF hb[i].graceStart = NoTime THEN now ELSE hb[i].graceStart

\* postJSON fails: the network is down, or the authority answers with a
\* non-200 status (its ban or suspension code included).  sendHeartbeat
\* wraps every such error in ErrNetworkError, so isFatalError is false:
\* OnHeartbeatFail, mark the grace start, and either go on sleeping or,
\* past MaxOfflineDuration, go on to OnGracePeriodExpired.
HbFail(i) ==
    /\ hb[i].phase = "send"
    /\ ~online \/ authority = "revoked"
    /\ sm' = OnHeartbeatFail(sm)
    /\ IF now - GraceMarker(i) > MaxOfflineDuration
          THEN hb' = [hb EXCEPT ![i] = [@ EXCEPT !.phase = "expire",
                                            !.graceStart = GraceMarker(i)]]
          ELSE \E w \in NextWake :
                  hb' = [hb EXCEPT ![i] = [@ EXCEPT !.phase = "sleep",
                                            !.wakeAt = w,
                                            !.graceStart = GraceMarker(i)]]
    /\ UNCHANGED <<now, online, authority, cache, cancelRef, starts,
                   restarts, contact, stopped, serverContact, killed>>

\* OnGracePeriodExpired, then the goroutine returns.
HbExpire(i) ==
    /\ hb[i].phase = "expire"
    /\ sm' = OnGracePeriodExpired(sm)
    /\ hb' = [hb EXCEPT ![i].phase = "exited"]
    /\ UNCHANGED <<now, online, authority, cache, cancelRef, starts,
                   restarts, contact, stopped, serverContact, killed>>

-----------------------------------------------------------------------------
(* Time and the environment.                                               *)

\* The clock advances while every goroutine is blocked in its select and
\* none of their timers is due (a request resolves within one tick: the
\* http.Client timeout is 30s).
Tick ==
    /\ now < MaxTime
    /\ \A i \in StartId :
          /\ hb[i].phase \notin {"send", "expire"}
          /\ hb[i].phase = "sleep" => now < hb[i].wakeAt
    /\ now' = now + 1
    /\ UNCHANGED <<sm, online, authority, cache, hb, cancelRef, starts,
                   restarts, contact, stopped, serverContact, killed>>

\* The network to the authority goes down or comes back.
ToggleNetwork ==
    /\ online' = ~online
    /\ UNCHANGED <<sm, now, authority, cache, hb, cancelRef, starts,
                   restarts, contact, stopped, serverContact, killed>>

\* The authority bans the machine or suspends the license.
Revoke ==
    /\ authority = "valid"
    /\ authority' = "revoked"
    /\ UNCHANGED <<sm, now, online, cache, hb, cancelRef, starts,
                   restarts, contact, stopped, serverContact, killed>>

\* The process dies and is started again: New() builds a fresh Guard; only
\* the cache file survives.
Restart ==
    /\ restarts < MaxRestarts
    /\ restarts' = restarts + 1
    /\ sm' = InitialState
    /\ hb' = [i \in StartId |-> NoLoop]
    /\ cancelRef' = 0
    /\ starts' = 0
    /\ stopped' = FALSE
    /\ UNCHANGED <<now, online, authority, cache, contact, serverContact,
                   killed>>

-----------------------------------------------------------------------------
Init ==
    /\ sm = InitialState
    /\ now = 0
    /\ online \in BOOLEAN
    /\ authority = "valid"
    /\ cache \in CacheStates
    /\ hb = [i \in StartId |-> NoLoop]
    /\ cancelRef = 0
    /\ starts = 0
    /\ restarts = 0
    /\ contact = 0
    /\ stopped = FALSE
    /\ serverContact = 0
    /\ killed = FALSE

Next ==
    \/ Start
    \/ Stop
    \/ \E i \in StartId :
          \/ HbWake(i)
          \/ HbCancelled(i)
          \/ HbOk(i)
          \/ HbKill(i)
          \/ HbFail(i)
          \/ HbExpire(i)
    \/ Tick
    \/ ToggleNetwork
    \/ Revoke
    \/ Restart

Spec == Init /\ [][Next]_vars

-----------------------------------------------------------------------------
(* Properties.                                                             *)

TypeOK ==
    /\ sm \in States
    /\ now \in Nat
    /\ online \in BOOLEAN
    /\ authority \in {"valid", "revoked"}
    /\ cache \in CacheStates
    /\ hb \in [StartId -> HbRecord]
    /\ cancelRef \in 0..MaxStarts
    /\ starts \in 0..MaxStarts
    /\ restarts \in 0..MaxRestarts
    /\ contact \in Nat
    /\ stopped \in BOOLEAN
    /\ serverContact \in Nat
    /\ killed \in BOOLEAN

\* The longest a heartbeat loop can let the guard run without a successful
\* verification or heartbeat: the first failure comes at most one interval
\* after the last success, the lock decision at most one interval after the
\* window has passed.
GraceWindow == MaxOfflineDuration + 2 * IntervalMax

\* While the guard has not been stopped, Check() reports the machine
\* authorized (ACTIVE or GRACE) only within GraceWindow of the last
\* successful verification or heartbeat of this process: the grace marker
\* of startHeartbeat is set on the first failure and the loop locks once it
\* is older than MaxOfflineDuration.
GraceBound ==
    (~stopped /\ sm \in Authorized) => now - contact <= GraceWindow

\* The guard never moves to LOCKED unless some heartbeat loop has gone more
\* than MaxOfflineDuration without a successful heartbeat (graceStart is
\* reset on success and set only on the first failure after it).
NoPrematureLock ==
    [][(sm # StateLocked /\ sm' = StateLocked) =>
         \E i \in StartId : now - hb[i].lastOk > MaxOfflineDuration]_vars

\* Within one process, BANNED is never left: no later Start, heartbeat
\* answer or grace event makes the machine authorized again.
BanIrreversible ==
    [][sm = StateBanned => (sm' = StateBanned \/ restarts' = restarts + 1)]_vars

\* Spec (section 3, 4.1): BANNED is absorbing and the kill irreversible:
\* once the authority has killed the machine, Check() never reports it
\* authorized again.
KillIsPermanent == killed => sm \notin Authorized

\* Spec (glossary, 4.3): heartbeat failures are tolerated only for a
\* bounded grace period: the machine is authorized only within
\* GraceWindow of the last time the authority itself authorized it.
OfflineBounded == sm \in Authorized => now - serverContact <= GraceWindow

\* README (part_013, "Guard.Stop() cancels the heartbeat goroutine"): after
\* Stop, every heartbeat goroutine still in its loop has its context
\* cancelled, so none sends another heartbeat.
StopEndsHeartbeats ==
    stopped => \A i \in StartId : hb[i].phase \in Running => hb[i].cancelled

=============================================================================
