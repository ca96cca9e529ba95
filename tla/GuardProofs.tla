---------------------------- MODULE GuardProofs ----------------------------
(***************************************************************************)
(* Proofs about Guard for every value of its constants.                    *)
(***************************************************************************)
EXTENDS Guard, TLAPS

\* The jitter of startHeartbeat always arms a timer at a natural instant.
LEMMA NextWakeType ==
    ASSUME now \in Nat
    PROVE  NextWake \subseteq Nat
BY GuardAssumption DEF NextWake

\* The grace marker of a well-typed record is a time or the zero time.
LEMMA GraceMarkerType ==
    ASSUME TypeOK, NEW i \in StartId
    PROVE  GraceMarker(i) \in Nat \cup {NoTime}
BY DEF TypeOK, HbRecord, GraceMarker

\* The record of a Start call that has not happened is well typed.
LEMMA NoLoopType == NoLoop \in HbRecord
BY DEF NoLoop, HbRecord, Phases, NoTime

\* Every action of the lifecycle, the heartbeat goroutines and the
\* environment keeps every variable in its set.
LEMMA TypeNext == TypeOK /\ [Next]_vars => TypeOK'
<1> SUFFICES ASSUME TypeOK, [Next]_vars PROVE TypeOK'
  OBVIOUS
<1> USE GuardAssumption
<1>1. CASE Start
  <2>1. NextWake \subseteq Nat
    BY NextWakeType DEF TypeOK
  <2>2. starts + 1 \in StartId
    BY <1>1 DEF Start, TypeOK, StartId
  <2>3. /\ starts' \in 0..MaxStarts /\ cancelRef' \in 0..MaxStarts
        /\ UNCHANGED <<now, online, authority, restarts, killed>>
    BY <1>1 DEF Start, TypeOK
  <2>4. ASSUME StartSucceeds(starts + 1)
        PROVE  /\ sm' \in States /\ hb' \in [StartId -> HbRecord]
               /\ contact' \in Nat /\ stopped' \in BOOLEAN
    <3>1. sm' \in States
      BY <2>4 DEF StartSucceeds, TypeOK, OnVerifySuccess, States, StateActive
    <3>2. hb' \in [StartId -> HbRecord]
      <4>1. PICK w \in NextWake :
              hb' = [hb EXCEPT ![starts + 1] = [NoLoop EXCEPT !.phase = "sleep",
                                                 !.wakeAt = w, !.lastOk = now]]
        BY <2>4 DEF StartSucceeds
      <4>2. [NoLoop EXCEPT !.phase = "sleep", !.wakeAt = w, !.lastOk = now]
              \in HbRecord
        BY <2>1 DEF NoLoop, HbRecord, Phases, NoTime, TypeOK
      <4>3. QED
        BY <4>1, <4>2, <2>2 DEF TypeOK
    <3>3. QED
      BY <2>4, <3>1, <3>2 DEF StartSucceeds, TypeOK
  <2>5. ASSUME StartFails(starts + 1)
        PROVE  /\ sm' \in States /\ hb' \in [StartId -> HbRecord]
               /\ contact' \in Nat /\ stopped' \in BOOLEAN /\ cache' \in CacheStates
               /\ serverContact' \in Nat
    BY <2>5, <2>2 DEF StartFails, TypeOK, HbRecord
  <2>6. /\ cache' \in CacheStates /\ serverContact' \in Nat
    <3>1. CASE CacheHit /\ StartSucceeds(starts + 1)
               /\ UNCHANGED <<cache, serverContact>>
      BY <3>1 DEF TypeOK
    <3>2. CASE ~CacheHit /\ RemoteVerifyOk /\ cache' \in CacheWrites
               /\ serverContact' = now /\ StartSucceeds(starts + 1)
      BY <3>2 DEF TypeOK, CacheWrites, CacheStates
    <3>3. CASE ~CacheHit /\ ~RemoteVerifyOk /\ StartFails(starts + 1)
      BY <3>3, <2>5
    <3>4. QED
      BY <1>1, <3>1, <3>2, <3>3 DEF Start
  <2>7. /\ sm' \in States /\ hb' \in [StartId -> HbRecord]
        /\ contact' \in Nat /\ stopped' \in BOOLEAN
    BY <1>1, <2>4, <2>5 DEF Start
  <2>8. QED
    BY <2>3, <2>6, <2>7 DEF TypeOK
<1>2. CASE Stop
  BY <1>2 DEF Stop, TypeOK, HbRecord, StartId
<1>3. ASSUME NEW i \in StartId, HbWake(i) PROVE TypeOK'
  BY <1>3 DEF HbWake, TypeOK, HbRecord, Phases
<1>4. ASSUME NEW i \in StartId, HbCancelled(i) PROVE TypeOK'
  BY <1>4 DEF HbCancelled, TypeOK, HbRecord, Phases
<1>5. ASSUME NEW i \in StartId, HbOk(i) PROVE TypeOK'
  <2>1. NextWake \subseteq Nat
    BY NextWakeType DEF TypeOK
  <2>2. sm' \in States
    BY <1>5 DEF HbOk, TypeOK, OnHeartbeatOK, States, StateActive
  <2>3. hb' \in [StartId -> HbRecord]
    <3>1. PICK w \in NextWake :
            hb' = [hb EXCEPT ![i] = [@ EXCEPT !.phase = "sleep", !.wakeAt = w,
                                              !.graceStart = NoTime,
                                              !.lastOk = now]]
      BY <1>5 DEF HbOk
    <3>2. [hb[i] EXCEPT !.phase = "sleep", !.wakeAt = w,
                        !.graceStart = NoTime, !.lastOk = now] \in HbRecord
      BY <2>1 DEF TypeOK, HbRecord, Phases
    <3>3. QED
      BY <3>1, <3>2 DEF TypeOK
  <2>4. QED
    BY <1>5, <2>2, <2>3 DEF HbOk, TypeOK
<1>6. ASSUME NEW i \in StartId, HbKill(i) PROVE TypeOK'
  BY <1>6 DEF HbKill, TypeOK, HbRecord, Phases, OnKill, States, StateBanned
<1>7. ASSUME NEW i \in StartId, HbFail(i) PROVE TypeOK'
  <2>1. NextWake \subseteq Nat
    BY NextWakeType DEF TypeOK
  <2>2. GraceMarker(i) \in Nat \cup {NoTime}
    BY GraceMarkerType
  <2>3. sm' \in States
    BY <1>7 DEF HbFail, TypeOK, OnHeartbeatFail, States, StateGrace
  <2>4. hb' \in [StartId -> HbRecord]
    <3>1. CASE now - GraceMarker(i) > MaxOfflineDuration
      <4>1. hb' = [hb EXCEPT ![i] = [@ EXCEPT !.phase = "expire",
                                        !.graceStart = GraceMarker(i)]]
        BY <1>7, <3>1 DEF HbFail
      <4>2. [hb[i] EXCEPT !.phase = "expire", !.graceStart = GraceMarker(i)]
              \in HbRecord
        BY <2>2 DEF TypeOK, HbRecord, Phases
      <4>3. QED
        BY <4>1, <4>2 DEF TypeOK
    <3>2. CASE ~(now - GraceMarker(i) > MaxOfflineDuration)
      <4>1. PICK w \in NextWake :
              hb' = [hb EXCEPT ![i] = [@ EXCEPT !.phase = "sleep", !.wakeAt = w,
                                                !.graceStart = GraceMarker(i)]]
        BY <1>7, <3>2 DEF HbFail
      <4>2. [hb[i] EXCEPT !.phase = "sleep", !.wakeAt = w,
                          !.graceStart = GraceMarker(i)] \in HbRecord
        BY <2>1, <2>2 DEF TypeOK, HbRecord, Phases
      <4>3. QED
        BY <4>1, <4>2 DEF TypeOK
    <3>3. QED
      BY <3>1, <3>2
  <2>5. QED
    BY <1>7, <2>3, <2>4 DEF HbFail, TypeOK
<1>8. ASSUME NEW i \in StartId, HbExpire(i) PROVE TypeOK'
  BY <1>8 DEF HbExpire, TypeOK, HbRecord, Phases, OnGracePeriodExpired,
     States, StateGrace, StateLocked
<1>9. CASE Tick
  BY <1>9 DEF Tick, TypeOK
<1>10. CASE ToggleNetwork
  BY <1>10 DEF ToggleNetwork, TypeOK
<1>11. CASE Revoke
  BY <1>11 DEF Revoke, TypeOK
<1>12. CASE Restart
  <2>1. hb' \in [StartId -> HbRecord]
    BY <1>12, NoLoopType DEF Restart
  <2>2. sm' \in States
    BY <1>12 DEF Restart, InitialState, States, StateInit
  <2>3. restarts' \in 0..MaxRestarts
    BY <1>12 DEF Restart, TypeOK
  <2>4. /\ cancelRef' \in 0..MaxStarts /\ starts' \in 0..MaxStarts
    BY <1>12 DEF Restart
  <2>7. stopped' \in BOOLEAN
    BY <1>12, Zenon DEF Restart
  <2>5. UNCHANGED <<now, online, authority, cache, contact, serverContact, killed>>
    BY <1>12 DEF Restart
  <2>6. QED
    BY <2>1, <2>2, <2>3, <2>4, <2>5, <2>7 DEF TypeOK
<1>13. CASE UNCHANGED vars
  BY <1>13 DEF vars, TypeOK
<1>14. QED
  BY <1>1, <1>2, <1>3, <1>4, <1>5, <1>6, <1>7, <1>8, <1>9, <1>10, <1>11,
     <1>12, <1>13 DEF Next

\* The state New() builds is well typed.
LEMMA InitType == Init => TypeOK
<1> SUFFICES ASSUME Init PROVE TypeOK
  OBVIOUS
<1>1. hb \in [StartId -> HbRecord]
  BY NoLoopType DEF Init
<1>2. sm \in States
  BY DEF Init, InitialState, States, StateInit
<1>3. /\ now \in Nat /\ contact \in Nat /\ serverContact \in Nat
      /\ cancelRef \in 0..MaxStarts /\ starts \in 0..MaxStarts
      /\ restarts \in 0..MaxRestarts
  BY GuardAssumption DEF Init
<1>4. /\ online \in BOOLEAN /\ stopped \in BOOLEAN /\ killed \in BOOLEAN
      /\ authority \in {"valid", "revoked"} /\ cache \in CacheStates
  BY DEF Init, CacheStates
<1>5. QED
  BY <1>1, <1>2, <1>3, <1>4 DEF TypeOK

\* Every reachable state is well typed: each action of the lifecycle, the
\* heartbeat goroutines and the environment keeps every variable in its set.
THEOREM TypeCorrect == Spec => []TypeOK
<1>1. Init => TypeOK
  BY InitType
<1>2. TypeOK /\ [Next]_vars => TypeOK'
  BY TypeNext
<1>3. QED
  BY <1>1, <1>2, PTL DEF Spec

=============================================================================
