---------------------------- MODULE GraceProofs ----------------------------
(***************************************************************************)
(* Proofs about the grace period of Guard (startHeartbeat and             *)
(* sendHeartbeat in src/unnamed/part_006, Start and Stop in               *)
(* src/guard.go), for every value of the constants: the guard locks only  *)
(* after MaxOfflineDuration without a successful heartbeat                *)
(* (NoPrematureLock), it never stays authorized more than GraceWindow past *)
(* the last success while it has not been stopped (GraceBound), and       *)
(* BANNED is left only by a restart (BanIrreversible).                    *)
(*                                                                         *)
(* GraceBound is not inductive: it needs what each heartbeat goroutine    *)
(* keeps in its loop (Timely), and that while the guard is authorized and *)
(* not stopped some goroutine is still in its loop to lock it             *)
(* (ActiveOwned, GraceOwned).  A goroutine cancelled by Stop while its     *)
(* request is in flight may still answer OnHeartbeatOK; it can do so only *)
(* before the clock moves, and a Start after that Stop has left a fresh    *)
(* goroutine sleeping (PendingCancel).                                     *)
(***************************************************************************)
EXTENDS GuardProofs

USE GuardAssumption

\* Start calls fill the slots in order, and g.cancel holds the last one.
FreshSlots ==
    /\ \A i \in StartId : i > starts => hb[i] = NoLoop
    /\ cancelRef = starts

\* Successes are recorded at the current instant: contact is no later than
\* the clock, and every goroutine's last success no later than contact.
ContactInv ==
    /\ contact <= now
    /\ \A i \in StartId : hb[i].lastOk <= contact

\* What goroutine i keeps in its loop: its timer is due no earlier than
\* the clock (and is the clock while it sends or expires); it is armed at
\* most one interval after the last success, or, once a failure has set
\* graceStart (at most one interval after that success), at most
\* MaxOfflineDuration plus one interval after graceStart; and a goroutine
\* about to call OnGracePeriodExpired is past MaxOfflineDuration.
Timely(i) ==
    hb[i].phase \in Running =>
      /\ hb[i].phase = "sleep" => now <= hb[i].wakeAt
      /\ hb[i].phase \in {"send", "expire"} => now = hb[i].wakeAt
      /\ hb[i].graceStart = NoTime => hb[i].wakeAt <= hb[i].lastOk + IntervalMax
      /\ hb[i].graceStart # NoTime =>
           /\ hb[i].lastOk <= hb[i].graceStart
           /\ hb[i].graceStart <= hb[i].lastOk + IntervalMax
           /\ hb[i].wakeAt <= hb[i].graceStart + MaxOfflineDuration + IntervalMax
      /\ hb[i].phase = "expire" => now - hb[i].lastOk > MaxOfflineDuration

\* Goroutine i is in its loop, before any failure decision, and its
\* context is live.
Live(i) == hb[i].phase \in {"sleep", "send"} /\ ~hb[i].cancelled

\* A goroutine whose context Stop cancelled while it was sending: if a
\* Start has succeeded since, its goroutine sleeps with its first timer
\* still ahead (the clock cannot move while a request is in flight).
PendingCancel ==
    (~stopped /\ \E k \in StartId : hb[k].cancelled /\ hb[k].phase = "send")
       => \E g \in StartId : /\ hb[g].phase = "sleep" /\ ~hb[g].cancelled
                             /\ now < hb[g].wakeAt

\* An ACTIVE guard that was not stopped has a live goroutine that has not
\* yet failed since; a GRACE one a goroutine with a live context in its loop.
ActiveOwned == (sm = StateActive /\ ~stopped) => \E k \in StartId : Live(k)
GraceOwned ==
    (sm = StateGrace /\ ~stopped) =>
        \E k \in StartId : hb[k].phase \in Running /\ ~hb[k].cancelled

\* The inductive invariant behind GraceBound and NoPrematureLock.
GInv ==
    /\ TypeOK /\ FreshSlots /\ ContactInv /\ \A i \in StartId : Timely(i)
    /\ PendingCancel /\ ActiveOwned /\ GraceOwned /\ GraceBound

-----------------------------------------------------------------------------
(* Helpers.                                                                *)

\* A step that rewrites the record of goroutine i only.
LEMMA HbFrame ==
    ASSUME TypeOK, NEW i \in StartId, NEW r, hb' = [hb EXCEPT ![i] = r]
    PROVE  /\ hb'[i] = r
           /\ \A k \in StartId \ {i} : hb'[k] = hb[k]
           /\ hb' \in [StartId -> HbRecord] <=> r \in HbRecord
BY DEF TypeOK

\* The grace window is a length of time.
LEMMA GraceWindowNat == GraceWindow \in Nat
BY DEF GraceWindow

\* New() builds a guard with no goroutine, no contact and the clock at 0.
LEMMA InitGInv == Init => GInv
<1> SUFFICES ASSUME Init PROVE GInv
  OBVIOUS
<1>1. TypeOK
  BY InitType
<1>2. \A i \in StartId : hb[i] = NoLoop
  BY DEF Init
<1>3. QED
  BY <1>1, <1>2 DEF Init, GInv, FreshSlots, ContactInv, Timely, NoLoop,
     Running, PendingCancel, ActiveOwned, GraceOwned, GraceBound, Live,
     InitialState, StateInit, StateActive, StateGrace, Authorized

-----------------------------------------------------------------------------
(* The environment, Stop and a restart.                                    *)

\* The network and the authority are not read by the invariant.
LEMMA EnvGInv ==
    ASSUME GInv, ToggleNetwork \/ Revoke
    PROVE  GInv'
<1>1. TypeOK'
  BY TypeNext DEF GInv, Next
<1>2. UNCHANGED <<sm, now, hb, cancelRef, starts, contact, stopped>>
  BY DEF ToggleNetwork, Revoke
<1>3. QED
  BY <1>1, <1>2 DEF GInv, FreshSlots, ContactInv, Timely, PendingCancel,
     ActiveOwned, GraceOwned, GraceBound, Live

\* The clock moves only while every goroutine sleeps with its timer
\* ahead; an authorized guard that was not stopped has one, and its timer
\* bounds the clock by GraceWindow past the last success.
LEMMA TickGInv ==
    ASSUME GInv, Tick
    PROVE  GInv'
<1>0. /\ TypeOK /\ now' = now + 1
      /\ UNCHANGED <<sm, hb, cancelRef, starts, contact, stopped>>
      /\ \A i \in StartId : hb[i].phase \notin {"send", "expire"}
      /\ \A i \in StartId : hb[i].phase = "sleep" => now < hb[i].wakeAt
  BY DEF Tick, GInv
<1>1. TypeOK'
  BY TypeNext DEF GInv, Next
<1>2. FreshSlots' /\ ContactInv'
  BY <1>0 DEF GInv, FreshSlots, ContactInv, TypeOK
<1>3. \A i \in StartId : Timely(i)'
  <2> SUFFICES ASSUME NEW i \in StartId, hb[i].phase \in Running
               PROVE  Timely(i)'
    BY <1>0 DEF Timely
  <2>1. hb[i].phase = "sleep" /\ now < hb[i].wakeAt /\ Timely(i)
    BY <1>0 DEF Running, GInv
  <2>2. hb[i] \in HbRecord
    BY <1>0 DEF TypeOK
  <2>3. QED
    BY <1>0, <2>1, <2>2 DEF Timely, HbRecord, TypeOK
<1>4. PendingCancel'
  BY <1>0 DEF PendingCancel
<1>5. ActiveOwned' /\ GraceOwned'
  BY <1>0 DEF GInv, ActiveOwned, GraceOwned, Live
<1>6. GraceBound'
  <2> SUFFICES ASSUME ~stopped', sm' \in Authorized
               PROVE  now' - contact' <= GraceWindow
    BY DEF GraceBound
  <2>a. ~stopped /\ sm \in Authorized
    BY <1>0
  <2>0. ActiveOwned /\ GraceOwned /\ (sm = StateActive \/ sm = StateGrace)
    BY <2>a DEF GInv, Authorized
  <2>1. PICK i \in StartId : hb[i].phase \in Running
    BY <2>0, <2>a DEF ActiveOwned, GraceOwned, Live, Running
  <2>2. hb[i].phase = "sleep" /\ now < hb[i].wakeAt /\ Timely(i)
    BY <1>0, <2>1 DEF Running, GInv
  <2>3. hb[i].lastOk <= contact /\ hb[i] \in HbRecord
    BY DEF GInv, ContactInv, TypeOK
  <2>4. hb[i].wakeAt <= hb[i].lastOk + GraceWindow
    BY <2>1, <2>2, <2>3 DEF Timely, GraceWindow, HbRecord, NoTime
  <2>5. QED
    BY <1>0, <2>2, <2>3, <2>4 DEF HbRecord, GInv, TypeOK, GraceWindow
<1>7. QED
  BY <1>1, <1>2, <1>3, <1>4, <1>5, <1>6 DEF GInv

\* Stop sets stopped, which every conditional conjunct assumes false, and
\* cancels a context, which only PendingCancel reads.
LEMMA StopGInv ==
    ASSUME GInv, Stop
    PROVE  GInv'
<1>0. /\ TypeOK /\ cancelRef \in StartId /\ stopped'
      /\ hb' = [hb EXCEPT ![cancelRef].cancelled = TRUE]
      /\ UNCHANGED <<sm, now, cancelRef, starts, contact>>
  BY DEF Stop, GInv, TypeOK, StartId
<1>1. TypeOK'
  BY TypeNext DEF GInv, Next
<1>2. \A i \in StartId : /\ hb'[i].phase = hb[i].phase
                         /\ hb'[i].wakeAt = hb[i].wakeAt
                         /\ hb'[i].graceStart = hb[i].graceStart
                         /\ hb'[i].lastOk = hb[i].lastOk
  BY <1>0 DEF TypeOK
<1>3. FreshSlots'
  <2>1. cancelRef <= starts
    BY <1>0 DEF GInv, FreshSlots, TypeOK
  <2>2. QED
    BY <1>0, <2>1 DEF GInv, FreshSlots, TypeOK, StartId
<1>4. ContactInv' /\ \A i \in StartId : Timely(i)'
  BY <1>0, <1>2 DEF GInv, ContactInv, Timely
<1>5. QED
  BY <1>0, <1>1, <1>3, <1>4 DEF GInv, PendingCancel, ActiveOwned, GraceOwned,
     GraceBound

\* A restart leaves a fresh guard in INIT with no goroutine.
LEMMA RestartGInv ==
    ASSUME GInv, Restart
    PROVE  GInv'
<1>0. /\ sm' = StateInit /\ hb' = [i \in StartId |-> NoLoop]
      /\ cancelRef' = 0 /\ starts' = 0 /\ UNCHANGED <<now, contact>>
  BY DEF Restart, InitialState
<1>1. TypeOK'
  BY TypeNext DEF GInv, Next
<1>2. contact \in Nat /\ contact <= now
  BY DEF GInv, TypeOK, ContactInv
<1>3. QED
  BY <1>0, <1>1, <1>2 DEF GInv, FreshSlots, ContactInv, Timely, NoLoop,
     Running, PendingCancel, ActiveOwned, GraceOwned, GraceBound, Live,
     StateInit, StateActive, StateGrace, Authorized

-----------------------------------------------------------------------------
(* The select of the heartbeat loop.                                       *)

\* A spawned goroutine was spawned by a Start of this incarnation.
LEMMA SpawnedSlot ==
    ASSUME GInv, NEW i \in StartId, hb[i].phase # "none"
    PROVE  ~(i > starts)
BY DEF GInv, FreshSlots, NoLoop

\* The timer fires: the goroutine goes on to send with the clock at its
\* timer, which no other goroutine's timer still ahead can be.
LEMMA WakeGInv ==
    ASSUME GInv, NEW i \in StartId, HbWake(i)
    PROVE  GInv'
<1>0. /\ TypeOK /\ hb[i] \in HbRecord /\ Timely(i)
      /\ hb[i].phase = "sleep" /\ ~hb[i].cancelled /\ now = hb[i].wakeAt
      /\ UNCHANGED <<sm, now, cancelRef, starts, contact, stopped>>
  BY DEF HbWake, GInv, TypeOK
<1>1. /\ hb'[i] = [hb[i] EXCEPT !.phase = "send"]
      /\ \A k \in StartId \ {i} : hb'[k] = hb[k]
  BY <1>0, HbFrame DEF HbWake
<1>2. TypeOK'
  BY TypeNext DEF GInv, Next
<1>3. FreshSlots'
  BY <1>0, <1>1, SpawnedSlot DEF GInv, FreshSlots
<1>4. ContactInv'
  BY <1>0, <1>1 DEF GInv, ContactInv, HbRecord, TypeOK
<1>5. \A k \in StartId : Timely(k)'
  <2>1. Timely(i)'
    BY <1>0, <1>1 DEF Timely, HbRecord, Running
  <2>2. QED
    BY <1>0, <1>1, <2>1 DEF GInv, Timely
<1>6. PendingCancel'
  <2> SUFFICES ASSUME ~stopped', NEW k \in StartId, hb'[k].cancelled,
                      hb'[k].phase = "send"
               PROVE  \E g \in StartId : /\ hb'[g].phase = "sleep"
                                         /\ ~hb'[g].cancelled
                                         /\ now' < hb'[g].wakeAt
    BY DEF PendingCancel
  <2>1. k # i /\ hb[k].cancelled /\ hb[k].phase = "send"
    BY <1>0, <1>1 DEF HbRecord, TypeOK
  <2>2. PICK g \in StartId : /\ hb[g].phase = "sleep" /\ ~hb[g].cancelled
                             /\ now < hb[g].wakeAt
    BY <1>0, <2>1 DEF GInv, PendingCancel
  <2>3. g # i
    BY <1>0, <2>2 DEF HbRecord
  <2>4. QED
    BY <1>0, <1>1, <2>2, <2>3
<1>7. ActiveOwned' /\ GraceOwned'
  <2>1. Live(i)' /\ hb'[i].phase \in Running /\ ~hb'[i].cancelled
    BY <1>0, <1>1 DEF Live, Running
  <2>2. QED
    BY <1>0, <2>1 DEF ActiveOwned, GraceOwned
<1>8. GraceBound'
  BY <1>0 DEF GInv, GraceBound
<1>9. QED
  BY <1>2, <1>3, <1>4, <1>5, <1>6, <1>7, <1>8 DEF GInv

\* ctx.Done() wins the select: a cancelled goroutine leaves its loop; no
\* owner of ActiveOwned, GraceOwned or PendingCancel is cancelled.
LEMMA CancelledGInv ==
    ASSUME GInv, NEW i \in StartId, HbCancelled(i)
    PROVE  GInv'
<1>0. /\ TypeOK /\ hb[i] \in HbRecord
      /\ hb[i].phase = "sleep" /\ hb[i].cancelled
      /\ UNCHANGED <<sm, now, cancelRef, starts, contact, stopped>>
  BY DEF HbCancelled, GInv, TypeOK
<1>1. /\ hb'[i] = [hb[i] EXCEPT !.phase = "exited"]
      /\ \A k \in StartId \ {i} : hb'[k] = hb[k]
  BY <1>0, HbFrame DEF HbCancelled
<1>2. TypeOK'
  BY TypeNext DEF GInv, Next
<1>3. FreshSlots' /\ ContactInv'
  BY <1>0, <1>1, SpawnedSlot DEF GInv, FreshSlots, ContactInv, HbRecord, TypeOK
<1>4. \A k \in StartId : Timely(k)'
  BY <1>0, <1>1 DEF GInv, Timely, Running, HbRecord, TypeOK
<1>5. PendingCancel'
  <2> SUFFICES ASSUME ~stopped', NEW k \in StartId, hb'[k].cancelled,
                      hb'[k].phase = "send"
               PROVE  \E g \in StartId : /\ hb'[g].phase = "sleep"
                                         /\ ~hb'[g].cancelled
                                         /\ now' < hb'[g].wakeAt
    BY DEF PendingCancel
  <2>1. k # i /\ hb[k].cancelled /\ hb[k].phase = "send"
    BY <1>0, <1>1 DEF HbRecord, TypeOK
  <2>2. PICK g \in StartId : /\ hb[g].phase = "sleep" /\ ~hb[g].cancelled
                             /\ now < hb[g].wakeAt
    BY <1>0, <2>1 DEF GInv, PendingCancel
  <2>3. QED
    BY <1>0, <1>1, <2>2
<1>6. ActiveOwned' /\ GraceOwned'
  BY <1>0, <1>1 DEF GInv, ActiveOwned, GraceOwned, Live
<1>7. GraceBound'
  BY <1>0 DEF GInv, GraceBound
<1>8. QED
  BY <1>2, <1>3, <1>4, <1>5, <1>6, <1>7 DEF GInv

-----------------------------------------------------------------------------
(* The goroutine leaves its loop: a kill, or OnGracePeriodExpired.         *)

\* status "kill": BANNED, and the goroutine returns.
LEMMA KillGInv ==
    ASSUME GInv, NEW i \in StartId, HbKill(i)
    PROVE  GInv'
<1>0. /\ TypeOK /\ hb[i] \in HbRecord /\ hb[i].phase = "send"
      /\ sm' = StateBanned
      /\ UNCHANGED <<now, cancelRef, starts, contact, stopped>>
  BY DEF HbKill, GInv, TypeOK, OnKill
<1>1. /\ hb'[i] = [hb[i] EXCEPT !.phase = "exited"]
      /\ \A k \in StartId \ {i} : hb'[k] = hb[k]
  BY <1>0, HbFrame DEF HbKill
<1>2. TypeOK'
  BY TypeNext DEF GInv, Next
<1>3. FreshSlots' /\ ContactInv'
  BY <1>0, <1>1, SpawnedSlot DEF GInv, FreshSlots, ContactInv, HbRecord,
     TypeOK
<1>4. \A k \in StartId : Timely(k)'
  BY <1>0, <1>1 DEF GInv, Timely, Running, HbRecord, TypeOK
<1>5. PendingCancel'
  <2> SUFFICES ASSUME ~stopped', NEW k \in StartId, hb'[k].cancelled,
                      hb'[k].phase = "send"
               PROVE  \E g \in StartId : /\ hb'[g].phase = "sleep"
                                         /\ ~hb'[g].cancelled
                                         /\ now' < hb'[g].wakeAt
    BY DEF PendingCancel
  <2>1. k # i /\ hb[k].cancelled /\ hb[k].phase = "send"
    BY <1>0, <1>1 DEF HbRecord, TypeOK
  <2>2. PICK g \in StartId : /\ hb[g].phase = "sleep" /\ ~hb[g].cancelled
                             /\ now < hb[g].wakeAt
    BY <1>0, <2>1 DEF GInv, PendingCancel
  <2>3. QED
    BY <1>0, <1>1, <2>2
<1>6. ActiveOwned' /\ GraceOwned' /\ GraceBound'
  BY <1>0 DEF ActiveOwned, GraceOwned, GraceBound, Authorized, StateBanned,
     StateActive, StateGrace
<1>7. QED
  BY <1>2, <1>3, <1>4, <1>5, <1>6 DEF GInv

\* OnGracePeriodExpired: GRACE locks; an ACTIVE guard (another goroutine
\* succeeded since this one failed) keeps the live goroutine that made it
\* so, which is not this one.
LEMMA ExpireGInv ==
    ASSUME GInv, NEW i \in StartId, HbExpire(i)
    PROVE  GInv'
<1>0. /\ TypeOK /\ hb[i] \in HbRecord /\ hb[i].phase = "expire"
      /\ sm' = OnGracePeriodExpired(sm)
      /\ UNCHANGED <<now, cancelRef, starts, contact, stopped>>
  BY DEF HbExpire, GInv, TypeOK
<1>1. /\ hb'[i] = [hb[i] EXCEPT !.phase = "exited"]
      /\ \A k \in StartId \ {i} : hb'[k] = hb[k]
  BY <1>0, HbFrame DEF HbExpire
<1>2. TypeOK'
  BY TypeNext DEF GInv, Next
<1>3. FreshSlots' /\ ContactInv'
  BY <1>0, <1>1, SpawnedSlot DEF GInv, FreshSlots, ContactInv, HbRecord,
     TypeOK
<1>4. \A k \in StartId : Timely(k)'
  BY <1>0, <1>1 DEF GInv, Timely, Running, HbRecord, TypeOK
<1>5. PendingCancel'
  <2> SUFFICES ASSUME ~stopped', NEW k \in StartId, hb'[k].cancelled,
                      hb'[k].phase = "send"
               PROVE  \E g \in StartId : /\ hb'[g].phase = "sleep"
                                         /\ ~hb'[g].cancelled
                                         /\ now' < hb'[g].wakeAt
    BY DEF PendingCancel
  <2>1. k # i /\ hb[k].cancelled /\ hb[k].phase = "send"
    BY <1>0, <1>1 DEF HbRecord, TypeOK
  <2>2. PICK g \in StartId : /\ hb[g].phase = "sleep" /\ ~hb[g].cancelled
                             /\ now < hb[g].wakeAt
    BY <1>0, <2>1 DEF GInv, PendingCancel
  <2>3. QED
    BY <1>0, <1>1, <2>2
<1>6. (sm' = StateActive => sm = StateActive) /\ sm' # StateGrace
      /\ (sm' \in Authorized => sm' = sm)
  BY <1>0 DEF OnGracePeriodExpired, StateActive, StateGrace, StateLocked,
     Authorized
<1>7. ActiveOwned'
  <2> SUFFICES ASSUME sm' = StateActive, ~stopped'
               PROVE  \E k \in StartId : Live(k)'
    BY DEF ActiveOwned
  <2>1. PICK k \in StartId : Live(k)
    BY <1>0, <1>6 DEF GInv, ActiveOwned
  <2>2. k # i
    BY <1>0, <2>1 DEF Live
  <2>3. QED
    BY <1>1, <2>1, <2>2 DEF Live
<1>8. GraceOwned' /\ GraceBound'
  BY <1>0, <1>6 DEF GInv, GraceOwned, GraceBound
<1>9. QED
  BY <1>2, <1>3, <1>4, <1>5, <1>7, <1>8 DEF GInv

-----------------------------------------------------------------------------
(* sendHeartbeat answers.                                                  *)

\* sendHeartbeat returns nil: the last success is now, the grace marker
\* cleared and the next timer at most one interval ahead.  A goroutine
\* whose context was cancelled in flight may make the guard ACTIVE; if a
\* Start has succeeded since that Stop, its goroutine owns the state.
LEMMA OkGInv ==
    ASSUME GInv, NEW i \in StartId, HbOk(i)
    PROVE  GInv'
<1>0. /\ TypeOK /\ hb[i] \in HbRecord /\ hb[i].phase = "send"
      /\ sm' = OnHeartbeatOK(sm) /\ contact' = now
      /\ UNCHANGED <<now, cancelRef, starts, stopped>>
  BY DEF HbOk, GInv, TypeOK
<1>w. PICK w \in NextWake :
        hb' = [hb EXCEPT ![i] = [@ EXCEPT !.phase = "sleep", !.wakeAt = w,
                                          !.graceStart = NoTime, !.lastOk = now]]
  BY DEF HbOk
<1>1. /\ hb'[i] = [hb[i] EXCEPT !.phase = "sleep", !.wakeAt = w,
                                !.graceStart = NoTime, !.lastOk = now]
      /\ \A k \in StartId \ {i} : hb'[k] = hb[k]
  BY <1>0, <1>w, HbFrame
<1>a. /\ hb'[i].phase = "sleep" /\ hb'[i].wakeAt = w
      /\ hb'[i].graceStart = NoTime /\ hb'[i].lastOk = now
      /\ hb'[i].cancelled = hb[i].cancelled
      /\ w \in Nat /\ now < w /\ w <= now + IntervalMax
  BY <1>0, <1>1 DEF HbRecord, NextWake, TypeOK
<1>2. TypeOK'
  BY TypeNext DEF GInv, Next
<1>3. FreshSlots'
  BY <1>0, <1>1, SpawnedSlot DEF GInv, FreshSlots
<1>4. ContactInv'
  <2>1. contact <= now /\ \A k \in StartId : hb[k].lastOk <= contact
    BY DEF GInv, ContactInv
  <2>2. \A k \in StartId : hb[k].lastOk \in Nat
    BY <1>0 DEF TypeOK, HbRecord
  <2>3. \A k \in StartId : hb'[k].lastOk <= now
    <3> SUFFICES ASSUME NEW k \in StartId PROVE hb'[k].lastOk <= now
      OBVIOUS
    <3>1. CASE k = i
      BY <1>0, <1>a, <3>1 DEF TypeOK
    <3>2. CASE k # i
      BY <1>0, <1>1, <2>1, <2>2, <3>2 DEF TypeOK
    <3>3. QED
      BY <3>1, <3>2
  <2>4. QED
    BY <1>0, <2>3 DEF ContactInv, TypeOK
<1>5. \A k \in StartId : Timely(k)'
  <2>1. /\ now' <= hb'[i].wakeAt
        /\ hb'[i].wakeAt <= hb'[i].lastOk + IntervalMax
    BY <1>0, <1>a DEF TypeOK
  <2>2. Timely(i)'
    BY <1>a, <2>1 DEF Timely
  <2>3. QED
    BY <1>0, <1>1, <2>2 DEF GInv, Timely
<1>6. PendingCancel'
  <2> SUFFICES ASSUME ~stopped', NEW k \in StartId, hb'[k].cancelled,
                      hb'[k].phase = "send"
               PROVE  \E g \in StartId : /\ hb'[g].phase = "sleep"
                                         /\ ~hb'[g].cancelled
                                         /\ now' < hb'[g].wakeAt
    BY DEF PendingCancel
  <2>1. k # i /\ hb[k].cancelled /\ hb[k].phase = "send"
    BY <1>1, <1>a
  <2>2. PICK g \in StartId : /\ hb[g].phase = "sleep" /\ ~hb[g].cancelled
                             /\ now < hb[g].wakeAt
    BY <1>0, <2>1 DEF GInv, PendingCancel
  <2>3. QED
    BY <1>0, <1>1, <2>2
<1>7. ActiveOwned'
  <2> SUFFICES ASSUME sm' = StateActive, ~stopped'
               PROVE  \E k \in StartId : Live(k)'
    BY DEF ActiveOwned
  <2>1. CASE ~hb[i].cancelled
    BY <1>a, <2>1 DEF Live
  <2>2. CASE hb[i].cancelled
    <3>1. PICK g \in StartId : /\ hb[g].phase = "sleep" /\ ~hb[g].cancelled
                               /\ now < hb[g].wakeAt
      BY <1>0, <2>2 DEF GInv, PendingCancel
    <3>2. g # i
      BY <1>0, <3>1
    <3>3. QED
      BY <1>1, <3>1, <3>2 DEF Live
  <2>3. QED
    BY <2>1, <2>2
<1>8. GraceOwned' /\ GraceBound'
  <2>1. sm' # StateGrace
    BY <1>0 DEF OnHeartbeatOK, StateGrace, StateActive
  <2>2. now' - contact' <= GraceWindow
    BY <1>0, GraceWindowNat DEF TypeOK
  <2>3. QED
    BY <2>1, <2>2 DEF GraceOwned, GraceBound
<1>9. QED
  BY <1>2, <1>3, <1>4, <1>5, <1>6, <1>7, <1>8 DEF GInv

\* The grace marker of a goroutine that is sending: the first failure
\* after a success sets it to now, one interval at most after the success;
\* a later failure keeps it.
LEMMA MarkerFacts ==
    ASSUME GInv, NEW i \in StartId, hb[i].phase = "send"
    PROVE  /\ GraceMarker(i) \in Nat
           /\ hb[i].lastOk <= GraceMarker(i)
           /\ GraceMarker(i) <= hb[i].lastOk + IntervalMax
           /\ hb[i].wakeAt <= GraceMarker(i) + MaxOfflineDuration + IntervalMax
           /\ now = hb[i].wakeAt
<1>0. /\ TypeOK /\ hb[i] \in HbRecord /\ Timely(i)
      /\ hb[i].lastOk <= contact /\ contact <= now
  BY DEF GInv, TypeOK, ContactInv
<1>1. CASE hb[i].graceStart = NoTime
  BY <1>0, <1>1 DEF GraceMarker, Timely, Running, HbRecord, TypeOK
<1>2. CASE hb[i].graceStart # NoTime
  BY <1>0, <1>2 DEF GraceMarker, Timely, Running, HbRecord, TypeOK, NoTime
<1>3. QED
  BY <1>1, <1>2

\* sendHeartbeat returns an error: OnHeartbeatFail, the marker set or
\* kept, and either another timer within the window or, past it, the
\* move to OnGracePeriodExpired.  GRACE comes only from ACTIVE or GRACE,
\* whose owner still has its live context in the loop.
LEMMA FailGInv ==
    ASSUME GInv, NEW i \in StartId, HbFail(i)
    PROVE  GInv'
<1> DEFINE M == GraceMarker(i)
<1>0. /\ TypeOK /\ hb[i] \in HbRecord /\ hb[i].phase = "send"
      /\ sm' = OnHeartbeatFail(sm)
      /\ UNCHANGED <<now, cancelRef, starts, contact, stopped>>
  BY DEF HbFail, GInv, TypeOK
<1>m. /\ M \in Nat /\ hb[i].lastOk <= M /\ M <= hb[i].lastOk + IntervalMax
      /\ hb[i].wakeAt <= M + MaxOfflineDuration + IntervalMax
      /\ now = hb[i].wakeAt
  BY <1>0, MarkerFacts
\* What the step does to goroutine i: its phase, timer and marker.
<1>1. /\ \A k \in StartId \ {i} : hb'[k] = hb[k]
      /\ hb'[i].phase \in {"expire", "sleep"}
      /\ hb'[i].cancelled = hb[i].cancelled
      /\ hb'[i].lastOk = hb[i].lastOk
      /\ hb'[i].graceStart = M
      /\ hb'[i].phase = "expire" =>
            /\ hb'[i].wakeAt = hb[i].wakeAt
            /\ now - M > MaxOfflineDuration
      /\ hb'[i].phase = "sleep" =>
            /\ hb'[i].wakeAt \in Nat
            /\ now < hb'[i].wakeAt
            /\ hb'[i].wakeAt <= now + IntervalMax
            /\ now - M <= MaxOfflineDuration
  <2>1. CASE now - M > MaxOfflineDuration
    <3>1. hb' = [hb EXCEPT ![i] = [hb[i] EXCEPT !.phase = "expire",
                                                !.graceStart = M]]
      BY <2>1 DEF HbFail
    <3>2. /\ hb'[i] = [hb[i] EXCEPT !.phase = "expire", !.graceStart = M]
          /\ \A k \in StartId \ {i} : hb'[k] = hb[k]
      BY <1>0, <3>1, HbFrame
    <3>3. QED
      BY <1>0, <2>1, <3>2 DEF HbRecord
  <2>2. CASE ~(now - M > MaxOfflineDuration)
    <3>1. PICK w \in NextWake :
            hb' = [hb EXCEPT ![i] = [hb[i] EXCEPT !.phase = "sleep",
                                        !.wakeAt = w, !.graceStart = M]]
      BY <2>2 DEF HbFail
    <3>2. w \in Nat /\ now < w /\ w <= now + IntervalMax
      BY <1>0 DEF NextWake, TypeOK
    <3>3. QED
      BY <1>0, <1>m, <2>2, <3>1, <3>2, HbFrame DEF HbRecord, TypeOK
  <2>3. QED
    BY <2>1, <2>2
<1>2. TypeOK'
  BY TypeNext DEF GInv, Next
<1>3. FreshSlots' /\ ContactInv'
  BY <1>0, <1>1, SpawnedSlot DEF GInv, FreshSlots, ContactInv, HbRecord,
     TypeOK
<1>4. \A k \in StartId : Timely(k)'
  <2>1. Timely(i)'
    <3>1. M # NoTime
      BY <1>m DEF NoTime
    <3>2. CASE hb'[i].phase = "expire"
      BY <1>0, <1>m, <1>1, <3>1, <3>2 DEF Timely, Running, TypeOK, HbRecord
    <3>3. CASE hb'[i].phase = "sleep"
      BY <1>0, <1>m, <1>1, <3>1, <3>3 DEF Timely, Running, TypeOK, HbRecord
    <3>4. QED
      BY <1>1, <3>2, <3>3
  <2>2. QED
    BY <1>0, <1>1, <2>1 DEF GInv, Timely
<1>5. PendingCancel'
  <2> SUFFICES ASSUME ~stopped', NEW k \in StartId, hb'[k].cancelled,
                      hb'[k].phase = "send"
               PROVE  \E g \in StartId : /\ hb'[g].phase = "sleep"
                                         /\ ~hb'[g].cancelled
                                         /\ now' < hb'[g].wakeAt
    BY DEF PendingCancel
  <2>1. k # i /\ hb[k].cancelled /\ hb[k].phase = "send"
    BY <1>1
  <2>2. PICK g \in StartId : /\ hb[g].phase = "sleep" /\ ~hb[g].cancelled
                             /\ now < hb[g].wakeAt
    BY <1>0, <2>1 DEF GInv, PendingCancel
  <2>3. QED
    BY <1>0, <1>1, <2>2
<1>6. /\ sm' # StateActive
      /\ sm' = StateGrace => sm \in {StateActive, StateGrace}
      /\ sm' \in Authorized => sm \in Authorized
  BY <1>0 DEF OnHeartbeatFail, StateActive, StateGrace, Authorized, States,
     TypeOK, StateInit, StateLocked, StateBanned
<1>7. GraceOwned'
  <2> SUFFICES ASSUME sm' = StateGrace, ~stopped'
               PROVE  \E k \in StartId : hb'[k].phase \in Running
                                         /\ ~hb'[k].cancelled
    BY DEF GraceOwned
  <2>1. PICK k \in StartId : hb[k].phase \in Running /\ ~hb[k].cancelled
    BY <1>0, <1>6 DEF GInv, ActiveOwned, GraceOwned, Live, Running
  <2>2. QED
    BY <1>1, <2>1 DEF Running
<1>8. ActiveOwned' /\ GraceBound'
  BY <1>0, <1>6 DEF GInv, ActiveOwned, GraceBound
<1>9. QED
  BY <1>2, <1>3, <1>4, <1>5, <1>7, <1>8 DEF GInv

-----------------------------------------------------------------------------
(* Start.                                                                  *)

\* The Start call fills the next slot, which no goroutine holds yet.
LEMMA StartSlot ==
    ASSUME GInv, Start
    PROVE  /\ starts + 1 \in StartId /\ hb[starts + 1] = NoLoop
           /\ starts' = starts + 1 /\ cancelRef' = starts + 1
           /\ \A k \in StartId : hb[k].phase # "none" => k # starts + 1
           /\ UNCHANGED now
<1>1. starts \in Nat /\ starts < MaxStarts
  BY DEF Start, GInv, TypeOK
<1>2. starts + 1 \in StartId
  BY <1>1 DEF StartId
<1>3. hb[starts + 1] = NoLoop
  <2>1. \A i \in StartId : i > starts => hb[i] = NoLoop
    BY DEF GInv, FreshSlots
  <2>2. starts + 1 > starts
    BY <1>1
  <2>3. QED
    BY <1>2, <2>1, <2>2
<1>4. hb[starts + 1].phase = "none"
  BY <1>3 DEF NoLoop
<1>5. QED
  BY <1>2, <1>3, <1>4 DEF Start

\* verifyLicense succeeds: OnVerifySuccess, a fresh goroutine asleep on its
\* first timer with the start instant as its last success, and contact set.
\* That goroutine is the owner the ACTIVE or GRACE guard needs.
LEMMA StartOkGInv ==
    ASSUME GInv, Start, StartSucceeds(starts + 1)
    PROVE  GInv'
<1>n. PICK n \in StartId : n = starts + 1
  BY StartSlot
<1>0. /\ TypeOK /\ n \in StartId /\ hb[n] = NoLoop
      /\ starts' = n /\ cancelRef' = n /\ UNCHANGED now
      /\ \A k \in StartId : hb[k].phase # "none" => k # n
      /\ contact' = now /\ stopped' = FALSE
  BY <1>n, StartSlot DEF GInv, StartSucceeds
<1>w. PICK w \in NextWake :
        hb' = [hb EXCEPT ![n] = [NoLoop EXCEPT !.phase = "sleep", !.wakeAt = w,
                                               !.lastOk = now]]
  BY <1>n DEF StartSucceeds
<1>1. /\ hb'[n] = [NoLoop EXCEPT !.phase = "sleep", !.wakeAt = w, !.lastOk = now]
      /\ \A k \in StartId \ {n} : hb'[k] = hb[k]
  BY <1>0, <1>w, HbFrame
<1>a. /\ hb'[n].phase = "sleep" /\ hb'[n].wakeAt = w
      /\ hb'[n].graceStart = NoTime /\ hb'[n].lastOk = now
      /\ ~hb'[n].cancelled
      /\ w \in Nat /\ now < w /\ w <= now + IntervalMax
  BY <1>0, <1>1 DEF NoLoop, NextWake, TypeOK
<1>2. TypeOK'
  BY TypeNext DEF GInv, Next
<1>3. FreshSlots'
  BY <1>n, <1>0, <1>1 DEF GInv, FreshSlots, TypeOK, StartId
<1>4. ContactInv'
  <2>1. \A k \in StartId : hb'[k].lastOk <= now
    <3> SUFFICES ASSUME NEW k \in StartId PROVE hb'[k].lastOk <= now
      OBVIOUS
    <3>1. CASE k = n
      BY <1>0, <1>a, <3>1 DEF TypeOK
    <3>2. CASE k # n
      <4>1. hb[k].lastOk <= contact /\ contact <= now /\ hb[k] \in HbRecord
        BY DEF GInv, ContactInv, TypeOK
      <4>2. QED
        BY <1>0, <1>1, <3>2, <4>1 DEF TypeOK, HbRecord
    <3>3. QED
      BY <3>1, <3>2
  <2>2. QED
    BY <1>0, <2>1 DEF ContactInv, TypeOK
<1>5. \A k \in StartId : Timely(k)'
  <2>1. Timely(n)'
    BY <1>0, <1>a DEF Timely, TypeOK, NoTime, Running
  <2>2. \A k \in StartId \ {n} : Timely(k)'
    BY <1>0, <1>1 DEF GInv, Timely
  <2>3. QED
    BY <2>1, <2>2
\* The fresh goroutine witnesses each of the ownership conjuncts.
<1>6. /\ hb'[n].phase = "sleep" /\ ~hb'[n].cancelled /\ now' < hb'[n].wakeAt
      /\ hb'[n].phase \in {"sleep", "send"} /\ hb'[n].phase \in Running
  BY <1>0, <1>a DEF Running
<1>7. PendingCancel' /\ ActiveOwned' /\ GraceOwned'
  <2>1. PendingCancel'
    BY <1>0, <1>6 DEF PendingCancel
  <2>2. ActiveOwned'
    BY <1>0, <1>6 DEF ActiveOwned, Live
  <2>3. GraceOwned'
    BY <1>0, <1>6 DEF GraceOwned
  <2>4. QED
    BY <2>1, <2>2, <2>3
<1>8. GraceBound'
  BY <1>0, GraceWindowNat DEF GraceBound, TypeOK
<1>9. QED
  BY <1>2, <1>3, <1>4, <1>5, <1>7, <1>8 DEF GInv

\* verifyLicense fails: only the context of the new slot is cancelled; no
\* goroutine runs in it, and the state machine, contact and stopped stay.
LEMMA StartFailGInv ==
    ASSUME GInv, Start, StartFails(starts + 1)
    PROVE  GInv'
<1>n. PICK n \in StartId : n = starts + 1
  BY StartSlot
<1>0. /\ TypeOK /\ n \in StartId /\ hb[n] = NoLoop
      /\ starts' = n /\ cancelRef' = n /\ UNCHANGED now
      /\ \A k \in StartId : hb[k].phase # "none" => k # n
      /\ UNCHANGED <<sm, contact, stopped>>
  BY <1>n, StartSlot DEF GInv, StartFails
<1>1. /\ hb'[n] = [NoLoop EXCEPT !.cancelled = TRUE]
      /\ \A k \in StartId \ {n} : hb'[k] = hb[k]
  BY <1>n, <1>0 DEF StartFails, TypeOK
<1>a. /\ hb'[n].phase = "none" /\ hb'[n].lastOk = 0
  BY <1>1 DEF NoLoop
\* Every slot with a goroutine is unchanged.
<1>b. \A k \in StartId : hb'[k].phase # "none" => hb'[k] = hb[k] /\ k # n
  BY <1>1, <1>a
<1>2. TypeOK'
  BY TypeNext DEF GInv, Next
<1>3. FreshSlots'
  BY <1>n, <1>0, <1>1 DEF GInv, FreshSlots, TypeOK, StartId
<1>4. ContactInv'
  <2>1. \A k \in StartId : hb'[k].lastOk <= contact
    <3> SUFFICES ASSUME NEW k \in StartId PROVE hb'[k].lastOk <= contact
      OBVIOUS
    <3>1. CASE k = n
      BY <1>0, <1>a, <3>1 DEF TypeOK
    <3>2. CASE k # n
      BY <1>1, <3>2 DEF GInv, ContactInv
    <3>3. QED
      BY <3>1, <3>2
  <2>2. QED
    BY <1>0, <2>1 DEF GInv, ContactInv
<1>5. \A k \in StartId : Timely(k)'
  BY <1>0, <1>a, <1>b DEF GInv, Timely, Running
<1>6. PendingCancel'
  <2> SUFFICES ASSUME ~stopped', NEW k \in StartId, hb'[k].cancelled,
                      hb'[k].phase = "send"
               PROVE  \E g \in StartId : /\ hb'[g].phase = "sleep"
                                         /\ ~hb'[g].cancelled
                                         /\ now' < hb'[g].wakeAt
    BY DEF PendingCancel
  <2>1. hb[k].cancelled /\ hb[k].phase = "send"
    BY <1>b
  <2>2. PICK g \in StartId : /\ hb[g].phase = "sleep" /\ ~hb[g].cancelled
                             /\ now < hb[g].wakeAt
    BY <1>0, <2>1 DEF GInv, PendingCancel
  <2>3. QED
    BY <1>0, <1>1, <2>2
<1>7. ActiveOwned'
  <2> SUFFICES ASSUME sm' = StateActive, ~stopped'
               PROVE  \E k \in StartId : Live(k)'
    BY DEF ActiveOwned
  <2>1. PICK k \in StartId : Live(k)
    BY <1>0 DEF GInv, ActiveOwned
  <2>2. QED
    BY <1>0, <1>1, <2>1 DEF Live
<1>8. GraceOwned'
  <2> SUFFICES ASSUME sm' = StateGrace, ~stopped'
               PROVE  \E k \in StartId : hb'[k].phase \in Running
                                         /\ ~hb'[k].cancelled
    BY DEF GraceOwned
  <2>1. PICK k \in StartId : hb[k].phase \in Running /\ ~hb[k].cancelled
    BY <1>0 DEF GInv, GraceOwned
  <2>2. QED
    BY <1>0, <1>1, <2>1 DEF Running
<1>9. GraceBound'
  BY <1>0 DEF GInv, GraceBound
<1>10. QED
  BY <1>2, <1>3, <1>4, <1>5, <1>6, <1>7, <1>8, <1>9 DEF GInv

\* Both outcomes of Start.
LEMMA StartGInv ==
    ASSUME GInv, Start
    PROVE  GInv'
BY StartOkGInv, StartFailGInv DEF Start

-----------------------------------------------------------------------------
(* The invariant and the theorems.                                         *)

\* GInv is inductive: one lemma per action of Guard.
LEMMA GInvNext == GInv /\ [Next]_vars => GInv'
<1> SUFFICES ASSUME GInv, [Next]_vars PROVE GInv'
  OBVIOUS
<1>1. CASE Start
  BY <1>1, StartGInv
<1>2. CASE Stop
  BY <1>2, StopGInv
<1>3. ASSUME NEW i \in StartId,
             \/ HbWake(i) \/ HbCancelled(i) \/ HbOk(i)
             \/ HbKill(i) \/ HbFail(i) \/ HbExpire(i)
      PROVE  GInv'
  BY <1>3, WakeGInv, CancelledGInv, OkGInv, KillGInv, FailGInv, ExpireGInv
<1>4. CASE Tick
  BY <1>4, TickGInv
<1>5. CASE ToggleNetwork \/ Revoke
  BY <1>5, EnvGInv
<1>6. CASE Restart
  BY <1>6, RestartGInv
<1>7. CASE UNCHANGED vars
  <2>1. TypeOK'
    BY <1>7, TypeNext DEF GInv
  <2>2. /\ sm' = sm /\ now' = now /\ hb' = hb /\ cancelRef' = cancelRef
        /\ starts' = starts /\ contact' = contact /\ stopped' = stopped
    BY <1>7 DEF vars
  <2>3. FreshSlots' /\ ContactInv' /\ \A i \in StartId : Timely(i)'
    BY <2>2 DEF GInv, FreshSlots, ContactInv, Timely
  <2>4. PendingCancel' /\ ActiveOwned' /\ GraceOwned' /\ GraceBound'
    BY <2>2 DEF GInv, PendingCancel, ActiveOwned, GraceOwned, GraceBound, Live
  <2>5. QED
    BY <2>1, <2>3, <2>4 DEF GInv
<1>8. QED
  BY <1>1, <1>2, <1>3, <1>4, <1>5, <1>6, <1>7 DEF Next

\* Spec (glossary, 4.3) for every value of the constants: while Stop has
\* not been called, Check() reports the guard authorized at most
\* GraceWindow after the last successful verification or heartbeat.
THEOREM GraceBoundHolds == Spec => []GraceBound
<1>1. Init => GInv
  BY InitGInv
<1>2. GInv /\ [Next]_vars => GInv'
  BY GInvNext
<1>3. GInv => GraceBound
  BY DEF GInv
<1>4. QED
  BY <1>1, <1>2, <1>3, PTL DEF Spec

\* A step into LOCKED is an OnGracePeriodExpired from GRACE by a goroutine
\* past MaxOfflineDuration; no other method of the state machine, and no
\* restart, yields LOCKED from another state.
LEMMA LockStep ==
    ASSUME GInv, [Next]_vars, sm # StateLocked, sm' = StateLocked
    PROVE  \E i \in StartId : now - hb[i].lastOk > MaxOfflineDuration
<1>1. ASSUME NEW i \in StartId, HbExpire(i)
      PROVE  now - hb[i].lastOk > MaxOfflineDuration
  BY <1>1 DEF HbExpire, GInv, Timely, Running
<1>2. ASSUME NEW i \in StartId,
             \/ HbWake(i) \/ HbCancelled(i) \/ HbOk(i)
             \/ HbKill(i) \/ HbFail(i)
      PROVE  FALSE
  BY <1>2 DEF HbWake, HbCancelled, HbOk, HbKill, HbFail, OnHeartbeatOK,
     OnKill, OnHeartbeatFail, StateActive, StateGrace, StateLocked,
     StateBanned
<1>3. CASE Start
  <2>1. sm' = OnVerifySuccess(sm) \/ sm' = sm
    BY <1>3 DEF Start, StartSucceeds, StartFails
  <2>2. QED
    BY <2>1 DEF OnVerifySuccess, StateInit, StateActive, StateGrace,
       StateLocked
<1>4. CASE Stop \/ Tick \/ ToggleNetwork \/ Revoke \/ Restart \/ UNCHANGED vars
  BY <1>4 DEF Stop, Tick, ToggleNetwork, Revoke, Restart, vars, InitialState,
     StateInit, StateLocked
<1>5. QED
  BY <1>1, <1>2, <1>3, <1>4 DEF Next

\* For every value of the constants, the guard moves to LOCKED only after
\* some heartbeat loop has gone more than MaxOfflineDuration without a
\* successful heartbeat.
THEOREM NoPrematureLockHolds == Spec => NoPrematureLock
<1>1. Init => GInv
  BY InitGInv
<1>2. GInv /\ [Next]_vars => GInv'
  BY GInvNext
<1>3. GInv /\ [Next]_vars =>
        [(sm # StateLocked /\ sm' = StateLocked) =>
           \E i \in StartId : now - hb[i].lastOk > MaxOfflineDuration]_vars
  BY LockStep
<1>4. QED
  BY <1>1, <1>2, <1>3, PTL DEF Spec, NoPrematureLock

\* From BANNED, every method of the state machine stays BANNED (OnKill
\* yields it, the others move only from INIT, ACTIVE or GRACE); only a
\* restart of the process builds a fresh state machine.
LEMMA BanStep ==
    ASSUME [Next]_vars, sm = StateBanned
    PROVE  sm' = StateBanned \/ restarts' = restarts + 1
<1>1. ASSUME NEW i \in StartId,
             \/ HbWake(i) \/ HbCancelled(i) \/ HbOk(i)
             \/ HbKill(i) \/ HbFail(i) \/ HbExpire(i)
      PROVE  sm' = StateBanned
  BY <1>1 DEF HbWake, HbCancelled, HbOk, HbKill, HbFail, HbExpire,
     OnHeartbeatOK, OnKill, OnHeartbeatFail, OnGracePeriodExpired,
     StateActive, StateGrace, StateBanned
<1>2. CASE Start
  <2>1. sm' = OnVerifySuccess(sm) \/ sm' = sm
    BY <1>2 DEF Start, StartSucceeds, StartFails
  <2>2. QED
    BY <2>1 DEF OnVerifySuccess, StateInit, StateGrace, StateBanned
<1>3. CASE Stop \/ Tick \/ ToggleNetwork \/ Revoke \/ UNCHANGED vars
  BY <1>3 DEF Stop, Tick, ToggleNetwork, Revoke, vars
<1>4. CASE Restart
  BY <1>4 DEF Restart
<1>5. QED
  BY <1>1, <1>2, <1>3, <1>4 DEF Next

\* For every value of the constants, BANNED is never left within one
\* process: no Start, heartbeat answer or grace event authorizes it again.
THEOREM BanIrreversibleHolds == Spec => BanIrreversible
<1>1. [Next]_vars =>
        [sm = StateBanned => (sm' = StateBanned \/ restarts' = restarts + 1)]_vars
  BY BanStep
<1>2. QED
  BY <1>1, PTL DEF Spec, BanIrreversible

=============================================================================
