---------------------------- MODULE StateMachine ----------------------------
(***************************************************************************)
(* The authorization state machine of the guard (src/unnamed/part_007).   *)
(* The Go type keeps one State behind an RWMutex and offers one method    *)
(* per event; each method takes the write lock, so each is one atomic     *)
(* step.  Here each method is an operator from the current state to the   *)
(* next one; the modules that own the variable apply them in their        *)
(* actions.                                                                *)
(***************************************************************************)

\* The five values of the Go enum State (iota order).
StateInit   == "INIT"
StateActive == "ACTIVE"
StateGrace  == "GRACE"
StateLocked == "LOCKED"
StateBanned == "BANNED"

States == {StateInit, StateActive, StateGrace, StateLocked, StateBanned}

\* newStateMachine: the state a fresh Guard starts in.
InitialState == StateInit

\* Mutant: the state guard of OnVerifySuccess dropped.
OnVerifySuccessUnguarded(s) == StateActive

\* OnVerifySuccess: INIT or GRACE become ACTIVE, every other state stays.
OnVerifySuccess(s) ==
    IF s \in {StateInit, StateGrace} THEN StateActive ELSE s

\* OnHeartbeatOK: GRACE or ACTIVE become ACTIVE, every other state stays.
OnHeartbeatOK(s) ==
    IF s \in {StateGrace, StateActive} THEN StateActive ELSE s

\* OnHeartbeatFail: only ACTIVE moves, to GRACE.
OnHeartbeatFail(s) ==
    IF s = StateActive THEN StateGrace ELSE s

\* OnKill: every state becomes BANNED, unconditionally.
OnKill(s) == StateBanned

\* OnGracePeriodExpired: only GRACE moves, to LOCKED.
OnGracePeriodExpired(s) ==
    IF s = StateGrace THEN StateLocked ELSE s

\* Guard.Check: the states in which the host application may keep running
\* (Check returns nil for ACTIVE and GRACE, an error otherwise).
Authorized == {StateActive, StateGrace}

=============================================================================
