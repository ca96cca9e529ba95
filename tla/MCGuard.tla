------------------------------ MODULE MCGuard ------------------------------
(***************************************************************************)
(* Model-checking instance of Guard: one tick stands for a tenth of the   *)
(* heartbeat interval scaled down, so that a grace window spans a few     *)
(* heartbeats and two Start calls and one restart fit in the clock bound. *)
(***************************************************************************)
EXTENDS Guard

MCMaxOfflineDuration == 4
MCIntervalMin == 2
MCIntervalMax == 3
MCMaxStarts == 2
MCMaxRestarts == 1
MCMaxTime == 11

=============================================================================
