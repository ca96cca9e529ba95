---------------------------- MODULE ReleaseStore ----------------------------
(***************************************************************************)
(* What the update engine promises about one component, as seen from      *)
(* outside g.updateMu (spec 4.4 "atomic swap" and step 5): the installed   *)
(* release changes in one step, together with the version record, or it   *)
(* is lost in a step that surfaces a rollback failure.  Nothing else       *)
(* changes either of them: a failed attempt leaves both as they were.      *)
(***************************************************************************)
CONSTANTS
    Releases,   \* the releases the authority can publish
    NoRelease,  \* the record before any version is known ("unknown")
    Broken      \* no complete release at the live path

VARIABLES
    current,  \* the release installed, or Broken
    record,   \* the version record the guard reports
    alarm     \* a rollback failure has been surfaced

storeVars == <<current, record, alarm>>

Init ==
    /\ current \in Releases
    /\ record \in {NoRelease, current}
    /\ alarm = FALSE

\* A complete install of release v: the files and the record move together.
Install(v) ==
    /\ current' = v
    /\ record' = v
    /\ UNCHANGED alarm

\* The release is lost, and the loss is surfaced as a rollback failure.
Break ==
    /\ current' = Broken
    /\ alarm' = TRUE
    /\ UNCHANGED record

Next == (\E v \in Releases : Install(v)) \/ Break

Spec == Init /\ [][Next]_storeVars

=============================================================================
