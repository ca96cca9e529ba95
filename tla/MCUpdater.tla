----------------------------- MODULE MCUpdater -----------------------------
(* Small instances of Updater for TLC: three releases and three update    *)
(* goroutines, enough for a job to wait behind another for the same or an *)
(* older release, and for a failed rollback to be followed by a retry.    *)
EXTENDS Updater

MCBackend == "backend"
MCFrontend == "frontend"
MCMaxVersion == 3
MCMaxJobs == 3

=============================================================================
