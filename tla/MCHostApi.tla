----------------------------- MODULE MCHostApi -----------------------------
(* HostApi for TLC on the host's own binary (the backend strategy): three *)
(* releases, so that a heartbeat job can install a newer release than the *)
(* catalog offered, and three jobs, one of them the plugin call's.        *)
EXTENDS HostApi

MCBackend == "backend"
MCMaxVersion == 3
MCMaxJobs == 2

=============================================================================
