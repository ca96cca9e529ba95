# Formal models of the BanyanHub Go SDK

TLA+ models of the licensing guard and the OTA update engine of the SDK in
`src/`, with TLC runs on small instances and TLAPS proofs. `spec.md` is the
design text. The models follow the code. Where the two disagree, the
disagreement is a violation run with a finding in `PROJECT.json`.

## 1. The system

| Part | Code | State | Operations |
|---|---|---|---|
| State machine | `src/unnamed/part_007` | `sm.state` behind an RWMutex | `OnVerifySuccess`, `OnHeartbeatOK`, `OnHeartbeatFail`, `OnKill`, `OnGracePeriodExpired`, `Current` |
| Guard lifecycle | `src/guard.go` | `cancel`, `version`, `managedVersions`, `mu`, `updateMu` | `New`, `Start`, `Stop`, `Check`, `SetVersion`, `SetManagedVersion`, `AutoResolveVersion`, `postJSON` |
| License verification and cache | `src/license.go` | the file `license.cache` | `verifyLicense` (a cache hit or a remote verify), `cacheLicense`, `loadCachedLicense` |
| Heartbeat scheduler | `src/unnamed/part_006` 64-185 | the goroutine's `graceStart` and its timer | `startHeartbeat`'s loop, `sendHeartbeat`, `isFatalError` |
| Update engine | `src/updater.go` | the live path and `path.bak` on disk, the version record, `updateMu` | `handleUpdateNotification`, `updateBackend` (with `applyBackendBinaryWithSelfupdate` and go-selfupdate's `update.Apply`), `updateFrontend` |
| Plugins | `src/plugins.go` | none of its own | `UpdatePlugin` (a synchronous update), catalog listing |
| Binary hash | `src/unnamed/part_006` 1-62 | `binaryHashOnce`, `binaryHashValue`, `binaryHashError` | `GetBinaryHash`, `ResetBinaryHashCache` |
| Fingerprint, feedback, config, version | other files | read-only after `New` | HTTP calls and I/O only |

The models of the update engine follow `src/updater.go`.
`src/unnamed/part_002` is another revision of the same algorithm: it factors
the steps into `updateBinaryComponent`, shared with `updateManagedBackend`,
and resolves `os.Executable` before taking `updateMu`. `src/plugins.go` calls
`updateManagedBackend` and `currentVersion`, which only `part_002` defines.
The model of `UpdatePlugin` is the same for both, since the engine's steps
are. `src/unnamed/part_001` is an older revision. In `updater.go`, a managed
component with the backend strategy is routed to `updateBackend` (line 36),
which replaces the host's own executable and sets `g.version`.

**How the parts interact.** `Start` stores a fresh cancel func in `g.cancel`.
It then runs `verifyLicense` and, on success, calls `OnVerifySuccess` and
spawns a heartbeat goroutine. Each heartbeat snapshots the versions under
`g.mu`, posts them and acts on the answer:
- a success calls `OnHeartbeatOK`;
- an answer with `status: "kill"` calls `OnKill`;
- any error calls `OnHeartbeatFail`, and the grace timer may then lock the guard.

A successful heartbeat also starts one update goroutine (`go update...`) for
each update entry it carries. All update goroutines serialize on `updateMu`.
`Check()` reads the state. The host may call `UpdatePlugin`, which runs the
same engine synchronously in its own goroutine, and `AutoResolveVersion`,
which sets `g.version` from the server's answer for the hash of the running
binary.

**What makes the code hard to get right:**
- several heartbeat goroutines after repeated `Start` calls;
- a restart that keeps only the cache file;
- an offline period that races the jittered timer;
- update goroutines dispatched again and again while earlier ones wait for `updateMu`;
- a non-FIFO mutex;
- failures at each rename of a two-rename swap, and a rollback that can fail as well;
- a download without a timeout;
- host calls that read or write the version record outside `updateMu`.

## 2. Modules

- **`StateMachine.tla`** models the state machine. Its five states are
  strings. Each method of `part_007` is an operator from a state to a state.
  `Authorized` is the set of states for which `Check()` returns nil.
- **`Guard.tla`** models the lifecycle, the license and cache, and the
  heartbeat loops. It `EXTENDS StateMachine`. Its variables:
  - `hb[i]` is what Start call `i` owns: its context's `cancelled` flag and
    its goroutine's `phase` ("sleep" is the `select`, "send" is inside
    `sendHeartbeat`, "expire" is between `OnHeartbeatFail` and
    `OnGracePeriodExpired`), its timer `wakeAt` and its `graceStart`;
  - `cancelRef` is `g.cancel`;
  - `cache` is the file: absent, trusted (its signature verifies) or
    untrusted (written truncated);
  - `online` and `authority` are the environment;
  - `contact`, `serverContact`, `stopped` and `killed` are history variables
    that the properties read.

  Time is discrete. `Tick` advances the clock only while every goroutine is
  blocked in its `select` and no timer is due. A heartbeat request resolves
  before the next tick, because `httpClient` has a 30 s timeout. The actions:
  - `Start`: a cache hit, a remote success with any outcome of `cacheLicense`,
    or a failure;
  - `Stop`;
  - one action per branch of the loop: `HbWake`, `HbCancelled`, `HbOk`,
    `HbKill`, `HbFail`, `HbExpire`;
  - the environment: `ToggleNetwork`, `Revoke`, and `Restart` (a new process:
    only the cache file survives).

  `HbFail` also covers ban and suspension status codes. `sendHeartbeat` wraps
  every `postJSON` error in `ErrNetworkError`, so `isFatalError`'s `==` never
  matches one.
- **`Updater.tla`** models the update engine for one component, and the
  dispatch part of `sendHeartbeat`. Its variables:
  - `live` and `bak` say which release the path and `path.bak` hold
    (`NoFile` when the path is missing);
  - `version` is the version record (`Unknown` is New's "unknown");
  - `lock` is `updateMu`;
  - `jobs[j]` is update goroutine `j`.

  `Strategy` selects the binary path or the frontend path. The binary path is
  `updateBackend` plus go-selfupdate's `update.Apply` steps. Apply
  writes `.target.new`, calls `os.Remove(.bak)`, renames target to `.bak`,
  then renames `.new` to target. If the last rename fails, it renames `.bak`
  back and returns a `rollbackErr` if that also fails. The library is not in
  the repository, so these steps are modelled from its algorithm at the call
  site, `updater.go` lines 252-271. The frontend path is `updateFrontend`: it removes
  `dir.bak`, renames `dir` to `dir.bak` if `dir` exists, renames `tmpDir` to
  `dir`, and on failure attempts a rollback rename whose error is ignored.
  The download, the digest, the signature and the tar extraction are
  abstracted to success or the typed error class they report. A stalled
  frontend download is an action of its own (`FeStall`).

  `Updater` also defines the refinement mapping to `ReleaseStore`:
  - `StoreCurrent` is what the live path holds while `updateMu` is free, and
    `live0` of the holder while it is taken;
  - the record maps to the record;
  - `RollbackReported`, some callback has been given an error of class
    `ErrUpdateRollback`, maps to the alarm.

  `StoreRefined == Store!Spec` is checked as a property of the binary path.
  Only `updateBackend` can refine it. `OnUpdateResult` receives the error of
  `applyBackendBinaryWithSelfupdate` itself, which wraps a failed rollback
  as `ErrUpdateRollback` (line 265). `updateFrontend` ignores its rollback's
  error (line 448), so its lost directory reaches no callback.

  Each job's record keeps:
  - `err`, the class of the error given to `OnUpdateFailure`. That is
    `ErrUpdateApply` after a failed rollback too, because line 143 flattens the
    cause with `%v`;
  - `reported`, `OnUpdateResult` was called;
  - `rbFailed`, a rollback rename failed.

  The staged classes `ErrUpdateDownload`, `ErrUpdateVerify`, `ErrUpdateApply`
  and `ErrUpdateRollback` are those of the SDK's error table (`part_013`).
  The `errors.go` of this revision does not declare them.
- **`ReleaseStore.tla`** is the abstract promise of the engine (spec 4.4):
  - `current` is the installed release, or `Broken`;
  - `record` is the version record;
  - `alarm` says a rollback failure was surfaced.

  Its steps are `Install(v)`, which sets `current` and `record` together, and
  `Break`, which loses the release and raises `alarm`: a loss is reported
  in the step that causes it, and no alarm is raised without one.
- **`HostApi.tla`** `EXTENDS Updater` with the host's calls:
  - `call` is the `UpdatePlugin` call of one host goroutine;
  - `memo` is `GetBinaryHash`'s `sync.Once` with its value or sticky error;
  - `res` is an `AutoResolveVersion` request in flight.

  Its actions:
  - `PluginCall`: the early rejections (the catalog, freeze, OTA and
    availability checks, an unmanaged slug), the same-version `nil` read
    outside `updateMu`, or a job put into `jobs` like a dispatched one;
  - `PluginReturn`: once that job is done, the record is read again and the
    call returns `nil` or `ErrUpdateApply`;
  - `AutoResolveSend`: the memoized hash, or its error;
  - `AutoResolveReply`: the server's answer sets `g.version` under `g.mu`
    only, to the release of the running binary;
  - `ResetBinaryHashCache`.

  The running binary is release 1, the one installed at start, because
  `update.Apply` replaces the file and not the running process, and
  restarts are not modelled here. `GetBinaryHash` hashes the file that
  `os.Executable()` names. On Linux that is `/proc/self/exe`, the running
  image's inode, which `update.Apply` moved to the backup path. So a hash
  taken after an update still maps to release 1, or the open fails. A reply
  after a commit therefore writes release 1 while release 2 is installed.
  The catalog's latest version is the authority's `latest`.

  `PluginSpec` is a host that never calls `AutoResolveVersion`: only
  `UpdatePlugin` and the heartbeat's jobs run.
- **`MCGuard.tla`**, **`MCUpdater.tla`** and **`MCHostApi.tla`** give the
  constants for TLC.
- **`GuardProofs.tla`** holds the TLAPS proofs about `Guard`.
- **`UpdaterProofs.tla`** holds the TLAPS proofs about `Updater`.
- **`StoreProofs.tla`** holds the proof that `Updater` refines `ReleaseStore`.
- **`ReportProofs.tla`** holds the proofs about what `updateBackend` reports.
- **`GraceProofs.tla`** holds the proofs about the grace period, the lock
  and the ban of `Guard`.
- **`HostProofs.tla`** holds the proofs about `HostApi`.

## 3. Runs

| Run | Expect | What it shows |
|---|---|---|
| `guard_safety` | pass | `TypeOK`, plus three properties. `GraceBound`: while not stopped, the guard is authorized only within `MaxOfflineDuration + 2*IntervalMax` of its last verification or successful heartbeat. `NoPrematureLock`: LOCKED is entered only after some loop has gone more than `MaxOfflineDuration` without success. `BanIrreversible`: BANNED is never left within a process. |
| `kill_is_permanent` | violation | After a kill, a restart and a Start that hits the cache make the machine ACTIVE again. |
| `offline_bounded` | violation | The cache has no age check: the machine is authorized long after the authority last saw it. |
| `stop_ends_heartbeats` | violation | After two Starts, Stop cancels only the second context. |
| `update_backend` | pass | Six properties:<br>`IntactCopy`: a release is always at the path or `.bak`, unless a rollback failed.<br>`VersionTracksDisk`: with `updateMu` free, a known record names the live release.<br>`FailureKeepsLive`: a failed attempt leaves the live path and the record as they were.<br>`FailureReported`.<br>`StoreRefined`: the engine implements `ReleaseStore`, and `ErrUpdateRollback` reaches `OnUpdateResult` exactly in the step that loses the binary.<br>`UpdatesTerminate`, under fairness. |
| `update_frontend` | pass | `IntactCopy`, `VersionTracksDisk` and `FailureKeepsLive` for the directory swap. |
| `frontend_updates_terminate` | violation | A stalled `http.Get` holds `updateMu` forever. |
| `idempotent_update` | violation | The same release is applied twice. The second apply replaces the backup of the previous release with a copy of the live one. |
| `rollback_failure_alerted` | violation | The swap rename and the rollback rename both fail. `OnUpdateFailure` gets `ErrUpdateApply: <rollback error>`, and `errors.Is(err, ErrUpdateRollback)` is false for it. Only `OnUpdateResult` gets the rollback class. |
| `host_backend` | pass | `PluginReturns`: every `UpdatePlugin` call that runs the engine returns, under `HostFair`. |
| `plugin_error_faithful` | violation | Under `PluginSpec`, the plugin's own update commits release 2. Then a heartbeat job, dispatched earlier for release 1, gets the non-FIFO `updateMu` and installs release 1. `UpdatePlugin` returns `ErrUpdateApply` for an update that succeeded. |
| `auto_resolve_stale` | violation | An update commits release 2. Then `AutoResolveVersion` hashes the running image, release 1, and sets the record to 1 while release 2 is installed, with `updateMu` free: `VersionTracksDisk` fails. |

The type invariants `TypeOK` (of `Updater`) and `HostTypeOK` are not run
properties. No plausible change of the code makes a state ill-typed.
`UpdaterTypeCorrect` and `HostTypeCorrect` prove them for every value of
the constants, and the other proofs rest on them.

`FailureReported` and `RollbackFailureAlerted` are not checked for the
frontend strategy, because the code plainly breaks both:
- every early return of `updateFrontend` calls `OnUpdateFailure` only, never
  `OnUpdateResult(false)` (`updater.go` 305), although spec 4.4 asks for both;
- the rollback `os.Rename(backupDir, mc.Dir)` at line 448 ignores its error,
  so a failed rollback is reported as a plain `ErrUpdateApply` and leaves no
  live directory, although spec 7 asks for a distinct rollback error. For
  the same reason `updateFrontend` does not refine `ReleaseStore`: its
  `Break` step would raise no alarm.

`updateMu` is not FIFO, and no job compares `u.Latest` with the record
after taking it. So a job for an older release can install it over a newer
one. The spec states no order between two updates of one component, so no
property forbids the downgrade itself. `plugin_error_faithful` shows where
it breaks a promise of the code: `UpdatePlugin`'s answer about its own
update.

**Bounds.**

`MCGuard` uses:
- `MaxOfflineDuration` 4 and a jitter interval of 2..3 ticks, so the grace
  window spans two or three heartbeats and both sides of the strict `>` are
  reached;
- two Start calls, so that two loops can run at once;
- one restart;
- 11 ticks, which reach locking, a kill and a restart in one behaviour.

This gives about 8 million distinct states in 90 s.

`MCUpdater` uses three releases and three jobs. That is enough for:
- a job to wait behind another for the same release or an older one;
- a failed rollback followed by a retry;
- a stall that blocks two waiters.

Every fetch, rename and rollback failure is enabled in every state where the
code can meet it.

`MCHostApi` uses three releases and two jobs: the plugin call's job and one
heartbeat job. That is enough for the heartbeat job to hold `updateMu` while
the plugin's job waits, and for either one to install a newer release than
the other. A third job makes the liveness check take over 20 minutes.

**Fairness.** The guard runs check only safety, so `Spec` has no fairness.
`Updater`'s `FairSpec` gives each job:
- strong fairness on taking `updateMu`: in starvation mode, Go's
  `sync.Mutex` hands the lock to a waiter that has waited over 1 ms;
- weak fairness on its later steps: a runnable goroutine is scheduled.

The environment is not fair: heartbeats, releases and failures.
`HostFair` adds weak fairness on `PluginReturn`: the host goroutine blocked
in `UpdatePlugin` resumes when the engine returns. The host's other calls get
no fairness.

## 4. Proofs

`GuardProofs.tla` proves `TypeCorrect: Spec => []TypeOK` for every value of
the constants that satisfies `GuardAssumption`. `TypeOK` is inductive as it
stands. The proof has one step per action, and splits the actions that
rebuild a heartbeat record (`Start`, `HbOk`, `HbFail`) into one step for the
record and one for the scalars. It rests on three lemmas:
- `NextWakeType`: the jittered timer is a natural number;
- `GraceMarkerType`;
- `NoLoopType`.

`UpdaterProofs.tla` proves four theorems for every strategy and every
`MaxVersion` and `MaxJobs` that satisfy `UpdaterAssumption`:
- `UpdaterTypeCorrect: Spec => []TypeOK`;
- `IntactCopyHolds: Spec => []IntactCopy`;
- `VersionTracksDiskHolds: Spec => []VersionTracksDisk`;
- `FailureKeepsLiveHolds: Spec => FailureKeepsLive`, an action property.

None of these invariants is inductive alone. `TypeOK` is not, because
`live' = want` needs the target to be a real release. The inductive invariant
`IInv` conjoins `TypeOK` with these facts, and TLC checked it on both
strategies first:
- `WantInv`: a dispatched job targets a release;
- `LockInv`: `updateMu` is held by exactly the job in a phase between
  `Lock()` and `Unlock()`, so at most one job is between the renames;
- `FreshJobs`: the slots above `njobs` are untouched;
- `RbInv`: only a finished job has seen its rollback fail;
- `BackedUpInv` and `SwappedInv`: between the renames the live path is
  empty, and after the second rename it holds a release;
- `MissingInv`: an empty live path means a job is between the renames with
  a release at `.bak`, or a rollback has failed.

`IInv => IntactCopy` is then immediate. The proof is one lemma per dispatch
action (`NotifyIInv`, `AcquireIInv`, `ReleaseIInv`) and, for the ten steps of
a job, `JobFrame` (only job j and the lock move), `JobBookkeeping` and
`JobDisk` (one case per rename outcome).

`VersionTracksDisk` needs a second strengthening, `TrackInv`. For the job
holding the lock it records:
- until the first rename, the live path holds `live0`, what it held at
  `Lock()`;
- after the first rename, `.bak` holds `live0`;
- after the second rename, the live path holds `u.Latest`;
- a known record equals `live0`.

Each failing return thus puts `live0` back or leaves the path empty after a
failed rollback. Commit records what the swap installed. The same two
invariants give `FailureKeepsLive` through `KeepsLiveNext`.

`StoreProofs.tla` proves `StoreRefinedHolds`: with `Strategy = "backend"`,
`Spec => StoreRefined`, the refinement of `ReleaseStore`. The hypothesis
is needed, because `FeSwap`'s failed rollback maps to a `Break` without
the alarm. The proof follows the usual two obligations:
- `InitStore`: an initial state maps to an initial state;
- `NextStore`: under `IInv /\ TrackInv`, every step maps to an abstract step
  or a stutter.

`JobStore` has one case per step of a job:
- a step that keeps `updateMu` leaves the holder's `live0` alone, so it
  stutters;
- a failing return puts `live0` back (from `TrackJob`), so it stutters too;
- a failed rollback rename leaves the path empty and hands `OnUpdateResult`
  the rollback class in the same step, which maps to `Break`;
- `BinCommit` finds `u.Latest` at the live path and records it, which maps to
  `Install(u.Latest)`.

`Notify` and `Acquire` stutter: `FreshJobs` and `LockInv` keep a new slot
apart from the holder, and `Acquire` copies the live release into `live0`.

`ReportProofs.tla` proves `FailureReportedHolds`: with
`Strategy = "backend"`, `Spec => []FailureReported`. The hypothesis is
needed, because `updateFrontend` calls `OnUpdateResult` on no failure
(section 3, after the table of runs). The strengthening `ResultInv` states,
for each job, two facts:
- it reports no error class while it runs;
- once it has returned, it has reported.

TLC checked `ResultInv` on `update_backend`. It rests on `IInv`
(`RbInv`: a running job has no failed rollback). `JobResultStep` has one
case per step of the binary path.

`GraceProofs.tla` proves three theorems for every value of the constants
that satisfies `GuardAssumption`:
- `GraceBoundHolds: Spec => []GraceBound`;
- `NoPrematureLockHolds: Spec => NoPrematureLock`, an action property;
- `BanIrreversibleHolds: Spec => BanIrreversible`, an action property.

`BanIrreversible` needs no invariant: every method of the state machine
maps BANNED to BANNED, and only `Restart` builds a fresh one.

`GraceBound` is not inductive: the clock may tick only if some goroutine
bounds it. The strengthening `GInv` was checked by TLC on the
`guard_safety` instance (8 million states). It conjoins `TypeOK` and
`GraceBound` with these facts:
- `FreshSlots`: `Start` fills the slots in order, and `g.cancel` holds the
  last one;
- `ContactInv`: `contact` is no later than the clock, and every loop's last
  success is no later than `contact`;
- `Timely(i)`, for each running loop:
  - its timer is due no earlier than the clock;
  - it is armed at most one interval after the last success or, once a
    failure has set `graceStart`, at most `MaxOfflineDuration` plus one
    interval after `graceStart`;
  - `graceStart` is at most one interval after the last success;
  - a loop about to call `OnGracePeriodExpired` is past
    `MaxOfflineDuration`;
- `ActiveOwned` and `GraceOwned`: an authorized guard that was not stopped
  has a loop with a live context still in the select or sending (ACTIVE),
  or anywhere in the loop (GRACE);
- `PendingCancel`: a goroutine cancelled by `Stop` while its request was in
  flight can still answer `OnHeartbeatOK`. If a `Start` has succeeded
  since, a fresh loop sleeps with its timer still ahead, because the clock
  cannot move while a request is in flight. This keeps ACTIVE owned after
  such an answer.

With these facts, a `Tick` of an authorized guard finds a sleeping owner
whose timer lies ahead, and that timer lies at most `GraceWindow` after
`contact`. There is one lemma per action (`StartGInv`, `OkGInv`,
`FailGInv`, ...), combined in `GInvNext`. `NoPrematureLock` follows from
`GInv` through `LockStep`: only `HbExpire` from GRACE yields LOCKED, and
`Timely` gives its goroutine `now - lastOk > MaxOfflineDuration`.

`HostProofs.tla` proves `HostTypeCorrect: HostSpec => []HostTypeOK` for
every value of the constants.

The host's calls keep `IInv`. The engine-running branch of `PluginCall`
is `Notify`, and `AutoResolveReply` writes only the version record, which
`IInv` reads only for its type. With `IInv` and `CallInv` (a typed call
whose running job is a dispatched slot), `HostTypeOK` is inductive.

Only TLC checks the liveness properties `UpdatesTerminate` and
`PluginReturns`. They hold under the fairness of `FairSpec` and
`HostFair`, and the proof system does not reason about fairness or
`ENABLED`. The runs that expect a violation show counterexamples and have
nothing to prove.

## 5. Plan for the next sittings

1. Compose `Guard` and `Updater`: heartbeat successes dispatch jobs, and a
   kill does not stop running updates.
2. Prove the composition's safety properties from `IInv`, `GInv` and
   `HInv`, which it conjoins.

## 6. Not modelled

These parts are not modelled:
- fingerprinting, feedback and the catalog listing: they are I/O with no
  state that a property reads;
- config defaults: the constants stand for them;
- `src/errors.go` past its error variables: lines 38-271 are tests;
- `SetVersion` and `SetManagedVersion` as host calls: they write any value
  the host passes, so they are only the initial record. Their race with an
  update's commit has the shape of `AutoResolveReply`'s, which
  `auto_resolve_stale` shows;
- the config-error early returns of `part_002`'s `updateBackend` and
  `updateManagedBackend`: they come before the lock and touch nothing;
- the path `os.Executable` returns after an in-process update. On Linux it
  follows the rename to `.bak`, so a second update could target the backup.
  The model takes the live path as every job's target;
- the data race on `g.cancel`: Start and Stop are atomic steps in the model.
