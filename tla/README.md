# TLA+ models of Headroom Desktop

Headroom Desktop is a Tauri application. It puts a local intercept in front of
the model providers of coding agents, runs a Python backend that optimises the
requests, installs and upgrades that backend, and edits the configuration of the
agents ("clients") so that they talk to the intercept. These modules model the
parts of its Rust core where threads, processes and crashes meet. TLC checks
them on small instances; TLAPS proves the theorems for every instance.

Paths below are relative to the repository; `lib.rs`, `state.rs` and so on are in
`src-tauri/src/`.

## 1. The system

### Components

| Component | Code | State it keeps | Operations |
| --- | --- | --- | --- |
| Drain gate | `proxy_intercept.rs` 50-150 (`CodexDrain`) | draining flag, count of live sockets, one mutex and one condition variable | admit and drop a request, begin a retirement, retire (unbounded wait), drain (bounded wait), resume |
| Intercept pipeline | `proxy_intercept.rs` | bypass flag, reachability, bind error, counters | accept, choose the upstream, fall back to the provider, retry the bind |
| Codex route marker and heartbeat | `codex_router.rs` 100-500 | marker file with a time, generation, heartbeat slot, lifecycle lock, write lock | start and stop the heartbeat, publish, read the route |
| Codex router process | `codex_router.rs` | a helper process per app version, its port, control token, 256 permits | spawn, take over the port, shut down, drain old clients |
| Runtime lifecycle | `lib.rs`, `state.rs` | pause, auto-pause, bypass, shutdown, exit and restart flags; `lifecycle_lock`; the child | pause, resume, forced restart, quit, reopen, restart, ensure running, stop; watchdog |
| Runtime upgrade | `tool_manager.rs` 4800-7000, `state.rs` 760-1970 | `venv`, `venv.backup`, receipt, lock, their backups, the marker, the launch profile | upgrade in place, rebuild, repair, commit, rollback, recover at launch, retry |
| Bootstrap and managed tools | `tool_manager.rs`, `state.rs` | receipts and pending markers of each tool | first install; install and remove add-ons; recover a pending step |
| Backend process control | `tool_manager.rs`, `backend_port.rs`, `port_conflict.rs`, `proc.rs` | port, child, occupant of the port | choose the port, spawn, diagnose, reclaim an orphan |
| Client adapters | `client_adapters.rs` | files of each client, backups, setup state | set up, disable, clear, restore |
| Pricing gate | `state.rs`, `pricing.rs` | two bypass flags, cached entitlement | enter and leave the gate, stop the backend if gated |
| Skill manager, MCP manager | `skill_manager.rs`, `mcp_manager.rs` | directories and configuration entries | enable, disable, remove |
| Usage counters, updates, Jev, credentials, scrubber, analytics | see PROJECT.json | day counters, caches, catalogues | mostly I/O and statistics |
| Front end, build, vendored code | `src/`, `scripts/`, `resources/` | views | the commands a user may give |

### How they interact

- The intercept asks the drain gate before it serves any connection
  (`handle`, proxy_intercept.rs 844). Pause, quit and restart shut the gate, retire
  the connections inside, then stop the backend; resume and reopen open it.
- Every route change ends in `start_heartbeat` or `stop_heartbeat`. The Codex
  router process reads only the marker file, so the file is a message channel
  whose sender may die.
- The flags of the lifecycle are atomics that five kinds of threads read and write
  without a common lock. Only the spawn and the kill of the child are under
  `lifecycle_lock`, and a stop gives up waiting for that lock after two seconds.
- An upgrade stops the backend, changes the files, starts the backend again to
  validate the boot, then commits or rolls back. The recovery at the next launch
  sees only what is on the disk.

### What is hard, and what makes each component correct

- *Drain gate*: a wake-up lost between check and wait; a socket admitted after the
  count; a deadline beside the last drop. Correct if a waiter is answered, and an
  answer of TRUE means that the gate is shut and empty until somebody opens it.
- *Heartbeat*: a superseded thread that writes after the stop; two publishers; a
  crash with the proxy marker on disk. Correct if a stop is final and the exposure
  after a crash is bounded.
- *Lifecycle*: the flags, the gate, the child and the route change at different
  times. Correct if the gate matches the pause, nobody spawns a second backend, a
  quit is finished by exactly one thread or cancelled, connections are not cut, and
  the service comes back by itself after faults.
- *Router hand-off*: helpers of several builds, and desktops that share no lock,
  contend for one port, and every probe is a connection that needs a permit.
  Correct if a session outlives the replacement of its helper, and if an Ok is
  not followed by a dead port.
- *Request path*: flags, backend, port and desktop change between any two awaits of
  a request. Correct if a request is handed over at most once and only to the
  vendor that issued its credential, if it ends, and if the front door opens again.
- *Client set-up*: the configuration belongs to the user and is written by others
  without a lock; what was displaced is remembered in another file. Correct if the
  displaced provider is on record until it is back, and a connection is not
  forgotten.
- *Upgrade*: a crash between any two file operations, pip that leaves a mixture,
  an undoing that fails half-way. Correct if there is always a way back, a complete
  rollback restores what there was, and retries end.

PROJECT.json lists every hazard at its line with the properties that cover it.

## 2. The modules

### DrainGate and CodexDrain

`DrainGate` is what callers are promised: one atomic step per call, a wait that
returns TRUE only when the gate is shut and empty, FALSE only on a resume or a
timeout. `CodexDrain` is the code: `draining` and `live` are the pair under the
mutex, `phase[w]` is where a thread stands in `CodexDrain::wait` (about to look,
parked on the condition variable, returned), and `notifyOwed` is the stretch of
`resume` between the assignment and `notify_all`. `Begin` is `handle` up to the
admission, `DropRequest` the `Drop` of the guard, `BeginRetirement`, `Retire`,
`Drain`, `ResumeClears` and `ResumeNotifies` the wrappers. `Recheck` is one turn of
the loop; `wait_for` that runs out of time is `DeadlinePasses` (a waiter may be
parked or on its way to the mutex then). parking_lot's condition variables have no
spurious wake-ups, and the loop would absorb them. `sealed` is a history variable: the waiters that were told TRUE
since the gate was last opened.

### RouterHeartbeat

Callers run `start_heartbeat` and `stop_heartbeat` step by step: `Begin` takes
`lifecycle`, `Supersede` changes the generation and empties the slot,
`CheckExists`, `TakeWriteLock`, `PutDirect`, `RemoveMarker`, `PutProxy`,
`SpawnThread` follow the source. A heartbeat thread wakes, takes the write lock,
looks at its stop flag and its generation (`LockAndCheck`) and writes (`Beat`).
`Tick` is a unit of time, so that a reader's view (`RouteMode`) depends on the age
of the record. Writes may fail. `Crash` ends the process and leaves the file.

### RuntimeLifecycle

A task executes a command; `pc` is its next step and `stk` the steps its callers
resume at, as `ensure_headroom_running`, `stop_headroom_if`, `resume_runtime` and
`activate_codex_router_if_runtime_ready` are shared by several commands. A step
extends to the next point at which another thread can make a difference. The
waiter of a pause and the finisher of a quit go on in the task that spawned them,
which then no longer counts as foreground. The watchdog and the thread that waits
for the backend to become ready are tasks of their own. Stores to different flags
are steps of their own where others read them: `ResumeAuto` and the bypass of a
resume, the two halves of `ExitHeadroom` (the swap of `EXIT_TEARDOWN_STARTED`, then
`EXIT_RETIRING`), `CancelPendingExit` and `ClearStarted`.

Abstractions, each towards the permitting outcome or to a proved interface:
a wait on the drain gate is one step, as `DrainGate` allows; the heartbeat is its
effect on the route, final when `stop_heartbeat` returns (`DirectOnceStopped`); the
pricing gate permits, Codex is enabled, and no upgrade is under way; the orphan
stop before a spawn is left out; the two-second cache of the runtime status is
covered by a watchdog that may be pre-empted for any time, and `auto_resume_backoff`
by a retry that may be due at any of its ticks.

### RuntimeUpgrade

The state is the disk. `venv` and `backup` are records of the installed
`headroom-ai` (`app`), the dependency set (`deps`) and the READY flag; the receipt
holds a version and a lock hash; the lock, its backup, the receipt backup and the
marker are single files. There are two versions and two locks, one installed at
first and one pinned by this app. `how` is the maintenance under way and `mode` for
whom things are being undone, because `recover_from_interrupted_upgrade`,
`rollback_in_place_upgrade_inner`, `rollback_partial_upgrade` and
`rollback_headroom_upgrade` do the same steps in different orders and differ in
whether an error ends them. `Crash` may fall between any two steps; inside pip it
leaves a mixture, inside the removal of the rebuilt environment a torn directory.
`Tear` is a kill inside the removal of a backup (in a commit, or before a rebuild)
or inside `std::fs::copy` of a receipt, in either direction: it leaves a torn backup
or a receipt that does not parse (`Torn`). Copies of the lock are atomic here: a
torn lock lies under a marker whose recovery copies it again before it is read, but
for a recovery that failed in between. Kinds of faults that occurred are recorded,
so that a property can say what it tolerates.

A named action is one function or one stage of it. Each `io` alternative is the
error branch that the source has at that operation; a removal that fails may have
removed a part (`Remains`), and a copy that fails may have written one.

### RouterHandoff

Desktops run `ensure_running` and `shutdown_and_wait` step by step (`desk[d].pc`);
`start_lock` makes each desktop process one thread, and nothing joins two of them:
a second launch and an uninstaller run in processes of their own. A helper is
starting, listening, closing (it has left the accept loop with the port still
bound for a moment), draining or gone, has a build, and knows who asked it to stop.
`Probe`, `CheckVersion`, `StopProbe`, `StopToken`, `StopVersion` and `Post` are each
one connection to whoever holds the port then; `HasPermit` says whether it is
served. `Reuse` is `router_reuse_action`. `token` is the control token in the state
file;  `LoseToken` is `stop_heartbeat_locked` removing that file. `Post` has the
shutdown that the helper applied and whose answer was lost: the call fails and the
helper still closes. `windows` is `cfg!(windows)`, chosen once, because `Reuse` and the
end of a helper differ there: `AbortsClients` says which helpers cut their sessions
(`Cut`) when they leave the port, those of Windows and those of before there was a
drain. Every own build drains (`OwnBuilds \subseteq Draining`). `Kill` and `KillDesktop`
end processes anywhere.

### Interception

A request is its kind, which stands for path, credential and headers, and `at[r]` is
the await it stands before. `Route`, `Relay` and `Native` are `handle_client` and
`forward_direct` of the router; `Begin`, `PassBypass`, `TakePermit`, `Connect`,
`FallBack`, `AwaitBackend`, `ForwardToBackend`, `BackendAnswers` and `GoAround` are
`handle` of the intercept, `ForwardDirect` is `forward_direct_to_anthropic`.
`NoteReachable` and `NoteUnreachable` are `note_backend_reachability`. `Bind` and
`BindFails` are the loop of `spawn`. The threads that write the flags are one
`governor`: `enter_claude_gate`, `exit_claude_gate`, the give-up of the watchdog (the
same swap and stop) and a restart, each from its flag to the drain gate, the end of
the backend and its start, which may fail, and which opens the gate before or after
the backend accepts connections. `reached`, `deliveries` and `everUp` are history.

Abstractions: the published route may be either at any time (RouterHeartbeat is
about which it is); the drain wait of a stop is any time, since it ends after two
minutes; header rewriting, the counters, the bearer capture and the splices have no
effect on where a request goes; a client that sends no header in time is dropped by
the code and absent here; `codex_bypass` only stamps a header, so it is no variable.
No foreign program takes port 6867 between the router's identity probe and the
connect right after it.

### ClientSetup

Two files: `config` is the root route of `config.toml` (its provider, whether the
managed block is there and holds that line, which tables exist, whether
`openai_base_url` is a custom one); `file` is `client-setup.json`. A call loads the
state file (`Load`), edits the config under its lock (one `Edit`) and saves the
state file at its end; `call[t]` holds its locals. `Configure`, `Write` and `Verify` are
the stages of an apply and its one retry, `StripConfig`, `RestoreProvider` and
`ForgetSetup` those of a disconnect, `WriteSnapshot` what a clear adds. `Restore` is
`restore_client_setups`, `ChangeSetting` any setting that shares the state file.
Verification reads the route with its provider table (`Verified`; `edited` is a table of
ours that somebody changed) and the guard hook, whose absence is an event; its own
reads may fail (`Fail`). Other programs write back a copy they read before (`ReadCopy`,
`WriteCopy`), and one that changed its copy is that and an edit; the user edits
(`Select`, `EditRest`). `owed`, `wanted` and `excused` are history: the provider put
aside, the user's wish, and whether one of the windows of section 6 was hit and no
setup has since written the record whole (`WritesWhole`).

## 3. What TLC checks

| Run | Module | Bounds | Shows |
| --- | --- | --- | --- |
| `codex_drain` | CodexDrain | 2 sockets, 2 waiters | no lost wake-up, retirement holds, refinement of `DrainGate` (with its answers), both kinds of waits end |
| `router_heartbeat` | RouterHeartbeat | 2 callers, 2 heartbeat threads, 1 crash, 4 generations, stale after 2 ticks | the inductive invariant, direct once stopped, bounded exposure, one publisher, no deadlock of the two locks |
| `runtime_quit` | RuntimeLifecycle | 2 user tasks, 1 connection, 3 commands of pause, quit and reopen, a failing write | a quit is finished by the one asked for last and cuts no connection |
| `runtime_recovery` | RuntimeLifecycle | watchdog, 1 user task, 2 commands of resume, forced restart and restart, 2 faults of 7 kinds | one backend, the gate matches the pause, a bypass ends, the service recovers |
| `runtime_upgrade` | RuntimeUpgrade | any 4 faults or user requests of 7 kinds | what the disk can recover from, and what the app comes up with, by kinds of faults; exact rollback; retries end |
| `router_handoff` | RouterHandoff | 2 desktops of either of 2 builds, 3 helpers of 4 builds, 1 session, 1 permit, 2 calls, 1 fault (a kill, a lost token or a lost answer) | no session is cut by a replacement, an Ok is not followed by a dead port, calls return |
| `interception` | Interception | 2 requests of 5 kinds, 1 permit, 2 arrivals (the second may be a retry), any number of faults | the right vendor, one delivery, the outage clock, requests end, the port is bound and its error withdrawn |
| `client_setup` | MCClientSetup | 2 callers (symmetric), 1 foreign provider, 3 calls, 2 events of 7 kinds | outside named windows the displaced provider is on record and the connection not forgotten; a disconnect gives back, one lost update is healed |
| `resume_strands_quit`, `give_up_shuts_gate`, `spawn_outlives_quit`, `commit_crash` | RuntimeLifecycle, RuntimeUpgrade | see section 6 | disagreements between the code and what its text promises |

Why the bounds are enough: two waiters and two sockets give every pairing of a
last drop, a second waiter and a resume. A heartbeat needs one late thread and one
current thread, and a second caller to supersede them; a third thread is symmetric
to the late one. Three commands are a quit, its cancellation and the quit or pause
after it, the shortest sequence in which an old finisher meets a new quit. Two
faults let the watchdog's recovery itself fail and reach the give-up. Four faults
in the upgrade allow a crash, a failed recovery, a second failure in the attempt
after it, and a user request. In the hand-off, three helpers are the one that is
replaced, the one that replaces it and the one a racing desktop starts; a session
holds the single permit, which is the exhausted limit; two calls are two
replacements, or a replacement and a release, that overlap. One permit and two
requests exhaust `backend_inflight`; gate transitions, losses of the backend and new
desktops meet a request in any number, since none of them is counted. In the client
set-up two callers overlap at every step, and three calls are a connection, a clear or disconnect and
a restore; two events are the two lost updates after which setup gives up. The
theorems of section 4 remove the bounds for the safety properties.

`runtime_recovery` has no sockets: its properties do not look at connections, and
`runtime_quit` covers them. `Overlap = FALSE` in the two lifecycle passing runs: a
second command is given once the first has returned to the user interface, while
its background thread goes on; with `Overlap = TRUE` the gate may stay shut
(section 6). Deadlock is unchecked where the system may stop: the app exits, and
the counters of commands and faults run out. In RuntimeUpgrade and CodexDrain it is
checked.

### Fairness

Threads run (weak fairness of each task's next step). A lock that is released
again and again is obtained (strong fairness of `EnsureLock`, `TakeWriteLock`,
`LockAndCheck`): parking_lot hands locks over eventually, and the heartbeat's and
the lifecycle's critical sections are finite. The backend boots unless it fails,
and connections end (`runtime_quit`), which is what an unbounded retire waits for
by design; `RetireAnswers` states the latter as its premise instead. In
RuntimeUpgrade only the code's own steps are fair, since every command it starts
ends; launching and quitting are not, and `RetriesEnd` has repeated launches as its
premise. In RouterHandoff the calls of a desktop, their deadlines and the helpers
run; sessions last as long as they like. In Interception each request takes its
steps (a vendor or a backend that took a request answers it or loses it; the wait
for a backend has a deadline) and the bind loop binds a port that stays free. ClientSetup has no
liveness property. Nothing is assumed of users, of faults, of the clock or of the network.

## 4. What is proved

`CodexDrainProofs` (any sets of sockets and waiters; no assumption on them):

- `TypeCorrect`, `WakeupsArrive`, `RetirementIsSound` from the inductive
  `DrainInv == TypeOK /\ NoLostWakeup /\ RetirementHolds`. `NoLostWakeup` is not
  inductive alone: a step that empties the gate must be known to notify every
  parked waiter, which needs the types of `phase` and of the count.
- `GateRefinement`: the initial states map to initial states, and each step under
  `DrainInv` is a step or a stutter of `DrainGate` under the mapping `AbstractWait`.

`RouterHeartbeatProofs` (any callers, threads, staleness limit and bounds, under
`ParameterAssumption`):

- `HeartbeatInvariant`, and from it `TypeCorrect`, `StopIsFinal`,
  `ExposureIsBounded`, `SinglePublisher`. `DirectOnceStopped` needs to know that a
  thread which may still write is late only while the stop that superseded it is
  before its own write (`LateBeat`), that this stop will find a marker and not return
  early (`MarkerWritten`), that the locks exclude the others (`LocksHeld`), and what
  the caller in the middle has established (`SlotEmptied`, `DirectInside`).
  `BoundedExposure` follows from `QuietIsAge`. One lemma per action.

`RuntimeLifecycleProofs` (any users, connections, commands that may overlap, faults
and bounds, under `CommandAssumption`):

- `LifecycleInvariant`, and from it `TypeCorrect`, `OneBackend`, `CancelledQuitStays`.
  The control comes first: `Frames` says which step may be on which stack, so that a
  return from a shared function leads to a step of its caller. `LockHeld`: who is
  between `ensureChild` and `ensureUnlock`, also inside the activation of the router
  that `ensure_headroom_running` calls, holds `lifecycle_lock`; a stop that goes on
  without the lock neither takes nor gives it. `SpawnsAlone` (who is about to spawn
  has no backend beside it) needs `Recorded`: a backend that `headroom_process` does
  not hold yet is one whose spawner is still under the lock. `QuitFlags` ties a raised
  retirement flag to the last quit, and a teardown to a flag that was taken; the two
  flags of a quit are written one after the other, and the task between them
  (`Between`) is the only one of a quit or a Show there.
  A lemma per function sorts its steps into moves that the invariant does not look
  at (`Kept`) and twelve that it does (`Special`); `WritersOfEach` says which actions
  write which variable, so that each conjunct is disturbed by a handful of actions.
- `BypassAlwaysEnds`, under `"pause" \notin Commands`, with `BypassWatched`: a bypass
  without a self-heal is one that the watchdog is about to give it, or a resume about
  to end. The hypothesis is needed: a user's pause clears `runtime_auto_paused`, and
  takes the end of the bypass over.
- `GateFollowsPause`, under `"pause", "quit" \notin Commands`, with `GateWatched`: who
  shuts the gate is about to stop the backend or to open it. With a pause it is false
  when commands overlap (section 6).

`RuntimeQuitProofs` (RuntimeLifecycle for any users, connections and bounds, under
`QuitRegime`: users pause, quit and show the window, one command at a time; any
faults but a backend that fails by itself; the watchdog does not give up at its first
strike, the code's limit being three):

- `QuitInvariant`, and from it `PendingQuitFinished` and `StopIsGraceful`. Both
  properties need the gate to stay shut from the moment a pause or a quit counts on
  it. `Settled` (a pause past the write that may fail, or a teardown) never ends, and
  everything that leads to a stop or a spawn comes after it (`SettledFirst`): before
  it there is a backend, recorded and ready, so that nothing is spawned, no strike is
  counted and the watchdog neither gives up nor heals (`Avoids`, about the steps and
  the stacks). What is left that opens a gate is the reopening of a cancelled quit,
  and it runs where the app is neither exiting nor paused (`Reopening`, with
  `OneInFront` and `Torn`), hence not after `Settled` nor under a pending quit.
- No hypothesis of `QuitRegime` can be dropped: TLC finds a counterexample for each. A
  resume opens the gate under a pending quit (`resume_strands_quit`), and so does the
  `ensureOpen` of a backend that is replaced after it failed. A restart, or with
  `Overlap` a pause or a quit, relies on a gate that the Show which cancelled another
  quit then opens (section 6). With a limit of one strike a probe that was
  preempted takes the backend that a pause has stopped for a dead one, and the
  self-heal of that give-up opens the gate.

`RuntimeUpgradeProofs` (any number of faults and of automatic attempts, under
`UpgradeAssumption`; `FileAssumption` says that `NoFile` is no file):

- `UpgradeInvariant`, and from it `TypeCorrect` (with the bound on the attempts),
  `RollbackFaithful`, `AlwaysUsable`, `DiskHoldsWayBack`. `UpgradeInv` goes by fault
  model. `Control` holds whatever fails. `Found` and `Restorable` carry what the
  upgrade found through every way back: the snapshot, the marker's flags and the order
  of the steps must agree at each step, which `RollbackRestores` does not say.
  `Startable` holds unless a file operation failed or was cut short (one of the two
  environments has its ready receipt, and the marker says which); `Repairable` under
  crashes, a lost network and failing validations: `OneWay` (a fresh environment and an
  upgrade in place exclude each other), `MarkerMeans` (what a marker promises of the
  files), `Progress` (what the step about to run has established) and `Snapshots` (what
  a recovery will need is there). A marker whose lock snapshot is gone (`Unsnapped`)
  has no recovery; `WaysBack` says for each regime of `WayBack` why the environment is
  sound then: `OnlyKilled` (no failed install is ever undone), `NeverKilled` (no app is
  torn) and `NoRollback` (a new receipt is not rolled back).

`RouterHandoffProofs` (any helpers, sessions and builds, any finite number of
desktops, under `BuildAssumption` and `BoundAssumption`):

- `TypeCorrect`, `NoPortLeftDead`, `HandoffKeepsSessions` from `HandoffInv`: only the
  helper that holds the port listens or closes (`PortHeld`); a helper that closes is
  being waited for, so that an answer given meanwhile is not the last one
  (`ClosingWatched`, `AnswerTrue`); a helper that aborts its clients is stopped by a
  release only (`ReleaseOnly`, `SomeAborts`), as one of before there was a drain is
  never handed off (`PreDrainAtPort`). That a fresh token exists is a cardinality
  argument over what the
  desktops hold, hence `IsFiniteSet(Desktops)`.

`InterceptionProofs` (any requests, kinds, permits and arrivals, under
`InterceptionAssumption`):

- `TypeCorrect`, `AtMostOneDelivery`, `CredentialStaysHome`, `OutageClockTruthful` from
  `PipelineInv`. `Pending`: a request still on its way was handed over nowhere, so
  the next hand-over is the first. `Placed`: only OpenAI kinds come by the router, and
  the kinds without a right direct route never get to the fallback. `OutageInv`: the
  first outcome of a process is no outage.

`ClientSetupProofs` (any callers, providers, calls and events, under
`ProviderAssumption`, the marker values being distinct, and `ParseAssumption`, that
`Unparsable` is no parsed state):

- `TypeCorrect`, `NothingLost`, `StaysConnected`, `DisconnectGivesBack`,
  `OneRetrySuffices` from `SetupInv`. The files alone do not carry the argument: a call
  that nobody raced still has in its hand what the state file says (`Fresh`), and one
  that was raced holds the owed provider itself (`Held`) or leaves its files to an
  exception the properties name (`Overtaken`). A setup that writes the record whole
  ends an exception (`WholeRecord`): the invariant is established again from nothing.
  `Attempt` counts the changes behind a call's back, for the one retry
  (`SecondAttempt`).

Every inductive invariant was checked by TLC, as an invariant of the configuration
of its module's run, before it was proved: for RuntimeLifecycle with two users, all
six commands and `Overlap = TRUE`, and `BypassWatched` and `GateWatched` with the
commands of `runtime_recovery`; `QuitInv` with the commands of `runtime_quit`, all the
faults it allows, four commands and a limit of two strikes. Two properties came out stronger than they were
first stated: `RollbackRestores` needs no restriction on the kinds of faults (that no
step of the undoing failed is enough), and `NoDeadPort` none on releases.

Only model-checked:

- Liveness everywhere (`DrainAnswers`, `RetireAnswers`, both `CallsReturn`, `QuitEnds`,
  `ServiceRecovers`, `RetriesEnd`, `EveryRequestEnds`, `FrontDoorOpens`), and with it
  the use of fairness and ENABLED, which TLAPS does not handle.

No module has a RECURSIVE operator, so that all of them can be proved about.

## 5. What is not modelled, and why

Bootstrap and the pending markers of the managed tools are planned (section 7), as
is the choice of the backend port. `pricing.rs` decides from cached entitlements
when the gate flags change; with the default feature `local-community` (Cargo.toml)
its decision is always to optimise, so only the transitions are modelled
(Interception). Of the client adapters only Codex is modelled: it is the one client
behind the current boundary, and the others edit files without the takeover. The
intercept's own dashboard paths, its statistics and its byte streams are left out.
The skill and MCP managers come later. Credentials,
analytics, the memory scrubber and version look-ups are I/O or pure text without
protocol state. The front end only gives the commands that RuntimeLifecycle
enumerates. Within RuntimeUpgrade: a target version other than the pinned one, and
a recovery at launch that runs beside an upgrade the user asks for (`upgrade_lock`
is taken in `run_upgrade_with_ui` only).

## 6. Disagreements between code and text

Four are exhibited by runs and listed in PROJECT.json with their quotations:

- `resume_strands_quit`: pause, quit and resume with a connection open leave
  `EXIT_TEARDOWN_STARTED` up for a quit that nobody finishes.
- `give_up_shuts_gate`: the watchdog's give-up shuts the gate in front of the
  bypass, so requests are refused where the notification says they pass.
- `spawn_outlives_quit`: a spawn that passed the shutdown check waits for the lock
  and starts a backend after the quit's sweep.
- `commit_crash`: a crash in the commit, after the receipt backup is removed and
  before the marker is, reinstalls the old version under the new receipt.

Others were met in the source or in TLC's counterexamples and are not runs:

- Lifecycle: a resume between the two halves of a pause (lib.rs 4661) clears the
  pause and reopens the gate, and the pause then shuts it: nothing is under way, the
  backend is ready and the gate is shut, although src/README.md 77-78 says that
  resuming cancels the pending shutdown. `GateMatchesPause` of RuntimeLifecycle
  finds it with `Overlap = TRUE`.
- Lifecycle: a resume cuts the drain of a stop in progress; a restart ignores the
  answer of `retire_codex_requests` (lib.rs 993); a pause whose client clean-up
  fails leaves the gate shut (lib.rs 4656); `stop_headroom_if_paused` can give up on
  a lock held for more than two seconds and leave the backend up while paused;
  `ensure_headroom_running` may open a gate that was just shut (state.rs 3277), and a
  quit that waits on that gate then gives up with its flag and
  `EXIT_TEARDOWN_STARTED` still up. A Show that cancels a quit reopens the gate also
  under the stop of a restart that was asked for in between, and connections that come
  in then are cut: `GracefulStop` finds it with "restart" among the commands and three
  users.
- Upgrade: `rollback_headroom_upgrade` consumes the lock snapshot before the wheel
  is reinstalled (tool_manager.rs 6285), so that after a failure there every later
  recovery fails on the missing snapshot while the receipt stays at the target;
  `rollback_in_place_upgrade_inner` does the same and logs that it retains the
  backups (6875). If the reinstall is killed, the app is torn and no way back is left:
  a failed boot, the rollback's removal of the snapshot, the kill; every recovery then
  ends at 5968 before it reinstalls the wheel, although the comment at 5963-5967 says
  that marker and lock backup are kept so that a retry can undo it. A kill inside
  `remove_dir_all` of the backup makes the next launch
  replace the good environment by the torn backup. `std::fs::copy` of a receipt (6193,
  6432, 6002) is not atomic: killed in the snapshot, it leaves a truncated backup that the
  next recovery copies over the good receipt, and a receipt that does not parse has
  later launches repair the dependencies but never upgrade. The answer of the recovery is
  ignored at 6121, so a later snapshot may hold the target's lock or a mixed
  environment; a forced rebuild then takes that as the thing to restore. A kill
  during a rollback with the network gone can leave a half-installed version that
  the launch stamps as current (the marker stays, and the next launch retries). A
  rebuild overwrites the active lock and its rollback does not restore it. A failed
  receipt snapshot of a rebuild restores the environment and leaves the marker,
  which no recovery clears (6193); the comment at 6070 says it is cleared.

- Router hand-off: `shutdown_and_wait` answers Ok without the port released when all
  permits are held (codex_router.rs 312), where lib.rs 4805 counts on a released
  port. `shutdown_and_wait_locked` looks at the version once (codex_router.rs
  321-339), so of two desktops that replace a helper at once the second may stop the
  fresh helper of the first; it then starts its own.
- Request path: the router relays an opaque ChatGPT token on its `/v1` path
  (codex_router.rs 1596) and so loses the one hint by which the intercept knows it
  (proxy_intercept.rs 905-920); the intercept has no fallback to `auth.json`, which
  the router has (1688-1691). Under a bypass or with the backend down such a request
  goes to api.openai.com, which proxy_intercept.rs 1076-1080 excludes. `RightVendor`
  names this case as its exception.
- Pricing gate (account edition): `enter_claude_gate` sets the bypass first so that
  requests pass (state.rs 3902-3904), and `stop_headroom` then leaves the drain gate
  shut in front of it: the disagreement of `give_up_shuts_gate` again. state.rs 521
  calls the two flags mutually exclusive; two concurrent gate calls may leave both up
  or both down until the next poll, and the switch from one to the other has a moment
  with neither.
- Reachability: the count of 503s of a launch window, or of waits that ended after
  the outage was over, is reported with the next outage (`take()` of `None` does not
  reset it). A foreign HTTP server on 6867 never raises the bind error, since
  `probe_existing_intercept` accepts any HTTP answer.
- Client set-up: a setup that dies or fails between the config write and the state
  save forgets the provider it displaced, so that a later disconnect falls back to the
  native one; a crash in a clear between the forget and
  the snapshot forgets the connection; two calls that overlap lose one another's
  state, as no lock covers load to save; an unparsable state file is set aside and
  what it held is lost. These are the windows of `excused`; each lasts until a setup
  that nobody raced saves the record with the route in place. A clear that does not
  preserve Codex writes an already restored provider back into its snapshot; a
  re-apply with nothing to displace keeps an older record; after a takeover and a
  clear, restore refuses the user's custom provider, because it has no consent.
  `strip_marker_block` drops a provider the user selected in place, inside the
  managed block, where client_adapters.rs 4426 says that a provider selected later is
  kept.

`WayBack` and `RuntimeUsable` name the faults under which they hold, by regimes, and
`RollbackRestores` speaks of an undoing of which no step failed, in an environment that
was coherent; `Recoverable` and `NotForgotten` speak of the time outside the windows
above. That is how these cases are kept out of them; all faults are in the runs.

`WayBack` has three regimes. Killed any number of times, with the network there and a
new version that is good, the environment is whole, or the recovery that the marker plans has what
it needs, or the receipt makes the next launch repair it. The same holds without a kill,
whatever the network and the new version do, but for the moment in which a later attempt
takes the snapshot of the lock anew. Killed and offline, too, the upgrade that is due
heals at least what is torn. Kills together with a failed boot are in none of them, for
the sequence above. `RuntimeUsable` says what runs at the time: after kills alone nothing
half installed; without a kill an app that is whole, with dependencies that pip may have
left mixed when the network went; with both, an app that is whole or a marker that has
the next launch try again. In the last case the app may come up with a torn
`headroom-ai` while the network is gone: the READY receipt and the interpreters are all
that the launch looks at (3276-3290).

## 7. Plan

To be modelled next:

1. Bootstrap and the pending markers of the managed tools.
2. The choice of the backend port and the orphan stop before a spawn.
3. Two flag-writing threads in the pricing gate.

To be proved: the refinements of the two abstract specifications below.

The abstract specifications worth stating besides `DrainGate` are a route register
that RouterHeartbeat implements (written by starts and stops, reset by time after a
crash) and a transactional "replace or keep" of the runtime that RuntimeUpgrade
implements as long as nothing is torn.

## 8. Running

    tlc -config CodexDrain.cfg CodexDrain.tla
    tlapm --stretch 1.3 CodexDrainProofs.tla

Each `.cfg` belongs to the run of the same name in PROJECT.json. The runs take from
a second to four minutes, the proofs of a module from ten seconds to five minutes. The definitions marked "Mutant" are slips that the code might
have had; no specification uses them, and replacing the definition after them by
the mutant makes TLC find its property violated.
