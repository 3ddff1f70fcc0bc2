-------------------------- MODULE RuntimeLifecycle --------------------------
(***************************************************************************)
(* Pause, resume, forced restart, quit, reopen, restart and the watchdog   *)
(* of the desktop process, and what they do to the Python backend, to the  *)
(* drain gate of the intercept and to the route of the Codex router        *)
(* (lib.rs, state.rs).                                                     *)
(*                                                                         *)
(* Each task is a thread that executes one command at a time; pc holds the *)
(* next step and stk the steps its callers resume at.  A step runs to the  *)
(* next point at which another thread can make a difference.  The threads  *)
(* that a command spawns (the retire waiter of a pause, the finisher of a  *)
(* quit) go on in the task that spawned them, which then no longer counts  *)
(* as foreground; the activation loops run in a task of their own.         *)
(*                                                                         *)
(* The gate is DrainGate, with the calls that CodexDrain implements: a     *)
(* wait is one step.  The heartbeat is its effect on the route, final once *)
(* stop_heartbeat returns (RouterHeartbeat, DirectOnceStopped).            *)
(***************************************************************************)
EXTENDS Naturals, Sequences, FiniteSets

CONSTANTS
    Users,          \* tasks that execute user commands
    Dog,            \* the watchdog thread
    Armer,          \* the threads that wait for the backend to become ready
    Nobody,
    Sockets,        \* connections to the intercept
    Commands,       \* the commands a user may give
    MaxCommands,    \* bound on their number
    Faults,         \* the kinds of faults that may occur
    MaxFaults,      \* bound on their number
    MaxStrikes,     \* MAX_CONSECUTIVE_FAILURES of the watchdog
    Overlap         \* may a command be given while another is in the foreground?

Tasks == Users \cup {Dog, Armer}

ASSUME CommandAssumption ==
    /\ Commands \subseteq
          {"pause", "resume", "forceRestart", "quit", "reopen", "restart"}
    /\ Faults \subseteq {"router", "deadline", "spawn", "write", "sleep", "busy",
                         "backend"}
    /\ Nobody \notin Tasks
    /\ {Dog, Armer} \cap Users = {} /\ Dog # Armer
    /\ MaxCommands \in Nat /\ MaxFaults \in Nat /\ MaxStrikes \in Nat \ {0}
    /\ Overlap \in BOOLEAN

VARIABLES
    pc, stk,        \* control of each task
    failed,         \* tasks whose ensure_headroom_running returned an error
    foreground,     \* tasks whose command has not returned to the user
    commands,       \* commands given so far
    faults,         \* faults so far
    paused, autoPaused, bypass,      \* runtime_paused, runtime_auto_paused, proxy_bypass
    draining, live,                  \* the drain gate
    lifecycle,      \* holder of AppState::lifecycle_lock
    backend,        \* the Python process
    tracked,        \* headroom_process holds a child
    starting,       \* runtime_starting: a spawn is under way
    route,          \* what stop_heartbeat or start_heartbeat published last
    exitStarted,    \* EXIT_TEARDOWN_STARTED
    exitRetiring,   \* EXIT_RETIRING: the quit it belongs to
    retirement,     \* the flag inside it, per quit
    shuttingDown,   \* SHUTTING_DOWN
    restarting,     \* RESTARTING
    app,            \* the desktop process
    strikes, hungTried               \* locals of the watchdog

control == <<pc, stk>>
user == <<foreground, commands>>
pause == <<paused, autoPaused, bypass>>
gate == <<draining, live>>
process == <<backend, tracked, starting>>
exit == <<exitStarted, exitRetiring, retirement, shuttingDown, restarting, app>>
dog == <<strikes, hungTried>>
vars == <<control, failed, user, faults, pause, gate, lifecycle, process, route, exit,
          dog>>

Init ==
    /\ pc = [t \in Tasks |-> "idle"]
    /\ stk = [t \in Tasks |-> <<>>]
    /\ failed = {} /\ foreground = {} /\ commands = 0 /\ faults = 0
    /\ paused = FALSE /\ autoPaused = FALSE /\ bypass = FALSE
    /\ draining = FALSE /\ live = {}
    /\ lifecycle = Nobody
    /\ backend = "ready" /\ tracked = TRUE /\ starting = FALSE
    /\ route = "proxy"
    /\ exitStarted = FALSE /\ exitRetiring = Nobody
    /\ retirement = [t \in Tasks |-> FALSE]
    /\ shuttingDown = FALSE /\ restarting = FALSE /\ app = "running"
    /\ strikes = 0 /\ hungTried = FALSE

\* Control.
At(t, step) == pc[t] = step
Goto(t, step) == pc' = [pc EXCEPT ![t] = step] /\ UNCHANGED stk
Call(t, callee, back) ==
    /\ pc' = [pc EXCEPT ![t] = callee]
    /\ stk' = [stk EXCEPT ![t] = <<back>> \o @]
Return(t) ==
    /\ pc' = [pc EXCEPT ![t] = Head(stk[t])]
    /\ stk' = [stk EXCEPT ![t] = Tail(@)]

Fault(kind) == kind \in Faults /\ faults < MaxFaults /\ faults' = faults + 1

\* stop_heartbeat, and the probes: /readyz and the identity path are served
\* through the gate, and a bypass answers /readyz with 503.
StopHeartbeat == route' = "direct"
Reachable == backend = "ready" /\ ~draining /\ ~bypass
Ready == ~paused /\ Reachable
ChildAlive == tracked /\ backend # "none"
-----------------------------------------------------------------------------
\* activate_codex_router_if_runtime_ready: three looks, then the publication.
Activate(t) ==
    /\ At(t, "activate")
    /\ IF shuttingDown \/ exitStarted \/ draining \/ ~Ready
       THEN StopHeartbeat /\ Return(t)
       ELSE Goto(t, "identify") /\ UNCHANGED route
    /\ UNCHANGED <<failed, user, faults, pause, gate, lifecycle, process, exit, dog>>

Identify(t) ==
    /\ At(t, "identify")
    /\ \/ draining /\ StopHeartbeat /\ Return(t) /\ UNCHANGED faults
       \/ Fault("router") /\ StopHeartbeat /\ Return(t)
       \/ ~draining /\ route = "proxy" /\ Return(t) /\ UNCHANGED <<route, faults>>
       \/ ~draining /\ route # "proxy" /\ Goto(t, "publish") /\ UNCHANGED <<route, faults>>
    /\ UNCHANGED <<failed, user, pause, gate, lifecycle, process, exit, dog>>

Publish(t) ==
    /\ At(t, "publish")
    /\ route' = "proxy"
    /\ Return(t)
    /\ UNCHANGED <<failed, user, faults, pause, gate, lifecycle, process, exit, dog>>

ActivateCodexRouter(t) == Activate(t) \/ Identify(t) \/ Publish(t)

\* The loops of arm_codex_router_when_runtime_ready and of
\* restore_clients_when_runtime_ready: until the backend is ready, the runtime
\* is paused, or the deadline passes.  A second loop beside a running one adds
\* nothing.
SpawnArmer(t, next) ==
    /\ pc' = [pc EXCEPT ![t] = next, ![Armer] = IF @ = "idle" THEN "arm" ELSE @]
    /\ UNCHANGED stk

ArmCodexRouter ==
    \/ /\ At(Armer, "arm")
       /\ \/ Ready /\ Call(Armer, "activate", "armed") /\ UNCHANGED <<route, faults>>
          \/ (shuttingDown \/ paused)
             /\ Goto(Armer, "idle") /\ StopHeartbeat /\ UNCHANGED faults
          \/ ~Ready /\ Fault("deadline") /\ Goto(Armer, "idle") /\ StopHeartbeat
       /\ UNCHANGED <<failed, user, pause, gate, lifecycle, process, exit, dog>>
    \/ /\ At(Armer, "armed")
       /\ Goto(Armer, IF route = "proxy" THEN "idle" ELSE "arm")
       /\ UNCHANGED <<failed, user, faults, pause, gate, lifecycle, process, route, exit,
                      dog>>
-----------------------------------------------------------------------------
\* ensure_headroom_running: the gates, the lock, the child, the spawn.
Ensure(t) ==
    /\ At(t, "ensure")
    /\ failed' = failed \ {t}
    /\ IF shuttingDown \/ bypass \/ paused
       THEN StopHeartbeat /\ Return(t)
       ELSE Goto(t, "ensureLock") /\ UNCHANGED route
    /\ UNCHANGED <<user, faults, pause, gate, lifecycle, process, exit, dog>>

\* Mutant: the lock is not waited for.
EnsureWithoutLock(t) ==
    /\ At(t, "ensureLock")
    /\ IF paused THEN StopHeartbeat /\ Return(t)
                 ELSE Goto(t, "ensureChild") /\ UNCHANGED route
    /\ UNCHANGED <<failed, user, faults, pause, gate, lifecycle, process, exit, dog>>

EnsureLock(t) ==
    /\ At(t, "ensureLock")
    /\ lifecycle = Nobody
    /\ IF paused
       THEN StopHeartbeat /\ Return(t) /\ UNCHANGED lifecycle
       ELSE lifecycle' = t /\ Goto(t, "ensureChild") /\ UNCHANGED route
    /\ UNCHANGED <<failed, user, faults, pause, gate, process, exit, dog>>

EnsureChild(t) ==
    /\ At(t, "ensureChild")
    /\ \/ Reachable /\ Call(t, "activate", "ensureUnlock")
          /\ UNCHANGED <<lifecycle, process, route>>
       \/ ~Reachable /\ ChildAlive
          /\ StopHeartbeat
          /\ Goto(t, "ensureUnlock")
          /\ UNCHANGED <<lifecycle, process>>
       \/ ~Reachable /\ ~ChildAlive
          /\ tracked' = FALSE /\ starting' = TRUE
          /\ Goto(t, "ensureSpawn")
          /\ UNCHANGED <<lifecycle, backend, route>>
    /\ UNCHANGED <<failed, user, faults, pause, gate, exit, dog>>

EnsureSpawn(t) ==
    /\ At(t, "ensureSpawn")
    /\ starting' = FALSE
    /\ \/ /\ backend' = "booting"
          /\ Goto(t, "ensureRecord")
          /\ UNCHANGED <<failed, route, faults>>
       \/ /\ Fault("spawn")
          /\ failed' = failed \cup {t}
          /\ StopHeartbeat
          /\ Goto(t, "ensureUnlock")
          /\ UNCHANGED backend
    /\ UNCHANGED <<user, pause, gate, lifecycle, tracked, exit, dog>>

EnsureRecord(t) ==
    \/ /\ At(t, "ensureRecord")
       /\ tracked' = TRUE
       /\ Goto(t, IF shuttingDown \/ exitStarted \/ paused THEN "ensureDirect"
                                                           ELSE "ensureOpen")
       /\ UNCHANGED <<draining, route, lifecycle>>
       /\ UNCHANGED <<failed, user, faults, pause, live, backend, starting, exit, dog>>
    \/ /\ At(t, "ensureOpen")
       /\ draining' = FALSE
       /\ Goto(t, "ensureDirect")
       /\ UNCHANGED <<tracked, route, lifecycle>>
       /\ UNCHANGED <<failed, user, faults, pause, live, backend, starting, exit, dog>>
    \/ /\ At(t, "ensureDirect")
       /\ StopHeartbeat
       /\ Goto(t, "ensureUnlock")
       /\ UNCHANGED <<tracked, draining, lifecycle>>
       /\ UNCHANGED <<failed, user, faults, pause, live, backend, starting, exit, dog>>

EnsureUnlock(t) ==
    /\ At(t, "ensureUnlock")
    /\ lifecycle' = Nobody
    /\ Return(t)
    /\ UNCHANGED <<failed, user, faults, pause, gate, process, route, exit, dog>>

EnsureHeadroomRunning(t) ==
    \/ Ensure(t) \/ EnsureLock(t) \/ EnsureChild(t) \/ EnsureSpawn(t)
    \/ EnsureRecord(t) \/ EnsureUnlock(t)

\* resume_runtime.
Resume(t) ==
    /\ At(t, "resume")
    /\ paused' = FALSE
    /\ Goto(t, "resumeOpen")
    /\ UNCHANGED <<failed, user, faults, autoPaused, bypass, gate, lifecycle, process,
                   route, exit, dog>>

\* Mutant: a resume leaves the gate as it is.
ResumeShut(t) ==
    /\ At(t, "resumeOpen")
    /\ Goto(t, "resumeFlags")
    /\ UNCHANGED <<failed, user, faults, pause, gate, lifecycle, process, route, exit, dog>>

ResumeOpen(t) ==
    /\ At(t, "resumeOpen")
    /\ draining' = FALSE
    /\ Goto(t, "resumeFlags")
    /\ UNCHANGED <<failed, user, faults, pause, live, lifecycle, process, route, exit,
                   dog>>

ResumeAuto(t) ==
    /\ At(t, "resumeFlags")
    /\ autoPaused' = FALSE
    /\ Goto(t, "resumeBypass")
    /\ UNCHANGED bypass

\* Mutant: a resume leaves the bypass on.
ResumeBypassed(t) ==
    /\ \/ ResumeAuto(t)
       \/ /\ At(t, "resumeBypass")
          /\ Call(t, "ensure", "resumeReady")
          /\ UNCHANGED <<autoPaused, bypass>>
    /\ UNCHANGED <<failed, user, faults, paused, gate, lifecycle, process, route, exit,
                   dog>>

ResumeFlags(t) ==
    /\ \/ ResumeAuto(t)
       \/ /\ At(t, "resumeBypass")
          /\ bypass' = FALSE
          /\ Call(t, "ensure", "resumeReady")
          /\ UNCHANGED autoPaused
    /\ UNCHANGED <<failed, user, faults, paused, gate, lifecycle, process, route, exit,
                   dog>>

ResumeReady(t) ==
    /\ At(t, "resumeReady")
    /\ IF t \notin failed /\ Ready THEN Goto(t, "activate") ELSE Return(t)
    /\ UNCHANGED <<failed, user, faults, pause, gate, lifecycle, process, route, exit, dog>>

ResumeRuntime(t) == Resume(t) \/ ResumeOpen(t) \/ ResumeFlags(t) \/ ResumeReady(t)

\* stop_headroom_if.  It waits two seconds for the lifecycle lock and then goes
\* on without it, unless it is the stop of a pause.
StopLock(t) ==
    \/ /\ At(t, "stop")
       /\ lifecycle' = IF lifecycle = Nobody THEN t ELSE lifecycle
       /\ Goto(t, "stopDrain")
       /\ UNCHANGED <<failed, user, faults, pause, gate, process, route, exit, dog>>
    \/ /\ At(t, "stopIfPaused")
       /\ IF lifecycle = Nobody /\ paused
          THEN lifecycle' = t /\ Goto(t, "stopDrain")
          ELSE UNCHANGED lifecycle /\ Return(t)
       /\ UNCHANGED <<failed, user, faults, pause, gate, process, route, exit, dog>>

StopDrain(t) ==
    /\ At(t, "stopDrain")
    /\ StopHeartbeat
    /\ draining' = TRUE
    /\ Goto(t, "stopWait")
    /\ UNCHANGED <<failed, user, faults, pause, live, lifecycle, process, exit, dog>>

\* The wait ends with an empty or reopened gate, or else after 120 s.
StopWait(t) ==
    /\ At(t, "stopWait")
    /\ Goto(t, "stopKill")
    /\ UNCHANGED <<failed, user, faults, pause, gate, lifecycle, process, route, exit,
                   dog>>

StopKill(t) ==
    /\ At(t, "stopKill")
    /\ backend' = "none" /\ tracked' = FALSE /\ starting' = FALSE
    /\ lifecycle' = IF lifecycle = t THEN Nobody ELSE lifecycle
    /\ Return(t)
    /\ UNCHANGED <<failed, user, faults, pause, gate, route, exit, dog>>

StopHeadroomIf(t) == StopLock(t) \/ StopDrain(t) \/ StopWait(t) \/ StopKill(t)
-----------------------------------------------------------------------------
\* Commands.  A resume or a forced restart is offered only while paused, a pause
\* only while not.
Give(t, command) ==
    /\ At(t, "idle")
    /\ commands < MaxCommands
    /\ Overlap \/ foreground = {}
    /\ command \in {"resume", "forceRestart"} => paused
    /\ command = "pause" => ~paused
    /\ commands' = commands + 1
    /\ foreground' = foreground \cup {t}
    /\ IF command = "resume" THEN Call(t, "resume", "resumed") ELSE Goto(t, command)
    /\ UNCHANGED <<failed, faults, pause, gate, lifecycle, process, route, exit, dog>>

Done(t) ==
    /\ At(t, "done")
    /\ Goto(t, "idle")
    /\ foreground' = foreground \ {t}
    /\ failed' = failed \ {t}
    /\ UNCHANGED <<commands, faults, pause, gate, lifecycle, process, route, exit, dog>>

\* begin_codex_retirement; the rest of the command runs in the background.
ShutGate(t, here, next) ==
    /\ At(t, here)
    /\ draining' = TRUE
    /\ Goto(t, next)
    /\ foreground' = foreground \ {t}
    /\ UNCHANGED <<failed, commands, faults, pause, live, lifecycle, process, route, exit,
                   dog>>

\* retire_codex_requests returns once the gate is empty or open, TRUE if it is
\* still shut.
WaitOver == live = {} \/ ~draining
Retired == live = {} /\ draining

\* pause_headroom and the thread it leaves behind.
PauseHeadroom(t) ==
    \/ /\ At(t, "pause")
       /\ StopHeartbeat
       /\ paused' = TRUE /\ autoPaused' = FALSE
       /\ Goto(t, "pauseClear")
       /\ UNCHANGED <<failed, user, faults, bypass, gate, lifecycle, process, exit, dog>>
    \/ /\ At(t, "pauseClear")
       /\ \/ Goto(t, "pauseShut") /\ UNCHANGED <<paused, faults>>
          \/ Fault("write") /\ paused' = FALSE /\ Call(t, "activate", "done")
       /\ UNCHANGED <<failed, user, autoPaused, bypass, gate, lifecycle, process, route,
                      exit, dog>>
    \/ ShutGate(t, "pauseShut", "pauseRetire")
    \/ /\ At(t, "pauseRetire")
       /\ WaitOver
       /\ IF Retired THEN Call(t, "stopIfPaused", "done") ELSE Goto(t, "done")
       /\ UNCHANGED <<failed, user, faults, pause, gate, lifecycle, process, route, exit,
                      dog>>

\* The rest of start_headroom, after resume_runtime, and of the check that
\* Show starts.
StartHeadroom(t) ==
    /\ At(t, "resumed") \/ At(t, "tray")
    /\ IF t \in failed THEN Goto(t, "done") ELSE SpawnArmer(t, "done")
    /\ UNCHANGED <<failed, user, faults, pause, gate, lifecycle, process, route, exit, dog>>

ForceRestartHeadroom(t) ==
    \/ /\ At(t, "forceRestart")
       /\ StopHeartbeat
       /\ \/ Call(t, "stop", "forceResume") /\ UNCHANGED faults
          \/ Fault("write") /\ Call(t, "activate", "done")
       /\ UNCHANGED <<failed, user, pause, gate, lifecycle, process, exit, dog>>
    \/ /\ At(t, "forceResume")
       /\ autoPaused' = FALSE
       /\ Call(t, "resume", "resumed")
       /\ UNCHANGED <<failed, user, faults, paused, bypass, gate, lifecycle, process,
                      route, exit, dog>>

\* exit_headroom.  Between the swap of EXIT_TEARDOWN_STARTED and the store of
\* EXIT_RETIRING a Show finds no quit to cancel.
ExitHeadroom(t) ==
    \/ /\ At(t, "quit")
       /\ exitStarted' = TRUE
       /\ Goto(t, IF exitStarted THEN "done" ELSE "quitMark")
       /\ UNCHANGED <<failed, user, faults, pause, gate, lifecycle, process, route,
                      exitRetiring, retirement, shuttingDown, restarting, app, dog>>
    \/ /\ At(t, "quitMark")
       /\ exitRetiring' = t
       /\ retirement' = [retirement EXCEPT ![t] = TRUE]
       /\ StopHeartbeat
       /\ Goto(t, "quitShut")
       /\ UNCHANGED <<failed, user, faults, pause, gate, lifecycle, process, exitStarted,
                      shuttingDown, restarting, app, dog>>
    \/ ShutGate(t, "quitShut", "quitRetire")

\* Mutant: the finisher does not look at its flag.
QuitRetireUnflagged(t) ==
    /\ At(t, "quitRetire")
    /\ WaitOver
    /\ retirement' = [retirement EXCEPT ![t] = FALSE]
    /\ Goto(t, IF Retired THEN "quitTeardown" ELSE "done")
    /\ UNCHANGED <<failed, user, faults, pause, gate, lifecycle, process, route,
                   exitStarted, exitRetiring, shuttingDown, restarting, app, dog>>

\* Mutant: the finisher does not wait for the connections.
QuitRetireImpatient(t) ==
    /\ At(t, "quitRetire")
    /\ retirement' = [retirement EXCEPT ![t] = FALSE]
    /\ Goto(t, IF draining /\ retirement[t] THEN "quitTeardown" ELSE "done")
    /\ UNCHANGED <<failed, user, faults, pause, gate, lifecycle, process, route,
                   exitStarted, exitRetiring, shuttingDown, restarting, app, dog>>

\* finish_exit_headroom, in the thread that exit_headroom spawns: it goes on
\* only if it takes the flag of its own quit.
QuitRetire(t) ==
    /\ At(t, "quitRetire")
    /\ WaitOver
    /\ IF Retired /\ retirement[t]
       THEN retirement' = [retirement EXCEPT ![t] = FALSE] /\ Goto(t, "quitTeardown")
       ELSE Goto(t, "done") /\ UNCHANGED retirement
    /\ UNCHANGED <<failed, user, faults, pause, gate, lifecycle, process, route,
                   exitStarted, exitRetiring, shuttingDown, restarting, app, dog>>

QuitTeardown(t) ==
    /\ At(t, "quitTeardown")
    /\ shuttingDown' = TRUE
    /\ StopHeartbeat
    /\ Call(t, "stop", "exit")
    /\ UNCHANGED <<failed, user, faults, pause, gate, lifecycle, process, exitStarted,
                   exitRetiring, retirement, restarting, app, dog>>

FinishExitHeadroom(t) == QuitRetire(t) \/ QuitTeardown(t)

\* app.exit(0), after the flushes that follow the stop.
ExitProcess(t) ==
    /\ At(t, "exit")
    /\ app' = "exited"
    /\ Goto(t, "done")
    /\ UNCHANGED <<failed, user, faults, pause, gate, lifecycle, process, route,
                   exitStarted, exitRetiring, retirement, shuttingDown, restarting, dog>>

\* Showing a window cancels a pending quit.
QuitPending == exitRetiring # Nobody /\ retirement[exitRetiring]

\* cancel_pending_exit.  Between its two stores a quit still returns at once.
ClearStarted(t) ==
    /\ At(t, "reopenClear")
    /\ exitStarted' = FALSE
    /\ Goto(t, "reopenCheck")
    /\ UNCHANGED retirement

\* Mutant: the flag of the quit stays up.
CancelKeepsFlag(t) ==
    /\ \/ /\ At(t, "reopen")
          /\ Goto(t, IF QuitPending THEN "reopenClear" ELSE "reopenEnsure")
          /\ UNCHANGED <<exitStarted, retirement>>
       \/ ClearStarted(t)
    /\ UNCHANGED <<failed, user, faults, pause, gate, lifecycle, process, route,
                   exitRetiring, shuttingDown, restarting, app, dog>>

\* Mutant: EXIT_TEARDOWN_STARTED stays up.
CancelKeepsStarted(t) ==
    /\ At(t, "reopen")
    /\ retirement' = [u \in Tasks |-> retirement[u] /\ u # exitRetiring]
    /\ Goto(t, IF QuitPending THEN "reopenCheck" ELSE "reopenEnsure")
    /\ UNCHANGED <<failed, user, faults, pause, gate, lifecycle, process, route,
                   exitRetiring, exitStarted, shuttingDown, restarting, app, dog>>

CancelPendingExit(t) ==
    /\ \/ /\ At(t, "reopen")
          /\ QuitPending
          /\ retirement' = [retirement EXCEPT ![exitRetiring] = FALSE]
          /\ Goto(t, "reopenClear")
          /\ UNCHANGED exitStarted
       \/ /\ At(t, "reopen")
          /\ ~QuitPending
          /\ Goto(t, "reopenEnsure")
          /\ UNCHANGED <<exitStarted, retirement>>
       \/ ClearStarted(t)
    /\ UNCHANGED <<failed, user, faults, pause, gate, lifecycle, process, route,
                   exitRetiring, shuttingDown, restarting, app, dog>>

ReopenGate(t) ==
    \/ /\ At(t, "reopenCheck")
       /\ Goto(t, IF paused THEN "reopenEnsure" ELSE "reopenOpen")
       /\ UNCHANGED draining
       /\ UNCHANGED <<failed, user, faults, pause, live, lifecycle, process, route, exit,
                      dog>>
    \/ /\ At(t, "reopenOpen")
       /\ draining' = FALSE
       /\ Call(t, "activate", "reopenEnsure")
       /\ UNCHANGED <<failed, user, faults, pause, live, lifecycle, process, route, exit,
                      dog>>

\* ensure_runtime_ready_for_tray, in the background.  A second check beside a
\* running one (CHECKING) returns at once.
Checking ==
    \E u \in Users : At(u, "tray") \/ \E i \in DOMAIN stk[u] : stk[u][i] = "tray"

EnsureReadyForTray(t) ==
    /\ At(t, "reopenEnsure")
    /\ foreground' = foreground \ {t}
    /\ IF paused \/ Checking THEN Goto(t, "done") ELSE Call(t, "ensure", "tray")
    /\ UNCHANGED <<failed, commands, faults, pause, gate, lifecycle, process, route, exit,
                   dog>>

\* restart_app: the answer of the retire is not looked at.
RestartApp(t) ==
    \/ /\ At(t, "restart")
       /\ IF restarting
          THEN Goto(t, "done") /\ UNCHANGED <<restarting, shuttingDown, route>>
          ELSE /\ restarting' = TRUE /\ shuttingDown' = TRUE
               /\ StopHeartbeat
               /\ Goto(t, "restartShut")
       /\ UNCHANGED <<failed, user, faults, pause, gate, lifecycle, process, exitStarted,
                      exitRetiring, retirement, app, dog>>
    \/ ShutGate(t, "restartShut", "restartRetire")

RestartRetire(t) ==
    /\ At(t, "restartRetire")
    /\ WaitOver
    /\ StopHeartbeat
    /\ Call(t, "stop", "exit")
    /\ UNCHANGED <<failed, user, faults, pause, gate, lifecycle, process, exit, dog>>
-----------------------------------------------------------------------------
\* The watchdog: one tick of spawn_proxy_watchdog.  What it reads is up to two
\* seconds old, which is a tick that was taken earlier and then preempted.  The
\* retry of the self-heal may be due at any tick.
ShouldBeUp == ~autoPaused /\ ~paused /\ ~bypass /\ ~starting

WatchdogTick ==
    /\ At(Dog, "idle")
    /\ ~shuttingDown
    /\ \/ /\ autoPaused
          /\ StopHeartbeat
          /\ strikes' = 0 /\ hungTried' = FALSE
          /\ Call(Dog, "stop", "dogResume")
          /\ UNCHANGED faults
       \/ /\ ~autoPaused /\ ~ShouldBeUp
          /\ strikes > 0 /\ strikes' = 0
          /\ UNCHANGED <<pc, stk, route, hungTried, faults>>
       \/ /\ ShouldBeUp /\ Reachable
          /\ strikes' = 0 /\ hungTried' = FALSE
          /\ Call(Dog, "activate", "idle")
          /\ UNCHANGED <<route, faults>>
       \/ /\ ShouldBeUp /\ ~Reachable
          /\ StopHeartbeat
          /\ Goto(Dog, "dogProbe")
          /\ UNCHANGED <<dog, faults>>
       \/ /\ ShouldBeUp /\ ~Reachable
          /\ Fault("sleep") /\ strikes' = 0
          /\ StopHeartbeat
          /\ UNCHANGED <<pc, stk, hungTried>>
    /\ UNCHANGED <<failed, user, pause, gate, lifecycle, process, exit>>

\* Mutant: one strike too many.
LastStrikeLate == strikes >= MaxStrikes

\* The direct probe of the backend, and what a strike leads to.
LastStrike == strikes + 1 >= MaxStrikes

WatchdogProbe ==
    /\ At(Dog, "dogProbe")
    /\ \/ /\ backend = "ready"
          /\ strikes' = 0
          /\ Call(Dog, "activate", "idle")
          /\ UNCHANGED <<hungTried, faults>>
       \/ /\ backend # "ready" /\ ~LastStrike
          /\ strikes' = strikes + 1
          /\ IF ChildAlive
             THEN Goto(Dog, "dogEnsure") ELSE Call(Dog, "stop", "dogEnsure")
          /\ UNCHANGED <<hungTried, faults>>
       \/ /\ backend # "ready" /\ LastStrike
          /\ Fault("busy")                \* it served bytes in the last 10 s
          /\ strikes' = 0
          /\ Goto(Dog, "idle")
          /\ UNCHANGED hungTried
       \/ /\ backend = "hung" /\ LastStrike /\ ~hungTried
          /\ hungTried' = TRUE /\ strikes' = 0
          /\ Call(Dog, "stop", "dogEnsure")
          /\ UNCHANGED faults
       \/ /\ backend = "booting" /\ LastStrike /\ tracked
          /\ Goto(Dog, "dogBoot")
          /\ UNCHANGED <<dog, faults>>
       \/ /\ LastStrike
          /\ \/ backend = "none"
             \/ backend = "hung" /\ hungTried
             \/ backend = "booting" /\ ~tracked
          /\ Goto(Dog, "dogGiveUp")
          /\ UNCHANGED <<dog, faults>>
    /\ UNCHANGED <<failed, user, pause, gate, lifecycle, process, route, exit>>

WatchdogRecover ==
    \/ /\ At(Dog, "dogEnsure")
       /\ Call(Dog, "ensure", "idle")
       /\ UNCHANGED <<failed, user, faults, pause, gate, lifecycle, process, route,
                      exit, dog>>
    \/ /\ At(Dog, "dogBoot")
       /\ \/ /\ backend = "ready"
             /\ strikes' = 0 /\ hungTried' = FALSE
             /\ Call(Dog, "activate", "idle")
             /\ UNCHANGED faults
          \/ /\ backend # "ready"
             /\ IF backend = "booting" THEN Fault("deadline") ELSE UNCHANGED faults
             /\ Goto(Dog, "dogGiveUp")
             /\ UNCHANGED dog
       /\ UNCHANGED <<failed, user, pause, gate, lifecycle, process, route, exit>>
    \/ /\ At(Dog, "dogResume")
       /\ Call(Dog, "resume", "resumedByDog")
       /\ UNCHANGED <<failed, user, faults, pause, gate, lifecycle, process, route,
                      exit, dog>>
    \/ /\ At(Dog, "resumedByDog")
       /\ SpawnArmer(Dog, "idle")
       /\ UNCHANGED <<failed, user, faults, pause, gate, lifecycle, process, route,
                      exit, dog>>

\* Mutant: no self-heal.
GiveUpForGood ==
    /\ At(Dog, "dogAuto")
    /\ strikes' = 0
    /\ Call(Dog, "stop", "idle")
    /\ UNCHANGED <<failed, user, faults, pause, gate, lifecycle, process, route, exit,
                   hungTried>>

\* Giving up: bypass first, then pause, then stop.
GiveUpAuto ==
    /\ At(Dog, "dogAuto")
    /\ autoPaused' = TRUE
    /\ strikes' = 0
    /\ Call(Dog, "stop", "idle")
    /\ UNCHANGED <<failed, user, faults, paused, bypass, gate, lifecycle, process, route,
                   exit, hungTried>>

WatchdogGiveUp ==
    \/ /\ At(Dog, "dogGiveUp")
       /\ bypass' = TRUE
       /\ Goto(Dog, "dogPause")
       /\ UNCHANGED <<failed, user, faults, paused, autoPaused, gate, lifecycle, process,
                      route, exit, dog>>
    \/ /\ At(Dog, "dogPause")
       /\ paused' = TRUE
       /\ Goto(Dog, "dogAuto")
       /\ UNCHANGED <<failed, user, faults, autoPaused, bypass, gate, lifecycle, process,
                      route, exit, dog>>
    \/ GiveUpAuto
-----------------------------------------------------------------------------
\* The backend and the clients.
BackendBoots ==
    /\ backend = "booting"
    /\ backend' = "ready"
    /\ UNCHANGED <<control, failed, user, faults, pause, gate, lifecycle, tracked,
                   starting, route, exit, dog>>

BackendFails ==
    /\ backend \in {"booting", "ready"}
    /\ Fault("backend")
    /\ backend' \in {"hung", "none"}
    /\ UNCHANGED <<control, failed, user, pause, gate, lifecycle, tracked, starting, route,
                   exit, dog>>

Admit(s) ==
    /\ ~draining /\ s \notin live
    /\ live' = live \cup {s}
    /\ UNCHANGED <<control, failed, user, faults, pause, draining, lifecycle, process,
                   route, exit, dog>>

Leave(s) ==
    /\ s \in live
    /\ live' = live \ {s}
    /\ UNCHANGED <<control, failed, user, faults, pause, draining, lifecycle, process,
                   route, exit, dog>>

TaskStep(t) ==
    \/ ActivateCodexRouter(t) \/ EnsureHeadroomRunning(t) \/ ResumeRuntime(t)
    \/ StopHeadroomIf(t) \/ PauseHeadroom(t) \/ StartHeadroom(t)
    \/ ForceRestartHeadroom(t) \/ ExitHeadroom(t) \/ FinishExitHeadroom(t)
    \/ ExitProcess(t) \/ CancelPendingExit(t) \/ ReopenGate(t) \/ EnsureReadyForTray(t)
    \/ RestartApp(t) \/ RestartRetire(t) \/ Done(t)

WatchdogStep == WatchdogTick \/ WatchdogProbe \/ WatchdogRecover \/ WatchdogGiveUp

Next ==
    /\ app = "running"
    /\ \/ \E t \in Users, command \in Commands : Give(t, command)
       \/ \E t \in Tasks : TaskStep(t)
       \/ ArmCodexRouter
       \/ WatchdogStep
       \/ BackendBoots
       \/ BackendFails
       \/ \E s \in Sockets : Admit(s) \/ Leave(s)

Spec == Init /\ [][Next]_vars

\* The scheduler runs every thread, a released lock is handed to each thread
\* that asks for it often enough, a spawned backend boots unless it fails, and
\* connections end.  Nothing makes a user give a command.
Fairness ==
    /\ \A t \in Tasks : WF_vars(app = "running" /\ TaskStep(t))
    /\ \A t \in Tasks : SF_vars(app = "running" /\ EnsureLock(t))
    /\ WF_vars(app = "running" /\ WatchdogStep)
    /\ WF_vars(app = "running" /\ ArmCodexRouter)
    /\ WF_vars(app = "running" /\ BackendBoots)
    /\ \A s \in Sockets : WF_vars(app = "running" /\ Leave(s))

FairSpec == Spec /\ Fairness
-----------------------------------------------------------------------------
TypeOK ==
    /\ \A t \in Tasks : pc[t] = "idle" => stk[t] = <<>>
    /\ failed \subseteq Tasks /\ foreground \subseteq Users
    /\ commands \in 0..MaxCommands /\ faults \in 0..MaxFaults
    /\ {paused, autoPaused, bypass, draining, tracked, starting, exitStarted,
        shuttingDown, restarting, hungTried} \subseteq BOOLEAN
    /\ live \subseteq Sockets
    /\ lifecycle \in Tasks \cup {Nobody}
    /\ backend \in {"none", "booting", "ready", "hung"}
    /\ route \in {"proxy", "direct"}
    /\ exitRetiring \in Users \cup {Nobody}
    /\ retirement \in [Tasks -> BOOLEAN]
    /\ app \in {"running", "exited"}
    /\ strikes \in 0..(MaxStrikes - 1)

Quiet == \A t \in Tasks : pc[t] = "idle"

\* A backend is spawned only where none is: the threads that may find it down at
\* the same time (a resume, Show, the watchdog) start one, not two, and a stop
\* that goes on without the lock does not make room for a second.
NoSecondBackend ==
    [][backend' = "booting" /\ backend # "booting" => backend = "none"]_vars

\* When nothing is under way, an app that is not paused and not exiting, with a
\* backend that is ready, lets connections in.  Nothing else reopens the gate:
\* the watchdog takes a ready backend for a healthy one.
GateMatchesPause ==
    Quiet /\ ~paused /\ ~exitStarted /\ ~shuttingDown /\ backend = "ready" => ~draining

\* When nothing is under way, a bypass has a self-heal that will end it: both
\* ensure_headroom_running and the watchdog leave a bypassed runtime alone.
BypassEnds == Quiet /\ bypass => autoPaused

\* After the watchdog gave up, requests pass through unmodified.
GiveUpPassesThrough == Quiet /\ bypass => ~draining

\* A quit whose flag is up has a thread that will finish it, so that the flag
\* EXIT_TEARDOWN_STARTED, which makes every other quit return at once, is not
\* up for a quit that nobody finishes.
PendingQuitHasFinisher ==
    QuitPending => pc[exitRetiring] \in {"quitShut", "quitRetire"}

\* Only the quit that was asked for last, and was not cancelled, tears down: not
\* the finisher of an earlier one, that was cancelled while it waited.
CancelledQuitStaysCancelled ==
    \A t \in Users :
        At(t, "quitTeardown") => exitStarted /\ exitRetiring = t

\* A pause or a quit stops the backend under no connection: the ones that are
\* open keep it until they close, however long, and none comes in after the
\* count was taken.  The 120 s of the stop's own drain are never needed.
GracefulStop ==
    [][\A t \in Users :
          At(t, "stopKill") /\ ~(At(t, "stopKill"))' /\ backend # "none"
              => live = {}]_vars

\* The app leaves no backend behind: it would hold the port against the next.
NoBackendAfterExit == app = "exited" => backend = "none"

\* A quit ends the app, unless it is cancelled.
QuitEnds == exitStarted ~> (app = "exited" \/ ~exitStarted)

\* Once backend failures stop, the runtime recovers by itself, as long as no
\* user has paused it, whatever the watchdog did and gave up in the meantime:
\* the backend is ready, the gate open and Codex routed through it for good.
ServiceRecovers ==
    <>[](~exitStarted /\ ~shuttingDown /\ (paused => autoPaused))
        => <>[](backend = "ready" /\ ~draining /\ route = "proxy")
=============================================================================
