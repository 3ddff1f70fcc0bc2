-------------------------- MODULE RuntimeQuitProofs --------------------------
(***************************************************************************)
(* Proofs about RuntimeLifecycle where users pause, quit and show the      *)
(* window, one command at a time, and the backend does not fail by itself: *)
(* a pause and a quit stop the backend under no connection, and a quit     *)
(* that is pending has a thread that will finish it.                       *)
(*                                                                         *)
(* The argument: as long as nobody has settled to stop the backend, there  *)
(* is one, and nothing spawns, strikes or gives up.  Who has settled to    *)
(* stop it, by a pause or a teardown, shuts the gate for good: the only    *)
(* step that opens it, the one of a cancelled quit, is taken while the app *)
(* is neither paused nor exiting.                                          *)
(***************************************************************************)
EXTENDS RuntimeLifecycleProofs

\* What the theorems assume of the commands and the faults.  A watchdog that
\* gave up at its first strike would give up while a pause is under way.
QuitRegime ==
    /\ Commands \subseteq {"pause", "quit", "reopen"}
    /\ "backend" \notin Faults
    /\ ~Overlap
    /\ MaxStrikes > 1

\* The steps a command takes while it is in the foreground: one task at a time.
Front == {"pause", "pauseClear", "pauseShut", "quit", "quitMark", "quitShut", "reopen",
          "reopenClear", "reopenCheck", "reopenOpen"}
OneInFront ==
    /\ \A t, u \in foreground : t = u
    /\ \A t \in Tasks : pc[t] \in Front => t \in foreground

\* The steps that nobody takes and nobody will return to.
Absent ==
    Resuming \cup GivingUp \cup
    {"forceRestart", "forceResume", "restart", "restartShut", "restartRetire",
     "resumed", "dogResume", "dogBoot", "dogGiveUp", "ensureOpen"}
Clear(s) == \A i \in 1..Len(s) : s[i] \notin Absent
Avoids(t) == pc[t] \notin Absent /\ Clear(stk[t])

\* The stop of the backend is settled: by a pause past the point where its write
\* may fail, or by a teardown.
Settled == shuttingDown \/ (paused /\ \A t \in Tasks : pc[t] \notin {"pause", "pauseClear"})

\* The steps on the way to a stop, and from it to the next spawn.
Heading == StopSteps \cup {"pauseShut", "pauseRetire", "ensureSpawn", "ensureRecord"}

SettledFirst ==
    /\ backend # "ready" \/ ~tracked => Settled
    /\ \A t \in Tasks : pc[t] \in Heading => Settled
    /\ strikes > 0 => Settled
    /\ pc[Dog] = "dogProbe" => strikes = 0
    /\ \A t \in Tasks : pc[t] = "pauseClear" => paused

\* A teardown is final, and a gate is reopened by who is neither paused nor
\* exiting.
Torn ==
    shuttingDown => exitStarted /\ \A t \in Tasks : ~retirement[t] /\ pc[t] \notin Between
Reopening ==
    \A t \in Tasks :
        /\ pc[t] \in {"reopenCheck", "reopenOpen"} => ~exitStarted
        /\ pc[t] = "reopenOpen" => ~paused

\* Who stops the backend has seen the gate shut and empty, and it still is.
Drained ==
    \A t \in Users : pc[t] \in StopSteps \cup {"quitTeardown"} => draining /\ live = {}

\* A pending quit is about to shut the gate, or waits for a gate that stays shut.
Finishing ==
    QuitPending => \/ pc[exitRetiring] = "quitShut"
                   \/ pc[exitRetiring] = "quitRetire" /\ draining

QuitInv ==
    /\ LifecycleInv /\ OneInFront /\ (\A t \in Tasks : Avoids(t)) /\ ~autoPaused
    /\ SettledFirst /\ Torn /\ Reopening /\ Drained /\ Finishing
-----------------------------------------------------------------------------
\* Who moves.

Rests(u) == stk'[u] = stk[u] /\ (pc'[u] = pc[u] \/ (pc[u] = "idle" /\ pc'[u] = "arm"))

Acts(u) ==
    \/ ActivateCodexRouter(u) \/ EnsureHeadroomRunning(u) \/ ResumeRuntime(u)
    \/ StopHeadroomIf(u) \/ CommandStep(u)
    \/ u \in Users /\ \E command \in Commands : Give(u, command)
    \/ u = Armer /\ ArmCodexRouter
    \/ u = Dog /\ WatchdogStep

OneMove(t) ==
    \/ \E q : Goto(t, q)
    \/ \E callee, back : Call(t, callee, back)
    \/ Return(t)
    \/ \E q : SpawnArmer(t, q)
    \/ UNCHANGED <<pc, stk>>

LEMMA OthersRest ==
  ASSUME Frames, NEW t \in Tasks, OneMove(t), NEW u \in Tasks, u # t
  PROVE  Rests(u)
<1>1. pc \in [Tasks -> Steps] /\ stk \in [Tasks -> Seq(Steps)]
  BY DEF Frames
<1>2. CASE \E q : Goto(t, q)
  BY <1>1, <1>2 DEF Goto, Rests
<1>3. CASE \E callee, back : Call(t, callee, back)
  BY <1>1, <1>3 DEF Call, Rests
<1>4. CASE Return(t)
  BY <1>1, <1>4 DEF Return, Rests
<1>5. CASE \E q : SpawnArmer(t, q)
  BY <1>1, <1>5 DEF SpawnArmer, Rests
<1>6. CASE UNCHANGED <<pc, stk>>
  BY <1>6 DEF Rests
<1>7. QED
  BY <1>2, <1>3, <1>4, <1>5, <1>6 DEF OneMove

LEMMA EveryActionMovesOne ==
  ASSUME NEW t \in Tasks, Acts(t)
  PROVE  OneMove(t)
<1> USE DEF OneMove
<1>1. CASE ActivateCodexRouter(t)
  BY <1>1 DEF ActivateCodexRouter, Activate, Identify, Publish
<1>2. CASE EnsureHeadroomRunning(t)
  BY <1>2 DEF EnsureHeadroomRunning, Ensure, EnsureLock, EnsureChild, EnsureSpawn,
              EnsureRecord, EnsureUnlock
<1>3. CASE ResumeRuntime(t)
  BY <1>3 DEF ResumeRuntime, Resume, ResumeOpen, ResumeFlags, ResumeAuto, ResumeReady
<1>4. CASE StopHeadroomIf(t)
  BY <1>4 DEF StopHeadroomIf, StopLock, StopDrain, StopWait, StopKill
<1>5. CASE CommandStep(t)
  <2>1. CASE PauseHeadroom(t) \/ StartHeadroom(t) \/ ForceRestartHeadroom(t) \/ ExitHeadroom(t)
    BY <2>1 DEF PauseHeadroom, StartHeadroom, ForceRestartHeadroom, ExitHeadroom, ShutGate
  <2>2. CASE FinishExitHeadroom(t) \/ ExitProcess(t) \/ CancelPendingExit(t) \/ ReopenGate(t)
    BY <2>2 DEF FinishExitHeadroom, QuitRetire, QuitTeardown, ExitProcess, CancelPendingExit,
                ClearStarted, ReopenGate
  <2>3. CASE EnsureReadyForTray(t) \/ RestartApp(t) \/ RestartRetire(t) \/ Done(t)
    BY <2>3 DEF EnsureReadyForTray, RestartApp, RestartRetire, Done, ShutGate
  <2>4. QED
    BY <1>5, <2>1, <2>2, <2>3 DEF CommandStep
<1>6. CASE t \in Users /\ \E command \in Commands : Give(t, command)
  BY <1>6 DEF Give
<1>7. CASE t = Armer /\ ArmCodexRouter
  BY <1>7 DEF ArmCodexRouter
<1>8. CASE t = Dog /\ WatchdogStep
  BY <1>8 DEF WatchdogStep, WatchdogTick, WatchdogProbe, WatchdogRecover, WatchdogGiveUp,
              GiveUpAuto
<1>9. QED
  BY <1>1, <1>2, <1>3, <1>4, <1>5, <1>6, <1>7, <1>8 DEF Acts

LEMMA RestsOrActs ==
  ASSUME Frames, Next, NEW u \in Tasks
  PROVE  Rests(u) \/ Acts(u)
<1>1. {Dog, Armer} \subseteq Tasks /\ Users \subseteq Tasks
  BY DEF Tasks
<1>2. CASE \E t \in Tasks : Acts(t)
  BY <1>2, OthersRest, EveryActionMovesOne
<1>3. CASE OtherStep
  BY <1>3 DEF OtherStep, BackendBoots, BackendFails, Admit, Leave, control, Rests
<1>4. QED
  BY <1>1, <1>2, <1>3, NextCases DEF Acts
-----------------------------------------------------------------------------
\* What nobody does.

LEMMA ClearPush ==
  ASSUME NEW s \in Seq(Steps), Clear(s), NEW a \in Steps \ Absent
  PROVE  Clear(<<a>> \o s)
<1>1. <<a>> \in Seq(Steps) /\ Len(<<a>>) = 1 /\ <<a>>[1] = a /\ Len(s) \in Nat
  BY LenProperties
<1>2. /\ Len(<<a>> \o s) = Len(s) + 1
      /\ \A i \in 1..(Len(s) + 1) :
           (<<a>> \o s)[i] = IF i <= 1 THEN <<a>>[i] ELSE s[i - 1]
  BY <1>1, ConcatProperties
<1>3. ASSUME NEW i \in 1..(Len(s) + 1)
      PROVE  (<<a>> \o s)[i] \notin Absent
  <2>1. CASE i = 1
    BY <1>1, <1>2, <2>1
  <2>2. CASE i # 1
    <3>1. i - 1 \in 1..Len(s) /\ ~(i <= 1)
      BY <1>1, <2>2
    <3>2. s[i - 1] \notin Absent
      BY <3>1 DEF Clear
    <3>3. (<<a>> \o s)[i] = s[i - 1]
      BY <1>2, <3>1
    <3>4. QED
      BY <3>2, <3>3
  <2>3. QED
    BY <2>1, <2>2
<1>4. QED
  BY <1>2, <1>3 DEF Clear

LEMMA ClearPop ==
  ASSUME NEW s \in Seq(Steps), s # <<>>, Clear(s)
  PROVE  Head(s) \notin Absent /\ Clear(Tail(s))
<1>1. /\ Len(s) \in Nat /\ Len(s) > 0 /\ Head(s) = s[1] /\ Len(Tail(s)) = Len(s) - 1
      /\ \A i \in 1..Len(Tail(s)) : Tail(s)[i] = s[i + 1]
  BY HeadTailProperties, LenProperties, EmptySeq
<1>2. Head(s) \notin Absent
  BY <1>1 DEF Clear
<1>3. ASSUME NEW i \in 1..Len(Tail(s))
      PROVE  Tail(s)[i] \notin Absent
  <2>1. i + 1 \in 1..Len(s)
    BY <1>1
  <2>2. s[i + 1] \notin Absent
    BY <2>1 DEF Clear
  <2>3. QED
    BY <1>1, <2>2
<1>4. QED
  BY <1>2, <1>3 DEF Clear

\* A move that takes nobody to a step of Absent, nor puts one on the stack.
LEMMA AvoidingMoves ==
  ASSUME Frames, NEW u \in Tasks, Avoids(u)
  PROVE  /\ \A q : Goto(u, q) /\ q \notin Absent => Avoids(u)'
         /\ \A callee, back :
              Call(u, callee, back) /\ callee \notin Absent /\ back \in Steps \ Absent
                => Avoids(u)'
         /\ Return(u) /\ pc[u] \in Callees => Avoids(u)'
         /\ \A q : SpawnArmer(u, q) /\ u # Armer /\ q \notin Absent => Avoids(u)'
<1>1. pc \in [Tasks -> Steps] /\ stk \in [Tasks -> Seq(Steps)] /\ stk[u] \in Seq(Steps)
  BY DEF Frames
<1>2. \A q : Goto(u, q) => pc'[u] = q /\ stk'[u] = stk[u]
  BY <1>1 DEF Goto
<1>3. \A q : SpawnArmer(u, q) /\ u # Armer => pc'[u] = q /\ stk'[u] = stk[u]
  BY <1>1 DEF SpawnArmer
<1>4. ASSUME NEW callee, NEW back \in Steps \ Absent, Call(u, callee, back),
             callee \notin Absent
      PROVE  Avoids(u)'
  <2>1. pc'[u] = callee /\ stk'[u] = <<back>> \o stk[u]
    BY <1>1, <1>4 DEF Call
  <2>2. Clear(<<back>> \o stk[u])
    BY <1>1, ClearPush DEF Avoids
  <2>3. Clear(stk'[u])
    BY <2>1, <2>2
  <2>4. QED
    BY <1>4, <2>1, <2>3 DEF Avoids, Clear
<1>5. ASSUME Return(u), pc[u] \in Callees
      PROVE  Avoids(u)'
  <2>1. pc'[u] = Head(stk[u]) /\ stk'[u] = Tail(stk[u])
    BY <1>1, <1>5 DEF Return
  <2>2. stk[u] # <<>>
    BY <1>5 DEF Frames, Frame, Callees, Own, UserSteps, DogSteps, ArmerSteps, ActivateSteps,
         ResumeSteps, StopSteps, EnsureSteps, LockedSteps, FromCommand, FromResume, FromEnsure
  <2>3. Head(stk[u]) \notin Absent /\ Clear(Tail(stk[u]))
    BY <1>1, <2>2, ClearPop DEF Avoids
  <2>4. pc'[u] \notin Absent /\ Clear(stk'[u])
    BY <2>1, <2>3
  <2>5. QED
    BY <2>4 DEF Avoids, Clear
<1>6. ASSUME pc'[u] \notin Absent, stk'[u] = stk[u]
      PROVE  Avoids(u)'
  <2>1. Clear(stk'[u])
    BY <1>6 DEF Avoids
  <2>2. QED
    BY <1>6, <2>1 DEF Avoids, Clear
<1>7. QED
  BY <1>2, <1>3, <1>4, <1>5, <1>6

LEMMA AvoidsStep ==
  ASSUME Frames, QuitRegime, ~autoPaused, SettledFirst, Next, NEW u \in Tasks, Avoids(u)
  PROVE  Avoids(u)'
<1> USE DEF At, Absent, Resuming, GivingUp, Callees, ActivateSteps, StopSteps, ResumeSteps,
            EnsureSteps, LockedSteps
<1>1. pc[u] \notin Absent
  BY DEF Avoids
<1> DEFINE Backed == {"tray", "done", "exit", "reopenEnsure", "idle", "dogEnsure",
                      "resumedByDog", "armed", "ensureUnlock"}
<1>2. Backed \subseteq Steps \ Absent
  BY DEF Steps, UserSteps, DogSteps, ArmerSteps
<1>3. CASE Rests(u)
  <2>1. pc'[u] \notin Absent /\ Clear(stk'[u])
    BY <1>1, <1>3 DEF Rests, Avoids
  <2>2. QED
    BY <2>1 DEF Avoids, Clear
<1>4. CASE ActivateCodexRouter(u)
  BY <1>4, AvoidingMoves DEF ActivateCodexRouter, Activate, Identify, Publish
<1>5. CASE EnsureHeadroomRunning(u)
  <2>1. CASE EnsureRecord(u)
    <3>1. pc[u] = "ensureRecord" => shuttingDown \/ paused
      BY DEF SettledFirst, Settled, Heading
    <3>2. QED
      BY <1>1, <2>1, <3>1, AvoidingMoves DEF EnsureRecord
  <2>2. CASE EnsureChild(u)
    BY <1>2, <2>2, AvoidingMoves DEF EnsureChild
  <2>3. CASE Ensure(u) \/ EnsureLock(u) \/ EnsureSpawn(u) \/ EnsureUnlock(u)
    BY <2>3, AvoidingMoves DEF Ensure, EnsureLock, EnsureSpawn, EnsureUnlock
  <2>4. QED
    BY <1>5, <2>1, <2>2, <2>3 DEF EnsureHeadroomRunning
<1>6. CASE ResumeRuntime(u)
  BY <1>1, <1>6, AvoidingMoves DEF ResumeRuntime, Resume, ResumeOpen, ResumeFlags, ResumeAuto, ResumeReady
<1>7. CASE StopHeadroomIf(u)
  BY <1>7, AvoidingMoves DEF StopHeadroomIf, StopLock, StopDrain, StopWait, StopKill
<1>8. CASE CommandStep(u)
  <2>1. u # Armer
    BY <1>8, CommandMoves, CommandAssumption DEF Tasks
  <2>2. CASE PauseHeadroom(u)
    BY <1>2, <2>2, AvoidingMoves DEF PauseHeadroom, ShutGate
  <2>3. CASE StartHeadroom(u) \/ ForceRestartHeadroom(u) \/ ExitHeadroom(u)
    BY <1>1, <2>1, <2>3, AvoidingMoves DEF StartHeadroom, ForceRestartHeadroom, ExitHeadroom,
                                           ShutGate
  <2>4. CASE FinishExitHeadroom(u) \/ ExitProcess(u) \/ CancelPendingExit(u)
    BY <1>2, <2>4, AvoidingMoves DEF FinishExitHeadroom, QuitRetire, QuitTeardown,
                                     ExitProcess, CancelPendingExit, ClearStarted
  <2>5. CASE ReopenGate(u) \/ EnsureReadyForTray(u)
    BY <1>2, <2>5, AvoidingMoves DEF ReopenGate, EnsureReadyForTray
  <2>6. CASE RestartApp(u) \/ RestartRetire(u) \/ Done(u)
    BY <1>1, <2>6, AvoidingMoves DEF RestartApp, RestartRetire, Done, ShutGate
  <2>7. QED
    BY <1>8, <2>2, <2>3, <2>4, <2>5, <2>6 DEF CommandStep
<1>9. CASE u \in Users /\ \E command \in Commands : Give(u, command)
  BY <1>9, AvoidingMoves DEF Give, QuitRegime
<1>10. CASE u = Armer /\ ArmCodexRouter
  BY <1>2, <1>10, AvoidingMoves DEF ArmCodexRouter
<1>11. CASE u = Dog /\ WatchdogStep
  <2>1. u # Armer
    BY <1>11, CommandAssumption
  <2>2. CASE WatchdogTick
    <3>1. CASE UNCHANGED <<pc, stk>>
      BY <3>1 DEF Avoids, Clear
    <3>2. CASE ~UNCHANGED <<pc, stk>>
      BY <1>2, <1>11, <2>2, <3>2, AvoidingMoves DEF WatchdogTick
    <3>3. QED
      BY <3>1, <3>2
  <2>3. CASE WatchdogProbe
    <3>1. ~LastStrike
      <4>1. strikes = 0 /\ MaxStrikes \in Nat /\ MaxStrikes > 1
        BY <2>3, CommandAssumption DEF WatchdogProbe, SettledFirst, QuitRegime
      <4>2. QED
        BY <4>1 DEF LastStrike
    <3>2. QED
      BY <1>2, <1>11, <2>3, <3>1, AvoidingMoves DEF WatchdogProbe
  <2>4. CASE WatchdogRecover
    BY <1>1, <1>2, <1>11, <2>1, <2>4, AvoidingMoves DEF WatchdogRecover
  <2>5. CASE WatchdogGiveUp
    BY <1>1, <1>11, <2>5 DEF WatchdogGiveUp, GiveUpAuto
  <2>6. QED
    BY <1>11, <2>2, <2>3, <2>4, <2>5 DEF WatchdogStep
<1>12. QED
  BY <1>3, <1>4, <1>5, <1>6, <1>7, <1>8, <1>9, <1>10, <1>11, RestsOrActs DEF Acts
-----------------------------------------------------------------------------
\* Who takes the steps that the invariant speaks about, coming from where.

Marked == Front \cup Heading \cup {"quitRetire", "quitTeardown", "dogProbe"}

PauseEnters(u) ==
    /\ PauseHeadroom(u)
    /\ \/ pc[u] = "pause" /\ pc'[u] = "pauseClear"
       \/ pc[u] = "pauseClear" /\ pc'[u] = "pauseShut" /\ UNCHANGED paused
       \/ pc[u] = "pauseShut" /\ pc'[u] = "pauseRetire"
       \/ pc[u] = "pauseRetire" /\ pc'[u] = "stopIfPaused" /\ Retired
QuitEnters(u) ==
    \/ ExitHeadroom(u) /\ pc[u] = "quit" /\ pc'[u] = "quitMark" /\ ~exitStarted
    \/ ExitHeadroom(u) /\ pc[u] = "quitMark" /\ pc'[u] = "quitShut"
    \/ ExitHeadroom(u) /\ pc[u] = "quitShut" /\ pc'[u] = "quitRetire"
    \/ QuitRetire(u) /\ pc[u] = "quitRetire" /\ pc'[u] = "quitTeardown" /\ Retired
    \/ QuitTeardown(u) /\ pc[u] = "quitTeardown" /\ pc'[u] = "stop"
ReopenEnters(u) ==
    \/ CancelPendingExit(u) /\ pc[u] = "reopen" /\ pc'[u] = "reopenClear" /\ QuitPending
    \/ /\ CancelPendingExit(u) /\ pc[u] = "reopenClear" /\ pc'[u] = "reopenCheck"
       /\ ~exitStarted'
    \/ ReopenGate(u) /\ pc[u] = "reopenCheck" /\ pc'[u] = "reopenOpen" /\ ~paused
EnsureEnters(u) ==
    \/ EnsureChild(u) /\ pc[u] = "ensureChild" /\ pc'[u] = "ensureSpawn" /\ ~ChildAlive
    \/ EnsureSpawn(u) /\ pc[u] = "ensureSpawn" /\ pc'[u] = "ensureRecord"
StopEnters(u) == StopHeadroomIf(u) /\ pc[u] \in StopSteps /\ pc'[u] \in StopSteps
WatchdogEnters(u) ==
    /\ u = Dog
    /\ \/ WatchdogTick /\ pc'[u] = "dogProbe" /\ ~shuttingDown /\ ~paused /\ strikes' = strikes
       \/ WatchdogProbe /\ pc[u] = "dogProbe" /\ pc'[u] = "stop" /\ backend # "ready"

Enters(u) ==
    \/ u \in Users /\ \E command \in Commands : Give(u, command) /\ pc'[u] = command
    \/ PauseEnters(u) \/ QuitEnters(u) \/ ReopenEnters(u) \/ EnsureEnters(u)
    \/ StopEnters(u) \/ WatchdogEnters(u)

LEMMA Entered ==
  ASSUME Frames, QuitRegime, ~autoPaused, SettledFirst, Next,
         NEW u \in Tasks, Avoids(u), pc'[u] \in Marked, pc'[u] # pc[u]
  PROVE  Enters(u)
<1> USE DEF At, Marked, Front, Heading, StopSteps
<1>1. pc[u] \notin Absent /\ pc \in [Tasks -> Steps]
  BY DEF Avoids, Frames
<1>2. ~(Return(u) /\ pc[u] \in Callees)
  BY ReturnMoves DEF Backs, Moves
<1>3. \A q : Goto(u, q) => pc'[u] = q
  BY <1>1 DEF Goto
<1>4. \A callee, back : Call(u, callee, back) => pc'[u] = callee
  BY <1>1 DEF Call
<1>5. \A q : SpawnArmer(u, q) => pc'[u] \in {q, "arm"}
  BY <1>1 DEF SpawnArmer
<1>6. ~Rests(u)
  BY DEF Rests
<1>7. ~ActivateCodexRouter(u)
  BY <1>2, <1>3 DEF ActivateCodexRouter, Activate, Identify, Publish, ActivateSteps, Callees
<1>8. EnsureHeadroomRunning(u) => EnsureEnters(u)
  BY <1>2, <1>3, <1>4 DEF EnsureHeadroomRunning, Ensure, EnsureLock, EnsureChild, EnsureSpawn,
       EnsureRecord, EnsureUnlock, EnsureEnters, EnsureSteps, LockedSteps, Callees
<1>9. ~ResumeRuntime(u)
  BY <1>1, <1>2, <1>3, <1>4 DEF ResumeRuntime, Resume, ResumeOpen, ResumeFlags, ResumeAuto, ResumeReady,
       ResumeSteps, Callees, Absent, Resuming
<1>10. StopHeadroomIf(u) => StopEnters(u)
  BY <1>2, <1>3 DEF StopHeadroomIf, StopLock, StopDrain, StopWait, StopKill, StopEnters, Callees
<1>11. CommandStep(u) => PauseEnters(u) \/ QuitEnters(u) \/ ReopenEnters(u)
  <2>1. PauseHeadroom(u) => PauseEnters(u)
    BY <1>3, <1>4 DEF PauseHeadroom, ShutGate, PauseEnters
  <2>2. ExitHeadroom(u) \/ FinishExitHeadroom(u) => QuitEnters(u)
    BY <1>3, <1>4 DEF ExitHeadroom, FinishExitHeadroom, QuitRetire, QuitTeardown, ShutGate,
                      QuitEnters
  <2>3. CancelPendingExit(u) \/ ReopenGate(u) => ReopenEnters(u)
    BY <1>3, <1>4 DEF CancelPendingExit, ClearStarted, ReopenGate, ReopenEnters
  <2>4. ~ForceRestartHeadroom(u) /\ ~RestartApp(u) /\ ~RestartRetire(u)
    BY <1>1 DEF ForceRestartHeadroom, RestartApp, RestartRetire, ShutGate, Absent
  <2>5. ~StartHeadroom(u) /\ ~ExitProcess(u) /\ ~EnsureReadyForTray(u) /\ ~Done(u)
    BY <1>3, <1>4, <1>5 DEF StartHeadroom, ExitProcess, EnsureReadyForTray, Done
  <2>6. QED
    BY <2>1, <2>2, <2>3, <2>4, <2>5 DEF CommandStep
<1>12. ASSUME u \in Users, NEW command \in Commands, Give(u, command)
       PROVE  pc'[u] = command
  BY <1>3, <1>12 DEF Give, QuitRegime
<1>13. ~ArmCodexRouter \/ u # Armer
  BY <1>3, <1>4 DEF ArmCodexRouter
<1>14. u = Dog /\ WatchdogStep => WatchdogEnters(u)
  <2>1. CASE u = Dog /\ WatchdogTick
    BY <1>3, <1>4, <2>1 DEF WatchdogTick, ShouldBeUp, WatchdogEnters, dog
  <2>2. CASE u = Dog /\ WatchdogProbe
    <3>1. ~LastStrike
      <4>1. strikes = 0 /\ MaxStrikes \in Nat /\ MaxStrikes > 1
        BY <2>2, CommandAssumption DEF WatchdogProbe, SettledFirst, QuitRegime
      <4>2. QED
        BY <4>1 DEF LastStrike
    <3>2. QED
      BY <1>3, <1>4, <2>2, <3>1 DEF WatchdogProbe, WatchdogEnters
  <2>3. CASE u = Dog /\ WatchdogRecover
    BY <1>1, <1>3, <1>4, <1>5, <2>3 DEF WatchdogRecover, Absent
  <2>4. CASE u = Dog /\ WatchdogGiveUp
    BY <1>1, <2>4 DEF WatchdogGiveUp, GiveUpAuto, Absent, GivingUp
  <2>5. QED
    BY <2>1, <2>2, <2>3, <2>4 DEF WatchdogStep
<1>15. QED
  BY <1>6, <1>7, <1>8, <1>9, <1>10, <1>11, <1>12, <1>13, <1>14, RestsOrActs DEF Acts, Enters

\* Who leaves the steps of a quit.
LEMMA QuitLeaves ==
  ASSUME Frames, Next, NEW u \in Tasks, pc'[u] # pc[u]
  PROVE  /\ pc[u] = "quitShut" => ExitHeadroom(u)
         /\ pc[u] = "quitRetire" => QuitRetire(u)
<1> USE DEF At
<1>1. Acts(u) \/ pc[u] = "idle"
  BY RestsOrActs DEF Rests
<1>2. ASSUME pc[u] \in {"quitShut", "quitRetire"}, CommandStep(u)
      PROVE  ExitHeadroom(u) \/ QuitRetire(u)
  BY <1>2 DEF CommandStep, PauseHeadroom, StartHeadroom, ForceRestartHeadroom,
       FinishExitHeadroom, QuitTeardown, ExitProcess, CancelPendingExit, ClearStarted, ReopenGate,
       EnsureReadyForTray, RestartApp, RestartRetire, Done, ShutGate
<1>3. ASSUME pc[u] \in {"quitShut", "quitRetire"}, Acts(u)
      PROVE  CommandStep(u)
  <2>1. /\ ~ActivateCodexRouter(u) /\ ~EnsureHeadroomRunning(u) /\ ~ResumeRuntime(u)
        /\ ~StopHeadroomIf(u)
    BY <1>3 DEF ActivateCodexRouter, Activate, Identify, Publish, EnsureHeadroomRunning, Ensure,
         EnsureLock, EnsureChild, EnsureSpawn, EnsureRecord, EnsureUnlock, ResumeRuntime,
         Resume, ResumeOpen, ResumeFlags, ResumeAuto, ResumeReady, StopHeadroomIf, StopLock, StopDrain,
         StopWait, StopKill
  <2>2. (\A command : ~Give(u, command)) /\ ~(u = Armer /\ ArmCodexRouter)
        /\ ~(u = Dog /\ WatchdogStep)
    BY <1>3 DEF Give, ArmCodexRouter, WatchdogStep, WatchdogTick, WatchdogProbe,
         WatchdogRecover, WatchdogGiveUp, GiveUpAuto
  <2>3. QED
    BY <1>3, <2>1, <2>2 DEF Acts
<1>4. (ExitHeadroom(u) => pc[u] # "quitRetire") /\ (QuitRetire(u) => pc[u] # "quitShut")
  BY DEF ExitHeadroom, ShutGate, QuitRetire
<1>5. QED
  BY <1>1, <1>2, <1>3, <1>4
-----------------------------------------------------------------------------
\* Every part of the invariant, over a step.

\* What a step has to work with.
Before == QuitInv /\ QuitRegime /\ Next

LEMMA StepFacts ==
  ASSUME Before
  PROVE  /\ Frames /\ pc \in [Tasks -> Steps] /\ Users \subseteq Tasks /\ Dog \in Tasks
         /\ \A u \in Tasks : pc[u] \notin Absent
         /\ \A t, u \in Tasks : pc[t] \in Front /\ pc[u] \in Front => t = u
         /\ \A u \in Tasks : pc'[u] \in Marked => pc'[u] = pc[u] \/ Enters(u)
         /\ \A u \in Tasks, command \in Commands : Give(u, command) =>
              /\ foreground = {} /\ command \in {"pause", "quit", "reopen"}
              /\ \A t \in Tasks : pc[t] \notin Front
<1> USE DEF Before, QuitInv, LifecycleInv
<1>1. Frames /\ pc \in [Tasks -> Steps] /\ Users \subseteq Tasks /\ Dog \in Tasks
  BY DEF Frames, Tasks
<1>2. \A u \in Tasks : pc[u] \notin Absent
  BY DEF Avoids
<1>3. \A t, u \in Tasks : pc[t] \in Front /\ pc[u] \in Front => t = u
  BY DEF OneInFront
<1>4. \A u \in Tasks : pc'[u] \in Marked => pc'[u] = pc[u] \/ Enters(u)
  BY Entered
<1>5. \A u \in Tasks, command \in Commands : Give(u, command) =>
        foreground = {} /\ command \in {"pause", "quit", "reopen"}
  BY DEF Give, QuitRegime
<1>6. foreground = {} => \A t \in Tasks : pc[t] \notin Front
  BY DEF OneInFront
<1>7. QED
  BY <1>1, <1>2, <1>3, <1>4, <1>5, <1>6

LEMMA FrontStep ==
  ASSUME Before
  PROVE  OneInFront'
<1> USE DEF At, Front
<1>1. CASE UNCHANGED foreground
  <2>1. ASSUME NEW u \in Tasks, pc'[u] \in Front
        PROVE  u \in foreground
    <3>1. CASE pc'[u] = pc[u]
      BY <2>1, <3>1 DEF OneInFront, Before, QuitInv
    <3>2. CASE Enters(u)
      <4>1. pc[u] \in Front \/ \E command \in Commands : Give(u, command)
        BY <2>1, <3>2 DEF Enters, PauseEnters, QuitEnters, ReopenEnters, EnsureEnters,
             StopEnters, WatchdogEnters, StopSteps
      <4>2. ASSUME NEW command \in Commands, Give(u, command)
            PROVE  FALSE
        BY <1>1, <4>2, StepFacts DEF Give
      <4>3. QED
        BY <4>1, <4>2 DEF OneInFront, Before, QuitInv
    <3>3. QED
      BY <2>1, <3>1, <3>2, StepFacts DEF Marked
  <2>2. QED
    BY <1>1, <2>1 DEF OneInFront, Before, QuitInv
<1>2. ASSUME NEW t \in Users, NEW command \in Commands, Give(t, command)
      PROVE  OneInFront'
  <2>1. /\ foreground' = {t} /\ t \in Tasks /\ \A u \in Tasks : pc[u] \notin Front
    BY <1>2, StepFacts DEF Give
  <2>2. OneMove(t)
    BY <1>2 DEF Give, OneMove
  <2>3. \A u \in Tasks : u # t => Rests(u)
    BY <2>1, <2>2, StepFacts, OthersRest
  <2>4. QED
    BY <2>1, <2>3 DEF OneInFront, Rests
<1>3. ASSUME NEW t \in Tasks, foreground' = foreground \ {t}, OneMove(t), pc'[t] \notin Front
      PROVE  OneInFront'
  <2>1. \A u \in Tasks : u # t => Rests(u)
    BY <1>3, StepFacts, OthersRest
  <2>2. QED
    BY <1>3, <2>1 DEF OneInFront, Rests, Before, QuitInv
<1>4. ASSUME NEW t \in Tasks,
             Done(t) \/ PauseHeadroom(t) \/ ExitHeadroom(t) \/ RestartApp(t)
               \/ EnsureReadyForTray(t),
             foreground' # foreground
      PROVE  OneInFront'
  <2>1. OneMove(t)
    BY <1>4, EveryActionMovesOne DEF Acts, CommandStep
  <2>2. foreground' = foreground \ {t} /\ pc'[t] \notin Front
    <3>1. \A q : Goto(t, q) => pc'[t] = q
      BY StepFacts DEF Goto
    <3>2. \A callee, back : Call(t, callee, back) => pc'[t] = callee
      BY StepFacts DEF Call
    <3>3. CASE Done(t) \/ EnsureReadyForTray(t)
      BY <3>1, <3>2, <3>3 DEF Done, EnsureReadyForTray
    <3>4. CASE PauseHeadroom(t) \/ ExitHeadroom(t) \/ RestartApp(t)
      BY <1>4, <3>1, <3>4 DEF PauseHeadroom, ExitHeadroom, RestartApp, ShutGate, user
    <3>5. QED
      BY <1>4, <3>3, <3>4
  <2>3. QED
    BY <1>3, <2>1, <2>2
<1>5. QED
  BY <1>1, <1>2, <1>4, WritersOfEach DEF Writers, Before

LEMMA NoSelfHealStep ==
  ASSUME Before
  PROVE  ~autoPaused'
<1> USE DEF At
<1>1. ASSUME NEW t \in Tasks, ResumeFlags(t) \/ PauseHeadroom(t) \/ ForceRestartHeadroom(t)
      PROVE  autoPaused' = autoPaused \/ ~autoPaused'
  BY <1>1 DEF ResumeFlags, ResumeAuto, PauseHeadroom, ForceRestartHeadroom, ShutGate, pause
<1>2. ~WatchdogGiveUp
  BY StepFacts DEF WatchdogGiveUp, GiveUpAuto, Absent, GivingUp
<1>3. QED
  BY <1>1, <1>2, WritersOfEach DEF Writers, Before, QuitInv

LEMMA ShutsForGood ==
  ASSUME Before
  PROVE  shuttingDown => shuttingDown'
<1>1. ASSUME NEW t \in Tasks, QuitTeardown(t) \/ RestartApp(t)
      PROVE  shuttingDown' = TRUE \/ shuttingDown' = shuttingDown
  BY <1>1 DEF QuitTeardown, RestartApp, ShutGate, exit
<1>2. QED
  BY <1>1, WritersOfEach DEF Writers, Before

\* A pause is the only one that writes paused.
LEMMA PauseWrites ==
  ASSUME Before, paused' # paused
  PROVE  \E t \in Tasks :
           \/ pc[t] = "pause" /\ pc'[t] = "pauseClear" /\ paused'
           \/ pc[t] = "pauseClear" /\ pc'[t] = "activate" /\ ~paused'
<1> USE DEF At
<1>1. \A t \in Tasks : ~Resume(t)
  BY StepFacts DEF Resume, Absent, Resuming
<1>2. ~WatchdogGiveUp
  BY StepFacts DEF WatchdogGiveUp, GiveUpAuto, Absent, GivingUp
<1>3. PICK t \in Tasks : PauseHeadroom(t)
  BY <1>1, <1>2, WritersOfEach DEF Writers, Before
<1>4. \A q : Goto(t, q) => pc'[t] = q
  BY StepFacts DEF Goto
<1>5. \A callee, back : Call(t, callee, back) => pc'[t] = callee
  BY StepFacts DEF Call
<1>6. QED
  BY <1>3, <1>4, <1>5 DEF PauseHeadroom, ShutGate, pause

LEMMA SettledStays ==
  ASSUME Before, Settled
  PROVE  Settled'
<1> USE DEF At, Front
<1>1. CASE shuttingDown
  BY <1>1, ShutsForGood DEF Settled
<1>2. CASE paused /\ \A t \in Tasks : pc[t] \notin {"pause", "pauseClear"}
  <2>1. paused' = paused
    BY <1>2, PauseWrites
  <2>2. ASSUME NEW u \in Tasks, pc'[u] \in {"pause", "pauseClear"}
        PROVE  FALSE
    <3>1. Enters(u)
      BY <1>2, <2>2, StepFacts DEF Marked
    <3>2. pc[u] = "pause" \/ \E command \in Commands : Give(u, command) /\ command = "pause"
      BY <2>2, <3>1, StepFacts DEF Enters, PauseEnters, QuitEnters, ReopenEnters, EnsureEnters,
           StopEnters, WatchdogEnters, StopSteps
    <3>3. QED
      BY <1>2, <3>2 DEF Give
  <2>3. QED
    BY <1>2, <2>1, <2>2 DEF Settled
<1>3. QED
  BY <1>1, <1>2 DEF Settled

LEMMA SettledFirstStep ==
  ASSUME Before
  PROVE  SettledFirst'
<1> USE DEF At, Front, Before, QuitInv, LifecycleInv
<1>0. /\ backend # "ready" \/ ~tracked => Settled
      /\ \A t \in Tasks : pc[t] \in Heading => Settled
      /\ strikes > 0 => Settled
      /\ pc[Dog] = "dogProbe" => strikes = 0
      /\ \A t \in Tasks : pc[t] = "pauseClear" => paused
  BY DEF SettledFirst
<1>1. Settled => Settled'
  BY SettledStays
<1>2. backend' # "ready" \/ ~tracked' => Settled
  <2>1. ~BackendFails
    BY DEF BackendFails, Fault, QuitRegime
  <2>2. ASSUME NEW t \in Tasks, EnsureSpawn(t) \/ StopKill(t)
        PROVE  Settled
    BY <1>0, <2>2 DEF EnsureSpawn, StopKill, Heading, StopSteps
  <2>3. BackendBoots => backend' = "ready"
    BY DEF BackendBoots
  <2>4. ASSUME NEW t \in Tasks, EnsureChild(t), tracked' # tracked
        PROVE  Settled
    BY <1>0, <2>4 DEF EnsureChild, ChildAlive, process
  <2>5. ASSUME NEW t \in Tasks, EnsureRecord(t)
        PROVE  tracked' = tracked \/ tracked' = TRUE
    BY <2>5 DEF EnsureRecord
  <2>6. QED
    BY <1>0, <2>1, <2>2, <2>3, <2>4, <2>5, WritersOfEach DEF Writers
<1>3. ASSUME NEW u \in Tasks, pc'[u] \in Heading
      PROVE  Settled'
  <2>1. CASE pc'[u] = pc[u]
    BY <1>0, <1>1, <1>3, <2>1
  <2>2. CASE pc[u] = "pauseClear" /\ pc'[u] = "pauseShut" /\ paused' = paused
    <3>1. \A t \in Tasks : pc'[t] \notin {"pause", "pauseClear"}
      <4>1. ASSUME NEW t \in Tasks, pc'[t] \in {"pause", "pauseClear"}
            PROVE  FALSE
        <5>1. t \in foreground' /\ u \in foreground' /\ \A x, y \in foreground' : x = y
          BY <2>2, <4>1, FrontStep DEF OneInFront
        <5>2. t = u
          BY <5>1
        <5>3. QED
          BY <2>2, <4>1, <5>2
      <4>2. QED
        BY <4>1
    <3>2. paused'
      BY <1>0, <2>2
    <3>3. QED
      BY <3>1, <3>2 DEF Settled
  <2>3. CASE QuitTeardown(u)
    BY <2>3 DEF QuitTeardown, Settled
  <2>4. CASE Enters(u) /\ ~(pc[u] = "pauseClear" /\ pc'[u] = "pauseShut" /\ paused' = paused)
               /\ ~QuitTeardown(u)
    <3>1. pc[u] \in Heading \/ ~ChildAlive \/ backend # "ready"
      BY <1>3, <2>4, StepFacts DEF Enters, PauseEnters, QuitEnters, ReopenEnters,
           EnsureEnters, StopEnters, WatchdogEnters, StopSteps, Heading
    <3>2. QED
      BY <1>0, <1>1, <3>1 DEF ChildAlive
  <2>5. QED
    BY <1>3, <2>1, <2>2, <2>3, <2>4, StepFacts DEF Marked
<1>4. strikes' > 0 => Settled
  <2>1. strikes \in Nat /\ strikes' \in Nat
    <3>1. DataOK /\ DataOK' /\ MaxStrikes \in Nat
      BY TypeOKParts, DataStep, CommandAssumption
    <3>2. QED
      BY <3>1 DEF DataOK
  <2>2. WatchdogTick \/ WatchdogRecover \/ WatchdogGiveUp => strikes' = strikes \/ strikes' = 0
    BY DEF WatchdogTick, WatchdogRecover, WatchdogGiveUp, GiveUpAuto, dog
  <2>3. WatchdogProbe => strikes' = 0 \/ backend # "ready" \/ strikes' = strikes
    BY DEF WatchdogProbe, dog
  <2>4. QED
    BY <1>0, <2>1, <2>2, <2>3, WritersOfEach DEF Writers
<1>5. pc'[Dog] = "dogProbe" => strikes' = 0
  <2>1. CASE pc'[Dog] = "dogProbe" /\ pc[Dog] = "dogProbe"
    <3>1. ~WatchdogTick /\ ~WatchdogRecover /\ ~WatchdogGiveUp
      BY <2>1 DEF WatchdogTick, WatchdogRecover, WatchdogGiveUp, GiveUpAuto
    <3>2. WatchdogProbe => FALSE
      BY <2>1, StepFacts DEF WatchdogProbe, Goto, Call
    <3>3. QED
      BY <1>0, <2>1, <3>1, <3>2, WritersOfEach DEF Writers
  <2>2. CASE pc'[Dog] = "dogProbe" /\ Enters(Dog)
    <3>1. ~shuttingDown /\ ~paused /\ strikes' = strikes
      BY <2>2, StepFacts DEF Enters, PauseEnters, QuitEnters, ReopenEnters, EnsureEnters,
           StopEnters, WatchdogEnters, StopSteps
    <3>2. strikes \in Nat
      <4>1. DataOK /\ MaxStrikes \in Nat
        BY TypeOKParts, CommandAssumption
      <4>2. QED
        BY <4>1 DEF DataOK
    <3>3. QED
      BY <1>0, <3>1, <3>2 DEF Settled
  <2>3. QED
    BY <2>1, <2>2, StepFacts DEF Marked
<1>6. ASSUME NEW t \in Tasks, pc'[t] = "pauseClear"
      PROVE  paused'
  <2>1. CASE pc[t] = "pauseClear"
    <3>1. paused
      BY <1>0, <2>1
    <3>2. ASSUME paused' # paused
          PROVE  paused'
      <4>1. PICK u \in Tasks :
              \/ pc[u] = "pause" /\ pc'[u] = "pauseClear" /\ paused'
              \/ pc[u] = "pauseClear" /\ pc'[u] = "activate" /\ ~paused'
        BY <3>2, PauseWrites
      <4>2. u = t
        BY <2>1, <4>1, StepFacts
      <4>3. QED
        BY <1>6, <4>1, <4>2
    <3>3. QED
      BY <3>1, <3>2
  <2>2. CASE Enters(t)
    <3>1. PauseHeadroom(t) /\ pc[t] = "pause"
      BY <1>6, <2>2, StepFacts DEF Enters, PauseEnters, QuitEnters, ReopenEnters,
           EnsureEnters, StopEnters, WatchdogEnters, StopSteps
    <3>2. QED
      BY <3>1 DEF PauseHeadroom, ShutGate
  <2>3. QED
    BY <1>6, <2>1, <2>2, StepFacts DEF Marked
<1>7. QED
  BY <1>1, <1>2, <1>3, <1>4, <1>5, <1>6 DEF SettledFirst

\* A gate is opened by who was told that the quit is cancelled.
LEMMA GateOpens ==
  ASSUME Before, draining, ~draining'
  PROVE  ~exitStarted /\ ~paused /\ ~shuttingDown
<1> USE DEF At
<1>1. ASSUME NEW t \in Tasks, EnsureRecord(t)
      PROVE  draining' = draining
  BY <1>1, StepFacts DEF EnsureRecord, Absent
<1>2. \A t \in Tasks : ~ResumeOpen(t)
  BY StepFacts DEF ResumeOpen, Absent, Resuming
<1>3. ASSUME NEW t \in Tasks,
             StopDrain(t) \/ PauseHeadroom(t) \/ ExitHeadroom(t) \/ RestartApp(t)
      PROVE  draining' = TRUE \/ draining' = draining
  BY <1>3 DEF StopDrain, PauseHeadroom, ExitHeadroom, RestartApp, ShutGate, gate
<1>4. ASSUME NEW t \in Tasks, ReopenGate(t)
      PROVE  draining' = draining \/ pc[t] = "reopenOpen"
  BY <1>4 DEF ReopenGate
<1>5. PICK t \in Tasks : pc[t] = "reopenOpen"
  BY <1>1, <1>2, <1>3, <1>4, WritersOfEach DEF Writers, Before
<1>6. ~exitStarted /\ ~paused
  BY <1>5 DEF Before, QuitInv, Reopening
<1>7. QED
  BY <1>6 DEF Before, QuitInv, Torn

\* Who comes between the stores of a quit, or of its end.
LEMMA BetweenEntered ==
  ASSUME Before, NEW t \in Tasks, pc[t] \notin Between, pc'[t] \in Between
  PROVE  ~exitStarted \/ QuitPending
<1>1. Special(t)
  BY StepFacts, TaskMoves DEF Before, QuitInv, LifecycleInv, Harmless, Between
<1>2. Begins(t) \/ Cancels(t)
  BY <1>1, SpecialSteps DEF Special, Between, Backs
<1>3. QED
  BY <1>2 DEF Begins, Cancels

LEMMA TornStep ==
  ASSUME Before
  PROVE  Torn'
<1> USE DEF At, Before, QuitInv, LifecycleInv
<1>1. retirement \in [Tasks -> BOOLEAN] /\ exitRetiring \in Users \cup {Nobody}
  BY DEF TypeOK
<1>2. CASE shuttingDown
  <2>1. exitStarted /\ \A t \in Tasks : ~retirement[t] /\ pc[t] \notin Between
    BY <1>2 DEF Torn
  <2>2. ~QuitPending
    BY <1>1, <2>1, StepFacts DEF QuitPending
  <2>3. exitStarted' /\ \A t \in Tasks : ~retirement'[t]
    BY <1>1, <2>1, <2>2, FlagSteps DEF FlagStep, Between
  <2>4. \A t \in Tasks : pc'[t] \notin Between
    BY <2>1, <2>2, BetweenEntered
  <2>5. QED
    BY <2>3, <2>4 DEF Torn
<1>3. CASE ~shuttingDown /\ shuttingDown'
  <2>1. \A t \in Tasks : ~RestartApp(t)
    BY StepFacts DEF RestartApp, ShutGate, Absent
  <2>2. PICK t \in Tasks : QuitTeardown(t)
    BY <1>3, <2>1, WritersOfEach DEF Writers
  <2>3. exitStarted /\ exitRetiring = t /\ ~retirement[t]
    BY <2>2 DEF QuitTeardown, QuitFlags
  <2>4. \A u \in Tasks : ~retirement[u] /\ pc[u] \notin Between
    BY <2>2, <2>3 DEF QuitFlags, QuitTeardown, Between
  <2>5. exitStarted' = exitStarted /\ retirement' = retirement
    BY <2>2 DEF QuitTeardown
  <2>6. ~QuitPending
    BY <1>1, <2>4, StepFacts DEF QuitPending
  <2>7. \A u \in Tasks : pc'[u] \notin Between
    BY <2>3, <2>4, <2>6, BetweenEntered
  <2>8. QED
    BY <2>3, <2>4, <2>5, <2>7 DEF Torn
<1>4. QED
  BY <1>2, <1>3 DEF Torn

LEMMA ReopeningStep ==
  ASSUME Before
  PROVE  Reopening'
<1> USE DEF At, Front
<1>1. ASSUME NEW u \in Tasks, pc'[u] \in {"reopenCheck", "reopenOpen"}
      PROVE  ~exitStarted' /\ (pc'[u] = "reopenOpen" => ~paused')
  <2>1. CASE CancelPendingExit(u) /\ pc'[u] = "reopenCheck" /\ ~exitStarted'
    BY <2>1
  <2>2. CASE pc[u] \in {"reopenCheck", "reopenOpen"} /\ (pc'[u] = "reopenOpen" => ~paused)
    <3>1. ~exitStarted
      BY <2>2 DEF Before, QuitInv, Reopening
    <3>2. exitStarted' => exitStarted
      <4>1. \A t \in Tasks : pc[t] # "quit"
        BY <2>2, StepFacts
      <4>2. QED
        BY <4>1, FlagSteps DEF FlagStep, Before, QuitInv, LifecycleInv
    <3>3. paused' => paused
      <4>1. \A t \in Tasks : pc[t] \notin {"pause", "pauseClear"}
        BY <2>2, StepFacts
      <4>2. QED
        BY <4>1, PauseWrites
    <3>4. QED
      BY <2>2, <3>1, <3>2, <3>3
  <2>3. CASE Enters(u)
    <3>1. ReopenEnters(u)
      BY <1>1, <2>3, StepFacts DEF Enters, PauseEnters, QuitEnters, EnsureEnters,
           StopEnters, WatchdogEnters, StopSteps
    <3>2. \/ CancelPendingExit(u) /\ pc'[u] = "reopenCheck" /\ ~exitStarted'
          \/ pc[u] = "reopenCheck" /\ pc'[u] = "reopenOpen" /\ ~paused
      BY <1>1, <3>1 DEF ReopenEnters
    <3>3. QED
      BY <2>1, <2>2, <3>2
  <2>4. CASE pc'[u] = pc[u]
    <3>1. pc[u] = "reopenOpen" => ~paused
      BY <1>1, <2>4 DEF Before, QuitInv, Reopening
    <3>2. QED
      BY <1>1, <2>2, <2>4, <3>1
  <2>5. QED
    BY <1>1, <2>3, <2>4, StepFacts DEF Marked
<1>2. QED
  BY <1>1 DEF Reopening

LEMMA DrainedStep ==
  ASSUME Before
  PROVE  Drained'
<1> USE DEF At
<1> DEFINE Stopping == StopSteps \cup {"quitTeardown"}
<1>1. ASSUME draining, live = {}
      PROVE  live' = {}
  <2>1. ASSUME NEW s \in Sockets, Admit(s) \/ Leave(s)
        PROVE  FALSE
    BY <1>1, <2>1 DEF Admit, Leave
  <2>2. QED
    BY <1>1, <2>1, WritersOfEach DEF Writers, Before
<1>2. ASSUME NEW u \in Users, pc'[u] \in Stopping
      PROVE  draining' /\ live' = {}
  <2>1. CASE pc[u] \in Stopping
    <3>1. draining /\ live = {}
      BY <2>1 DEF Before, QuitInv, Drained
    <3>2. exitStarted \/ Settled
      BY <2>1, StepFacts DEF Before, QuitInv, LifecycleInv, QuitFlags, SettledFirst, Heading
    <3>3. draining'
      BY <3>1, <3>2, GateOpens DEF Settled
    <3>4. QED
      BY <1>1, <3>1, <3>3
  <2>2. CASE pc[u] \notin Stopping
    <3>1. Enters(u)
      BY <1>2, <2>2, StepFacts DEF Marked, Heading
    <3>2. u # Dog
      BY CommandAssumption
    <3>3. PauseEnters(u) \/ QuitEnters(u)
      BY <1>2, <2>2, <3>1, <3>2, StepFacts DEF Enters, ReopenEnters, EnsureEnters,
           StopEnters, WatchdogEnters, StopSteps
    <3>4. CASE PauseHeadroom(u) /\ Retired /\ pc[u] = "pauseRetire"
      BY <3>4 DEF PauseHeadroom, ShutGate, Retired, gate
    <3>5. CASE QuitRetire(u) /\ Retired
      BY <3>5 DEF QuitRetire, Retired, gate
    <3>6. QED
      BY <1>2, <2>2, <3>3, <3>4, <3>5 DEF PauseEnters, QuitEnters, StopSteps
  <2>3. QED
    BY <2>1, <2>2
<1>3. QED
  BY <1>2 DEF Drained

LEMMA FinishingStep ==
  ASSUME Before
  PROVE  Finishing'
<1> USE DEF At, Before, QuitInv, LifecycleInv
<1>1. retirement \in [Tasks -> BOOLEAN] /\ exitRetiring \in Users \cup {Nobody}
  BY DEF TypeOK
<1>2. ASSUME QuitPending, exitRetiring' = exitRetiring, retirement'[exitRetiring]
      PROVE  \/ pc'[exitRetiring] = "quitShut"
             \/ pc'[exitRetiring] = "quitRetire" /\ draining'
  <2> DEFINE e == exitRetiring
  <2>1. e \in Tasks /\ retirement[e] /\ exitStarted
    BY <1>1, <1>2, StepFacts DEF QuitPending, QuitFlags
  <2>2. CASE pc[e] = "quitShut"
    <3>1. CASE pc'[e] = pc[e]
      BY <2>2, <3>1
    <3>2. CASE pc'[e] # pc[e]
      <4>1. ExitHeadroom(e)
        BY <2>1, <2>2, <3>2, StepFacts, QuitLeaves
      <4>2. QED
        BY <2>1, <2>2, <4>1, StepFacts DEF ExitHeadroom, ShutGate, Goto
    <3>3. QED
      BY <3>1, <3>2
  <2>3. CASE pc[e] = "quitRetire" /\ draining
    <3>1. draining'
      BY <2>1, <2>3, GateOpens
    <3>2. pc'[e] = pc[e]
      <4>1. SUFFICES ASSUME QuitRetire(e)
                     PROVE  FALSE
        BY <2>1, <2>3, StepFacts, QuitLeaves
      <4>2. Retired
        BY <2>3, <4>1 DEF QuitRetire, WaitOver, Retired
      <4>3. retirement' = [retirement EXCEPT ![e] = FALSE]
        BY <2>1, <4>1, <4>2 DEF QuitRetire
      <4>4. QED
        BY <1>1, <1>2, <2>1, <4>3
    <3>3. QED
      BY <2>3, <3>1, <3>2
  <2>4. QED
    BY <1>2, <2>2, <2>3 DEF Finishing
<1> SUFFICES ASSUME QuitPending'
             PROVE  \/ pc'[exitRetiring'] = "quitShut"
                    \/ pc'[exitRetiring'] = "quitRetire" /\ draining'
  BY DEF Finishing
<1>3. exitRetiring' # Nobody /\ retirement'[exitRetiring']
  BY DEF QuitPending
<1>4. CASE UNCHANGED <<exitRetiring, retirement>>
  <2>1. QuitPending
    BY <1>3, <1>4 DEF QuitPending
  <2>2. QED
    BY <1>2, <1>3, <1>4, <2>1
<1>5. ASSUME NEW t \in Tasks, pc'[t] = "quitShut", exitRetiring' = t
      PROVE  pc'[exitRetiring'] = "quitShut"
  BY <1>5
<1>6. ASSUME NEW t \in Tasks, exitRetiring' = exitRetiring,
             retirement' = [retirement EXCEPT ![t] = FALSE]
      PROVE  QuitPending
  <2>1. exitRetiring \in Tasks
    BY <1>1, <1>3, <1>6, StepFacts
  <2>2. QED
    BY <1>1, <1>3, <1>6, <2>1 DEF QuitPending
<1>7. ASSUME QuitPending, exitRetiring' = exitRetiring,
             retirement' = [retirement EXCEPT ![exitRetiring] = FALSE]
      PROVE  FALSE
  BY <1>1, <1>3, <1>7, StepFacts
<1>8. QED
  BY <1>2, <1>3, <1>4, <1>5, <1>6, <1>7, FlagSteps DEF FlagStep
-----------------------------------------------------------------------------
LEMMA QuitInitially ==
  ASSUME Init
  PROVE  QuitInv
<1>1. LifecycleInv
  BY LifecycleInit
<1>2. \A t \in Tasks : pc[t] = "idle" /\ stk[t] = <<>> /\ ~retirement[t]
  BY DEF Init
<1>3. "idle" \notin Front \cup Absent \cup Heading \cup StopSteps
  BY DEF Front, Absent, Resuming, GivingUp, Heading, StopSteps
<1>4. Clear(<<>>)
  BY EmptySeq DEF Clear
<1>5. OneInFront /\ \A t \in Tasks : Avoids(t)
  <2>1. foreground = {}
    BY DEF Init
  <2>2. \A t \in Tasks : pc[t] \notin Absent /\ Clear(stk[t])
    BY <1>2, <1>3, <1>4
  <2>3. QED
    BY <1>2, <1>3, <2>1, <2>2 DEF OneInFront, Avoids
<1>6. SettledFirst
  BY <1>2, <1>3 DEF SettledFirst, Init, Tasks
<1>7. ~autoPaused /\ Torn /\ Reopening
  BY <1>2 DEF Torn, Reopening, Init
<1>8. Drained /\ Finishing
  BY <1>2, <1>3 DEF Drained, Finishing, QuitPending, Init, Tasks
<1>9. QED
  BY <1>1, <1>5, <1>6, <1>7, <1>8 DEF QuitInv

LEMMA QuitInvStep ==
  ASSUME QuitRegime, QuitInv, [Next]_vars
  PROVE  QuitInv'
<1>1. LifecycleInv'
  BY LifecycleStep DEF QuitInv
<1>2. CASE Next
  <2>1. Before
    BY <1>2 DEF Before
  <2>2. \A t \in Tasks : Avoids(t)'
    BY <2>1, AvoidsStep DEF Before, QuitInv, LifecycleInv
  <2>3. QED
    BY <1>1, <2>1, <2>2, FrontStep, NoSelfHealStep, SettledFirstStep, TornStep,
       ReopeningStep, DrainedStep, FinishingStep DEF QuitInv
<1>3. CASE UNCHANGED vars
  <2> USE DEF vars, control, user, pause, gate, process, exit, dog, QuitInv
  <2>1. OneInFront' /\ ~autoPaused'
    BY <1>3 DEF OneInFront
  <2>2. \A t \in Tasks : Avoids(t)'
    BY <1>3 DEF Avoids, Clear
  <2>3. Settled' = Settled
    BY <1>3 DEF Settled
  <2>4. SettledFirst'
    BY <1>3, <2>3 DEF SettledFirst
  <2>5. Torn' /\ Reopening' /\ Drained'
    BY <1>3 DEF Torn, Reopening, Drained
  <2>6. Finishing'
    BY <1>3 DEF Finishing, QuitPending
  <2>7. QED
    BY <1>1, <2>1, <2>2, <2>4, <2>5, <2>6
<1>4. QED
  BY <1>2, <1>3

\* The invariant of a desktop whose users pause, quit and show the window.
THEOREM QuitInvariant ==
  ASSUME QuitRegime
  PROVE  Spec => []QuitInv
<1>1. Init => QuitInv
  BY QuitInitially
<1>2. QuitInv /\ [Next]_vars => QuitInv'
  BY QuitInvStep
<1>3. QED
  BY <1>1, <1>2, PTL DEF Spec

\* A quit whose flag is up has a thread that will finish it: however quits,
\* pauses and Shows follow each other, the gate that a pending quit waits on
\* stays shut until the quit is finished or cancelled, so that its finisher
\* never gives up and leaves EXIT_TEARDOWN_STARTED behind.
THEOREM PendingQuitFinished ==
  ASSUME QuitRegime
  PROVE  Spec => []PendingQuitHasFinisher
<1>1. QuitInv => PendingQuitHasFinisher
  BY DEF QuitInv, Finishing, PendingQuitHasFinisher
<1>2. QED
  BY <1>1, QuitInvariant, PTL

\* A pause or a quit kills the backend under no connection: between the wait that
\* found the gate shut and empty and the kill, nothing opens the gate, not even
\* the reopening that a Show of the window began before.
THEOREM StopIsGraceful ==
  ASSUME QuitRegime
  PROVE  Spec => GracefulStop
<1>1. QuitInv /\ [Next]_vars
        => [\A t \in Users :
              At(t, "stopKill") /\ ~(At(t, "stopKill"))' /\ backend # "none" => live = {}]_vars
  BY DEF QuitInv, Drained, At, StopSteps
<1>2. QED
  BY <1>1, QuitInvariant, PTL DEF Spec, GracefulStop
=============================================================================
