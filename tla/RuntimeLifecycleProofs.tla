----------------------- MODULE RuntimeLifecycleProofs -----------------------
(***************************************************************************)
(* Proofs about RuntimeLifecycle, for any number of users, any commands    *)
(* that may overlap, and any faults: the desktop never has two backends,   *)
(* and a quit that was cancelled stays cancelled.  As long as no user      *)
(* pauses, a bypass has a self-heal that ends it; as long as none quits    *)
(* either, the gate is open when nothing is under way.                     *)
(*                                                                         *)
(* All of it rests on the control: which step may be on which stack.  The  *)
(* lifecycle lock is held from ensureChild to ensureUnlock, also while     *)
(* ensure_headroom_running is inside the activation of the router; a stop  *)
(* that goes on without the lock does not give it away.                    *)
(***************************************************************************)
EXTENDS RuntimeLifecycle, SequenceTheorems, TLAPS

\* The steps of each part of the code.
UserSteps ==
    {"pause", "pauseClear", "pauseShut", "pauseRetire", "resumed", "tray",
     "forceRestart", "forceResume", "quit", "quitMark", "quitShut", "quitRetire",
     "quitTeardown", "exit", "reopen", "reopenClear", "reopenCheck", "reopenOpen",
     "reopenEnsure", "restart", "restartShut", "restartRetire", "done"}
DogSteps ==
    {"dogProbe", "dogEnsure", "dogBoot", "dogResume", "resumedByDog",
     "dogGiveUp", "dogPause", "dogAuto"}
ArmerSteps == {"arm", "armed"}
ActivateSteps == {"activate", "identify", "publish"}
ResumeSteps == {"resume", "resumeOpen", "resumeFlags", "resumeBypass", "resumeReady"}
StopSteps == {"stop", "stopIfPaused", "stopDrain", "stopWait", "stopKill"}
LockedSteps ==
    {"ensureChild", "ensureSpawn", "ensureRecord", "ensureOpen", "ensureDirect",
     "ensureUnlock"}
EnsureSteps == {"ensure", "ensureLock"} \cup LockedSteps
Steps ==
    {"idle"} \cup UserSteps \cup DogSteps \cup ArmerSteps \cup ActivateSteps
    \cup ResumeSteps \cup StopSteps \cup EnsureSteps

\* The steps of a command, and those of them that a callee returns to.
Own(t, step) ==
    \/ step = "idle"
    \/ t \in Users /\ step \in UserSteps
    \/ t = Dog /\ step \in DogSteps
    \/ t = Armer /\ step \in ArmerSteps
Resumes(t, step) ==
    \/ t \in Users /\ step \in {"resumed", "tray", "done", "forceResume", "exit",
                                "reopenEnsure"}
    \/ t = Dog /\ step \in {"idle", "dogResume", "dogEnsure", "resumedByDog"}
    \/ t = Armer /\ step = "armed"

\* The stacks: called by a command; from resume_runtime, which a command called;
\* from ensure_headroom_running, which either of them called.
FromCommand(t, s) == s # <<>> /\ Resumes(t, Head(s)) /\ Tail(s) = <<>>
FromResume(t, s) == s # <<>> /\ Head(s) = "resumeReady" /\ FromCommand(t, Tail(s))
FromEnsure(t, s) ==
    /\ s # <<>> /\ Head(s) = "ensureUnlock"
    /\ FromCommand(t, Tail(s)) \/ FromResume(t, Tail(s))

Frame(t, step, s) ==
    \/ Own(t, step) /\ s = <<>>
    \/ step \in ResumeSteps \cup StopSteps /\ FromCommand(t, s)
    \/ step \in EnsureSteps /\ (FromCommand(t, s) \/ FromResume(t, s))
    \/ step \in ActivateSteps /\ (FromCommand(t, s) \/ FromEnsure(t, s))

Frames ==
    /\ pc \in [Tasks -> Steps] /\ stk \in [Tasks -> Seq(Steps)]
    /\ \A t \in Tasks : Frame(t, pc[t], stk[t])

\* Who is inside the part of ensure_headroom_running that holds the lock.
Holds(t) ==
    \/ pc[t] \in LockedSteps
    \/ pc[t] \in ActivateSteps /\ Head(stk[t]) = "ensureUnlock"

LockHeld == \A t \in Tasks : Holds(t) => lifecycle = t

\* A backend that is not recorded is one that somebody is about to record, and
\* who is about to spawn one has seen that there is none.
Recorded ==
    backend # "none" /\ ~tracked => \E t \in Tasks : pc[t] = "ensureRecord"
SpawnsAlone == \A t \in Tasks : pc[t] = "ensureSpawn" => backend = "none"

\* A flag that is up belongs to the last quit, and who tears down has taken it.  A
\* quit that has not raised its flag yet, or whose flag a Show has just lowered,
\* is the only one.
Between == {"quitMark", "reopenClear"}
QuitFlags ==
    \A t \in Tasks :
        /\ retirement[t] => exitStarted /\ exitRetiring = t
        /\ pc[t] = "quitTeardown" => exitStarted /\ exitRetiring = t /\ ~retirement[t]
        /\ pc[t] \in Between =>
              /\ exitStarted /\ \A u \in Tasks : ~retirement[u]
              /\ \A u \in Tasks : u # t => pc[u] \notin Between \cup {"quitTeardown"}

Resuming == {"resume", "resumeOpen", "resumeFlags", "resumeBypass"}
GivingUp == {"dogPause", "dogAuto"}

\* A bypass without the self-heal is one the watchdog is about to add it to, or
\* one that a resume is about to end.
BypassWatched ==
    bypass => autoPaused \/ pc[Dog] \in GivingUp \/ \E t \in Tasks : pc[t] \in Resuming

\* A gate that is shut has somebody who opens it, or who stops the backend.
Watched == {"stopWait", "stopKill", "resumeOpen", "ensureRecord", "ensureOpen"}
GateWatched ==
    draining => \/ paused \/ shuttingDown \/ backend = "none"
                \/ \E t \in Tasks : pc[t] \in Watched

\* What the commands that are not given never do.
PauseSteps == {"pause", "pauseClear", "pauseShut"}
QuitSteps == {"quit", "quitMark", "quitShut"}
CommandsGiven ==
    /\ \A t \in Tasks : pc[t] \in PauseSteps => "pause" \in Commands
    /\ \A t \in Tasks : pc[t] \in QuitSteps => "quit" \in Commands
    /\ exitStarted => "quit" \in Commands
    /\ \A t \in Tasks : pc[t] = "restartShut" => shuttingDown

LifecycleInv ==
    /\ TypeOK /\ Frames /\ LockHeld /\ Recorded /\ SpawnsAlone /\ QuitFlags /\ CommandsGiven
-----------------------------------------------------------------------------
\* The control.

\* Steps that may follow each other within one frame.
SameFrame(t, p, q) ==
    \/ Own(t, p) /\ Own(t, q)
    \/ {p, q} \subseteq ActivateSteps
    \/ {p, q} \subseteq ResumeSteps
    \/ {p, q} \subseteq StopSteps
    \/ {p, q} \subseteq EnsureSteps /\ (q \in LockedSteps => p # "ensure")
    \/ p = "resumeReady" /\ q = "activate"

Calls(t, p, callee, back) ==
    \/ /\ Own(t, p) /\ Resumes(t, back)
       /\ callee \in {"activate", "ensure", "resume", "stop", "stopIfPaused"}
    \/ p = "resumeBypass" /\ callee = "ensure" /\ back = "resumeReady"
    \/ p = "ensureChild" /\ callee = "activate" /\ back = "ensureUnlock"

Callees == ActivateSteps \cup ResumeSteps \cup StopSteps \cup EnsureSteps
Backs == {"resumed", "tray", "done", "forceResume", "exit", "reopenEnsure", "idle",
          "dogResume", "dogEnsure", "resumedByDog", "armed", "resumeReady", "ensureUnlock"}

Moves(t, q) ==
    /\ Frames' /\ pc'[t] = q
    /\ \A u \in Tasks : u # t => pc'[u] = pc[u] /\ stk'[u] = stk[u]
    /\ Holds(t)' => Holds(t) \/ pc[t] = "ensureLock"

LEMMA Pushed ==
  ASSUME NEW S, NEW s \in Seq(S), NEW a \in S
  PROVE  /\ <<a>> \o s \in Seq(S) /\ <<a>> \o s # <<>>
         /\ Head(<<a>> \o s) = a /\ Tail(<<a>> \o s) = s
<1> DEFINE r == <<a>> \o s
<1>1. <<a>> \in Seq(S) /\ Len(<<a>>) = 1 /\ <<a>>[1] = a
  OBVIOUS
<1>0. Len(s) \in Nat
  BY LenProperties
<1>2. r \in Seq(S) /\ Len(r) = Len(s) + 1 /\ r[1] = a
  BY <1>0, <1>1, ConcatProperties
<1>3. \A i \in 1..Len(s) : r[i + 1] = s[i]
  BY <1>0, <1>1, ConcatProperties
<1>4. r # <<>> /\ Head(r) = a
  BY <1>2
<1>5. Tail(r) = s
  <2> HIDE DEF r
  <2>1. Tail(r) \in Seq(S) /\ Len(Tail(r)) = Len(s) /\ \A i \in 1..Len(s) : Tail(r)[i] = s[i]
    BY <1>2, <1>3, <1>4, HeadTailProperties
  <2>2. QED
    BY <2>1, SeqEqual
<1>6. QED
  BY <1>2, <1>4, <1>5

LEMMA FramesNext ==
  ASSUME Frames, NEW t \in Tasks,
         pc' \in [Tasks -> Steps], stk' \in [Tasks -> Seq(Steps)],
         Frame(t, pc'[t], stk'[t]),
         \A u \in Tasks : u # t => pc'[u] = pc[u] /\ stk'[u] = stk[u]
  PROVE  Frames'
<1>1. \A u \in Tasks : Frame(u, pc'[u], stk'[u])
  BY DEF Frames
<1>2. QED
  BY <1>1 DEF Frames, Frame, Own, FromCommand, FromResume, FromEnsure, Resumes,
       UserSteps, DogSteps, ArmerSteps, ActivateSteps, ResumeSteps, StopSteps, EnsureSteps,
       LockedSteps

LEMMA GotoMoves ==
  ASSUME Frames, NEW t \in Tasks
  PROVE  \A q : Goto(t, q) /\ SameFrame(t, pc[t], q) => Moves(t, q)
<1> SUFFICES ASSUME NEW q, Goto(t, q), SameFrame(t, pc[t], q)
             PROVE  Moves(t, q)
  OBVIOUS
<1>0. q \in Steps
  BY DEF SameFrame, Own, Steps, ActivateSteps
<1>1. /\ pc' \in [Tasks -> Steps] /\ stk' \in [Tasks -> Seq(Steps)]
      /\ pc'[t] = q /\ stk' = stk
      /\ \A u \in Tasks : u # t => pc'[u] = pc[u]
  BY <1>0 DEF Goto, Frames
<1>2. Frame(t, pc[t], stk[t])
  BY DEF Frames
<1>3. Frame(t, q, stk[t])
  BY <1>2 DEF Frame, SameFrame, Own, UserSteps, DogSteps, ArmerSteps, ActivateSteps,
              ResumeSteps, StopSteps, EnsureSteps, LockedSteps
<1>4. Frames'
  BY <1>1, <1>3, FramesNext
<1>5. Holds(t)' => Holds(t) \/ pc[t] = "ensureLock"
  BY <1>1, <1>2 DEF Holds, Frame, SameFrame, Own, UserSteps, DogSteps, ArmerSteps,
       ActivateSteps, ResumeSteps, StopSteps, EnsureSteps, LockedSteps, FromCommand, Resumes
<1>6. QED
  BY <1>1, <1>4, <1>5 DEF Moves

LEMMA CallMoves ==
  ASSUME Frames, NEW t \in Tasks
  PROVE  \A callee, back :
           Call(t, callee, back) /\ Calls(t, pc[t], callee, back) => Moves(t, callee)
<1> SUFFICES ASSUME NEW callee, NEW back,
                    Call(t, callee, back), Calls(t, pc[t], callee, back)
             PROVE  Moves(t, callee)
  OBVIOUS
<1> DEFINE s == stk[t]
           r == <<back>> \o s
<1>0. callee \in Steps /\ back \in Steps
  BY DEF Calls, Resumes, Steps, UserSteps, DogSteps, ArmerSteps, ActivateSteps,
         ResumeSteps, StopSteps, EnsureSteps, LockedSteps
<1>1. s \in Seq(Steps) /\ Frame(t, pc[t], s)
  BY DEF Frames
<1>2. r \in Seq(Steps) /\ r # <<>> /\ Head(r) = back /\ Tail(r) = s
  BY <1>0, <1>1, Pushed
<1> HIDE DEF r
<1>3. /\ pc' \in [Tasks -> Steps] /\ stk' \in [Tasks -> Seq(Steps)]
      /\ pc'[t] = callee /\ stk'[t] = r
      /\ \A u \in Tasks : u # t => pc'[u] = pc[u] /\ stk'[u] = stk[u]
  BY <1>0, <1>2 DEF Call, Frames, r
<1>4. Frame(t, callee, r)
  BY <1>1, <1>2 DEF Frame, Calls, Own, UserSteps, DogSteps, ArmerSteps, ActivateSteps,
       ResumeSteps, StopSteps, EnsureSteps, LockedSteps, FromCommand, FromResume, FromEnsure
<1>5. Frames'
  BY <1>3, <1>4, FramesNext
<1>6. Holds(t)' => Holds(t)
  BY <1>2, <1>3 DEF Holds, Calls, ActivateSteps, LockedSteps, Resumes
<1>7. QED
  BY <1>3, <1>5, <1>6 DEF Moves

LEMMA ReturnMoves ==
  ASSUME Frames, NEW t \in Tasks, pc[t] \in Callees, Return(t)
  PROVE  \E q \in Backs : Moves(t, q) /\ (Holds(t)' => Holds(t))
<1> DEFINE s == stk[t]
<1>1. s \in Seq(Steps) /\ Frame(t, pc[t], s)
  BY DEF Frames
<1>2. s # <<>>
  BY <1>1 DEF Frame, Callees, Own, UserSteps, DogSteps, ArmerSteps, ActivateSteps,
       ResumeSteps, StopSteps, EnsureSteps, LockedSteps, FromCommand, FromResume, FromEnsure
<1>3. Head(s) \in Steps /\ Tail(s) \in Seq(Steps)
  BY <1>1, <1>2, HeadTailProperties
<1>4. /\ pc' \in [Tasks -> Steps] /\ stk' \in [Tasks -> Seq(Steps)]
      /\ pc'[t] = Head(s) /\ stk'[t] = Tail(s)
      /\ \A u \in Tasks : u # t => pc'[u] = pc[u] /\ stk'[u] = stk[u]
  BY <1>3 DEF Return, Frames
<1>5. Frame(t, Head(s), Tail(s)) /\ Head(s) \in Backs
  BY <1>1, <1>2 DEF Frame, Callees, Own, UserSteps, DogSteps, ArmerSteps, ActivateSteps,
       ResumeSteps, StopSteps, EnsureSteps, LockedSteps, FromCommand, FromResume, FromEnsure,
       Resumes, Backs
<1>6. Frames'
  BY <1>4, <1>5, FramesNext
<1>7. Holds(t)' => Holds(t)
  BY <1>1, <1>2, <1>4 DEF Holds, Frame, Callees, Own, UserSteps, DogSteps, ArmerSteps,
       ActivateSteps, ResumeSteps, StopSteps, EnsureSteps, LockedSteps, FromCommand,
       FromResume, FromEnsure, Resumes
<1>8. QED
  BY <1>4, <1>5, <1>6, <1>7 DEF Moves

\* A move that no part of the invariant looks at: it takes nobody to the spawn, to
\* the teardown or out of a step that others rely on.
Harmless(p, q) ==
    /\ q \notin {"ensureSpawn", "quitMark", "quitTeardown", "reopenClear", "restartShut"}
    /\ p # "ensureRecord"
    /\ p \in Watched => q \in Watched
    /\ p \in Resuming => q \in Resuming
    /\ p \in GivingUp => q \in GivingUp
    /\ q \in PauseSteps => p \in PauseSteps \/ "pause" \in Commands
    /\ q \in QuitSteps => p \in QuitSteps \/ "quit" \in Commands

Kept ==
    /\ Frames'
    /\ \A u \in Tasks : (Holds(u)' => Holds(u)) /\ (pc'[u] = pc[u] \/ Harmless(pc[u], pc'[u]))

LEMMA MovesKeeps ==
  ASSUME Frames, NEW t \in Tasks
  PROVE  \A q :
           Moves(t, q) /\ Harmless(pc[t], q) /\ (pc[t] # "ensureLock" \/ (Holds(t)' => Holds(t)))
             => Kept
BY DEF Moves, Kept, Holds

\* The common moves, for a task at a step of its own.
LEMMA OwnGoto ==
  ASSUME Frames, NEW t \in Tasks, Own(t, pc[t])
  PROVE  \A q :
           Goto(t, q) /\ Own(t, q) /\ Harmless(pc[t], q) => Kept
<1>1. pc[t] # "ensureLock"
  BY DEF Own, UserSteps, DogSteps, ArmerSteps
<1>2. QED
  BY <1>1, GotoMoves, MovesKeeps DEF SameFrame

LEMMA OwnCall ==
  ASSUME Frames, NEW t \in Tasks, Own(t, pc[t])
  PROVE  \A callee, back :
           /\ callee \in {"activate", "ensure", "resume", "stop", "stopIfPaused"}
           /\ Call(t, callee, back) /\ Resumes(t, back) /\ Harmless(pc[t], callee)
           => Kept
<1>1. pc[t] # "ensureLock"
  BY DEF Own, UserSteps, DogSteps, ArmerSteps
<1> SUFFICES ASSUME NEW callee \in {"activate", "ensure", "resume", "stop", "stopIfPaused"},
                    NEW back,
                    Call(t, callee, back), Resumes(t, back), Harmless(pc[t], callee)
             PROVE  Kept
  OBVIOUS
<1>3. Calls(t, pc[t], callee, back)
  BY DEF Calls
<1>4. Moves(t, callee)
  BY <1>3, CallMoves
<1>5. QED
  BY <1>1, <1>4, MovesKeeps

LEMMA ReturnKeeps ==
  ASSUME Frames, NEW t \in Tasks, pc[t] \in Callees, Return(t),
         pc[t] \notin Watched \cup Resuming
  PROVE  Kept
<1>1. PICK q \in Backs : Moves(t, q) /\ (Holds(t)' => Holds(t))
  BY ReturnMoves
<1>2. Harmless(pc[t], q)
  BY DEF Harmless, Backs, Callees, ActivateSteps, ResumeSteps, StopSteps, EnsureSteps,
         LockedSteps, Watched, Resuming, GivingUp, PauseSteps, QuitSteps
<1>3. QED
  BY <1>1, <1>2, MovesKeeps

LEMMA SpawnArmerKeeps ==
  ASSUME Frames, NEW t \in Tasks, t # Armer, Own(t, pc[t]), NEW q, Own(t, q),
         SpawnArmer(t, q), Harmless(pc[t], q)
  PROVE  Kept
<1>1. Armer \in Tasks /\ pc \in [Tasks -> Steps] /\ stk \in [Tasks -> Seq(Steps)]
  BY DEF Frames, Tasks
<1> DEFINE arm == IF pc[Armer] = "idle" THEN "arm" ELSE pc[Armer]
<1>2. stk' = stk /\ pc' = [pc EXCEPT ![t] = q, ![Armer] = arm]
  BY <1>1 DEF SpawnArmer
<1>3. arm \in Steps /\ q \in Steps
  BY <1>1 DEF Own, Steps, ArmerSteps
<1>4. (pc[Armer] = "idle" => arm = "arm") /\ (pc[Armer] # "idle" => arm = pc[Armer])
  OBVIOUS
<1> HIDE DEF arm
<1>5. Armer \in Tasks /\ stk' = stk /\ pc' \in [Tasks -> Steps] /\ pc'[t] = q /\ pc'[Armer] = arm
      /\ \A u \in Tasks : u # t /\ u # Armer => pc'[u] = pc[u]
  BY <1>1, <1>2, <1>3
<1>6. \A u \in Tasks : u # t =>
        pc'[u] = pc[u] \/ (u = Armer /\ pc[u] = "idle" /\ pc'[u] = "arm")
  BY <1>5, <1>4
<1>7. \A u \in Tasks : Frame(u, pc'[u], stk'[u])
  BY <1>5, <1>6 DEF Frames, Frame, Own, UserSteps, DogSteps, ArmerSteps, ActivateSteps,
       ResumeSteps, StopSteps, EnsureSteps, LockedSteps
<1>8. Frames'
  BY <1>1, <1>5, <1>7 DEF Frames, Frame, Own, FromCommand, FromResume, FromEnsure, Resumes,
       UserSteps, DogSteps, ArmerSteps, ActivateSteps, ResumeSteps, StopSteps, EnsureSteps,
       LockedSteps
<1>9. \A u \in Tasks : Holds(u)' => Holds(u)
  BY <1>5, <1>6 DEF Holds, ActivateSteps, LockedSteps, Own, UserSteps, DogSteps, ArmerSteps
<1>10. Harmless("idle", "arm")
  BY DEF Harmless, Watched, Resuming, GivingUp, PauseSteps, QuitSteps
<1>11. QED
  BY <1>5, <1>6, <1>8, <1>9, <1>10 DEF Kept

\* Who is at a step of a command is at a step of its own.
LEMMA OwnSteps ==
  ASSUME Frames, NEW t \in Tasks
  PROVE  /\ pc[t] = "idle" => Own(t, pc[t]) /\ stk[t] = <<>>
         /\ pc[t] \in UserSteps => t \in Users /\ Own(t, pc[t])
         /\ pc[t] \in DogSteps => t = Dog /\ Own(t, pc[t])
         /\ pc[t] \in ArmerSteps => t = Armer /\ Own(t, pc[t])
<1>1. Frame(t, pc[t], stk[t])
  BY DEF Frames
<1>2. QED
  BY <1>1 DEF Frame, Own, UserSteps, DogSteps, ArmerSteps, ActivateSteps, ResumeSteps,
       StopSteps, EnsureSteps, LockedSteps
-----------------------------------------------------------------------------
\* The moves of every action.

LEMMA ActivateKeeps ==
  ASSUME Frames, NEW t \in Tasks, ActivateCodexRouter(t)
  PROVE  Kept
<1> USE DEF Harmless, Watched, Resuming, GivingUp, PauseSteps, QuitSteps, ActivateSteps, Callees
<1>1. pc[t] \in ActivateSteps
  BY DEF ActivateCodexRouter, Activate, Identify, Publish, At
<1>2. CASE Return(t)
  BY <1>1, <1>2, ReturnKeeps
<1>3. ASSUME NEW q \in {"identify", "publish"}, Goto(t, q)
      PROVE  Kept
  <2>1. Moves(t, q)
    BY <1>1, <1>3, GotoMoves DEF SameFrame
  <2>2. QED
    BY <1>1, <2>1, MovesKeeps
<1>4. QED
  BY <1>2, <1>3 DEF ActivateCodexRouter, Activate, Identify, Publish

LEMMA ArmerKeeps ==
  ASSUME Frames, ArmCodexRouter
  PROVE  Kept
<1> USE DEF Harmless, Watched, Resuming, GivingUp, PauseSteps, QuitSteps
<1>1. Armer \in Tasks /\ pc[Armer] \in ArmerSteps
  BY DEF ArmCodexRouter, At, Tasks, ArmerSteps
<1>2. Own(Armer, pc[Armer]) /\ Own(Armer, "idle") /\ Own(Armer, "arm") /\ Resumes(Armer, "armed")
  BY <1>1, OwnSteps DEF Own, Resumes, ArmerSteps
<1>3. CASE Call(Armer, "activate", "armed")
  BY <1>1, <1>2, <1>3, OwnCall DEF ArmerSteps
<1>4. ASSUME NEW q \in {"idle", "arm"}, Goto(Armer, q)
      PROVE  Kept
  BY <1>1, <1>2, <1>4, OwnGoto DEF ArmerSteps
<1>5. QED
  BY <1>3, <1>4 DEF ArmCodexRouter

\* ensure_headroom_running takes the lock, may find that there is no backend, and
\* records the one it spawned.
LEMMA EnsureMoves ==
  ASSUME Frames, NEW t \in Tasks, EnsureHeadroomRunning(t)
  PROVE  \/ Kept
         \/ EnsureLock(t) /\ Moves(t, "ensureChild") /\ lifecycle = Nobody /\ lifecycle' = t
         \/ EnsureChild(t) /\ Moves(t, "ensureSpawn") /\ ~ChildAlive
         \/ /\ EnsureRecord(t) /\ pc[t] = "ensureRecord"
            /\ IF shuttingDown \/ exitStarted \/ paused THEN Moves(t, "ensureDirect")
                                                        ELSE Moves(t, "ensureOpen")
         \/ EnsureRecord(t) /\ pc[t] = "ensureOpen" /\ Moves(t, "ensureDirect")
<1> USE DEF Harmless, Watched, Resuming, GivingUp, PauseSteps, QuitSteps, EnsureSteps,
            LockedSteps, Callees, At
<1>1. ASSUME pc[t] \in EnsureSteps \ {"ensureRecord", "ensureOpen"}, Return(t)
      PROVE  Kept
  BY <1>1, ReturnKeeps
<1>2. ASSUME NEW q \in EnsureSteps \ {"ensureSpawn"}, Goto(t, q),
             pc[t] \in EnsureSteps \ {"ensureRecord", "ensureOpen", "ensureLock"},
             pc[t] = "ensure" => q = "ensureLock"
      PROVE  Kept
  <2>1. Moves(t, q)
    BY <1>2, GotoMoves DEF SameFrame
  <2>2. QED
    BY <1>2, <2>1, MovesKeeps
<1>3. CASE Ensure(t)
  BY <1>1, <1>2, <1>3 DEF Ensure
<1>4. CASE EnsureLock(t)
  <2>1. CASE Return(t)
    BY <1>1, <1>4, <2>1 DEF EnsureLock
  <2>2. CASE Goto(t, "ensureChild") /\ lifecycle' = t
    <3>1. Moves(t, "ensureChild")
      BY <1>4, <2>2, GotoMoves DEF SameFrame, EnsureLock
    <3>2. QED
      BY <1>4, <2>2, <3>1 DEF EnsureLock
  <2>3. QED
    BY <1>4, <2>1, <2>2 DEF EnsureLock
<1>5. CASE EnsureChild(t)
  <2>1. CASE Call(t, "activate", "ensureUnlock")
    <3>1. Moves(t, "activate")
      BY <1>5, <2>1, CallMoves DEF Calls, EnsureChild
    <3>2. QED
      BY <1>5, <3>1, MovesKeeps DEF EnsureChild
  <2>2. CASE Goto(t, "ensureUnlock")
    BY <1>2, <1>5, <2>2 DEF EnsureChild
  <2>3. CASE Goto(t, "ensureSpawn") /\ ~ChildAlive
    <3>1. Moves(t, "ensureSpawn")
      BY <1>5, <2>3, GotoMoves DEF SameFrame, EnsureChild
    <3>2. QED
      BY <1>5, <2>3, <3>1
  <2>4. QED
    BY <1>5, <2>1, <2>2, <2>3 DEF EnsureChild
<1>6. CASE EnsureSpawn(t)
  BY <1>2, <1>6 DEF EnsureSpawn
<1>7. CASE EnsureRecord(t)
  <2>1. ASSUME NEW q \in {"ensureDirect", "ensureOpen"}, Goto(t, q),
               pc[t] \in {"ensureRecord", "ensureOpen"}
        PROVE  Moves(t, q)
    BY <2>1, GotoMoves DEF SameFrame
  <2>2. CASE pc[t] = "ensureRecord"
    <3>1. CASE shuttingDown \/ exitStarted \/ paused
      BY <1>7, <2>1, <2>2, <3>1 DEF EnsureRecord
    <3>2. CASE ~(shuttingDown \/ exitStarted \/ paused)
      BY <1>7, <2>1, <2>2, <3>2 DEF EnsureRecord
    <3>3. QED
      BY <3>1, <3>2
  <2>3. CASE pc[t] = "ensureOpen"
    BY <1>7, <2>1, <2>3 DEF EnsureRecord
  <2>4. CASE pc[t] = "ensureDirect"
    BY <1>2, <1>7, <2>4 DEF EnsureRecord
  <2>5. QED
    BY <1>7, <2>2, <2>3, <2>4 DEF EnsureRecord
<1>8. CASE EnsureUnlock(t)
  BY <1>1, <1>8 DEF EnsureUnlock
<1>9. QED
  BY <1>3, <1>4, <1>5, <1>6, <1>7, <1>8 DEF EnsureHeadroomRunning

LEMMA ResumeMoves ==
  ASSUME Frames, NEW t \in Tasks, ResumeRuntime(t)
  PROVE  \/ Kept
         \/ ResumeOpen(t) /\ Moves(t, "resumeFlags")
         \/ ResumeFlags(t) /\ pc[t] = "resumeBypass" /\ Moves(t, "ensure")
<1> USE DEF Harmless, Watched, Resuming, GivingUp, PauseSteps, QuitSteps, ResumeSteps,
            ActivateSteps, Callees, At
<1>1. CASE Resume(t)
  <2>1. Moves(t, "resumeOpen")
    BY <1>1, GotoMoves DEF SameFrame, Resume
  <2>2. QED
    BY <1>1, <2>1, MovesKeeps DEF Resume
<1>2. CASE ResumeOpen(t)
  BY <1>2, GotoMoves DEF SameFrame, ResumeOpen
<1>3. CASE ResumeFlags(t)
  <2>1. CASE ResumeAuto(t)
    <3>1. Moves(t, "resumeBypass")
      BY <2>1, GotoMoves DEF SameFrame, ResumeAuto
    <3>2. QED
      BY <2>1, <3>1, MovesKeeps DEF ResumeAuto
  <2>2. CASE ~ResumeAuto(t)
    BY <1>3, <2>2, CallMoves DEF Calls, ResumeFlags
  <2>3. QED
    BY <2>1, <2>2
<1>4. CASE ResumeReady(t)
  <2>1. CASE Return(t)
    BY <1>4, <2>1, ReturnKeeps DEF ResumeReady
  <2>2. CASE Goto(t, "activate")
    <3>1. Moves(t, "activate")
      BY <1>4, <2>2, GotoMoves DEF SameFrame, ResumeReady
    <3>2. QED
      BY <1>4, <3>1, MovesKeeps DEF ResumeReady
  <2>3. QED
    BY <1>4, <2>1, <2>2 DEF ResumeReady
<1>5. QED
  BY <1>1, <1>2, <1>3, <1>4 DEF ResumeRuntime

LEMMA StopMoves ==
  ASSUME Frames, NEW t \in Tasks, StopHeadroomIf(t)
  PROVE  \/ Kept
         \/ StopKill(t) /\ \E q \in Backs : Moves(t, q)
<1> USE DEF Harmless, Watched, Resuming, GivingUp, PauseSteps, QuitSteps, StopSteps, Callees, At
<1>1. ASSUME NEW p \in {"stop", "stopIfPaused", "stopDrain", "stopWait"}, pc[t] = p,
             NEW q \in {"stopDrain", "stopWait", "stopKill"}, Goto(t, q),
             p = "stopWait" => q = "stopKill"
      PROVE  Kept
  <2>1. Moves(t, q)
    BY <1>1, GotoMoves DEF SameFrame
  <2>2. QED
    BY <1>1, <2>1, MovesKeeps
<1>2. CASE StopLock(t)
  BY <1>1, <1>2, ReturnKeeps DEF StopLock
<1>3. CASE StopDrain(t)
  BY <1>1, <1>3 DEF StopDrain
<1>4. CASE StopWait(t)
  BY <1>1, <1>4 DEF StopWait
<1>5. CASE StopKill(t)
  BY <1>5, ReturnMoves DEF StopKill
<1>6. QED
  BY <1>2, <1>3, <1>4, <1>5 DEF StopHeadroomIf

LEMMA ControlUnchanged ==
  ASSUME Frames, UNCHANGED <<pc, stk>>
  PROVE  Kept
<1>1. Dog \in Tasks
  BY DEF Tasks
<1>2. Frame(Dog, pc'[Dog], stk'[Dog])
  BY <1>1 DEF Frames
<1>3. Frames'
  BY <1>1, <1>2, FramesNext DEF Frames
<1>4. \A u \in Tasks : Holds(u)' => Holds(u)
  BY DEF Holds
<1>5. QED
  BY <1>3, <1>4 DEF Kept

\* The rest of a command.
CommandStep(t) ==
    \/ PauseHeadroom(t) \/ StartHeadroom(t) \/ ForceRestartHeadroom(t) \/ ExitHeadroom(t)
    \/ FinishExitHeadroom(t) \/ ExitProcess(t) \/ CancelPendingExit(t) \/ ReopenGate(t)
    \/ EnsureReadyForTray(t) \/ RestartApp(t) \/ RestartRetire(t) \/ Done(t)

LEMMA CommandMoves ==
  ASSUME Frames, NEW t \in Tasks, CommandStep(t)
  PROVE  /\ t \in Users
         /\ \/ Kept
            \/ ExitHeadroom(t) /\ Moves(t, "quitMark") /\ pc[t] = "quit" /\ ~exitStarted
            \/ QuitRetire(t) /\ Moves(t, "quitTeardown") /\ Retired /\ retirement[t]
            \/ CancelPendingExit(t) /\ Moves(t, "reopenClear") /\ pc[t] = "reopen" /\ QuitPending
            \/ RestartApp(t) /\ Moves(t, "restartShut") /\ shuttingDown'
<1>1. pc[t] \in UserSteps
  BY DEF CommandStep, PauseHeadroom, StartHeadroom, ForceRestartHeadroom, ExitHeadroom,
         FinishExitHeadroom, QuitRetire, QuitTeardown, ExitProcess, CancelPendingExit,
         ClearStarted, ReopenGate, EnsureReadyForTray, RestartApp, RestartRetire, Done,
         ShutGate, At,
         UserSteps
<1>2. t \in Users /\ Own(t, pc[t]) /\ t # Armer
  BY <1>1, OwnSteps, CommandAssumption
<1>0. /\ \A q \in (UserSteps \cup {"idle"}) \ {"pause", "pauseClear", "pauseShut", "quit",
                     "quitMark", "quitShut", "quitTeardown", "reopenClear", "restartShut"} :
           Harmless(pc[t], q)
      /\ \A callee \in {"activate", "ensure", "stop", "stopIfPaused"} : Harmless(pc[t], callee)
      /\ pc[t] \in {"forceRestart", "forceResume"} => Harmless(pc[t], "resume")
      /\ pc[t] = "pause" => Harmless(pc[t], "pauseClear")
      /\ pc[t] = "pauseClear" => Harmless(pc[t], "pauseShut")
      /\ pc[t] = "quitMark" => Harmless(pc[t], "quitShut")
  BY <1>1 DEF Harmless, Watched, Resuming, GivingUp, PauseSteps, QuitSteps, UserSteps
<1> USE DEF At
<1>3. ASSUME NEW q \in UserSteps \cup {"idle"}, Goto(t, q), Harmless(pc[t], q)
      PROVE  Kept
  BY <1>2, <1>3, OwnGoto DEF Own
<1>4. ASSUME NEW callee \in {"activate", "ensure", "resume", "stop", "stopIfPaused"},
             NEW back \in {"resumed", "tray", "done", "forceResume", "exit", "reopenEnsure"},
             Call(t, callee, back), Harmless(pc[t], callee)
      PROVE  Kept
  <2>1. Resumes(t, back)
    BY <1>2 DEF Resumes
  <2>2. QED
    BY <1>2, <1>4, <2>1, OwnCall
<1>5. ASSUME NEW here \in UserSteps, NEW next \in UserSteps, ShutGate(t, here, next),
             Harmless(pc[t], next)
      PROVE  Kept
  BY <1>3, <1>5 DEF ShutGate
<1>6. CASE PauseHeadroom(t)
  BY <1>0, <1>2, <1>3, <1>4, <1>5, <1>6 DEF PauseHeadroom, UserSteps
<1>7. CASE StartHeadroom(t)
  <2>1. CASE Goto(t, "done")
    BY <1>0, <1>2, <1>3, <1>7, <2>1 DEF StartHeadroom, UserSteps
  <2>2. CASE SpawnArmer(t, "done")
    <3>1. Own(t, "done")
      BY <1>2 DEF Own, UserSteps
    <3>2. QED
      <4>1. Harmless(pc[t], "done")
        BY <1>0 DEF UserSteps
      <4>2. QED
        BY <1>2, <2>2, <3>1, <4>1, SpawnArmerKeeps
  <2>3. QED
    BY <1>7, <2>1, <2>2 DEF StartHeadroom
<1>8. CASE ForceRestartHeadroom(t)
  BY <1>0, <1>2, <1>4, <1>8 DEF ForceRestartHeadroom
<1>9. CASE ExitHeadroom(t)
  <2>1. CASE pc[t] = "quit" /\ exitStarted
    BY <1>0, <1>2, <1>3, <1>9, <2>1 DEF ExitHeadroom, ShutGate, UserSteps
  <2>2. CASE pc[t] = "quit" /\ ~exitStarted
    <3>1. Goto(t, "quitMark")
      BY <1>9, <2>2 DEF ExitHeadroom, ShutGate
    <3>2. Moves(t, "quitMark")
      BY <1>2, <2>2, <3>1, GotoMoves DEF SameFrame, Own, UserSteps
    <3>3. QED
      BY <1>2, <1>9, <2>2, <3>2
  <2>3. CASE pc[t] # "quit"
    BY <1>0, <1>2, <1>3, <1>5, <1>9, <2>3 DEF ExitHeadroom, UserSteps
  <2>4. QED
    BY <2>1, <2>2, <2>3
<1>10. CASE QuitRetire(t)
  <2>1. CASE Goto(t, "done")
    BY <1>0, <1>2, <1>3, <1>10, <2>1 DEF QuitRetire, UserSteps
  <2>2. CASE Goto(t, "quitTeardown") /\ Retired /\ retirement[t]
    <3>1. Moves(t, "quitTeardown")
      BY <1>2, <2>2, GotoMoves DEF SameFrame, Own, UserSteps
    <3>2. QED
      BY <1>2, <1>10, <2>2, <3>1
  <2>3. QED
    BY <1>10, <2>1, <2>2 DEF QuitRetire
<1>11. CASE QuitTeardown(t) \/ RestartRetire(t)
  BY <1>0, <1>2, <1>4, <1>11 DEF QuitTeardown, RestartRetire
<1>12. CASE ExitProcess(t) \/ Done(t)
  BY <1>0, <1>2, <1>3, <1>12 DEF ExitProcess, Done, UserSteps
<1>13. CASE CancelPendingExit(t)
  <2>1. CASE pc[t] = "reopen" /\ QuitPending
    <3>1. Goto(t, "reopenClear")
      BY <1>13, <2>1 DEF CancelPendingExit, ClearStarted
    <3>2. Moves(t, "reopenClear")
      BY <1>2, <2>1, <3>1, GotoMoves DEF SameFrame, Own, UserSteps
    <3>3. QED
      BY <1>2, <1>13, <2>1, <3>2
  <2>2. CASE ~(pc[t] = "reopen" /\ QuitPending)
    BY <1>0, <1>2, <1>3, <1>13, <2>2 DEF CancelPendingExit, ClearStarted, UserSteps
  <2>3. QED
    BY <2>1, <2>2
<1>14. CASE ReopenGate(t)
  BY <1>0, <1>2, <1>3, <1>4, <1>14 DEF ReopenGate, UserSteps
<1>15. CASE EnsureReadyForTray(t)
  BY <1>0, <1>2, <1>3, <1>4, <1>15 DEF EnsureReadyForTray, UserSteps
<1>16. CASE RestartApp(t)
  <2>1. CASE pc[t] = "restart" /\ Goto(t, "done")
    BY <1>0, <1>2, <1>3, <2>1 DEF UserSteps
  <2>2. CASE pc[t] = "restart" /\ Goto(t, "restartShut") /\ shuttingDown' = TRUE
    <3>1. Moves(t, "restartShut")
      BY <1>2, <2>2, GotoMoves DEF SameFrame, Own, UserSteps
    <3>2. QED
      BY <1>2, <1>16, <2>2, <3>1
  <2>3. CASE ShutGate(t, "restartShut", "restartRetire")
    BY <1>0, <1>2, <1>5, <2>3 DEF UserSteps
  <2>4. QED
    BY <1>16, <2>1, <2>2, <2>3 DEF RestartApp
<1>17. QED
  BY <1>2, <1>6, <1>7, <1>8, <1>9, <1>10, <1>11, <1>12, <1>13, <1>14, <1>15, <1>16
     DEF CommandStep, FinishExitHeadroom

LEMMA GiveKeeps ==
  ASSUME Frames, NEW t \in Users, NEW command \in Commands, Give(t, command)
  PROVE  Kept
<1>1. t \in Tasks /\ pc[t] = "idle" /\ Own(t, pc[t])
  BY OwnSteps DEF Give, At, Tasks
<1>2. command \in {"pause", "resume", "forceRestart", "quit", "reopen", "restart"}
  BY CommandAssumption
<1> USE DEF Harmless, Watched, Resuming, GivingUp, PauseSteps, QuitSteps
<1>3. CASE Call(t, "resume", "resumed")
  BY <1>1, <1>3, OwnCall DEF Resumes
<1>4. CASE command # "resume" /\ Goto(t, command)
  <2>1. Own(t, command)
    BY <1>2, <1>4 DEF Own, UserSteps
  <2>2. Harmless(pc[t], command)
    BY <1>1, <1>2, <1>4
  <2>3. QED
    BY <1>1, <1>4, <2>1, <2>2, OwnGoto
<1>5. QED
  BY <1>3, <1>4 DEF Give

LEMMA WatchdogMoves ==
  ASSUME Frames, WatchdogStep
  PROVE  Kept \/ (GiveUpAuto /\ Moves(Dog, "stop"))
<1> USE DEF Harmless, Watched, Resuming, GivingUp, PauseSteps, QuitSteps, At
<1>1. Dog \in Tasks /\ Dog # Armer
  BY CommandAssumption DEF Tasks
<1>2. Own(Dog, pc[Dog]) /\ Own(Dog, "idle") /\ \A q \in DogSteps : Own(Dog, q)
  BY <1>1, OwnSteps DEF Own, DogSteps, WatchdogStep, WatchdogTick, WatchdogProbe,
       WatchdogRecover, WatchdogGiveUp, GiveUpAuto
<1>3. ASSUME NEW q \in DogSteps \cup {"idle"}, Goto(Dog, q), Harmless(pc[Dog], q)
      PROVE  Kept
  BY <1>1, <1>2, <1>3, OwnGoto
<1>4. ASSUME NEW callee \in {"activate", "ensure", "resume", "stop", "stopIfPaused"},
             NEW back \in {"idle", "dogResume", "dogEnsure", "resumedByDog"},
             Call(Dog, callee, back), Harmless(pc[Dog], callee)
      PROVE  Kept
  <2>1. Resumes(Dog, back)
    BY DEF Resumes
  <2>2. QED
    BY <1>1, <1>2, <1>4, <2>1, OwnCall
<1>5. CASE UNCHANGED <<pc, stk>>
  BY <1>5, ControlUnchanged
<1>6. CASE WatchdogTick
  BY <1>3, <1>4, <1>5, <1>6 DEF WatchdogTick, DogSteps
<1>7. CASE WatchdogProbe
  BY <1>3, <1>4, <1>7 DEF WatchdogProbe, DogSteps
<1>8. CASE WatchdogRecover
  <2>1. CASE pc[Dog] = "resumedByDog" /\ SpawnArmer(Dog, "idle")
    BY <1>1, <1>2, <2>1, SpawnArmerKeeps
  <2>2. CASE ~(pc[Dog] = "resumedByDog" /\ SpawnArmer(Dog, "idle"))
    BY <1>3, <1>4, <1>8, <2>2 DEF WatchdogRecover, DogSteps
  <2>3. QED
    BY <2>1, <2>2
<1>9. CASE WatchdogGiveUp
  <2>1. CASE GiveUpAuto
    <3>1. Resumes(Dog, "idle")
      BY DEF Resumes
    <3>2. Moves(Dog, "stop")
      BY <1>1, <1>2, <2>1, <3>1, CallMoves DEF Calls, GiveUpAuto
    <3>3. QED
      BY <2>1, <3>2
  <2>2. CASE ~GiveUpAuto
    BY <1>3, <1>9, <2>2 DEF WatchdogGiveUp, DogSteps
  <2>3. QED
    BY <2>1, <2>2
<1>10. QED
  BY <1>6, <1>7, <1>8, <1>9 DEF WatchdogStep
-----------------------------------------------------------------------------
\* A step is a move that the invariant does not look at, or one of these.
Acquires(t) ==
    EnsureLock(t) /\ Moves(t, "ensureChild") /\ lifecycle = Nobody /\ lifecycle' = t
FindsNone(t) == EnsureChild(t) /\ Moves(t, "ensureSpawn") /\ ~ChildAlive
Records(t) ==
    /\ EnsureRecord(t) /\ pc[t] = "ensureRecord"
    /\ IF shuttingDown \/ exitStarted \/ paused THEN Moves(t, "ensureDirect")
                                                ELSE Moves(t, "ensureOpen")
Opens(t) == EnsureRecord(t) /\ pc[t] = "ensureOpen" /\ Moves(t, "ensureDirect")
Reopens(t) == ResumeOpen(t) /\ Moves(t, "resumeFlags")
EndsBypass(t) == ResumeFlags(t) /\ pc[t] = "resumeBypass" /\ Moves(t, "ensure")
Kills(t) == StopKill(t) /\ \E q \in Backs : Moves(t, q)
Begins(t) ==
    ExitHeadroom(t) /\ Moves(t, "quitMark") /\ pc[t] = "quit" /\ ~exitStarted
Cancels(t) ==
    CancelPendingExit(t) /\ Moves(t, "reopenClear") /\ pc[t] = "reopen" /\ QuitPending
TearsDown(t) == QuitRetire(t) /\ Moves(t, "quitTeardown") /\ Retired /\ retirement[t]
Restarts(t) == RestartApp(t) /\ Moves(t, "restartShut") /\ shuttingDown'
GivesUp(t) == t = Dog /\ GiveUpAuto /\ Moves(Dog, "stop")

OtherStep ==
    \/ BackendBoots
    \/ BackendFails
    \/ \E s \in Sockets : Admit(s) \/ Leave(s)

LEMMA NextCases ==
  ASSUME Next
  PROVE  \/ \E t \in Users, command \in Commands : Give(t, command)
         \/ \E t \in Tasks : \/ ActivateCodexRouter(t) \/ EnsureHeadroomRunning(t)
                             \/ ResumeRuntime(t) \/ StopHeadroomIf(t) \/ CommandStep(t)
         \/ ArmCodexRouter \/ WatchdogStep \/ OtherStep
BY DEF Next, TaskStep, CommandStep, OtherStep

LEMMA ControlStep ==
  ASSUME Frames, Next
  PROVE  \/ Kept
         \/ \E t \in Tasks :
              \/ Acquires(t) \/ FindsNone(t) \/ Records(t) \/ Opens(t) \/ Reopens(t)
              \/ EndsBypass(t) \/ Kills(t) \/ Begins(t) \/ Cancels(t) \/ TearsDown(t)
              \/ Restarts(t) \/ GivesUp(t)
<1>1. CASE \E t \in Tasks : ActivateCodexRouter(t)
  BY <1>1, ActivateKeeps
<1>2. CASE \E t \in Tasks : EnsureHeadroomRunning(t)
  BY <1>2, EnsureMoves DEF Acquires, FindsNone, Records, Opens
<1>3. CASE \E t \in Tasks : ResumeRuntime(t)
  BY <1>3, ResumeMoves DEF Reopens, EndsBypass
<1>4. CASE \E t \in Tasks : StopHeadroomIf(t)
  BY <1>4, StopMoves DEF Kills
<1>5. CASE \E t \in Tasks : CommandStep(t)
  BY <1>5, CommandMoves DEF Begins, Cancels, TearsDown, Restarts
<1>6. CASE ArmCodexRouter
  BY <1>6, ArmerKeeps
<1>7. CASE WatchdogStep
  <2>1. Dog \in Tasks
    BY DEF Tasks
  <2>2. QED
    BY <1>7, <2>1, WatchdogMoves DEF GivesUp
<1>8. CASE OtherStep
  BY <1>8, ControlUnchanged DEF OtherStep, BackendBoots, BackendFails, Admit, Leave, control
<1>9. CASE \E t \in Users, command \in Commands : Give(t, command)
  BY <1>9, GiveKeeps
<1>10. QED
  BY <1>1, <1>2, <1>3, <1>4, <1>5, <1>6, <1>7, <1>8, <1>9, NextCases

\* Who writes what.
Writers ==
    /\ \/ UNCHANGED lifecycle
       \/ \E t \in Tasks : EnsureLock(t) \/ EnsureUnlock(t) \/ StopLock(t) \/ StopKill(t)
    /\ \/ UNCHANGED backend
       \/ \E t \in Tasks : EnsureSpawn(t) \/ StopKill(t)
       \/ BackendBoots \/ BackendFails
    /\ \/ UNCHANGED tracked
       \/ \E t \in Tasks : EnsureChild(t) \/ EnsureRecord(t) \/ StopKill(t)
    /\ \/ UNCHANGED <<exitStarted, exitRetiring, retirement>>
       \/ \E t \in Tasks : ExitHeadroom(t) \/ QuitRetire(t) \/ CancelPendingExit(t)
    /\ \/ UNCHANGED shuttingDown
       \/ \E t \in Tasks : QuitTeardown(t) \/ RestartApp(t)
    /\ \/ UNCHANGED bypass
       \/ \E t \in Tasks : ResumeFlags(t)
       \/ WatchdogGiveUp
    /\ \/ UNCHANGED autoPaused
       \/ \E t \in Tasks : ResumeFlags(t) \/ PauseHeadroom(t) \/ ForceRestartHeadroom(t)
       \/ WatchdogGiveUp
    /\ \/ UNCHANGED paused
       \/ \E t \in Tasks : Resume(t) \/ PauseHeadroom(t)
       \/ WatchdogGiveUp
    /\ \/ UNCHANGED draining
       \/ \E t \in Tasks :
            \/ EnsureRecord(t) \/ ResumeOpen(t) \/ StopDrain(t) \/ PauseHeadroom(t)
            \/ ExitHeadroom(t) \/ RestartApp(t) \/ ReopenGate(t)
    /\ \/ UNCHANGED foreground
       \/ \E t \in Users, command \in Commands : Give(t, command)
       \/ \E t \in Tasks :
            \/ Done(t) \/ PauseHeadroom(t) \/ ExitHeadroom(t) \/ RestartApp(t)
            \/ EnsureReadyForTray(t)
    /\ UNCHANGED strikes \/ WatchdogTick \/ WatchdogProbe \/ WatchdogRecover \/ WatchdogGiveUp
    /\ UNCHANGED live \/ \E s \in Sockets : Admit(s) \/ Leave(s)

LEMMA WritersOfEach ==
  ASSUME Next
  PROVE  Writers
<1> USE DEF Writers, user, pause, gate, process, exit, dog, control
<1>1. ASSUME NEW t \in Tasks, Activate(t)
      PROVE  Writers
  BY <1>1 DEF Activate
<1>2. ASSUME NEW t \in Tasks, Identify(t)
      PROVE  Writers
  BY <1>2 DEF Identify
<1>3. ASSUME NEW t \in Tasks, Publish(t)
      PROVE  Writers
  BY <1>3 DEF Publish
<1>4. ASSUME NEW t \in Tasks, Ensure(t)
      PROVE  Writers
  BY <1>4 DEF Ensure
<1>5. ASSUME NEW t \in Tasks, EnsureLock(t)
      PROVE  Writers
  BY <1>5 DEF EnsureLock
<1>6. ASSUME NEW t \in Tasks, EnsureChild(t)
      PROVE  Writers
  BY <1>6 DEF EnsureChild
<1>7. ASSUME NEW t \in Tasks, EnsureSpawn(t)
      PROVE  Writers
  BY <1>7 DEF EnsureSpawn
<1>8. ASSUME NEW t \in Tasks, EnsureRecord(t)
      PROVE  Writers
  BY <1>8 DEF EnsureRecord
<1>9. ASSUME NEW t \in Tasks, EnsureUnlock(t)
      PROVE  Writers
  BY <1>9 DEF EnsureUnlock
<1>10. ASSUME NEW t \in Tasks, Resume(t)
       PROVE  Writers
  BY <1>10 DEF Resume
<1>11. ASSUME NEW t \in Tasks, ResumeOpen(t)
       PROVE  Writers
  BY <1>11 DEF ResumeOpen
<1>12. ASSUME NEW t \in Tasks, ResumeFlags(t)
       PROVE  Writers
  BY <1>12 DEF ResumeFlags, ResumeAuto
<1>13. ASSUME NEW t \in Tasks, ResumeReady(t)
       PROVE  Writers
  BY <1>13 DEF ResumeReady
<1>14. ASSUME NEW t \in Tasks, StopLock(t)
       PROVE  Writers
  BY <1>14 DEF StopLock
<1>15. ASSUME NEW t \in Tasks, StopDrain(t)
       PROVE  Writers
  BY <1>15 DEF StopDrain
<1>16. ASSUME NEW t \in Tasks, StopWait(t)
       PROVE  Writers
  BY <1>16 DEF StopWait
<1>17. ASSUME NEW t \in Tasks, StopKill(t)
       PROVE  Writers
  BY <1>17 DEF StopKill
<1>18. ASSUME NEW t \in Tasks, PauseHeadroom(t)
       PROVE  Writers
  BY <1>18 DEF PauseHeadroom, ShutGate
<1>19. ASSUME NEW t \in Tasks, StartHeadroom(t)
       PROVE  Writers
  BY <1>19 DEF StartHeadroom
<1>20. ASSUME NEW t \in Tasks, ForceRestartHeadroom(t)
       PROVE  Writers
  BY <1>20 DEF ForceRestartHeadroom
<1>21. ASSUME NEW t \in Tasks, ExitHeadroom(t)
       PROVE  Writers
  BY <1>21 DEF ExitHeadroom, ShutGate
<1>22. ASSUME NEW t \in Tasks, QuitRetire(t)
       PROVE  Writers
  BY <1>22 DEF QuitRetire
<1>23. ASSUME NEW t \in Tasks, QuitTeardown(t)
       PROVE  Writers
  BY <1>23 DEF QuitTeardown
<1>24. ASSUME NEW t \in Tasks, ExitProcess(t)
       PROVE  Writers
  BY <1>24 DEF ExitProcess
<1>25. ASSUME NEW t \in Tasks, CancelPendingExit(t)
       PROVE  Writers
  BY <1>25 DEF CancelPendingExit, ClearStarted
<1>26. ASSUME NEW t \in Tasks, ReopenGate(t)
       PROVE  Writers
  BY <1>26 DEF ReopenGate
<1>27. ASSUME NEW t \in Tasks, EnsureReadyForTray(t)
       PROVE  Writers
  BY <1>27 DEF EnsureReadyForTray
<1>28. ASSUME NEW t \in Tasks, RestartApp(t)
       PROVE  Writers
  BY <1>28 DEF RestartApp, ShutGate
<1>29. ASSUME NEW t \in Tasks, RestartRetire(t)
       PROVE  Writers
  BY <1>29 DEF RestartRetire
<1>30. ASSUME NEW t \in Tasks, Done(t)
       PROVE  Writers
  BY <1>30 DEF Done
<1>31. ASSUME ArmCodexRouter
       PROVE  Writers
  BY <1>31 DEF ArmCodexRouter
<1>32. ASSUME WatchdogTick
       PROVE  Writers
  BY <1>32 DEF WatchdogTick
<1>33. ASSUME WatchdogProbe
       PROVE  Writers
  BY <1>33 DEF WatchdogProbe
<1>34. ASSUME WatchdogRecover
       PROVE  Writers
  BY <1>34 DEF WatchdogRecover, SpawnArmer
<1>35. ASSUME WatchdogGiveUp
       PROVE  Writers
  BY <1>35 DEF WatchdogGiveUp, GiveUpAuto
<1>36. ASSUME BackendBoots
       PROVE  Writers
  BY <1>36 DEF BackendBoots
<1>37. ASSUME BackendFails
       PROVE  Writers
  BY <1>37 DEF BackendFails
<1>38. ASSUME NEW s \in Sockets, Admit(s) \/ Leave(s)
       PROVE  Writers
  BY <1>38 DEF Admit, Leave
<1>39. ASSUME NEW t \in Users, NEW command \in Commands, Give(t, command)
       PROVE  Writers
  BY <1>39 DEF Give
<1>40. QED
  BY <1>1, <1>2, <1>3, <1>4, <1>5, <1>6, <1>7, <1>8, <1>9, <1>10, <1>11, <1>12,
     <1>13, <1>14, <1>15, <1>16, <1>17, <1>18, <1>19, <1>20, <1>21, <1>22, <1>23,
     <1>24, <1>25, <1>26, <1>27, <1>28, <1>29, <1>30, <1>31, <1>32, <1>33, <1>34,
     <1>35, <1>36, <1>37, <1>38, <1>39, NextCases
     DEF ActivateCodexRouter, EnsureHeadroomRunning, ResumeRuntime, StopHeadroomIf,
         CommandStep, FinishExitHeadroom, WatchdogStep, OtherStep
-----------------------------------------------------------------------------
\* TypeOK without its first conjunct, which Frames implies.
Flag(x) == x \in BOOLEAN
FlagsOK ==
    /\ Flag(paused) /\ Flag(autoPaused) /\ Flag(bypass) /\ Flag(draining)
    /\ Flag(tracked) /\ Flag(starting) /\ Flag(exitStarted) /\ Flag(shuttingDown)
    /\ Flag(restarting) /\ Flag(hungTried)
DataOK ==
    /\ failed \subseteq Tasks /\ foreground \subseteq Users
    /\ commands \in 0..MaxCommands /\ faults \in 0..MaxFaults
    /\ live \subseteq Sockets
    /\ lifecycle \in Tasks \cup {Nobody}
    /\ backend \in {"none", "booting", "ready", "hung"}
    /\ route \in {"proxy", "direct"}
    /\ exitRetiring \in Users \cup {Nobody}
    /\ retirement \in [Tasks -> BOOLEAN]
    /\ app \in {"running", "exited"}
    /\ strikes \in 0..(MaxStrikes - 1)

LEMMA TypeOKParts == Frames => (TypeOK <=> FlagsOK /\ DataOK)
<1>1. Frames => \A t \in Tasks : pc[t] = "idle" => stk[t] = <<>>
  BY OwnSteps
<1>2. QED
  BY <1>1 DEF TypeOK, FlagsOK, Flag, DataOK

LEMMA FaultTyped ==
  ASSUME DataOK
  PROVE  \A kind : Fault(kind) => faults' \in 0..MaxFaults
BY CommandAssumption DEF DataOK, Fault

LEMMA FlagsStep ==
  ASSUME FlagsOK, Frames, Next
  PROVE  FlagsOK'
<1> Flag(TRUE) /\ Flag(FALSE)
  BY DEF Flag
<1> USE DEF FlagsOK, user, pause, gate, process, exit, dog, control
<1>1. ASSUME NEW t \in Tasks, Activate(t)
      PROVE  FlagsOK'
  BY <1>1 DEF Activate
<1>2. ASSUME NEW t \in Tasks, Identify(t)
      PROVE  FlagsOK'
  BY <1>2 DEF Identify
<1>3. ASSUME NEW t \in Tasks, Publish(t)
      PROVE  FlagsOK'
  BY <1>3 DEF Publish
<1>4. ASSUME NEW t \in Tasks, Ensure(t)
      PROVE  FlagsOK'
  BY <1>4 DEF Ensure
<1>5. ASSUME NEW t \in Tasks, EnsureLock(t)
      PROVE  FlagsOK'
  BY <1>5 DEF EnsureLock
<1>6. ASSUME NEW t \in Tasks, EnsureChild(t)
      PROVE  FlagsOK'
  BY <1>6 DEF EnsureChild
<1>7. ASSUME NEW t \in Tasks, EnsureSpawn(t)
      PROVE  FlagsOK'
  BY <1>7 DEF EnsureSpawn
<1>8. ASSUME NEW t \in Tasks, EnsureRecord(t)
      PROVE  FlagsOK'
  BY <1>8 DEF EnsureRecord
<1>9. ASSUME NEW t \in Tasks, EnsureUnlock(t)
      PROVE  FlagsOK'
  BY <1>9 DEF EnsureUnlock
<1>10. ASSUME NEW t \in Tasks, Resume(t)
       PROVE  FlagsOK'
  BY <1>10 DEF Resume
<1>11. ASSUME NEW t \in Tasks, ResumeOpen(t)
       PROVE  FlagsOK'
  BY <1>11 DEF ResumeOpen
<1>12. ASSUME NEW t \in Tasks, ResumeFlags(t)
       PROVE  FlagsOK'
  BY <1>12 DEF ResumeFlags, ResumeAuto
<1>13. ASSUME NEW t \in Tasks, ResumeReady(t)
       PROVE  FlagsOK'
  BY <1>13 DEF ResumeReady
<1>14. ASSUME NEW t \in Tasks, StopLock(t)
       PROVE  FlagsOK'
  BY <1>14 DEF StopLock
<1>15. ASSUME NEW t \in Tasks, StopDrain(t)
       PROVE  FlagsOK'
  BY <1>15 DEF StopDrain
<1>16. ASSUME NEW t \in Tasks, StopWait(t)
       PROVE  FlagsOK'
  BY <1>16 DEF StopWait
<1>17. ASSUME NEW t \in Tasks, StopKill(t)
       PROVE  FlagsOK'
  BY <1>17 DEF StopKill
<1>18. ASSUME NEW t \in Tasks, PauseHeadroom(t)
       PROVE  FlagsOK'
  BY <1>18 DEF PauseHeadroom, ShutGate
<1>19. ASSUME NEW t \in Tasks, StartHeadroom(t)
       PROVE  FlagsOK'
  BY <1>19 DEF StartHeadroom
<1>20. ASSUME NEW t \in Tasks, ForceRestartHeadroom(t)
       PROVE  FlagsOK'
  BY <1>20 DEF ForceRestartHeadroom
<1>21. ASSUME NEW t \in Tasks, ExitHeadroom(t)
       PROVE  FlagsOK'
  BY <1>21 DEF ExitHeadroom, ShutGate
<1>22. ASSUME NEW t \in Tasks, QuitRetire(t)
       PROVE  FlagsOK'
  BY <1>22 DEF QuitRetire
<1>23. ASSUME NEW t \in Tasks, QuitTeardown(t)
       PROVE  FlagsOK'
  BY <1>23 DEF QuitTeardown
<1>24. ASSUME NEW t \in Tasks, ExitProcess(t)
       PROVE  FlagsOK'
  BY <1>24 DEF ExitProcess
<1>25. ASSUME NEW t \in Tasks, CancelPendingExit(t)
       PROVE  FlagsOK'
  BY <1>25 DEF CancelPendingExit, ClearStarted
<1>26. ASSUME NEW t \in Tasks, ReopenGate(t)
       PROVE  FlagsOK'
  BY <1>26 DEF ReopenGate
<1>27. ASSUME NEW t \in Tasks, EnsureReadyForTray(t)
       PROVE  FlagsOK'
  BY <1>27 DEF EnsureReadyForTray
<1>28. ASSUME NEW t \in Tasks, RestartApp(t)
       PROVE  FlagsOK'
  BY <1>28 DEF RestartApp, ShutGate
<1>29. ASSUME NEW t \in Tasks, RestartRetire(t)
       PROVE  FlagsOK'
  BY <1>29 DEF RestartRetire
<1>30. ASSUME NEW t \in Tasks, Done(t)
       PROVE  FlagsOK'
  BY <1>30 DEF Done
<1>31. ASSUME ArmCodexRouter
       PROVE  FlagsOK'
  BY <1>31 DEF ArmCodexRouter
<1>32. ASSUME WatchdogTick
       PROVE  FlagsOK'
  BY <1>32 DEF WatchdogTick
<1>33. ASSUME WatchdogProbe
       PROVE  FlagsOK'
  BY <1>33 DEF WatchdogProbe, LastStrike
<1>34. ASSUME WatchdogRecover
       PROVE  FlagsOK'
  BY <1>34 DEF WatchdogRecover, SpawnArmer
<1>35. ASSUME WatchdogGiveUp
       PROVE  FlagsOK'
  BY <1>35 DEF WatchdogGiveUp, GiveUpAuto
<1>36. ASSUME BackendBoots
       PROVE  FlagsOK'
  BY <1>36 DEF BackendBoots
<1>37. ASSUME BackendFails
       PROVE  FlagsOK'
  BY <1>37 DEF BackendFails
<1>38. ASSUME NEW s \in Sockets, Admit(s) \/ Leave(s)
       PROVE  FlagsOK'
  BY <1>38 DEF Admit, Leave
<1>39. ASSUME NEW t \in Users, NEW command \in Commands, Give(t, command)
       PROVE  FlagsOK'
  BY <1>39 DEF Give
<1>40. QED
  BY <1>1, <1>2, <1>3, <1>4, <1>5, <1>6, <1>7, <1>8, <1>9, <1>10, <1>11, <1>12,
     <1>13, <1>14, <1>15, <1>16, <1>17, <1>18, <1>19, <1>20, <1>21, <1>22, <1>23,
     <1>24, <1>25, <1>26, <1>27, <1>28, <1>29, <1>30, <1>31, <1>32, <1>33, <1>34,
     <1>35, <1>36, <1>37, <1>38, <1>39, NextCases
     DEF ActivateCodexRouter, EnsureHeadroomRunning, ResumeRuntime, StopHeadroomIf,
         CommandStep, FinishExitHeadroom, WatchdogStep, OtherStep

LEMMA DataStep ==
  ASSUME DataOK, Frames, Next
  PROVE  DataOK'
<1> USE FaultTyped DEF DataOK, user, pause, gate, process, exit, dog, control, StopHeartbeat
<1>1. ASSUME NEW t \in Tasks, Activate(t)
      PROVE  DataOK'
  BY <1>1 DEF Activate
<1>2. ASSUME NEW t \in Tasks, Identify(t)
      PROVE  DataOK'
  BY <1>2 DEF Identify
<1>3. ASSUME NEW t \in Tasks, Publish(t)
      PROVE  DataOK'
  BY <1>3 DEF Publish
<1>4. ASSUME NEW t \in Tasks, Ensure(t)
      PROVE  DataOK'
  BY <1>4 DEF Ensure
<1>5. ASSUME NEW t \in Tasks, EnsureLock(t)
      PROVE  DataOK'
  BY <1>5 DEF EnsureLock
<1>6. ASSUME NEW t \in Tasks, EnsureChild(t)
      PROVE  DataOK'
  BY <1>6 DEF EnsureChild
<1>7. ASSUME NEW t \in Tasks, EnsureSpawn(t)
      PROVE  DataOK'
  BY <1>7 DEF EnsureSpawn
<1>8. ASSUME NEW t \in Tasks, EnsureRecord(t)
      PROVE  DataOK'
  BY <1>8 DEF EnsureRecord
<1>9. ASSUME NEW t \in Tasks, EnsureUnlock(t)
      PROVE  DataOK'
  BY <1>9 DEF EnsureUnlock
<1>10. ASSUME NEW t \in Tasks, Resume(t)
       PROVE  DataOK'
  BY <1>10 DEF Resume
<1>11. ASSUME NEW t \in Tasks, ResumeOpen(t)
       PROVE  DataOK'
  BY <1>11 DEF ResumeOpen
<1>12. ASSUME NEW t \in Tasks, ResumeFlags(t)
       PROVE  DataOK'
  BY <1>12 DEF ResumeFlags, ResumeAuto
<1>13. ASSUME NEW t \in Tasks, ResumeReady(t)
       PROVE  DataOK'
  BY <1>13 DEF ResumeReady
<1>14. ASSUME NEW t \in Tasks, StopLock(t)
       PROVE  DataOK'
  BY <1>14 DEF StopLock
<1>15. ASSUME NEW t \in Tasks, StopDrain(t)
       PROVE  DataOK'
  BY <1>15 DEF StopDrain
<1>16. ASSUME NEW t \in Tasks, StopWait(t)
       PROVE  DataOK'
  BY <1>16 DEF StopWait
<1>17. ASSUME NEW t \in Tasks, StopKill(t)
       PROVE  DataOK'
  BY <1>17 DEF StopKill
<1>18. ASSUME NEW t \in Tasks, PauseHeadroom(t)
       PROVE  DataOK'
  BY <1>18 DEF PauseHeadroom, ShutGate
<1>19. ASSUME NEW t \in Tasks, StartHeadroom(t)
       PROVE  DataOK'
  BY <1>19 DEF StartHeadroom
<1>20. ASSUME NEW t \in Tasks, ForceRestartHeadroom(t)
       PROVE  DataOK'
  BY <1>20 DEF ForceRestartHeadroom
<1>21. ASSUME NEW t \in Tasks, ExitHeadroom(t)
       PROVE  DataOK'
  BY <1>21, OwnSteps DEF ExitHeadroom, ShutGate, At, UserSteps
<1>22. ASSUME NEW t \in Tasks, QuitRetire(t)
       PROVE  DataOK'
  BY <1>22 DEF QuitRetire
<1>23. ASSUME NEW t \in Tasks, QuitTeardown(t)
       PROVE  DataOK'
  BY <1>23 DEF QuitTeardown
<1>24. ASSUME NEW t \in Tasks, ExitProcess(t)
       PROVE  DataOK'
  BY <1>24 DEF ExitProcess
<1>25. ASSUME NEW t \in Tasks, CancelPendingExit(t)
       PROVE  DataOK'
  BY <1>25 DEF CancelPendingExit, ClearStarted
<1>26. ASSUME NEW t \in Tasks, ReopenGate(t)
       PROVE  DataOK'
  BY <1>26 DEF ReopenGate
<1>27. ASSUME NEW t \in Tasks, EnsureReadyForTray(t)
       PROVE  DataOK'
  BY <1>27 DEF EnsureReadyForTray
<1>28. ASSUME NEW t \in Tasks, RestartApp(t)
       PROVE  DataOK'
  BY <1>28 DEF RestartApp, ShutGate
<1>29. ASSUME NEW t \in Tasks, RestartRetire(t)
       PROVE  DataOK'
  BY <1>29 DEF RestartRetire
<1>30. ASSUME NEW t \in Tasks, Done(t)
       PROVE  DataOK'
  BY <1>30 DEF Done
<1>31. ASSUME ArmCodexRouter
       PROVE  DataOK'
  BY <1>31 DEF ArmCodexRouter
<1>32. ASSUME WatchdogTick
       PROVE  DataOK'
  BY <1>32, CommandAssumption DEF WatchdogTick
<1>33. ASSUME WatchdogProbe
       PROVE  DataOK'
  BY <1>33, CommandAssumption DEF WatchdogProbe, LastStrike
<1>34. ASSUME WatchdogRecover
       PROVE  DataOK'
  BY <1>34, CommandAssumption DEF WatchdogRecover, SpawnArmer
<1>35. ASSUME WatchdogGiveUp
       PROVE  DataOK'
  BY <1>35, CommandAssumption DEF WatchdogGiveUp, GiveUpAuto
<1>36. ASSUME BackendBoots
       PROVE  DataOK'
  BY <1>36 DEF BackendBoots
<1>37. ASSUME BackendFails
       PROVE  DataOK'
  BY <1>37 DEF BackendFails
<1>38. ASSUME NEW s \in Sockets, Admit(s) \/ Leave(s)
       PROVE  DataOK'
  BY <1>38 DEF Admit, Leave
<1>39. ASSUME NEW t \in Users, NEW command \in Commands, Give(t, command)
       PROVE  DataOK'
  BY <1>39, CommandAssumption DEF Give
<1>40. QED
  BY <1>1, <1>2, <1>3, <1>4, <1>5, <1>6, <1>7, <1>8, <1>9, <1>10, <1>11, <1>12,
     <1>13, <1>14, <1>15, <1>16, <1>17, <1>18, <1>19, <1>20, <1>21, <1>22, <1>23,
     <1>24, <1>25, <1>26, <1>27, <1>28, <1>29, <1>30, <1>31, <1>32, <1>33, <1>34,
     <1>35, <1>36, <1>37, <1>38, <1>39, NextCases
     DEF ActivateCodexRouter, EnsureHeadroomRunning, ResumeRuntime, StopHeadroomIf,
         CommandStep, FinishExitHeadroom, WatchdogStep, OtherStep
-----------------------------------------------------------------------------
\* The moves that the invariant looks at, and where they lead.
Special(t) ==
    \/ Acquires(t) \/ FindsNone(t) \/ Records(t) \/ Opens(t) \/ Reopens(t)
    \/ EndsBypass(t) \/ Kills(t) \/ Begins(t) \/ Cancels(t) \/ TearsDown(t)
    \/ Restarts(t) \/ GivesUp(t)

LEMMA SpecialSteps ==
  ASSUME NEW t \in Tasks
  PROVE  /\ Acquires(t) => pc[t] = "ensureLock" /\ pc'[t] = "ensureChild"
         /\ FindsNone(t) => pc[t] = "ensureChild" /\ pc'[t] = "ensureSpawn"
         /\ Records(t) => /\ pc[t] = "ensureRecord"
                          /\ pc'[t] = IF shuttingDown \/ exitStarted \/ paused
                                      THEN "ensureDirect" ELSE "ensureOpen"
         /\ Opens(t) => pc[t] = "ensureOpen" /\ pc'[t] = "ensureDirect"
         /\ Reopens(t) => pc[t] = "resumeOpen" /\ pc'[t] = "resumeFlags"
         /\ EndsBypass(t) => pc[t] = "resumeBypass" /\ pc'[t] = "ensure"
         /\ Kills(t) => pc[t] = "stopKill" /\ pc'[t] \in Backs
         /\ Begins(t) => pc[t] = "quit" /\ pc'[t] = "quitMark"
         /\ Cancels(t) => pc[t] = "reopen" /\ pc'[t] = "reopenClear"
         /\ TearsDown(t) => pc[t] = "quitRetire" /\ pc'[t] = "quitTeardown"
         /\ Restarts(t) => pc[t] \in {"restart", "restartShut"} /\ pc'[t] = "restartShut"
         /\ GivesUp(t) => pc[t] = "dogAuto" /\ pc'[t] = "stop"
<1> USE DEF At, Moves
<1>1. /\ Acquires(t) => pc[t] = "ensureLock" /\ pc'[t] = "ensureChild"
      /\ FindsNone(t) => pc[t] = "ensureChild" /\ pc'[t] = "ensureSpawn"
      /\ Opens(t) => pc[t] = "ensureOpen" /\ pc'[t] = "ensureDirect"
  BY DEF Acquires, FindsNone, Opens, EnsureLock, EnsureChild
<1>2. Records(t) => /\ pc[t] = "ensureRecord"
                    /\ pc'[t] = IF shuttingDown \/ exitStarted \/ paused
                                THEN "ensureDirect" ELSE "ensureOpen"
  BY DEF Records
<1>3. /\ Reopens(t) => pc[t] = "resumeOpen" /\ pc'[t] = "resumeFlags"
      /\ EndsBypass(t) => pc[t] = "resumeBypass" /\ pc'[t] = "ensure"
      /\ Kills(t) => pc[t] = "stopKill" /\ pc'[t] \in Backs
  BY DEF Reopens, EndsBypass, Kills, ResumeOpen, StopKill
<1>4. /\ Begins(t) => pc[t] = "quit" /\ pc'[t] = "quitMark"
      /\ Cancels(t) => pc[t] = "reopen" /\ pc'[t] = "reopenClear"
      /\ TearsDown(t) => pc[t] = "quitRetire" /\ pc'[t] = "quitTeardown"
      /\ Restarts(t) => pc[t] \in {"restart", "restartShut"} /\ pc'[t] = "restartShut"
      /\ GivesUp(t) => pc[t] = "dogAuto" /\ pc'[t] = "stop"
  BY DEF Begins, Cancels, TearsDown, Restarts, GivesUp, QuitRetire, RestartApp, ShutGate, GiveUpAuto
<1>5. QED
  BY <1>1, <1>2, <1>3, <1>4

\* What a step is for one task.
LEMMA TaskMoves ==
  ASSUME Frames, Next, NEW u \in Tasks
  PROVE  /\ Frames'
         /\ pc'[u] = pc[u] \/ Harmless(pc[u], pc'[u]) \/ Special(u)
         /\ Holds(u)' => Holds(u) \/ Acquires(u)
<1>1. CASE Kept
  BY <1>1 DEF Kept
<1>2. ASSUME NEW t \in Tasks, Special(t)
      PROVE  /\ Frames'
             /\ pc'[u] = pc[u] \/ Special(u)
             /\ Holds(u)' => Holds(u) \/ Acquires(u)
  <2>1. PICK q : Moves(t, q)
    BY <1>2 DEF Special, Acquires, FindsNone, Records, Opens, Reopens, EndsBypass, Kills,
                Begins, Cancels, TearsDown, Restarts, GivesUp
  <2>2. CASE u = t
    <3>1. ~Acquires(t) => pc[t] # "ensureLock"
      BY <1>2, SpecialSteps DEF Special
    <3>2. QED
      BY <1>2, <2>1, <2>2, <3>1 DEF Moves
  <2>3. CASE u # t
    <3>1. Frames' /\ pc'[u] = pc[u] /\ stk'[u] = stk[u]
      BY <2>1, <2>3 DEF Moves
    <3>2. QED
      BY <3>1 DEF Holds
  <2>4. QED
    BY <2>2, <2>3
<1>3. QED
  BY <1>1, <1>2, ControlStep DEF Special

LEMMA OneHolder ==
  ASSUME LockHeld, NEW t \in Tasks, NEW u \in Tasks, Holds(t), Holds(u)
  PROVE  t = u
BY DEF LockHeld

\* The last step of ensure_headroom_running leaves the part that holds the lock.
LEMMA UnlockReleases ==
  ASSUME Frames, NEW t \in Tasks, EnsureUnlock(t)
  PROVE  ~Holds(t)'
<1> DEFINE s == stk[t]
<1>1. pc[t] = "ensureUnlock" /\ Frame(t, pc[t], s)
  BY DEF Frames, EnsureUnlock, At
<1>2. FromCommand(t, s) \/ FromResume(t, s)
  BY <1>1 DEF Frame, Own, UserSteps, DogSteps, ArmerSteps, ActivateSteps, ResumeSteps,
              StopSteps
<1>3. pc'[t] = Head(s)
  <2>1. Head(s) \in Steps /\ pc \in [Tasks -> Steps]
    BY <1>2 DEF FromCommand, FromResume, Resumes, Steps, UserSteps, DogSteps, ArmerSteps,
                ResumeSteps, Frames
  <2>2. QED
    BY <2>1 DEF EnsureUnlock, Return
<1>4. pc'[t] \notin LockedSteps \cup ActivateSteps
  BY <1>2, <1>3 DEF FromCommand, FromResume, Resumes, LockedSteps, ActivateSteps
<1>5. QED
  BY <1>4 DEF Holds

LEMMA LockStep ==
  ASSUME Frames, LockHeld, DataOK, Next
  PROVE  LockHeld'
<1> SUFFICES ASSUME NEW u \in Tasks, Holds(u)'
             PROVE  lifecycle' = u
  BY DEF LockHeld
<1>1. u # Nobody
  BY CommandAssumption
<1>2. CASE Acquires(u)
  BY <1>2 DEF Acquires
<1>3. CASE Holds(u)
  <2>1. lifecycle = u
    BY <1>3 DEF LockHeld
  <2>2. ASSUME NEW t \in Tasks, EnsureLock(t)
        PROVE  FALSE
    BY <1>1, <2>1, <2>2 DEF EnsureLock
  <2>3. ASSUME NEW t \in Tasks, EnsureUnlock(t)
        PROVE  FALSE
    <3>1. Holds(t)
      BY <2>3 DEF EnsureUnlock, At, Holds, LockedSteps
    <3>2. QED
      BY <1>3, <2>3, <3>1, OneHolder, UnlockReleases
  <2>4. ASSUME NEW t \in Tasks, StopLock(t)
        PROVE  lifecycle' = lifecycle
    BY <1>1, <2>1, <2>4 DEF StopLock
  <2>5. ASSUME NEW t \in Tasks, StopKill(t)
        PROVE  lifecycle' = lifecycle
    <3>1. ~Holds(t)
      BY <2>5 DEF StopKill, At, Holds, LockedSteps, ActivateSteps
    <3>2. QED
      BY <1>3, <2>1, <2>5, <3>1 DEF StopKill
  <2>6. QED
    BY <2>1, <2>2, <2>3, <2>4, <2>5, WritersOfEach DEF Writers
<1>4. QED
  BY <1>2, <1>3, TaskMoves

LEMMA SpawnStep ==
  ASSUME Frames, LockHeld, Recorded, SpawnsAlone, Next
  PROVE  SpawnsAlone'
<1> SUFFICES ASSUME NEW u \in Tasks, pc'[u] = "ensureSpawn"
             PROVE  backend' = "none"
  BY DEF SpawnsAlone
<1> USE DEF At, Holds, LockedSteps
<1>1. CASE pc[u] = "ensureSpawn"
  <2>1. backend = "none"
    BY <1>1 DEF SpawnsAlone
  <2>2. ASSUME NEW t \in Tasks, EnsureSpawn(t)
        PROVE  FALSE
    <3>1. t = u
      BY <1>1, <2>2, OneHolder DEF EnsureSpawn
    <3>2. pc \in [Tasks -> Steps]
      BY DEF Frames
    <3>3. QED
      BY <2>2, <3>1, <3>2 DEF EnsureSpawn, Goto
  <2>3. ASSUME NEW t \in Tasks, StopKill(t)
        PROVE  backend' = "none"
    BY <2>3 DEF StopKill
  <2>4. ~BackendBoots /\ ~BackendFails
    BY <2>1 DEF BackendBoots, BackendFails
  <2>5. QED
    BY <2>1, <2>2, <2>3, <2>4, WritersOfEach DEF Writers
<1>2. CASE FindsNone(u)
  <2>1. pc[u] = "ensureChild" /\ ~ChildAlive /\ backend' = backend
    BY <1>2 DEF FindsNone, EnsureChild, process
  <2>2. \A w \in Tasks : pc[w] # "ensureRecord"
    BY <2>1, OneHolder
  <2>3. QED
    BY <2>1, <2>2 DEF ChildAlive, Recorded
<1>3. CASE Special(u) /\ ~FindsNone(u)
  BY <1>3, SpecialSteps DEF Special, Backs
<1>4. QED
  BY <1>1, <1>2, <1>3, TaskMoves DEF Harmless

LEMMA RecordStep ==
  ASSUME Frames, Recorded, Next
  PROVE  Recorded'
<1> SUFFICES ASSUME backend' # "none", ~tracked'
             PROVE  \E t \in Tasks : pc'[t] = "ensureRecord"
  BY DEF Recorded
<1>1. ~\E t \in Tasks : StopKill(t)
  BY DEF StopKill
<1>2. CASE backend = "none"
  <2>1. ~BackendBoots /\ ~BackendFails
    BY <1>2 DEF BackendBoots, BackendFails
  <2>2. PICK t \in Tasks : EnsureSpawn(t)
    BY <1>1, <1>2, <2>1, WritersOfEach DEF Writers
  <2>3. pc \in [Tasks -> Steps]
    BY DEF Frames
  <2>4. pc'[t] = "ensureRecord"
    BY <1>2, <2>2, <2>3 DEF EnsureSpawn, Goto
  <2>5. QED
    BY <2>4
<1>3. CASE backend # "none" /\ tracked
  <2>1. ASSUME NEW t \in Tasks, EnsureChild(t)
        PROVE  tracked' = tracked
    BY <1>3, <2>1 DEF EnsureChild, ChildAlive, process
  <2>2. ASSUME NEW t \in Tasks, EnsureRecord(t)
        PROVE  tracked' = TRUE \/ tracked' = tracked
    BY <2>2 DEF EnsureRecord
  <2>3. QED
    BY <1>1, <1>3, <2>1, <2>2, WritersOfEach DEF Writers
<1>4. CASE backend # "none" /\ ~tracked
  <2>1. PICK w \in Tasks : pc[w] = "ensureRecord"
    BY <1>4 DEF Recorded
  <2>2. CASE pc'[w] = pc[w]
    BY <2>1, <2>2
  <2>3. CASE Records(w)
    BY <2>3 DEF Records, EnsureRecord, At
  <2>4. QED
    BY <2>1, <2>2, <2>3, TaskMoves, SpecialSteps DEF Harmless, Special
<1>5. QED
  BY <1>2, <1>3, <1>4

\* What a step does to the flags of a quit: it begins one, raises its flag, takes the
\* flag, lowers it, or makes room for the next.
FlagStep(t) ==
    \/ /\ pc[t] = "quit" /\ ~exitStarted /\ exitStarted' = TRUE
       /\ UNCHANGED <<exitRetiring, retirement>>
    \/ /\ pc[t] = "quitMark" /\ pc'[t] = "quitShut"
       /\ exitRetiring' = t /\ retirement' = [retirement EXCEPT ![t] = TRUE]
       /\ UNCHANGED exitStarted
    \/ /\ QuitRetire(t) /\ retirement' = [retirement EXCEPT ![t] = FALSE]
       /\ UNCHANGED <<exitStarted, exitRetiring>>
    \/ /\ QuitPending /\ retirement' = [retirement EXCEPT ![exitRetiring] = FALSE]
       /\ pc[t] = "reopen" /\ UNCHANGED <<exitStarted, exitRetiring>>
    \/ /\ pc[t] = "reopenClear" /\ pc'[t] = "reopenCheck" /\ exitStarted' = FALSE
       /\ UNCHANGED <<exitRetiring, retirement>>

LEMMA FlagSteps ==
  ASSUME Frames, Next, ~UNCHANGED <<exitStarted, exitRetiring, retirement>>
  PROVE  \E t \in Tasks : FlagStep(t)
<1> USE DEF At
<1>1. \A t \in Tasks : \A q : Goto(t, q) => pc'[t] = q
  BY DEF Goto, Frames
<1>2. ASSUME NEW t \in Tasks, ExitHeadroom(t)
      PROVE  FlagStep(t)
  BY <1>1, <1>2 DEF ExitHeadroom, ShutGate, exit, FlagStep
<1>3. ASSUME NEW t \in Tasks, QuitRetire(t)
      PROVE  FlagStep(t)
  BY <1>3 DEF QuitRetire, FlagStep
<1>4. ASSUME NEW t \in Tasks, CancelPendingExit(t)
      PROVE  FlagStep(t)
  BY <1>1, <1>4 DEF CancelPendingExit, ClearStarted, FlagStep
<1>5. QED
  BY <1>2, <1>3, <1>4, WritersOfEach DEF Writers

LEMMA QuitStep ==
  ASSUME Frames, DataOK, QuitFlags, Next
  PROVE  QuitFlags'
<1>1. retirement \in [Tasks -> BOOLEAN] /\ exitRetiring \in Users \cup {Nobody}
  BY DEF DataOK
<1>2. \A u \in Tasks :
         /\ pc'[u] = "quitTeardown" => pc[u] = "quitTeardown" \/ TearsDown(u)
         /\ pc'[u] = "quitMark" => pc[u] = "quitMark" \/ Begins(u)
         /\ pc'[u] = "reopenClear" => pc[u] = "reopenClear" \/ Cancels(u)
  BY TaskMoves, SpecialSteps DEF Harmless, Special, Backs
<1>3. \A u \in Tasks :
         /\ retirement[u] => exitStarted /\ exitRetiring = u
         /\ pc[u] = "quitTeardown" => exitStarted /\ exitRetiring = u /\ ~retirement[u]
         /\ pc[u] \in Between =>
               /\ exitStarted /\ \A v \in Tasks : ~retirement[v]
               /\ \A v \in Tasks : v # u => pc[v] \notin Between \cup {"quitTeardown"}
  BY DEF QuitFlags
<1> DEFINE Marked == Between \cup {"quitTeardown"}
<1>4. ASSUME \A v \in Tasks : retirement'[v] => exitStarted' /\ exitRetiring' = v,
             NEW t \in Tasks, \A v \in Tasks : v # t => pc'[v] \notin Marked,
             pc'[t] = "quitTeardown" => exitStarted' /\ exitRetiring' = t /\ ~retirement'[t],
             pc'[t] \in Between => exitStarted' /\ \A v \in Tasks : ~retirement'[v]
      PROVE  QuitFlags'
  BY <1>4 DEF QuitFlags, Between
<1>5. ASSUME NEW t \in Tasks, Begins(t)
      PROVE  QuitFlags'
  <2>1. /\ ~exitStarted /\ exitStarted' /\ retirement' = retirement
        /\ pc'[t] = "quitMark" /\ \A v \in Tasks : v # t => pc'[v] = pc[v]
    BY <1>5 DEF Begins, ExitHeadroom, ShutGate, At, Moves
  <2>2. \A v \in Tasks : ~retirement[v] /\ pc[v] \notin Marked
    BY <1>3, <2>1
  <2>3. QED
    BY <1>4, <2>1, <2>2
<1>6. ASSUME NEW t \in Tasks, Cancels(t)
      PROVE  QuitFlags'
  <2>1. /\ exitRetiring \in Tasks /\ retirement[exitRetiring]
        /\ retirement' = [retirement EXCEPT ![exitRetiring] = FALSE]
        /\ exitStarted' = exitStarted
        /\ pc'[t] = "reopenClear" /\ \A v \in Tasks : v # t => pc'[v] = pc[v]
    BY <1>1, <1>6 DEF Cancels, CancelPendingExit, ClearStarted, QuitPending, At, Moves, Tasks
  <2>2. \A v \in Tasks : pc[v] \notin Marked
    BY <1>3, <2>1
  <2>3. exitStarted' /\ \A v \in Tasks : ~retirement'[v]
    BY <1>1, <1>3, <2>1
  <2>4. QED
    BY <1>4, <2>1, <2>2, <2>3
<1>7. ASSUME NEW t \in Tasks, TearsDown(t)
      PROVE  QuitFlags'
  <2>1. /\ retirement[t] /\ retirement' = [retirement EXCEPT ![t] = FALSE]
        /\ exitStarted' = exitStarted /\ exitRetiring' = exitRetiring
        /\ pc'[t] = "quitTeardown" /\ \A v \in Tasks : v # t => pc'[v] = pc[v]
    BY <1>7 DEF TearsDown, QuitRetire, Moves
  <2>2. \A v \in Tasks : pc[v] \notin Marked
    BY <1>3, <2>1
  <2>3. exitStarted' /\ exitRetiring' = t /\ \A v \in Tasks : ~retirement'[v]
    BY <1>1, <1>3, <2>1
  <2>4. QED
    BY <1>4, <2>1, <2>2, <2>3
<1>8. ASSUME \A u \in Tasks : ~Begins(u) /\ ~Cancels(u) /\ ~TearsDown(u)
      PROVE  QuitFlags'
  <2>1. \A u \in Tasks : pc'[u] \in Marked => pc'[u] = pc[u]
    BY <1>2, <1>8 DEF Between
  <2>2. CASE UNCHANGED <<exitStarted, exitRetiring, retirement>>
    BY <1>3, <2>1, <2>2 DEF QuitFlags, Between
  <2>3. ASSUME NEW t \in Tasks, FlagStep(t)
        PROVE  QuitFlags'
    <3>1. CASE pc[t] = "quit" /\ ~exitStarted /\ exitStarted' /\ retirement' = retirement
      BY <1>3, <2>1, <3>1 DEF QuitFlags, Between
    <3>2. CASE /\ pc[t] = "quitMark" /\ pc'[t] = "quitShut" /\ exitRetiring' = t
               /\ retirement' = [retirement EXCEPT ![t] = TRUE] /\ exitStarted' = exitStarted
      <4>1. exitStarted' /\ \A v \in Tasks : retirement'[v] => v = t
        BY <1>1, <1>3, <3>2 DEF Between
      <4>2. \A v \in Tasks : pc'[v] \notin Marked
        BY <1>3, <2>1, <3>2 DEF Between
      <4>3. QED
        BY <1>4, <3>2, <4>1, <4>2
    <3>3. CASE /\ \E v : retirement' = [retirement EXCEPT ![v] = FALSE]
               /\ UNCHANGED <<exitStarted, exitRetiring>>
      <4>1. \A v \in Tasks : retirement'[v] => retirement[v]
        BY <1>1, <3>3
      <4>2. QED
        BY <1>3, <2>1, <3>3, <4>1 DEF QuitFlags, Between
    <3>4. CASE pc[t] = "reopenClear" /\ pc'[t] = "reopenCheck" /\ retirement' = retirement
      <4>1. \A v \in Tasks : ~retirement'[v] /\ pc'[v] \notin Marked
        BY <1>3, <2>1, <3>4 DEF Between
      <4>2. QED
        BY <1>4, <4>1
    <3>5. QED
      BY <2>3, <3>1, <3>2, <3>3, <3>4 DEF FlagStep
  <2>4. QED
    BY <2>2, <2>3, FlagSteps
<1>9. QED
  BY <1>5, <1>6, <1>7, <1>8

LEMMA CommandsStep ==
  ASSUME Frames, CommandsGiven, Next
  PROVE  CommandsGiven'
<1> USE DEF At
<1>1. ASSUME NEW u \in Tasks
      PROVE  /\ pc'[u] \in PauseSteps => "pause" \in Commands
             /\ pc'[u] \in QuitSteps => "quit" \in Commands
  <2>1. Special(u) => /\ pc'[u] \notin PauseSteps
                      /\ pc'[u] \in QuitSteps => pc[u] \in QuitSteps
    BY SpecialSteps DEF Special, Backs, PauseSteps, QuitSteps
  <2>2. QED
    BY <2>1, TaskMoves DEF Harmless, CommandsGiven
<1>2. exitStarted' => "quit" \in Commands
  <2>1. ASSUME NEW t \in Tasks, ExitHeadroom(t)
        PROVE  exitStarted' = exitStarted \/ "quit" \in Commands
    BY <2>1 DEF ExitHeadroom, ShutGate, exit, CommandsGiven, QuitSteps
  <2>2. ASSUME NEW t \in Tasks, QuitRetire(t) \/ CancelPendingExit(t)
        PROVE  exitStarted' = exitStarted \/ ~exitStarted'
    BY <2>2 DEF QuitRetire, CancelPendingExit, ClearStarted
  <2>3. QED
    BY <2>1, <2>2, WritersOfEach DEF Writers, CommandsGiven
<1>3. ASSUME NEW u \in Tasks, pc'[u] = "restartShut"
      PROVE  shuttingDown'
  <2>1. CASE pc[u] = "restartShut"
    <3>1. shuttingDown
      BY <2>1 DEF CommandsGiven
    <3>2. ASSUME NEW t \in Tasks, QuitTeardown(t) \/ RestartApp(t)
          PROVE  shuttingDown' = TRUE \/ shuttingDown' = shuttingDown
      BY <3>2 DEF QuitTeardown, RestartApp, ShutGate, exit
    <3>3. QED
      BY <3>1, <3>2, WritersOfEach DEF Writers
  <2>2. CASE Restarts(u)
    BY <2>2 DEF Restarts
  <2>3. QED
    BY <1>3, <2>1, <2>2, TaskMoves, SpecialSteps DEF Harmless, Special, Backs
<1>4. QED
  BY <1>1, <1>2, <1>3 DEF CommandsGiven

\* Where no user pauses, nothing but a self-heal ends the watch over a bypass.
LEMMA BypassStep ==
  ASSUME Frames, CommandsGiven, BypassWatched, "pause" \notin Commands, Next
  PROVE  BypassWatched'
<1> SUFFICES ASSUME bypass'
             PROVE  \/ autoPaused' \/ pc'[Dog] \in GivingUp
                    \/ \E t \in Tasks : pc'[t] \in Resuming
  BY DEF BypassWatched
<1> USE DEF At
<1>0. Dog \in Tasks /\ pc \in [Tasks -> Steps]
  BY DEF Tasks, Frames
<1>1. \A t \in Tasks : ResumeFlags(t) => pc'[t] = "resumeBypass"
  BY <1>0 DEF ResumeFlags, ResumeAuto, Goto
<1>2. \A t \in Tasks : pc[t] \notin PauseSteps
  BY DEF CommandsGiven
<1>3. CASE ~bypass
  <2>1. WatchdogGiveUp \/ \E t \in Tasks : ResumeFlags(t)
    BY <1>3, WritersOfEach DEF Writers
  <2>2. WatchdogGiveUp => pc'[Dog] = "dogPause"
    BY <1>0, <1>3 DEF WatchdogGiveUp, GiveUpAuto, Goto
  <2>3. QED
    BY <1>1, <2>1, <2>2 DEF GivingUp, Resuming
<1>4. CASE autoPaused
  <2>1. ASSUME NEW t \in Tasks, PauseHeadroom(t)
        PROVE  autoPaused' = autoPaused
    BY <1>2, <2>1 DEF PauseHeadroom, ShutGate, PauseSteps, pause
  <2>2. ASSUME NEW t \in Tasks, ForceRestartHeadroom(t)
        PROVE  autoPaused' = autoPaused \/ pc'[t] = "resume"
    BY <1>0, <2>2 DEF ForceRestartHeadroom, Call, pause
  <2>3. WatchdogGiveUp => autoPaused' = autoPaused \/ autoPaused' = TRUE
    BY DEF WatchdogGiveUp, GiveUpAuto
  <2>4. QED
    BY <1>1, <1>4, <2>1, <2>2, <2>3, WritersOfEach DEF Writers, Resuming
<1>5. CASE pc[Dog] \in GivingUp
  <2>1. GivesUp(Dog) => autoPaused'
    BY DEF GivesUp, GiveUpAuto
  <2>2. Special(Dog) => GivesUp(Dog)
    BY <1>0, <1>5, SpecialSteps DEF Special, GivingUp
  <2>3. QED
    BY <1>0, <1>5, <2>1, <2>2, TaskMoves DEF Harmless
<1>6. ASSUME NEW t \in Tasks, pc[t] \in Resuming
      PROVE  pc'[t] \in Resuming
  <2>1. Special(t) => Reopens(t) \/ EndsBypass(t)
    BY <1>6, SpecialSteps DEF Special, Resuming
  <2>2. ~EndsBypass(t)
    BY <1>1 DEF EndsBypass, Moves
  <2>3. QED
    BY <1>6, <2>1, <2>2, TaskMoves, SpecialSteps DEF Harmless, Resuming
<1>7. QED
  BY <1>3, <1>4, <1>5, <1>6 DEF BypassWatched

LEMMA GateStep ==
  ASSUME Frames, CommandsGiven, GateWatched,
         "pause" \notin Commands, "quit" \notin Commands, Next
  PROVE  GateWatched'
<1> DEFINE Goal == \/ paused' \/ shuttingDown' \/ backend' = "none"
                   \/ \E t \in Tasks : pc'[t] \in Watched
<1> SUFFICES ASSUME draining'
             PROVE  Goal
  BY DEF GateWatched
<1> USE DEF At
<1>0. pc \in [Tasks -> Steps] /\ Steps # {}
  BY DEF Frames, Steps
<1>1. /\ \A t \in Tasks : pc[t] \notin PauseSteps \cup QuitSteps
      /\ ~exitStarted
      /\ \A t \in Tasks : pc[t] = "restartShut" => shuttingDown
  BY DEF CommandsGiven
<1>2. shuttingDown => shuttingDown'
  <2>1. ASSUME NEW t \in Tasks, QuitTeardown(t) \/ RestartApp(t)
        PROVE  shuttingDown' = TRUE \/ shuttingDown' = shuttingDown
    BY <2>1 DEF QuitTeardown, RestartApp, ShutGate, exit
  <2>2. QED
    BY <2>1, WritersOfEach DEF Writers
<1>3. CASE ~draining
  <2>1. ASSUME NEW t \in Tasks,
               EnsureRecord(t) \/ ResumeOpen(t) \/ PauseHeadroom(t) \/ ExitHeadroom(t)
                 \/ ReopenGate(t)
        PROVE  draining' \in {draining, FALSE}
    BY <1>1, <2>1 DEF EnsureRecord, ResumeOpen, PauseHeadroom, ExitHeadroom, ReopenGate,
                      ShutGate, PauseSteps, QuitSteps, gate
  <2>2. ASSUME NEW t \in Tasks, StopDrain(t)
        PROVE  pc'[t] \in Watched
    BY <1>0, <2>2 DEF StopDrain, Goto, Watched
  <2>3. ASSUME NEW t \in Tasks, RestartApp(t)
        PROVE  draining' = draining \/ shuttingDown
    BY <1>1, <2>3 DEF RestartApp, ShutGate, gate
  <2>4. QED
    BY <1>2, <1>3, <2>1, <2>2, <2>3, WritersOfEach DEF Writers
<1>4. CASE paused
  <2>1. ASSUME NEW t \in Tasks, Resume(t)
        PROVE  pc'[t] \in Watched
    BY <1>0, <2>1 DEF Resume, Goto, Watched
  <2>2. ASSUME NEW t \in Tasks, PauseHeadroom(t)
        PROVE  paused' = paused
    BY <1>1, <2>2 DEF PauseHeadroom, ShutGate, PauseSteps, pause
  <2>3. WatchdogGiveUp => paused' = paused \/ paused' = TRUE
    BY DEF WatchdogGiveUp, GiveUpAuto
  <2>4. QED
    BY <1>4, <2>1, <2>2, <2>3, WritersOfEach DEF Writers
<1>5. CASE backend = "none"
  <2>1. ~BackendBoots /\ ~BackendFails
    BY <1>5 DEF BackendBoots, BackendFails
  <2>2. ASSUME NEW t \in Tasks, EnsureSpawn(t)
        PROVE  backend' = backend \/ pc'[t] \in Watched
    BY <1>0, <2>2 DEF EnsureSpawn, Goto, Watched
  <2>3. ASSUME NEW t \in Tasks, StopKill(t)
        PROVE  backend' = "none"
    BY <2>3 DEF StopKill
  <2>4. QED
    BY <1>5, <2>1, <2>2, <2>3, WritersOfEach DEF Writers
<1>6. ASSUME NEW t \in Tasks, pc[t] \in Watched
      PROVE  Goal
  <2>1. Special(t) => Records(t) \/ Opens(t) \/ Reopens(t) \/ Kills(t)
    BY <1>6, SpecialSteps DEF Special, Watched
  <2>2. ~Opens(t) /\ ~Reopens(t)
    BY DEF Opens, Reopens, EnsureRecord, ResumeOpen
  <2>3. Kills(t) => backend' = "none"
    BY DEF Kills, StopKill
  <2>4. ASSUME Records(t)
        PROVE  Goal
    <3>1. paused' = paused /\ shuttingDown' = shuttingDown
      BY <2>4 DEF Records, EnsureRecord, pause, exit
    <3>2. shuttingDown \/ paused \/ pc'[t] = "ensureOpen"
      BY <1>1, <2>4, SpecialSteps
    <3>3. QED
      BY <3>1, <3>2 DEF Watched
  <2>5. QED
    BY <1>6, <2>1, <2>2, <2>3, <2>4, TaskMoves DEF Harmless
<1>7. CASE shuttingDown
  BY <1>2, <1>7
<1>8. QED
  BY <1>3, <1>4, <1>5, <1>6, <1>7 DEF GateWatched
-----------------------------------------------------------------------------
LEMMA LifecycleInit ==
  ASSUME Init
  PROVE  LifecycleInv /\ BypassWatched /\ GateWatched
<1>1. Frames
  <2>1. pc \in [Tasks -> Steps] /\ \A t \in Tasks : Frame(t, pc[t], stk[t])
    BY DEF Init, Steps, Frame, Own
  <2>2. <<>> \in Seq(Steps)
    BY EmptySeq
  <2>3. stk \in [Tasks -> Seq(Steps)]
    BY <2>2 DEF Init
  <2>4. QED
    BY <2>1, <2>3 DEF Frames
<1>2. \A t \in Tasks : pc[t] = "idle" /\ ~Holds(t)
  BY DEF Init, Holds, LockedSteps, ActivateSteps
<1>3. FlagsOK
  BY DEF Init, FlagsOK, Flag
<1>4. DataOK
  BY CommandAssumption DEF Init, DataOK
<1>5. TypeOK
  BY <1>1, <1>3, <1>4, TypeOKParts
<1>6. LockHeld /\ SpawnsAlone /\ Recorded
  BY <1>2 DEF LockHeld, SpawnsAlone, Recorded, Init
<1>7. QuitFlags
  BY <1>2 DEF QuitFlags, Between, Init
<1>8. CommandsGiven
  BY <1>2 DEF CommandsGiven, Init, PauseSteps, QuitSteps
<1>9. BypassWatched /\ GateWatched
  BY DEF BypassWatched, GateWatched, Init
<1>10. QED
  BY <1>1, <1>5, <1>6, <1>7, <1>8, <1>9 DEF LifecycleInv

LEMMA LifecycleStep ==
  ASSUME LifecycleInv, [Next]_vars
  PROVE  LifecycleInv'
<1> USE DEF LifecycleInv
<1>1. CASE Next
  <2>1. FlagsOK' /\ DataOK'
    BY <1>1, TypeOKParts, FlagsStep, DataStep
  <2>2. Frames'
    <3>1. Dog \in Tasks
      BY DEF Tasks
    <3>2. QED
      BY <1>1, <3>1, TaskMoves
  <2>3. TypeOK'
    <3>1. \A t \in Tasks : pc'[t] = "idle" => stk'[t] = <<>>
      BY <2>2 DEF Frames, Frame, Own, UserSteps, DogSteps, ArmerSteps, ActivateSteps,
                  ResumeSteps, StopSteps, EnsureSteps, LockedSteps
    <3>2. QED
      BY <2>1, <3>1 DEF TypeOK, FlagsOK, Flag, DataOK
  <2>4. LockHeld'
    BY <1>1, TypeOKParts, LockStep
  <2>5. Recorded' /\ SpawnsAlone'
    BY <1>1, RecordStep, SpawnStep
  <2>6. QuitFlags'
    BY <1>1, TypeOKParts, QuitStep
  <2>7. CommandsGiven'
    BY <1>1, CommandsStep
  <2>8. QED
    BY <2>2, <2>3, <2>4, <2>5, <2>6, <2>7
<1>2. CASE UNCHANGED vars
  <2> USE DEF vars, control, pause, process, exit
  <2>1. Frames'
    BY <1>2, ControlUnchanged DEF Kept
  <2>2. TypeOK'
    BY <1>2 DEF TypeOK, user, gate, dog
  <2>3. LockHeld' /\ SpawnsAlone' /\ Recorded'
    BY <1>2 DEF LockHeld, Holds, SpawnsAlone, Recorded
  <2>4. QuitFlags' /\ CommandsGiven'
    BY <1>2 DEF QuitFlags, CommandsGiven
  <2>5. QED
    BY <2>1, <2>2, <2>3, <2>4
<1>3. QED
  BY <1>1, <1>2

\* The invariant of the control, of the lifecycle lock and of the flags of a quit.
THEOREM LifecycleInvariant == Spec => []LifecycleInv
<1>1. Init => LifecycleInv
  BY LifecycleInit
<1>2. LifecycleInv /\ [Next]_vars => LifecycleInv'
  BY LifecycleStep
<1>3. QED
  BY <1>1, <1>2, PTL DEF Spec

\* The variables keep their types, and a task that does nothing has no callers
\* to return to.
THEOREM TypeCorrect == Spec => []TypeOK
<1>1. LifecycleInv => TypeOK
  BY DEF LifecycleInv
<1>2. QED
  BY <1>1, LifecycleInvariant, PTL

\* However many commands, self-heals and Shows find the backend down at the same
\* time, and whatever stop ran out of patience for the lock, a backend is spawned
\* only where there is none: between the look at the child and the spawn there is
\* one thread, and a child that was spawned and is not yet recorded is still
\* under the lock of who spawned it.
THEOREM OneBackend == Spec => NoSecondBackend
<1>1. LifecycleInv /\ [Next]_vars
        => [backend' = "booting" /\ backend # "booting" => backend = "none"]_vars
  <2> SUFFICES ASSUME LifecycleInv, Next, backend' = "booting", backend # "booting"
               PROVE  backend = "none"
    BY DEF vars, process
  <2>1. PICK t \in Tasks : EnsureSpawn(t)
    BY WritersOfEach DEF Writers, StopKill, BackendBoots, BackendFails
  <2>2. QED
    BY <2>1 DEF EnsureSpawn, At, LifecycleInv, SpawnsAlone
<1>2. QED
  BY <1>1, LifecycleInvariant, PTL DEF Spec, NoSecondBackend

\* However quits and Shows follow each other, only the quit asked for last and
\* not cancelled tears down: every quit has a flag of its own, and the finisher
\* goes on only if it takes that.
THEOREM CancelledQuitStays == Spec => []CancelledQuitStaysCancelled
<1>1. LifecycleInv => CancelledQuitStaysCancelled
  BY DEF LifecycleInv, QuitFlags, CancelledQuitStaysCancelled, At, Tasks
<1>2. QED
  BY <1>1, LifecycleInvariant, PTL

\* As long as no user pauses, a bypass that the watchdog began has a self-heal
\* that will end it.  (A pause by the user takes the end of the bypass over: it
\* clears runtime_auto_paused, and the resume that follows ends the bypass.)
THEOREM BypassAlwaysEnds ==
  ASSUME "pause" \notin Commands
  PROVE  Spec => []BypassEnds
<1>1. Init => LifecycleInv /\ BypassWatched
  BY LifecycleInit
<1>2. LifecycleInv /\ BypassWatched /\ [Next]_vars => (LifecycleInv /\ BypassWatched)'
  <2>1. ASSUME LifecycleInv, BypassWatched, Next
        PROVE  BypassWatched'
    BY <2>1, BypassStep DEF LifecycleInv
  <2>2. ASSUME BypassWatched, UNCHANGED vars
        PROVE  BypassWatched'
    BY <2>2 DEF BypassWatched, vars, control, pause
  <2>3. QED
    BY <2>1, <2>2, LifecycleStep
<1>3. BypassWatched => BypassEnds
  BY DEF BypassWatched, BypassEnds, Quiet, Tasks, GivingUp, Resuming
<1>4. QED
  BY <1>1, <1>2, <1>3, PTL DEF Spec

\* As long as no user pauses or quits, an app with a ready backend and nothing
\* under way has its gate open, whatever resumes, restarts and self-heals did to
\* each other: who shuts the gate stops the backend, and who spawns the next one
\* opens it.
THEOREM GateFollowsPause ==
  ASSUME "pause" \notin Commands, "quit" \notin Commands
  PROVE  Spec => []GateMatchesPause
<1>1. Init => LifecycleInv /\ GateWatched
  BY LifecycleInit
<1>2. LifecycleInv /\ GateWatched /\ [Next]_vars => (LifecycleInv /\ GateWatched)'
  <2>1. ASSUME LifecycleInv, GateWatched, Next
        PROVE  GateWatched'
    BY <2>1, GateStep DEF LifecycleInv
  <2>2. ASSUME GateWatched, UNCHANGED vars
        PROVE  GateWatched'
    BY <2>2 DEF GateWatched, vars, control, pause, gate, exit, process
  <2>3. QED
    BY <2>1, <2>2, LifecycleStep
<1>3. GateWatched => GateMatchesPause
  BY DEF GateWatched, GateMatchesPause, Quiet, Watched
<1>4. QED
  BY <1>1, <1>2, <1>3, PTL DEF Spec
=============================================================================
