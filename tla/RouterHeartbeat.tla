--------------------------- MODULE RouterHeartbeat ---------------------------
(***************************************************************************)
(* The marker file by which the GUI tells the detached Codex router where  *)
(* to send traffic, and the heartbeat that keeps it fresh                  *)
(* (codex_router.rs: start_heartbeat, stop_heartbeat, write_state*,        *)
(* read_state).                                                            *)
(*                                                                         *)
(* Two locks: heartbeat_lifecycle_lock serialises start and stop among GUI *)
(* threads, state_write_lock serialises writes of the file.  A heartbeat   *)
(* thread takes only the second; a generation counter and a stop flag tell *)
(* it that it has been superseded.  Writing the file may fail and so may   *)
(* removing it.  The GUI may die between any two steps: the locks and the  *)
(* threads go with it, the file stays and ages.                            *)
(***************************************************************************)
EXTENDS Naturals

CONSTANTS
    Callers,        \* GUI threads that start and stop the heartbeat
    Heartbeats,     \* heartbeat threads, an identity being free once one ended
    NoOne,          \* holder of a free lock, content of an empty slot
    StaleAfter,     \* HEARTBEAT_STALE_AFTER, in ticks of the clock
    MaxGeneration,  \* bound on HEARTBEAT_GENERATION within a GUI session
    MaxCrashes      \* bound on the GUI crashes

ASSUME ParameterAssumption ==
    /\ NoOne \notin Callers \cup Heartbeats
    /\ Callers \cap Heartbeats = {}
    /\ StaleAfter \in Nat
    /\ MaxGeneration \in Nat
    /\ MaxCrashes \in Nat

VARIABLES
    marker,       \* mode= in the state file, "none" when it is missing
    age,          \* ticks since its last write
    generation,   \* HEARTBEAT_GENERATION
    slot,         \* heartbeat_slot: the thread whose stop flag it holds
    lifecycle,    \* holder of heartbeat_lifecycle_lock
    writer,       \* holder of state_write_lock
    pc,           \* where each GUI thread stands
    goal,         \* what it is executing: "start", "stop", or "unwind"
    beat,         \* where each heartbeat thread stands
    stopped,      \* its stop flag
    birth,        \* the generation it was born in
    crashes,
    undone,       \* history: the last stop could neither write nor remove
    quiet         \* history: ticks since the heartbeat was last owned

vars == <<marker, age, generation, slot, lifecycle, writer, pc, goal, beat,
          stopped, birth, crashes, undone, quiet>>
file == <<marker, age>>
threads == <<beat, stopped, birth>>
history == <<crashes, undone, quiet>>

Modes == {"none", "direct", "proxy"}
Steps == {"idle", "supersede", "exists", "lockDirect", "putDirect", "remove",
          "stopDone", "lockProxy", "putProxy", "spawn"}
Beats == {"ended", "sleep", "lock", "put"}

TypeOK ==
    /\ marker \in Modes
    /\ age \in 0..(StaleAfter + 1)
    /\ generation \in Nat
    /\ slot \in Heartbeats \cup {NoOne}
    /\ lifecycle \in Callers \cup {NoOne}
    /\ writer \in Callers \cup Heartbeats \cup {NoOne}
    /\ pc \in [Callers -> Steps]
    /\ goal \in [Callers -> {"start", "stop", "unwind"}]
    /\ beat \in [Heartbeats -> Beats]
    /\ stopped \in [Heartbeats -> BOOLEAN]
    /\ birth \in [Heartbeats -> Nat]
    /\ crashes \in Nat
    /\ undone \in BOOLEAN
    /\ quiet \in 0..(StaleAfter + 1)

Init ==
    /\ marker = "none"
    /\ age = StaleAfter + 1
    /\ generation = 0
    /\ slot = NoOne
    /\ lifecycle = NoOne
    /\ writer = NoOne
    /\ pc = [c \in Callers |-> "idle"]
    /\ goal = [c \in Callers |-> "stop"]
    /\ beat = [h \in Heartbeats |-> "ended"]
    /\ stopped = [h \in Heartbeats |-> FALSE]
    /\ birth = [h \in Heartbeats |-> 0]
    /\ crashes = 0
    /\ undone = FALSE
    /\ quiet = 0

\* What the detached router reads: a missing or stale marker means Direct.
RouteMode == IF marker = "proxy" /\ age <= StaleAfter THEN "proxy" ELSE "direct"

Put(mode) == marker' = mode /\ age' = 0

Goto(c, step) == pc' = [pc EXCEPT ![c] = step]

\* The lifecycle guard of a finished start or stop is dropped.
Release(c) == Goto(c, "idle") /\ lifecycle' = NoOne
-----------------------------------------------------------------------------
\* GUI threads.

\* Mutants: begin without heartbeat_lifecycle_lock; a stop that relies on the
\* flag alone.
BeginUnlocked(c, what) ==
    /\ pc[c] = "idle"
    /\ generation + 2 <= MaxGeneration
    /\ lifecycle' = c
    /\ goal' = [goal EXCEPT ![c] = what]
    /\ Goto(c, "supersede")
    /\ undone' = FALSE
    /\ quiet' = 0
    /\ UNCHANGED <<file, generation, slot, writer, threads, crashes>>

SupersedeKeepsGeneration(c) ==
    /\ pc[c] = "supersede"
    /\ slot' = NoOne
    /\ stopped' = [h \in Heartbeats |-> stopped[h] \/ h = slot]
    /\ Goto(c, "exists")
    /\ UNCHANGED <<file, generation, lifecycle, writer, goal, beat, birth, history>>

\* start_heartbeat and stop_heartbeat begin alike: lock, then stop the old one.
Begin(c, what) ==
    /\ pc[c] = "idle"
    /\ lifecycle = NoOne
    /\ generation + 2 <= MaxGeneration
    /\ lifecycle' = c
    /\ goal' = [goal EXCEPT ![c] = what]
    /\ Goto(c, "supersede")
    /\ undone' = FALSE
    /\ quiet' = 0
    /\ UNCHANGED <<file, generation, slot, writer, threads, crashes>>

\* stop_heartbeat_locked bumps the generation, empties the slot and raises the
\* stop flag it held.  A thread that reads between the two sees the bump.
Supersede(c) ==
    /\ pc[c] = "supersede"
    /\ generation' = generation + 1
    /\ slot' = NoOne
    /\ stopped' = [h \in Heartbeats |-> stopped[h] \/ h = slot]
    /\ Goto(c, "exists")
    /\ UNCHANGED <<file, lifecycle, writer, goal, beat, birth, history>>

\* A missing marker already means Direct and is not created.
CheckExists(c) ==
    /\ pc[c] = "exists"
    /\ Goto(c, IF marker = "none" THEN "stopDone" ELSE "lockDirect")
    /\ UNCHANGED <<file, generation, slot, lifecycle, writer, goal, threads, history>>

TakeWriteLock(c) ==
    /\ writer = NoOne
    /\ \/ pc[c] = "lockDirect" /\ Goto(c, "putDirect")
       \/ pc[c] = "lockProxy" /\ Goto(c, "putProxy")
    /\ writer' = c
    /\ UNCHANGED <<file, generation, slot, lifecycle, goal, threads, history>>

PutDirect(c) ==
    /\ pc[c] = "putDirect"
    /\ writer' = NoOne
    /\ \/ Put("direct") /\ Goto(c, "stopDone")
       \/ UNCHANGED file /\ Goto(c, "remove")
    /\ UNCHANGED <<generation, slot, lifecycle, goal, threads, history>>

\* The fallback of a failed write; it may fail as well.
RemoveMarker(c) ==
    /\ pc[c] = "remove"
    /\ \/ marker' = "none" /\ UNCHANGED <<age, undone>>
       \/ undone' = TRUE /\ UNCHANGED file
    /\ Goto(c, "stopDone")
    /\ UNCHANGED <<generation, slot, lifecycle, writer, goal, threads, crashes, quiet>>

\* stop_heartbeat_locked returns: to start_heartbeat, or out of the lock.
StopReturns(c) ==
    /\ pc[c] = "stopDone"
    /\ \/ goal[c] = "start" /\ Goto(c, "lockProxy") /\ UNCHANGED lifecycle
       \/ goal[c] # "start" /\ Release(c)
    /\ UNCHANGED <<file, generation, slot, writer, goal, threads, history>>

\* The synchronous first write; its error ends start_heartbeat.
PutProxy(c) ==
    /\ pc[c] = "putProxy"
    /\ writer' = NoOne
    /\ \/ Put("proxy") /\ Goto(c, "spawn") /\ UNCHANGED lifecycle
       \/ UNCHANGED file /\ Release(c)
    /\ UNCHANGED <<generation, slot, goal, threads, history>>

SpawnThread(c, h) ==
    /\ pc[c] = "spawn"
    /\ beat[h] = "ended"
    /\ beat' = [beat EXCEPT ![h] = "sleep"]
    /\ stopped' = [stopped EXCEPT ![h] = FALSE]
    /\ birth' = [birth EXCEPT ![h] = generation]
    /\ slot' = h
    /\ Release(c)
    /\ UNCHANGED <<file, generation, writer, goal, history>>

\* The thread could not be created: take the proxy marker back.
SpawnFails(c) ==
    /\ pc[c] = "spawn"
    /\ goal' = [goal EXCEPT ![c] = "unwind"]
    /\ Goto(c, "supersede")
    /\ UNCHANGED <<file, generation, slot, lifecycle, writer, threads, history>>

\* ensure_control_token: a file without a token is replaced by a Direct one.
EnsureControlToken ==
    /\ marker = "none"
    /\ writer = NoOne
    /\ Put("direct")
    /\ UNCHANGED <<generation, slot, lifecycle, writer, pc, goal, threads, history>>
-----------------------------------------------------------------------------
\* The heartbeat thread.

\* It wakes, reads its stop flag and the generation, and goes for the lock.
Wake(h) ==
    /\ beat[h] = "sleep"
    /\ beat' = [beat EXCEPT ![h] =
                   IF stopped[h] \/ birth[h] # generation THEN "ended" ELSE "lock"]
    /\ UNCHANGED <<file, generation, slot, lifecycle, writer, pc, goal, stopped,
                   birth, history>>

\* Mutants: the second look at the generation is dropped; the lock is kept by
\* a thread that found itself superseded.
LockWithoutCheck(h) ==
    /\ beat[h] = "lock"
    /\ writer = NoOne
    /\ writer' = h
    /\ beat' = [beat EXCEPT ![h] = "put"]
    /\ UNCHANGED <<file, generation, slot, lifecycle, pc, goal, stopped, birth, history>>

LockAndLeak(h) ==
    /\ beat[h] = "lock"
    /\ writer = NoOne
    /\ writer' = h
    /\ beat' = [beat EXCEPT ![h] = IF birth[h] = generation THEN "put" ELSE "sleep"]
    /\ UNCHANGED <<file, generation, slot, lifecycle, pc, goal, stopped, birth, history>>

\* write_state_if_generation reads the generation again under the write lock.
LockAndCheck(h) ==
    /\ beat[h] = "lock"
    /\ writer = NoOne
    /\ \/ /\ birth[h] = generation
          /\ writer' = h
          /\ beat' = [beat EXCEPT ![h] = "put"]
       \/ /\ birth[h] # generation
          /\ beat' = [beat EXCEPT ![h] = "sleep"]
          /\ UNCHANGED writer
    /\ UNCHANGED <<file, generation, slot, lifecycle, pc, goal, stopped, birth, history>>

\* A failed beat is only logged; the marker ages until the next one.
Beat(h) ==
    /\ beat[h] = "put"
    /\ Put("proxy") \/ UNCHANGED file
    /\ writer' = NoOne
    /\ beat' = [beat EXCEPT ![h] = "sleep"]
    /\ UNCHANGED <<generation, slot, lifecycle, pc, goal, stopped, birth, history>>
-----------------------------------------------------------------------------
\* Time and crashes.

Unowned == slot = NoOne /\ lifecycle = NoOne

Older(n) == IF n > StaleAfter THEN n ELSE n + 1

\* One tick.  The scheduler may keep a heartbeat from running for any time.
Tick ==
    /\ age' = Older(age)
    /\ quiet' = IF Unowned THEN Older(quiet) ELSE 0
    /\ UNCHANGED <<marker, generation, slot, lifecycle, writer, pc, goal, threads,
                   crashes, undone>>

\* The GUI dies.  Its successor begins with fresh statics; run() makes it stop
\* whatever heartbeat it finds, but only after it got that far.
Crash ==
    /\ crashes < MaxCrashes
    /\ crashes' = crashes + 1
    /\ generation' = 0
    /\ slot' = NoOne
    /\ lifecycle' = NoOne
    /\ writer' = NoOne
    /\ pc' = [c \in Callers |-> "idle"]
    /\ beat' = [h \in Heartbeats |-> "ended"]
    /\ stopped' = [h \in Heartbeats |-> FALSE]
    /\ birth' = [h \in Heartbeats |-> 0]
    /\ undone' = TRUE
    /\ quiet' = 0
    /\ UNCHANGED <<file, goal>>

CallerStep(c) ==
    \/ Supersede(c) \/ CheckExists(c) \/ TakeWriteLock(c) \/ PutDirect(c)
    \/ RemoveMarker(c) \/ StopReturns(c) \/ PutProxy(c)
    \/ \E h \in Heartbeats : SpawnThread(c, h)
    \/ SpawnFails(c)

Next ==
    \/ \E c \in Callers :
          \/ \E what \in {"start", "stop"} : Begin(c, what)
          \/ CallerStep(c)
    \/ EnsureControlToken
    \/ \E h \in Heartbeats : Wake(h) \/ LockAndCheck(h) \/ Beat(h)
    \/ Tick
    \/ Crash

\* Threads run and locks are handed over eventually (parking_lot's are fair
\* over time); nothing is assumed of the clock, of the disk or of the user.
Fairness ==
    /\ \A c \in Callers : WF_vars(CallerStep(c)) /\ SF_vars(TakeWriteLock(c))
    /\ \A h \in Heartbeats : WF_vars(Wake(h) \/ Beat(h)) /\ SF_vars(LockAndCheck(h))

Spec == Init /\ [][Next]_vars
FairSpec == Spec /\ Fairness
-----------------------------------------------------------------------------
\* When stop_heartbeat has returned, the router reads Direct whatever a late
\* heartbeat thread was doing, unless neither the write nor the removal worked
\* or the GUI died ("a stale thread can never overwrite the direct marker").
DirectOnceStopped == Unowned /\ ~undone => marker # "proxy"

\* And even then the exposure is bounded: StaleAfter after the last owner went
\* away, by a stop that failed or by a crash, traffic is Direct.
BoundedExposure == Unowned /\ quiet > StaleAfter => RouteMode = "direct"

\* At most one heartbeat thread may publish, and it is the one in the slot,
\* alive and not told to stop: starts and stops that overlap never leave two
\* publishers, nor a slot whose thread is gone.
OneHeartbeat ==
    /\ slot # NoOne =>
          beat[slot] # "ended" /\ birth[slot] = generation /\ ~stopped[slot]
    /\ \A h \in Heartbeats :
          beat[h] # "ended" /\ birth[h] = generation => slot = h

\* Why these hold: the lifecycle lock makes starts and stops sequential, the
\* write lock orders a late heartbeat before the Direct that follows it, and a
\* late heartbeat exists only while the stop that superseded it is on its way
\* to that write, with a marker that it will find.
LocksHeld ==
    /\ \A c \in Callers : lifecycle = c <=> pc[c] # "idle"
    /\ \A c \in Callers : writer = c <=> pc[c] \in {"putDirect", "putProxy"}
    /\ \A h \in Heartbeats : writer = h <=> beat[h] = "put"

SlotEmptied == \A c \in Callers : pc[c] \notin {"idle", "supersede"} => slot = NoOne

MarkerWritten ==
    slot # NoOne \/ (\E c \in Callers : pc[c] = "spawn") => marker # "none"

LateBeat ==
    /\ \A h \in Heartbeats : birth[h] <= generation
    /\ \A h \in Heartbeats :
          beat[h] = "put" /\ birth[h] # generation =>
              /\ marker # "none"
              /\ \E c \in Callers : pc[c] \in {"exists", "lockDirect"}

DirectInside ==
    \A c \in Callers :
        pc[c] \in {"stopDone", "lockProxy", "putProxy"} /\ ~undone => marker # "proxy"

QuietIsAge ==
    /\ ~Unowned => quiet = 0
    /\ marker = "proxy" => quiet <= age

HeartbeatInv ==
    /\ TypeOK /\ LocksHeld /\ OneHeartbeat /\ SlotEmptied /\ MarkerWritten
    /\ LateBeat /\ DirectOnceStopped /\ DirectInside /\ QuietIsAge

\* The two locks cannot deadlock: every start and every stop returns.
CallsReturn == \A c \in Callers : pc[c] # "idle" ~> pc[c] = "idle"
=============================================================================
