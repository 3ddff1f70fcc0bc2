----------------------- MODULE RouterHeartbeatProofs -----------------------
(***************************************************************************)
(* Proofs about the marker and its heartbeat, for any number of GUI        *)
(* threads and heartbeat threads, any staleness limit, and unboundedly     *)
(* many starts, stops and crashes (the bounds of the model are arbitrary   *)
(* naturals).                                                              *)
(*                                                                         *)
(* HeartbeatInv, declared with the model and checked by its run, is the    *)
(* inductive invariant; each action preserves it by a lemma of its own, in *)
(* four parts: types, the locks and what their holders know, the threads,  *)
(* and the marker.                                                         *)
(***************************************************************************)
EXTENDS RouterHeartbeat, TLAPS

USE ParameterAssumption DEF file, threads, history

LEMMA InitInv == Init => HeartbeatInv
<1> SUFFICES ASSUME Init PROVE HeartbeatInv
  OBVIOUS
<1>1. TypeOK
  <2>1. age \in 0..(StaleAfter + 1) /\ quiet \in 0..(StaleAfter + 1)
    BY DEF Init
  <2>2. /\ pc \in [Callers -> Steps] /\ goal \in [Callers -> {"start", "stop", "unwind"}]
        /\ beat \in [Heartbeats -> Beats] /\ stopped \in [Heartbeats -> BOOLEAN]
        /\ birth \in [Heartbeats -> Nat]
    BY DEF Init, Steps, Beats
  <2> QED
    BY <2>1, <2>2 DEF Init, TypeOK, Modes
<1>2. LocksHeld /\ OneHeartbeat /\ SlotEmptied /\ MarkerWritten /\ LateBeat
  BY DEF Init, LocksHeld, OneHeartbeat, SlotEmptied, MarkerWritten, LateBeat
<1>3. DirectOnceStopped /\ DirectInside /\ QuietIsAge
  BY DEF Init, DirectOnceStopped, DirectInside, QuietIsAge
<1> QED
  BY <1>1, <1>2, <1>3 DEF HeartbeatInv
-----------------------------------------------------------------------------
\* The lifecycle lock was free, so no other thread is inside.
LEMMA BeginStep ==
  ASSUME HeartbeatInv, NEW c \in Callers, NEW what \in {"start", "stop"}, Begin(c, what)
  PROVE  HeartbeatInv'
<1> USE DEF HeartbeatInv, TypeOK, Modes, Steps, Beats, Unowned, Begin, Goto
<1>1. TypeOK'
  <2>1. goal' \in [Callers -> {"start", "stop", "unwind"}]
    OBVIOUS
  <2>2. pc' \in [Callers -> Steps] /\ quiet' \in 0..(StaleAfter + 1)
    OBVIOUS
  <2> QED
    BY <2>1, <2>2
<1>2. LocksHeld' /\ SlotEmptied' /\ MarkerWritten'
  BY DEF LocksHeld, OneHeartbeat, SlotEmptied, MarkerWritten, LateBeat,
         DirectOnceStopped, DirectInside, QuietIsAge
<1>3. OneHeartbeat' /\ LateBeat'
  BY DEF LocksHeld, OneHeartbeat, SlotEmptied, MarkerWritten, LateBeat,
         DirectOnceStopped, DirectInside, QuietIsAge
<1>4. DirectOnceStopped' /\ DirectInside' /\ QuietIsAge'
  BY DEF LocksHeld, OneHeartbeat, SlotEmptied, MarkerWritten, LateBeat,
         DirectOnceStopped, DirectInside, QuietIsAge
<1> QED
  BY <1>1, <1>2, <1>3, <1>4

\* The thread in the slot becomes a late one; MarkerWritten shows it a marker.
LEMMA SupersedeStep ==
  ASSUME HeartbeatInv, NEW c \in Callers, Supersede(c)
  PROVE  HeartbeatInv'
<1> USE DEF HeartbeatInv, TypeOK, Modes, Steps, Beats, Unowned, Supersede, Goto
<1>1. TypeOK'
  OBVIOUS
<1>2. LocksHeld' /\ SlotEmptied' /\ MarkerWritten'
  BY DEF LocksHeld, OneHeartbeat, SlotEmptied, MarkerWritten, LateBeat,
         DirectOnceStopped, DirectInside, QuietIsAge
<1>3. OneHeartbeat' /\ LateBeat'
  BY DEF LocksHeld, OneHeartbeat, SlotEmptied, MarkerWritten, LateBeat,
         DirectOnceStopped, DirectInside, QuietIsAge
<1>4. DirectOnceStopped' /\ DirectInside' /\ QuietIsAge'
  BY DEF LocksHeld, OneHeartbeat, SlotEmptied, MarkerWritten, LateBeat,
         DirectOnceStopped, DirectInside, QuietIsAge
<1> QED
  BY <1>1, <1>2, <1>3, <1>4

\* A late thread would have a marker, so this stop does not return early.
LEMMA CheckExistsStep ==
  ASSUME HeartbeatInv, NEW c \in Callers, CheckExists(c)
  PROVE  HeartbeatInv'
<1> USE DEF HeartbeatInv, TypeOK, Modes, Steps, Beats, Unowned, CheckExists, Goto
<1>1. TypeOK'
  OBVIOUS
<1>2. LocksHeld' /\ SlotEmptied' /\ MarkerWritten'
  BY DEF LocksHeld, OneHeartbeat, SlotEmptied, MarkerWritten, LateBeat,
         DirectOnceStopped, DirectInside, QuietIsAge
<1>3. OneHeartbeat' /\ LateBeat'
  BY DEF LocksHeld, OneHeartbeat, SlotEmptied, MarkerWritten, LateBeat,
         DirectOnceStopped, DirectInside, QuietIsAge
<1>4. DirectOnceStopped' /\ DirectInside' /\ QuietIsAge'
  BY DEF LocksHeld, OneHeartbeat, SlotEmptied, MarkerWritten, LateBeat,
         DirectOnceStopped, DirectInside, QuietIsAge
<1> QED
  BY <1>1, <1>2, <1>3, <1>4

\* The lock is free: no late thread is about to write any more.
LEMMA TakeWriteLockStep ==
  ASSUME HeartbeatInv, NEW c \in Callers, TakeWriteLock(c)
  PROVE  HeartbeatInv'
<1> USE DEF HeartbeatInv, TypeOK, Modes, Steps, Beats, Unowned, TakeWriteLock, Goto
<1>1. TypeOK'
  OBVIOUS
<1>2. LocksHeld' /\ SlotEmptied' /\ MarkerWritten'
  BY DEF LocksHeld, OneHeartbeat, SlotEmptied, MarkerWritten, LateBeat,
         DirectOnceStopped, DirectInside, QuietIsAge
<1>3. OneHeartbeat' /\ LateBeat'
  BY DEF LocksHeld, OneHeartbeat, SlotEmptied, MarkerWritten, LateBeat,
         DirectOnceStopped, DirectInside, QuietIsAge
<1>4. DirectOnceStopped' /\ DirectInside' /\ QuietIsAge'
  BY DEF LocksHeld, OneHeartbeat, SlotEmptied, MarkerWritten, LateBeat,
         DirectOnceStopped, DirectInside, QuietIsAge
<1> QED
  BY <1>1, <1>2, <1>3, <1>4

\* The writer is the caller: no heartbeat is in its write.
LEMMA PutDirectStep ==
  ASSUME HeartbeatInv, NEW c \in Callers, PutDirect(c)
  PROVE  HeartbeatInv'
<1> USE DEF HeartbeatInv, TypeOK, Modes, Steps, Beats, Unowned, PutDirect, Put, Goto
<1>1. TypeOK'
  OBVIOUS
<1>2. LocksHeld' /\ SlotEmptied' /\ MarkerWritten'
  BY DEF LocksHeld, OneHeartbeat, SlotEmptied, MarkerWritten, LateBeat,
         DirectOnceStopped, DirectInside, QuietIsAge
<1>3. OneHeartbeat' /\ LateBeat'
  BY DEF LocksHeld, OneHeartbeat, SlotEmptied, MarkerWritten, LateBeat,
         DirectOnceStopped, DirectInside, QuietIsAge
<1>4. DirectOnceStopped' /\ DirectInside' /\ QuietIsAge'
  BY DEF LocksHeld, OneHeartbeat, SlotEmptied, MarkerWritten, LateBeat,
         DirectOnceStopped, DirectInside, QuietIsAge
<1> QED
  BY <1>1, <1>2, <1>3, <1>4

\* A failed removal is remembered in undone.
LEMMA RemoveMarkerStep ==
  ASSUME HeartbeatInv, NEW c \in Callers, RemoveMarker(c)
  PROVE  HeartbeatInv'
<1> USE DEF HeartbeatInv, TypeOK, Modes, Steps, Beats, Unowned, RemoveMarker, Goto
<1>1. TypeOK'
  OBVIOUS
<1>2. LocksHeld' /\ SlotEmptied' /\ MarkerWritten'
  BY DEF LocksHeld, OneHeartbeat, SlotEmptied, MarkerWritten, LateBeat,
         DirectOnceStopped, DirectInside, QuietIsAge
<1>3. OneHeartbeat' /\ LateBeat'
  BY DEF LocksHeld, OneHeartbeat, SlotEmptied, MarkerWritten, LateBeat,
         DirectOnceStopped, DirectInside, QuietIsAge
<1>4. DirectOnceStopped' /\ DirectInside' /\ QuietIsAge'
  BY DEF LocksHeld, OneHeartbeat, SlotEmptied, MarkerWritten, LateBeat,
         DirectOnceStopped, DirectInside, QuietIsAge
<1> QED
  BY <1>1, <1>2, <1>3, <1>4

LEMMA StopReturnsStep ==
  ASSUME HeartbeatInv, NEW c \in Callers, StopReturns(c)
  PROVE  HeartbeatInv'
<1> USE DEF HeartbeatInv, TypeOK, Modes, Steps, Beats, Unowned, StopReturns, Release, Goto
<1>1. TypeOK'
  OBVIOUS
<1>2. LocksHeld' /\ SlotEmptied' /\ MarkerWritten'
  BY DEF LocksHeld, OneHeartbeat, SlotEmptied, MarkerWritten, LateBeat,
         DirectOnceStopped, DirectInside, QuietIsAge
<1>3. OneHeartbeat' /\ LateBeat'
  BY DEF LocksHeld, OneHeartbeat, SlotEmptied, MarkerWritten, LateBeat,
         DirectOnceStopped, DirectInside, QuietIsAge
<1>4. DirectOnceStopped' /\ DirectInside' /\ QuietIsAge'
  BY DEF LocksHeld, OneHeartbeat, SlotEmptied, MarkerWritten, LateBeat,
         DirectOnceStopped, DirectInside, QuietIsAge
<1> QED
  BY <1>1, <1>2, <1>3, <1>4

LEMMA PutProxyStep ==
  ASSUME HeartbeatInv, NEW c \in Callers, PutProxy(c)
  PROVE  HeartbeatInv'
<1> USE DEF HeartbeatInv, TypeOK, Modes, Steps, Beats, Unowned, PutProxy, Put, Release, Goto
<1>1. TypeOK'
  OBVIOUS
<1>2. LocksHeld' /\ SlotEmptied' /\ MarkerWritten'
  BY DEF LocksHeld, OneHeartbeat, SlotEmptied, MarkerWritten, LateBeat,
         DirectOnceStopped, DirectInside, QuietIsAge
<1>3. OneHeartbeat' /\ LateBeat'
  BY DEF LocksHeld, OneHeartbeat, SlotEmptied, MarkerWritten, LateBeat,
         DirectOnceStopped, DirectInside, QuietIsAge
<1>4. DirectOnceStopped' /\ DirectInside' /\ QuietIsAge'
  BY DEF LocksHeld, OneHeartbeat, SlotEmptied, MarkerWritten, LateBeat,
         DirectOnceStopped, DirectInside, QuietIsAge
<1> QED
  BY <1>1, <1>2, <1>3, <1>4

\* The new thread is the only one of its generation.
LEMMA SpawnThreadStep ==
  ASSUME HeartbeatInv, NEW c \in Callers, NEW h \in Heartbeats, SpawnThread(c, h)
  PROVE  HeartbeatInv'
<1> USE DEF HeartbeatInv, TypeOK, Modes, Steps, Beats, Unowned, SpawnThread, Release, Goto
<1>1. TypeOK'
  OBVIOUS
<1>2. LocksHeld' /\ SlotEmptied' /\ MarkerWritten'
  BY DEF LocksHeld, OneHeartbeat, SlotEmptied, MarkerWritten, LateBeat,
         DirectOnceStopped, DirectInside, QuietIsAge
<1>3. OneHeartbeat' /\ LateBeat'
  BY DEF LocksHeld, OneHeartbeat, SlotEmptied, MarkerWritten, LateBeat,
         DirectOnceStopped, DirectInside, QuietIsAge
<1>4. DirectOnceStopped' /\ DirectInside' /\ QuietIsAge'
  BY DEF LocksHeld, OneHeartbeat, SlotEmptied, MarkerWritten, LateBeat,
         DirectOnceStopped, DirectInside, QuietIsAge
<1> QED
  BY <1>1, <1>2, <1>3, <1>4

LEMMA SpawnFailsStep ==
  ASSUME HeartbeatInv, NEW c \in Callers, SpawnFails(c)
  PROVE  HeartbeatInv'
<1> USE DEF HeartbeatInv, TypeOK, Modes, Steps, Beats, Unowned, SpawnFails, Goto
<1>1. TypeOK'
  OBVIOUS
<1>2. LocksHeld' /\ SlotEmptied' /\ MarkerWritten'
  BY DEF LocksHeld, OneHeartbeat, SlotEmptied, MarkerWritten, LateBeat,
         DirectOnceStopped, DirectInside, QuietIsAge
<1>3. OneHeartbeat' /\ LateBeat'
  BY DEF LocksHeld, OneHeartbeat, SlotEmptied, MarkerWritten, LateBeat,
         DirectOnceStopped, DirectInside, QuietIsAge
<1>4. DirectOnceStopped' /\ DirectInside' /\ QuietIsAge'
  BY DEF LocksHeld, OneHeartbeat, SlotEmptied, MarkerWritten, LateBeat,
         DirectOnceStopped, DirectInside, QuietIsAge
<1> QED
  BY <1>1, <1>2, <1>3, <1>4

LEMMA EnsureControlTokenStep ==
  ASSUME HeartbeatInv, EnsureControlToken
  PROVE  HeartbeatInv'
<1> USE DEF HeartbeatInv, TypeOK, Modes, Steps, Beats, Unowned, EnsureControlToken, Put
<1>1. TypeOK'
  OBVIOUS
<1>2. LocksHeld' /\ SlotEmptied' /\ MarkerWritten'
  BY DEF LocksHeld, OneHeartbeat, SlotEmptied, MarkerWritten, LateBeat,
         DirectOnceStopped, DirectInside, QuietIsAge
<1>3. OneHeartbeat' /\ LateBeat'
  BY DEF LocksHeld, OneHeartbeat, SlotEmptied, MarkerWritten, LateBeat,
         DirectOnceStopped, DirectInside, QuietIsAge
<1>4. DirectOnceStopped' /\ DirectInside' /\ QuietIsAge'
  BY DEF LocksHeld, OneHeartbeat, SlotEmptied, MarkerWritten, LateBeat,
         DirectOnceStopped, DirectInside, QuietIsAge
<1> QED
  BY <1>1, <1>2, <1>3, <1>4

LEMMA WakeStep ==
  ASSUME HeartbeatInv, NEW h \in Heartbeats, Wake(h)
  PROVE  HeartbeatInv'
<1> USE DEF HeartbeatInv, TypeOK, Modes, Steps, Beats, Unowned, Wake
<1>1. TypeOK'
  OBVIOUS
<1>2. LocksHeld' /\ SlotEmptied' /\ MarkerWritten'
  BY DEF LocksHeld, OneHeartbeat, SlotEmptied, MarkerWritten, LateBeat,
         DirectOnceStopped, DirectInside, QuietIsAge
<1>3. OneHeartbeat' /\ LateBeat'
  BY DEF LocksHeld, OneHeartbeat, SlotEmptied, MarkerWritten, LateBeat,
         DirectOnceStopped, DirectInside, QuietIsAge
<1>4. DirectOnceStopped' /\ DirectInside' /\ QuietIsAge'
  BY DEF LocksHeld, OneHeartbeat, SlotEmptied, MarkerWritten, LateBeat,
         DirectOnceStopped, DirectInside, QuietIsAge
<1> QED
  BY <1>1, <1>2, <1>3, <1>4

\* Only the thread in the slot gets as far as its write.
LEMMA LockAndCheckStep ==
  ASSUME HeartbeatInv, NEW h \in Heartbeats, LockAndCheck(h)
  PROVE  HeartbeatInv'
<1> USE DEF HeartbeatInv, TypeOK, Modes, Steps, Beats, Unowned, LockAndCheck
<1>1. TypeOK'
  OBVIOUS
<1>2. LocksHeld' /\ SlotEmptied' /\ MarkerWritten'
  BY DEF LocksHeld, OneHeartbeat, SlotEmptied, MarkerWritten, LateBeat,
         DirectOnceStopped, DirectInside, QuietIsAge
<1>3. OneHeartbeat' /\ LateBeat'
  BY DEF LocksHeld, OneHeartbeat, SlotEmptied, MarkerWritten, LateBeat,
         DirectOnceStopped, DirectInside, QuietIsAge
<1>4. DirectOnceStopped' /\ DirectInside' /\ QuietIsAge'
  BY DEF LocksHeld, OneHeartbeat, SlotEmptied, MarkerWritten, LateBeat,
         DirectOnceStopped, DirectInside, QuietIsAge
<1> QED
  BY <1>1, <1>2, <1>3, <1>4

\* Either the slot owns the marker or a stop is about to overwrite it.
LEMMA BeatStep ==
  ASSUME HeartbeatInv, NEW h \in Heartbeats, Beat(h)
  PROVE  HeartbeatInv'
<1> USE DEF HeartbeatInv, TypeOK, Modes, Steps, Beats, Unowned, Beat, Put
<1>1. TypeOK'
  OBVIOUS
<1>2. LocksHeld' /\ SlotEmptied' /\ MarkerWritten'
  BY DEF LocksHeld, OneHeartbeat, SlotEmptied, MarkerWritten, LateBeat,
         DirectOnceStopped, DirectInside, QuietIsAge
<1>3. OneHeartbeat' /\ LateBeat'
  BY DEF LocksHeld, OneHeartbeat, SlotEmptied, MarkerWritten, LateBeat,
         DirectOnceStopped, DirectInside, QuietIsAge
<1>4. DirectOnceStopped' /\ DirectInside' /\ QuietIsAge'
  BY DEF LocksHeld, OneHeartbeat, SlotEmptied, MarkerWritten, LateBeat,
         DirectOnceStopped, DirectInside, QuietIsAge
<1> QED
  BY <1>1, <1>2, <1>3, <1>4

\* age and quiet grow together while nobody owns the heartbeat.
LEMMA TickStep ==
  ASSUME HeartbeatInv, Tick
  PROVE  HeartbeatInv'
<1> USE DEF HeartbeatInv, TypeOK, Modes, Steps, Beats, Unowned, Tick, Older
<1>1. TypeOK'
  OBVIOUS
<1>2. LocksHeld' /\ SlotEmptied' /\ MarkerWritten'
  BY DEF LocksHeld, OneHeartbeat, SlotEmptied, MarkerWritten, LateBeat,
         DirectOnceStopped, DirectInside, QuietIsAge
<1>3. OneHeartbeat' /\ LateBeat'
  BY DEF LocksHeld, OneHeartbeat, SlotEmptied, MarkerWritten, LateBeat,
         DirectOnceStopped, DirectInside, QuietIsAge
<1>4. DirectOnceStopped' /\ DirectInside' /\ QuietIsAge'
  BY DEF LocksHeld, OneHeartbeat, SlotEmptied, MarkerWritten, LateBeat,
         DirectOnceStopped, DirectInside, QuietIsAge
<1> QED
  BY <1>1, <1>2, <1>3, <1>4

\* Only the file survives.
LEMMA CrashStep ==
  ASSUME HeartbeatInv, Crash
  PROVE  HeartbeatInv'
<1> USE DEF HeartbeatInv, TypeOK, Modes, Steps, Beats, Unowned, Crash
<1>1. TypeOK'
  OBVIOUS
<1>2. LocksHeld' /\ SlotEmptied' /\ MarkerWritten'
  BY DEF LocksHeld, OneHeartbeat, SlotEmptied, MarkerWritten, LateBeat,
         DirectOnceStopped, DirectInside, QuietIsAge
<1>3. OneHeartbeat' /\ LateBeat'
  BY DEF LocksHeld, OneHeartbeat, SlotEmptied, MarkerWritten, LateBeat,
         DirectOnceStopped, DirectInside, QuietIsAge
<1>4. DirectOnceStopped' /\ DirectInside' /\ QuietIsAge'
  BY DEF LocksHeld, OneHeartbeat, SlotEmptied, MarkerWritten, LateBeat,
         DirectOnceStopped, DirectInside, QuietIsAge
<1> QED
  BY <1>1, <1>2, <1>3, <1>4

LEMMA StutterStep ==
  ASSUME HeartbeatInv, UNCHANGED vars
  PROVE  HeartbeatInv'
<1> USE DEF HeartbeatInv, TypeOK, Modes, Steps, Beats, Unowned, vars
<1>1. TypeOK'
  OBVIOUS
<1>2. LocksHeld' /\ SlotEmptied' /\ MarkerWritten'
  BY DEF LocksHeld, OneHeartbeat, SlotEmptied, MarkerWritten, LateBeat,
         DirectOnceStopped, DirectInside, QuietIsAge
<1>3. OneHeartbeat' /\ LateBeat'
  BY DEF LocksHeld, OneHeartbeat, SlotEmptied, MarkerWritten, LateBeat,
         DirectOnceStopped, DirectInside, QuietIsAge
<1>4. DirectOnceStopped' /\ DirectInside' /\ QuietIsAge'
  BY DEF LocksHeld, OneHeartbeat, SlotEmptied, MarkerWritten, LateBeat,
         DirectOnceStopped, DirectInside, QuietIsAge
<1> QED
  BY <1>1, <1>2, <1>3, <1>4

-----------------------------------------------------------------------------
\* The inductive invariant of the start and stop calls and their threads, in every
\* reachable state: who holds which lock, what a thread past its checks may still
\* write, and what a stop that returned leaves behind.
THEOREM HeartbeatInvariant == Spec => []HeartbeatInv
<1>1. HeartbeatInv /\ [Next]_vars => HeartbeatInv'
  <2> SUFFICES ASSUME HeartbeatInv, [Next]_vars PROVE HeartbeatInv'
    OBVIOUS
  <2>1. ASSUME NEW c \in Callers, NEW what \in {"start", "stop"}, Begin(c, what)
        PROVE  HeartbeatInv'
    BY <2>1, BeginStep
  <2>2. ASSUME NEW c \in Callers, CallerStep(c) PROVE HeartbeatInv'
    BY <2>2, SupersedeStep, CheckExistsStep, TakeWriteLockStep, PutDirectStep,
       RemoveMarkerStep, StopReturnsStep, PutProxyStep, SpawnThreadStep,
       SpawnFailsStep DEF CallerStep
  <2>3. CASE EnsureControlToken
    BY <2>3, EnsureControlTokenStep
  <2>4. ASSUME NEW h \in Heartbeats, Wake(h) \/ LockAndCheck(h) \/ Beat(h)
        PROVE  HeartbeatInv'
    BY <2>4, WakeStep, LockAndCheckStep, BeatStep
  <2>5. CASE Tick
    BY <2>5, TickStep
  <2>6. CASE Crash
    BY <2>6, CrashStep
  <2>7. CASE UNCHANGED vars
    BY <2>7, StutterStep
  <2> QED
    BY <2>1, <2>2, <2>3, <2>4, <2>5, <2>6, <2>7 DEF Next
<1> QED
  BY <1>1, InitInv, PTL DEF Spec

\* The heartbeat is type correct.
THEOREM TypeCorrect == Spec => []TypeOK
<1>1. HeartbeatInv => TypeOK
  BY DEF HeartbeatInv
<1> QED
  BY <1>1, HeartbeatInvariant, PTL

\* A stop that returned without an I/O failure leaves no proxy marker, and no
\* late heartbeat thread brings it back.
THEOREM StopIsFinal == Spec => []DirectOnceStopped
<1>1. HeartbeatInv => DirectOnceStopped
  BY DEF HeartbeatInv
<1> QED
  BY <1>1, HeartbeatInvariant, PTL

\* After a crash, or a stop whose I/O failed, the router is Direct again once
\* StaleAfter has passed.
THEOREM ExposureIsBounded == Spec => []BoundedExposure
<1>1. HeartbeatInv => BoundedExposure
  BY DEF HeartbeatInv, TypeOK, QuietIsAge, BoundedExposure, RouteMode
<1> QED
  BY <1>1, HeartbeatInvariant, PTL

\* Overlapping starts and stops never leave two publishers.
THEOREM SinglePublisher == Spec => []OneHeartbeat
<1>1. HeartbeatInv => OneHeartbeat
  BY DEF HeartbeatInv
<1> QED
  BY <1>1, HeartbeatInvariant, PTL
=============================================================================
