------------------------ MODULE RouterHandoffProofs ------------------------
(***************************************************************************)
(* Proofs about RouterHandoff, for any number of desktops, helpers,        *)
(* sessions and builds: a handoff cuts no session, and an answer that the  *)
(* router is there is true once every call has returned.                   *)
(*                                                                         *)
(* Three facts carry them.  Only the helper that holds the port listens or *)
(* closes.  Where a helper cannot drain, on Windows or as long as one of   *)
(* before there was a drain holds the port, nobody is on the way to stop a *)
(* helper except for a release.  And a helper that closes has a desktop    *)
(* that waits for it, so that an answer given meanwhile is not yet the     *)
(* last one.                                                               *)
(***************************************************************************)
EXTENDS RouterHandoff, FiniteSetTheorems, TLAPS

\* A desktop holds no token before it has read one.
TokenRead == \A d \in Desktops : desk[d].pc \in {"idle", "token", "mint"} => desk[d].held = 0

PortHeld == \A h \in Helpers : helper[h].state \in {"listening", "closing"} => port = h

Stopping == {"stopProbe", "stopToken", "stopVersion", "post", "released"}

\* Only the helper that an earlier launch left may be of before there was a drain.
PreDrainAtPort ==
    \A h \in Helpers : helper[h].state # "free" /\ helper[h].build \notin Draining => port = h

SomeAborts ==
    windows \/ \E h \in Helpers : helper[h].state # "free" /\ helper[h].build \notin Draining

ReleaseOnly ==
    SomeAborts =>
               /\ \A d \in Desktops : desk[d].pc \in Stopping => desk[d].goal = "release"
               /\ \A h \in Helpers : helper[h].state = "closing" => helper[h].asked = "release"

ClosingWatched ==
    \A h \in Helpers : helper[h].state = "closing" =>
        settled = "never" \/ \E d \in Desktops : desk[d].pc = "released"

AnswerTrue ==
    settled = "yes" => \/ port # NoOne /\ helper[port].state = "listening"
                       \/ \E d \in Desktops : desk[d].pc # "idle"

HandoffInv ==
    /\ TypeOK /\ Builds # {}
    /\ TokenRead /\ PortHeld /\ PreDrainAtPort /\ ReleaseOnly /\ ClosingWatched /\ AnswerTrue
-----------------------------------------------------------------------------
\* A new token is one that nobody remembers: there are more than the others hold.
LEMMA FreshTokenExists ==
  ASSUME token \in 0..MaxToken, NEW d \in Desktops, desk[d].held = 0
  PROVE  FreshToken \in 1..MaxToken
<1> DEFINE Old(t) == t = token \/ \E e \in Desktops : t = desk[e].held
<1>1. Cardinality(Desktops) \in Nat /\ IsFiniteSet(Desktops)
  BY BoundAssumption, FS_CardinalityType
<1>2. MaxToken \in Nat /\ MaxToken = Cardinality(Desktops) + 1
  BY <1>1 DEF MaxToken
<1>3. \E t \in 1..MaxToken : ~Old(t)
  <2> SUFFICES ASSUME \A t \in 1..MaxToken : Old(t) PROVE FALSE
    OBVIOUS
  <2> DEFINE holder == [t \in 1..MaxToken |->
                          IF t = token THEN d ELSE CHOOSE e \in Desktops : t = desk[e].held]
  <2>1. \A t \in 1..MaxToken :
          /\ holder[t] \in Desktops
          /\ IF t = token THEN holder[t] = d ELSE desk[holder[t]].held = t
    OBVIOUS
  <2>2. holder \in [1..MaxToken -> Desktops]
    BY <2>1
  <2>3. IsFiniteSet(1..MaxToken) /\ Cardinality(1..MaxToken) = MaxToken
    BY <1>2, FS_Interval
  <2>4. PICK x, y \in 1..MaxToken : x # y /\ holder[x] = holder[y]
    <3> HIDE DEF holder
    <3>1. QED
      BY <1>1, <1>2, <2>2, <2>3, FS_PigeonHole
  <2>5. x # 0 /\ y # 0
    BY <1>2
  <2>6. QED
    BY <2>1, <2>4, <2>5
<1>4. QED
  BY <1>3 DEF FreshToken

LEMMA AnyBuildTyped ==
  ASSUME Builds # {}
  PROVE  AnyBuild \in Builds
BY DEF AnyBuild

\* What the operators that change one desktop, or one helper, do.
Desk == [pc: Places, build: OwnBuilds, goal: {"ensure", "release"}, held: 0..MaxToken]
Helper == [state: HelperStates, build: Builds, asked: {"no", "handoff", "release"}]

Moves(d, place) ==
    /\ desk' \in [Desktops -> Desk]
    /\ \A e \in Desktops : e # d => desk'[e] = desk[e]
    /\ desk'[d].pc = place

Becomes(h, state) ==
    /\ helper' \in [Helpers -> Helper]
    /\ \A g \in Helpers : g # h => helper'[g] = helper[g]
    /\ helper'[h].state = state
    /\ state # "free" => \/ helper'[h].build \in Draining
                         \/ helper[h].state # "free" /\ helper'[h].build = helper[h].build

LEMMA TokenBound == MaxToken \in Nat /\ 0 \in 0..MaxToken /\ 1 \in 0..MaxToken
BY BoundAssumption, FS_CardinalityType DEF MaxToken

LEMMA GotoDoes ==
  ASSUME TypeOK, NEW d \in Desktops
  PROVE  \A place \in Places : Goto(d, place) =>
           Moves(d, place) /\ desk'[d].goal = desk[d].goal /\ desk'[d].held = desk[d].held
BY DEF TypeOK, Goto, Moves, Desk

LEMMA LeaveDoes ==
  ASSUME TypeOK, NEW d \in Desktops
  PROVE  Leave(d) => Moves(d, "idle") /\ desk'[d].goal = "ensure" /\ desk'[d].held = 0
<1> SUFFICES ASSUME Leave(d)
             PROVE  Moves(d, "idle") /\ desk'[d].goal = "ensure" /\ desk'[d].held = 0
  OBVIOUS
<1>1. desk \in [Desktops -> Desk]
  BY DEF TypeOK, Desk
<1>2. \A e \in Desktops : e # d => desk'[e] = desk[e]
  BY <1>1 DEF Leave
<1>3. desk'[d] \in Desk /\ desk'[d].pc = "idle" /\ desk'[d].goal = "ensure" /\ desk'[d].held = 0
  BY <1>1, TokenBound DEF Leave, Desk, Places
<1>4. desk' = [e \in Desktops |-> desk'[e]]
  BY <1>1 DEF Leave
<1>5. QED
  BY <1>1, <1>2, <1>3, <1>4 DEF Moves

LEMMA ReadDoes ==
  ASSUME TypeOK, NEW d \in Desktops
  PROVE  \A t \in 0..MaxToken, place \in Places :
           desk' = [desk EXCEPT ![d].held = t, ![d].pc = place] =>
             Moves(d, place) /\ desk'[d].goal = desk[d].goal /\ desk'[d].held = t
<1> SUFFICES ASSUME NEW t \in 0..MaxToken, NEW place \in Places,
                    desk' = [desk EXCEPT ![d].held = t, ![d].pc = place]
             PROVE  Moves(d, place) /\ desk'[d].goal = desk[d].goal /\ desk'[d].held = t
  OBVIOUS
<1>1. desk \in [Desktops -> Desk]
  BY DEF TypeOK, Desk
<1>2. \A e \in Desktops : e # d => desk'[e] = desk[e]
  BY <1>1
<1>3. desk'[d] \in Desk /\ desk'[d].pc = place /\ desk'[d].goal = desk[d].goal /\ desk'[d].held = t
  BY <1>1 DEF Desk
<1>4. desk' = [e \in Desktops |-> desk'[e]]
  BY <1>1
<1>5. QED
  BY <1>1, <1>2, <1>3, <1>4 DEF Moves

LEMMA CallDoes ==
  ASSUME TypeOK, NEW d \in Desktops, NEW goal \in {"ensure", "release"}, Call(d, goal)
  PROVE  /\ Moves(d, IF goal = "ensure" THEN "token" ELSE "stopProbe")
         /\ desk'[d].goal = goal /\ desk'[d].held = desk[d].held
<1>1. desk \in [Desktops -> Desk]
  BY DEF TypeOK, Desk
<1>2. \A e \in Desktops : e # d => desk'[e] = desk[e]
  BY <1>1 DEF Call
<1>3. /\ desk'[d] \in Desk
      /\ desk'[d].pc = IF goal = "ensure" THEN "token" ELSE "stopProbe"
      /\ desk'[d].goal = goal /\ desk'[d].held = desk[d].held
  BY <1>1 DEF Call, Desk, Places
<1>4. desk' = [e \in Desktops |-> desk'[e]]
  BY <1>1 DEF Call
<1>5. QED
  BY <1>1, <1>2, <1>3, <1>4 DEF Moves

LEMMA GoneDoes ==
  ASSUME TypeOK, Builds # {}, NEW h \in Helpers
  PROVE  helper' = Gone(h) => Becomes(h, "free")
<1> SUFFICES ASSUME helper' = Gone(h) PROVE Becomes(h, "free")
  OBVIOUS
<1>1. helper \in [Helpers -> Helper]
  BY DEF TypeOK, Helper
<1>2. \A g \in Helpers : g # h => helper'[g] = helper[g]
  BY <1>1 DEF Gone
<1>3. helper'[h] \in Helper /\ helper'[h].state = "free"
  BY <1>1, AnyBuildTyped DEF Gone, Helper, HelperStates
<1>4. helper' = [g \in Helpers |-> helper'[g]]
  BY <1>1 DEF Gone
<1>5. QED
  BY <1>1, <1>2, <1>3, <1>4 DEF Becomes

LEMMA StateDoes ==
  ASSUME TypeOK, NEW h \in Helpers, helper[h].state # "free"
  PROVE  \A state \in HelperStates :
           helper' = [helper EXCEPT ![h].state = state] =>
             Becomes(h, state) /\ helper'[h].asked = helper[h].asked
BY DEF TypeOK, Becomes, Helper
-----------------------------------------------------------------------------
\* The steps of a desktop, seen from the invariant: it goes on with its call, or
\* the call returns.

NoneCloses == \A h \in Helpers : helper[h].state # "closing"

Proceeds(d) == \E place \in Places \ {"idle"} :
    /\ Moves(d, place)
    /\ place \in {"token", "mint"} => desk'[d].held = 0
    /\ SomeAborts /\ place \in Stopping => desk'[d].goal = "release"
    /\ desk[d].pc = "released" => NoneCloses
    /\ settled' \in {settled, "no"}
    /\ settled = "never" => settled' = "never"

Returns(d) ==
    /\ Moves(d, "idle") /\ desk'[d].held = 0
    /\ settled' \in {"no", "yes", "never"}
    /\ settled = "never" => settled' = "never"
    /\ settled' = "yes" => port # NoOne /\ desk[d].pc # "released"
    /\ desk[d].pc = "released" => NoneCloses \/ settled' = "never"

Spawns(h) == h \in Helpers /\ helper[h].state = "free" /\ Becomes(h, "starting")

StopsHolder ==
    /\ port \in Helpers /\ Becomes(port, "closing")
    /\ SomeAborts => helper'[port].asked = "release"

DesktopStep(d) ==
    \/ \E goal \in {"ensure", "release"} : Call(d, goal)
    \/ EnsureRunning(d) \/ ShutdownAndWait(d) \/ KillDesktop(d)

\* A connection that fails finds no helper that closes.
LEMMA FailsMeansNoneCloses ==
  ASSUME HandoffInv, Fails
  PROVE  NoneCloses
BY BoundAssumption DEF HandoffInv, PortHeld, TypeOK, Fails, NoneCloses

LEMMA AnswerDoes ==
  ASSUME TypeOK, NEW d \in Desktops
  PROVE  \A ok \in BOOLEAN : Answer(d, ok) =>
           /\ Moves(d, "idle") /\ desk'[d].held = 0
           /\ settled' \in {"no", "yes", "never"}
           /\ settled = "never" => settled' = "never"
           /\ settled' = "yes" => ok /\ desk[d].goal = "ensure"
BY LeaveDoes DEF Answer, Settle, TypeOK

LEMMA FaultDoes ==
  ASSUME TypeOK, Fault
  PROVE  faults' \in 0..MaxFaults /\ faults' # faults
BY BoundAssumption DEF Fault, TypeOK

LEMMA CallStep ==
  ASSUME HandoffInv, NEW d \in Desktops, NEW goal \in {"ensure", "release"}, Call(d, goal)
  PROVE  Proceeds(d)
<1>1. TypeOK /\ TokenRead
  BY DEF HandoffInv
<1>2. desk[d].pc = "idle" /\ desk[d].held = 0
  BY <1>1 DEF TokenRead, Call
<1>3. settled' \in {settled, "no"} /\ (settled = "never" => settled' = "never")
  BY DEF Call, Settle
<1>4. CASE goal = "ensure"
  <2>1. Moves(d, "token") /\ desk'[d].held = 0
    BY <1>1, <1>2, <1>4, CallDoes
  <2>2. QED
    BY <1>2, <1>3, <2>1 DEF Proceeds, Places, Stopping
<1>5. CASE goal = "release"
  <2>1. Moves(d, "stopProbe") /\ desk'[d].goal = "release"
    BY <1>1, <1>5, CallDoes
  <2>2. QED
    BY <1>2, <1>3, <2>1 DEF Proceeds, Places
<1>6. QED
  BY <1>4, <1>5

LEMMA ReadTokenStep ==
  ASSUME HandoffInv, NEW d \in Desktops, ReadToken(d)
  PROVE  Proceeds(d)
<1>1. TypeOK /\ token \in 0..MaxToken /\ desk[d].pc = "token" /\ settled' = settled
  BY DEF HandoffInv, TypeOK, ReadToken
<1>2. CASE token = 0
  <2>1. desk' = [desk EXCEPT ![d].held = token, ![d].pc = "mint"]
    BY <1>2 DEF ReadToken
  <2>2. Moves(d, "mint") /\ desk'[d].held = 0
    BY <1>1, <1>2, <2>1, ReadDoes DEF Places
  <2>3. QED
    BY <1>1, <2>2 DEF Proceeds, Places, Stopping
<1>3. CASE token # 0
  <2>1. desk' = [desk EXCEPT ![d].held = token, ![d].pc = "probe"]
    BY <1>3 DEF ReadToken
  <2>2. Moves(d, "probe")
    BY <1>1, <2>1, ReadDoes DEF Places
  <2>3. QED
    BY <1>1, <2>2 DEF Proceeds, Places, Stopping
<1>4. QED
  BY <1>2, <1>3

LEMMA MintTokenStep ==
  ASSUME HandoffInv, NEW d \in Desktops, MintToken(d)
  PROVE  token' \in 0..MaxToken /\ faults' \in 0..MaxFaults /\ (Proceeds(d) \/ Returns(d))
<1>1. TypeOK /\ token \in 0..MaxToken /\ faults \in 0..MaxFaults /\ desk[d].pc = "mint"
  BY DEF HandoffInv, TypeOK, MintToken
<1>2. desk[d].held = 0
  BY <1>1 DEF HandoffInv, TokenRead
<1>3. CASE token' = FreshToken /\ UNCHANGED <<settled, faults>>
            /\ desk' = [desk EXCEPT ![d].held = token', ![d].pc = "probe"]
  <2>1. token' \in 0..MaxToken
    BY <1>1, <1>2, <1>3, FreshTokenExists, TokenBound
  <2>2. Moves(d, "probe")
    BY <1>1, <1>3, <2>1, ReadDoes DEF Places
  <2>3. QED
    BY <1>1, <1>3, <2>1, <2>2 DEF Proceeds, Places, Stopping
<1>4. CASE Fault /\ Answer(d, FALSE) /\ UNCHANGED token
  BY <1>1, <1>4, FaultDoes, AnswerDoes DEF Returns
<1>5. QED
  BY <1>3, <1>4 DEF MintToken

LEMMA CheckVersionStep ==
  ASSUME HandoffInv, NEW d \in Desktops, CheckVersion(d)
  PROVE  Proceeds(d) \/ Returns(d)
<1>1. TypeOK /\ desk[d].pc = "version"
  BY DEF HandoffInv, CheckVersion
<1> DEFINE action == Reuse(helper[port].build, desk[d].build)
<1>2. CASE action = "GracefulHandoff" /\ Goto(d, "stopProbe") /\ UNCHANGED settled
  <2>1. ~SomeAborts
    <3>2. ~windows /\ helper[port].build \in Draining
      BY <1>2 DEF Reuse
    <3>3. \A h \in Helpers : helper[h].state # "free" => helper[h].build \in Draining
      BY <3>2 DEF HandoffInv, PreDrainAtPort
    <3>4. QED
      BY <3>2, <3>3 DEF SomeAborts
  <2>2. Moves(d, "stopProbe")
    BY <1>1, <1>2, GotoDoes DEF Places
  <2>3. QED
    BY <1>1, <1>2, <2>1, <2>2 DEF Proceeds, Places
<1>3. CASE Owned(d) /\ Answer(d, TRUE)
  BY <1>1, <1>3, AnswerDoes DEF Returns, Owned, Answers
<1>4. CASE Answer(d, FALSE)
  BY <1>1, <1>4, AnswerDoes DEF Returns
<1>5. QED
  BY <1>2, <1>3, <1>4 DEF CheckVersion

LEMMA SpawnHelperStep ==
  ASSUME HandoffInv, NEW d \in Desktops, SpawnHelper(d)
  PROVE  /\ faults' \in 0..MaxFaults
         /\ \/ helper' = helper /\ Returns(d)
            \/ Proceeds(d) /\ \E h \in Helpers : Spawns(h)
<1>1. TypeOK /\ Builds # {} /\ faults \in 0..MaxFaults /\ desk[d].pc = "spawn"
  BY DEF HandoffInv, TypeOK, SpawnHelper
<1> DEFINE free == {h \in Helpers : helper[h].state = "free"}
           h == FreeHelper(free)
           new == [state |-> "starting", build |-> desk[d].build, asked |-> "no"]
<1>2. CASE free # {} /\ helper' = [helper EXCEPT ![h] = new]
            /\ Goto(d, "await") /\ UNCHANGED <<settled, faults>>
  <2>1. h \in Helpers /\ helper[h].state = "free"
    BY <1>2 DEF FreeHelper
  <2>2. new \in Helper /\ new.build \in Draining
    BY <1>1, BuildAssumption DEF TypeOK, Helper, HelperStates
  <2>3. Becomes(h, "starting")
    <3> HIDE DEF h
    <3>1. QED
      BY <1>1, <1>2, <2>1, <2>2 DEF TypeOK, Helper, Becomes
  <2>4. Moves(d, "await")
    BY <1>1, <1>2, GotoDoes DEF Places
  <2>5. Proceeds(d)
    BY <1>1, <1>2, <2>4 DEF Proceeds, Places, Stopping
  <2>6. QED
    BY <1>1, <1>2, <2>1, <2>3, <2>5 DEF Spawns
<1>3. CASE Fault /\ Answer(d, FALSE) /\ UNCHANGED helper
  BY <1>1, <1>3, FaultDoes, AnswerDoes DEF Returns
<1>4. QED
  BY <1>2, <1>3 DEF SpawnHelper

LEMMA StopTokenStep ==
  ASSUME HandoffInv, NEW d \in Desktops, StopToken(d)
  PROVE  Proceeds(d) \/ Returns(d)
<1>1. TypeOK /\ token \in 0..MaxToken /\ desk[d].pc = "stopToken"
  BY DEF HandoffInv, TypeOK, StopToken
<1>2. CASE desk' = [desk EXCEPT ![d].held = token, ![d].pc = "stopVersion"] /\ UNCHANGED settled
  <2>1. Moves(d, "stopVersion") /\ desk'[d].goal = desk[d].goal
    BY <1>1, <1>2, ReadDoes DEF Places
  <2>2. SomeAborts => desk[d].goal = "release"
    BY <1>1 DEF HandoffInv, ReleaseOnly, Stopping
  <2>3. QED
    BY <1>1, <1>2, <2>1, <2>2 DEF Proceeds, Places
<1>3. CASE Answer(d, FALSE)
  BY <1>1, <1>3, AnswerDoes DEF Returns
<1>4. QED
  BY <1>2, <1>3 DEF StopToken

LEMMA ShutDownDoes ==
  ASSUME HandoffInv, NEW d \in Desktops, desk[d].pc = "post", Owned(d), ShutDown(d)
  PROVE  StopsHolder
<1>1. TypeOK /\ port \in Helpers
  BY DEF HandoffInv, TypeOK, Owned, Answers
<1>2. SomeAborts => desk[d].goal = "release"
  BY DEF HandoffInv, ReleaseOnly, Stopping
<1>3. helper \in [Helpers -> Helper] /\ helper[port].state # "free"
  BY <1>1, BoundAssumption DEF TypeOK, Helper
<1>4. \A g \in Helpers : g # port => helper'[g] = helper[g]
  BY <1>1, <1>3 DEF ShutDown
<1>5. /\ helper'[port].state = "closing" /\ helper'[port].build = helper[port].build
      /\ desk[d].goal = "release" => helper'[port].asked = "release"
      /\ helper'[port] \in Helper
  BY <1>1, <1>3 DEF ShutDown, Helper, HelperStates
<1>6. helper' = [g \in Helpers |-> helper'[g]]
  BY <1>3 DEF ShutDown
<1>7. QED
  BY <1>1, <1>2, <1>3, <1>4, <1>5, <1>6 DEF StopsHolder, Becomes

LEMMA PostStep ==
  ASSUME HandoffInv, NEW d \in Desktops, Post(d)
  PROVE  /\ faults' \in 0..MaxFaults
         /\ \/ helper' = helper /\ Returns(d)
            \/ Proceeds(d) /\ Moves(d, "released") /\ StopsHolder
            \/ Returns(d) /\ settled' = "never" /\ StopsHolder
<1>1. TypeOK /\ desk[d].pc = "post" /\ faults \in 0..MaxFaults
  BY DEF HandoffInv, TypeOK, Post
<1>2. CASE Owned(d) /\ ShutDown(d) /\ Goto(d, "released") /\ UNCHANGED <<settled, faults>>
  <2>1. StopsHolder /\ (SomeAborts => desk[d].goal = "release")
    BY <1>1, <1>2, ShutDownDoes DEF HandoffInv, ReleaseOnly, Stopping
  <2>2. Moves(d, "released") /\ desk'[d].goal = desk[d].goal
    BY <1>1, <1>2, GotoDoes DEF Places
  <2>3. QED
    BY <1>1, <1>2, <2>1, <2>2 DEF Proceeds, Places
<1>3. CASE Answer(d, FALSE) /\ UNCHANGED <<helper, faults>>
  BY <1>1, <1>3, AnswerDoes DEF Returns
<1>4. CASE Owned(d) /\ ShutDown(d) /\ Fault /\ Leave(d) /\ settled' = "never"
  BY <1>1, <1>4, ShutDownDoes, FaultDoes, LeaveDoes DEF Returns
<1>5. QED
  BY <1>2, <1>3, <1>4 DEF Post

LEMMA ReleasedStep ==
  ASSUME HandoffInv, NEW d \in Desktops, Released(d), Fails
  PROVE  Proceeds(d) \/ Returns(d)
<1>1. TypeOK /\ NoneCloses
  BY FailsMeansNoneCloses DEF HandoffInv
<1>2. CASE Goto(d, "spawn") /\ UNCHANGED settled
  <2>1. Moves(d, "spawn")
    BY <1>1, <1>2, GotoDoes DEF Places
  <2>2. QED
    BY <1>1, <1>2, <2>1 DEF Proceeds, Places, Stopping
<1>3. CASE desk[d].goal = "release" /\ Answer(d, TRUE)
  BY <1>1, <1>3, AnswerDoes DEF Returns
<1>4. QED
  BY <1>2, <1>3 DEF Released

LEMMA GiveUpReleaseStep ==
  ASSUME HandoffInv, NEW d \in Desktops, GiveUpRelease(d)
  PROVE  faults' \in 0..MaxFaults /\ Returns(d)
<1>1. TypeOK /\ faults \in 0..MaxFaults /\ PortHeld
  BY DEF HandoffInv, TypeOK
<1>2. CASE helper[port].state = "listening" /\ Answer(d, FALSE) /\ UNCHANGED faults
  <2>1. NoneCloses
    BY <1>1, <1>2 DEF PortHeld, NoneCloses
  <2>2. QED
    BY <1>1, <1>2, <2>1, AnswerDoes DEF Returns
<1>3. CASE Fault /\ Leave(d) /\ settled' = "never"
  BY <1>1, <1>3, FaultDoes, LeaveDoes DEF Returns
<1>4. QED
  BY <1>2, <1>3 DEF GiveUpRelease

LEMMA KillDesktopStep ==
  ASSUME HandoffInv, NEW d \in Desktops, KillDesktop(d)
  PROVE  faults' \in 0..MaxFaults /\ Returns(d)
<1>1. TypeOK
  BY DEF HandoffInv
<1>2. Fault /\ Leave(d) /\ settled' = IF desk[d].pc = "released" THEN "never" ELSE Settle("no")
  BY DEF KillDesktop
<1>3. QED
  BY <1>1, <1>2, FaultDoes, LeaveDoes DEF Returns, Settle, TypeOK

\* The actions that neither read a token nor change a helper.
LEMMA ProbeSteps ==
  ASSUME HandoffInv, NEW d \in Desktops,
         \/ Probe(d) \/ AwaitOwn(d) \/ AwaitOther(d) \/ GiveUpStart(d)
         \/ StopProbe(d) \/ StopVersion(d) \/ SeeReleased(d)
  PROVE  Proceeds(d) \/ Returns(d)
<1>1. TypeOK
  BY DEF HandoffInv
<1>2. ASSUME Answer(d, FALSE), desk[d].pc # "released"
      PROVE  Returns(d)
  BY <1>1, <1>2, AnswerDoes DEF Returns
<1>3. ASSUME Answer(d, TRUE), OwnsCurrent(d), desk[d].pc # "released"
      PROVE  Returns(d)
  BY <1>1, <1>3, AnswerDoes DEF Returns, OwnsCurrent, Owned, Answers
<1>4. ASSUME NEW place \in {"version", "spawn", "await", "awaitOther"},
             Goto(d, place), settled' = settled, desk[d].pc # "released"
      PROVE  Proceeds(d)
  <2>1. Moves(d, place)
    BY <1>1, <1>4, GotoDoes DEF Places
  <2>2. QED
    BY <1>4, <2>1 DEF Proceeds, Places, Stopping
<1>5. ASSUME NEW place \in {"stopToken", "post"},
             Goto(d, place), settled' = settled, desk[d].pc \in {"stopProbe", "stopVersion"}
      PROVE  Proceeds(d)
  <2>1. Moves(d, place) /\ desk'[d].goal = desk[d].goal
    BY <1>1, <1>5, GotoDoes DEF Places
  <2>2. SomeAborts => desk[d].goal = "release"
    BY <1>5 DEF HandoffInv, ReleaseOnly, Stopping
  <2>3. QED
    BY <1>5, <2>1, <2>2 DEF Proceeds, Places
<1>6. CASE Probe(d)
  BY <1>4, <1>6 DEF Probe
<1>7. CASE AwaitOwn(d)
  BY <1>3, <1>4, <1>7 DEF AwaitOwn
<1>8. CASE AwaitOther(d)
  <2>1. OwnsCurrent(d) \in BOOLEAN
    BY DEF OwnsCurrent, Owned
  <2>2. CASE OwnsCurrent(d) = TRUE /\ Answer(d, OwnsCurrent(d))
    BY <1>3, <1>8, <2>2 DEF AwaitOther
  <2>3. CASE OwnsCurrent(d) = FALSE /\ Answer(d, OwnsCurrent(d))
    BY <1>2, <1>8, <2>3 DEF AwaitOther
  <2>4. QED
    BY <1>4, <1>8, <2>1, <2>2, <2>3 DEF AwaitOther
<1>9. CASE GiveUpStart(d)
  BY <1>2, <1>9 DEF GiveUpStart
<1>10. CASE StopProbe(d)
  BY <1>5, <1>10, ReleasedStep DEF StopProbe
<1>11. CASE StopVersion(d)
  BY <1>2, <1>5, <1>11 DEF StopVersion
<1>12. CASE SeeReleased(d)
  BY <1>12, ReleasedStep DEF SeeReleased
<1>13. QED
  BY <1>6, <1>7, <1>8, <1>9, <1>10, <1>11, <1>12

\* Every step of a desktop is of one of these kinds.
LEMMA DesktopStepDoes ==
  ASSUME HandoffInv, NEW d \in Desktops, DesktopStep(d)
  PROVE  /\ UNCHANGED <<windows, port, session>>
         /\ token' \in 0..MaxToken /\ calls' \in 0..MaxCalls /\ faults' \in 0..MaxFaults
         /\ \/ helper' = helper /\ (Proceeds(d) \/ Returns(d))
            \/ Proceeds(d) /\ \E h \in Helpers : Spawns(h)
            \/ Proceeds(d) /\ Moves(d, "released") /\ StopsHolder
            \/ Returns(d) /\ settled' = "never" /\ StopsHolder
<1>1. token \in 0..MaxToken /\ calls \in 0..MaxCalls /\ faults \in 0..MaxFaults
  BY DEF HandoffInv, TypeOK
<1>2. ASSUME NEW goal \in {"ensure", "release"}, Call(d, goal)
      PROVE  /\ UNCHANGED <<windows, port, session, helper>>
             /\ token' \in 0..MaxToken /\ calls' \in 0..MaxCalls /\ faults' \in 0..MaxFaults
             /\ Proceeds(d)
  <2>1. UNCHANGED <<windows, port, session, helper, token, faults>>
    BY <1>2 DEF Call
  <2>2. calls' \in 0..MaxCalls
    <3>1. calls < MaxCalls /\ calls' = calls + 1
      BY <1>2 DEF Call
    <3>2. QED
      BY <1>1, <3>1, BoundAssumption
  <2>3. QED
    BY <1>1, <1>2, <2>1, <2>2, CallStep
<1>3. CASE ReadToken(d)
  BY <1>1, <1>3, ReadTokenStep DEF ReadToken
<1>4. CASE MintToken(d)
  BY <1>1, <1>4, MintTokenStep DEF MintToken
<1>5. CASE CheckVersion(d)
  BY <1>1, <1>5, CheckVersionStep DEF CheckVersion
<1>6. CASE SpawnHelper(d)
  BY <1>1, <1>6, SpawnHelperStep DEF SpawnHelper
<1>7. CASE StopToken(d)
  BY <1>1, <1>7, StopTokenStep DEF StopToken
<1>8. CASE Post(d)
  BY <1>1, <1>8, PostStep DEF Post
<1>9. CASE GiveUpRelease(d)
  BY <1>1, <1>9, GiveUpReleaseStep DEF GiveUpRelease
<1>10. CASE KillDesktop(d)
  BY <1>1, <1>10, KillDesktopStep DEF KillDesktop
<1>11. CASE \/ Probe(d) \/ AwaitOwn(d) \/ AwaitOther(d) \/ GiveUpStart(d)
            \/ StopProbe(d) \/ StopVersion(d) \/ SeeReleased(d)
  <2>1. UNCHANGED <<windows, port, helper, session, token, calls, faults>>
    BY <1>11 DEF Probe, AwaitOwn, AwaitOther, GiveUpStart, StopProbe, StopVersion, SeeReleased
  <2>2. Proceeds(d) \/ Returns(d)
    BY <1>11, ProbeSteps
  <2>3. QED
    BY <1>1, <2>1, <2>2
<1>12. QED
  BY <1>2, <1>3, <1>4, <1>5, <1>6, <1>7, <1>8, <1>9, <1>10, <1>11
     DEF DesktopStep, EnsureRunning, ShutdownAndWait
-----------------------------------------------------------------------------
\* What each part of the invariant needs of a step.

HelperActs(h) == Bind(h) \/ LeavePort(h) \/ Drained(h) \/ Kill(h)

LEMMA NextCases ==
  ASSUME Next
  PROVE  \/ \E d \in Desktops : DesktopStep(d)
         \/ \E h \in Helpers : HelperActs(h)
         \/ \E c \in Clients : HandleClient(c)
         \/ LoseToken
BY DEF Next, DesktopStep, HelperActs, RunServer

\* A helper's step: it takes the port, ends without having held it, or ends or
\* drains and frees the port if it held it.
LEMMA HelperActsDoes ==
  ASSUME HandoffInv, NEW h \in Helpers, HelperActs(h)
  PROVE  /\ UNCHANGED <<windows, token, desk, calls>>
         /\ faults' \in 0..MaxFaults
         /\ settled' \in {settled, "no"} /\ (settled = "never" => settled' = "never")
         /\ \/ Becomes(h, "listening") /\ port = NoOne /\ port' = h /\ UNCHANGED settled
            \/ Becomes(h, "free") /\ port # h /\ port' = port
            \/ /\ port = h /\ port' = NoOne
               /\ \/ Becomes(h, "free")
                  \/ Becomes(h, "draining") /\ helper[h].build \in Draining
               /\ helper[h].state = "closing" \/ settled' # "yes"
<1>1. /\ TypeOK /\ Builds # {} /\ faults \in 0..MaxFaults
      /\ settled \in {"no", "yes", "never"} /\ NoOne \notin Helpers
      /\ port # NoOne => helper[port].state \in {"listening", "closing"}
      /\ helper[h].state \in {"listening", "closing"} => port = h
  BY BoundAssumption DEF HandoffInv, TypeOK, PortHeld
<1>2. CASE Bind(h)
  <2>1. CASE port = NoOne /\ port' = h /\ helper' = [helper EXCEPT ![h].state = "listening"]
    <3>1. Becomes(h, "listening")
      BY <1>1, <1>2, <2>1, StateDoes DEF HelperStates, Bind
    <3>2. QED
      BY <1>1, <1>2, <2>1, <3>1 DEF Bind
  <2>2. CASE port # NoOne /\ UNCHANGED port /\ helper' = Gone(h)
    <3>1. Becomes(h, "free")
      BY <1>1, <2>2, GoneDoes
    <3>2. port # h
      BY <1>1, <1>2, <2>2 DEF Bind
    <3>3. QED
      BY <1>1, <1>2, <2>2, <3>1, <3>2 DEF Bind
  <2>3. QED
    BY <1>2, <2>1, <2>2 DEF Bind
<1>3. CASE LeavePort(h)
  <2>1. \/ Becomes(h, "free")
        \/ Becomes(h, "draining") /\ helper[h].build \in Draining
    BY <1>1, <1>3, GoneDoes, StateDoes DEF LeavePort, AbortsClients, HelperStates
  <2>2. helper[h].state = "closing" /\ port = h /\ port' = NoOne
    BY <1>1, <1>3 DEF LeavePort
  <2>3. QED
    BY <1>1, <1>3, <2>1, <2>2 DEF LeavePort
<1>4. CASE Drained(h)
  <2>1. Becomes(h, "free") /\ port # h
    BY <1>1, <1>4, GoneDoes DEF Drained
  <2>2. QED
    BY <1>1, <1>4, <2>1 DEF Drained
<1>5. CASE Kill(h)
  <2>1. Becomes(h, "free") /\ faults' \in 0..MaxFaults
    BY <1>1, <1>5, GoneDoes, FaultDoes DEF Kill
  <2>2. port' = (IF port = h THEN NoOne ELSE port) /\ settled' = Settle("no")
    BY <1>5 DEF Kill
  <2>3. QED
    BY <1>1, <1>5, <2>1, <2>2 DEF Kill, Settle
<1>6. QED
  BY <1>2, <1>3, <1>4, <1>5 DEF HelperActs

LEMMA HandleClientDoes ==
  ASSUME HandoffInv, NEW c \in Clients, HandleClient(c)
  PROVE  /\ UNCHANGED <<windows, port, helper, token, desk, calls, settled, faults>>
         /\ session' \in [Clients -> [at: Helpers \cup {NoOne},
                                      is: {"none", "queued", "served", "cut"}]]
         /\ session'[c].is # "cut" \/ session' = session
         /\ \A e \in Clients : e # c => session'[e] = session[e]
<1>1. /\ session \in [Clients -> [at: Helpers \cup {NoOne},
                               is: {"none", "queued", "served", "cut"}]]
      /\ port \in Helpers \cup {NoOne}
  BY DEF HandoffInv, TypeOK
<1>2. CASE Connect(c)
  BY <1>1, <1>2 DEF Connect
<1>3. CASE Admit(c)
  BY <1>1, <1>3 DEF Admit
<1>4. CASE End(c)
  BY <1>1, <1>4 DEF End
<1>5. QED
  BY <1>2, <1>3, <1>4 DEF HandleClient

LEMMA CutTyped ==
  ASSUME TypeOK, NEW h \in Helpers, Cut(h)
  PROVE  session' \in [Clients -> [at: Helpers \cup {NoOne},
                                   is: {"none", "queued", "served", "cut"}]]
BY DEF TypeOK, Cut
-----------------------------------------------------------------------------
\* The inductive invariant, part by part.

LEMMA TypesInductive ==
  ASSUME HandoffInv, [Next]_vars
  PROVE  TypeOK'
<1>1. TypeOK
  BY DEF HandoffInv
<1>2. ASSUME NEW d \in Desktops, DesktopStep(d)
      PROVE  TypeOK'
  <2>1. /\ UNCHANGED <<windows, port, session>>
        /\ token' \in 0..MaxToken /\ calls' \in 0..MaxCalls /\ faults' \in 0..MaxFaults
    BY <1>2, DesktopStepDoes
  <2>2. desk' \in [Desktops -> Desk] /\ settled' \in {"no", "yes", "never"}
    BY <1>1, <1>2, DesktopStepDoes DEF Proceeds, Returns, Moves, TypeOK
  <2>3. /\ helper' \in [Helpers -> Helper]
        /\ port # NoOne => helper'[port].state \in {"listening", "closing"}
    <3>1. CASE helper' = helper
      BY <1>1, <3>1 DEF TypeOK, Helper
    <3>2. CASE \E h \in Helpers : Spawns(h)
      BY <1>1, <3>2 DEF TypeOK, Helper, Spawns, Becomes
    <3>3. CASE StopsHolder
      BY <3>3 DEF StopsHolder, Becomes
    <3>4. QED
      BY <1>2, <3>1, <3>2, <3>3, DesktopStepDoes
  <2>4. QED
    BY <1>1, <2>1, <2>2, <2>3 DEF TypeOK, Desk, Helper
<1>3. ASSUME NEW h \in Helpers, HelperActs(h)
      PROVE  TypeOK'
  <2>1. UNCHANGED <<windows, token, desk, calls>> /\ faults' \in 0..MaxFaults
    BY <1>3, HelperActsDoes
  <2>2. settled' \in {"no", "yes", "never"}
    BY <1>1, <1>3, HelperActsDoes DEF TypeOK
  <2>3. helper' \in [Helpers -> Helper]
    BY <1>3, HelperActsDoes DEF Becomes
  <2>4. /\ port' \in Helpers \cup {NoOne}
        /\ port' # NoOne => helper'[port'].state \in {"listening", "closing"}
    BY <1>1, <1>3, HelperActsDoes DEF Becomes, TypeOK
  <2>5. session' = session \/ Cut(h)
    BY <1>3 DEF HelperActs, Bind, LeavePort, Drained, Kill
  <2>6. session' \in [Clients -> [at: Helpers \cup {NoOne},
                                  is: {"none", "queued", "served", "cut"}]]
    BY <1>1, <2>5, CutTyped DEF TypeOK
  <2>7. QED
    BY <1>1, <2>1, <2>2, <2>3, <2>4, <2>6 DEF TypeOK, Helper
<1>4. ASSUME NEW c \in Clients, HandleClient(c)
      PROVE  TypeOK'
  BY <1>1, <1>4, HandleClientDoes DEF TypeOK
<1>5. CASE LoseToken
  BY <1>1, <1>5, FaultDoes, TokenBound DEF TypeOK, LoseToken
<1>6. CASE UNCHANGED vars
  BY <1>1, <1>6 DEF TypeOK, vars
<1>7. QED
  BY <1>2, <1>3, <1>4, <1>5, <1>6, NextCases

LEMMA TokenReadInductive ==
  ASSUME HandoffInv, [Next]_vars
  PROVE  TokenRead'
<1>1. TokenRead
  BY DEF HandoffInv
<1>2. ASSUME NEW d \in Desktops, DesktopStep(d)
      PROVE  TokenRead'
  <2>1. /\ \A e \in Desktops : e # d => desk'[e] = desk[e]
        /\ desk'[d].pc \in {"idle", "token", "mint"} => desk'[d].held = 0
    BY <1>2, DesktopStepDoes DEF Proceeds, Returns, Moves
  <2>2. QED
    BY <1>1, <2>1 DEF TokenRead
<1>3. CASE UNCHANGED desk
  BY <1>1, <1>3 DEF TokenRead
<1>4. QED
  BY <1>2, <1>3, NextCases, HelperActsDoes, HandleClientDoes DEF LoseToken, vars

LEMMA PortHeldInductive ==
  ASSUME HandoffInv, [Next]_vars
  PROVE  PortHeld'
<1>1. /\ PortHeld /\ NoOne \notin Helpers
      /\ port # NoOne => helper[port].state \in {"listening", "closing"}
  BY BoundAssumption DEF HandoffInv, TypeOK
<1>2. ASSUME NEW d \in Desktops, DesktopStep(d)
      PROVE  PortHeld'
  <2>1. CASE helper' = helper
    BY <1>1, <1>2, <2>1, DesktopStepDoes DEF PortHeld
  <2>2. CASE \E h \in Helpers : Spawns(h)
    BY <1>1, <1>2, <2>2, DesktopStepDoes DEF PortHeld, Spawns, Becomes
  <2>3. CASE StopsHolder
    BY <1>1, <1>2, <2>3, DesktopStepDoes DEF PortHeld, StopsHolder, Becomes
  <2>4. QED
    BY <1>2, <2>1, <2>2, <2>3, DesktopStepDoes
<1>3. ASSUME NEW h \in Helpers, HelperActs(h)
      PROVE  PortHeld'
  BY <1>1, <1>3, HelperActsDoes DEF PortHeld, Becomes
<1>4. CASE UNCHANGED <<port, helper>>
  BY <1>1, <1>4 DEF PortHeld
<1>5. QED
  BY <1>2, <1>3, <1>4, NextCases, HandleClientDoes DEF LoseToken, vars

LEMMA PreDrainAtPortInductive ==
  ASSUME HandoffInv, [Next]_vars
  PROVE  PreDrainAtPort'
<1>1. PreDrainAtPort /\ NoOne \notin Helpers
  BY BoundAssumption DEF HandoffInv
<1>2. ASSUME NEW d \in Desktops, DesktopStep(d)
      PROVE  PreDrainAtPort'
  <2>1. port' = port
    BY <1>2, DesktopStepDoes
  <2>2. CASE helper' = helper
    BY <1>1, <2>1, <2>2 DEF PreDrainAtPort
  <2>3. CASE \E h \in Helpers : Spawns(h)
    BY <1>1, <2>1, <2>3 DEF PreDrainAtPort, Spawns, Becomes
  <2>4. CASE StopsHolder
    BY <1>1, <2>1, <2>4 DEF PreDrainAtPort, StopsHolder, Becomes
  <2>5. QED
    BY <1>2, <2>2, <2>3, <2>4, DesktopStepDoes
<1>3. ASSUME NEW h \in Helpers, HelperActs(h)
      PROVE  PreDrainAtPort'
  <2>1. CASE Becomes(h, "listening") /\ port = NoOne /\ port' = h
    BY <1>1, <2>1 DEF PreDrainAtPort, Becomes
  <2>2. CASE Becomes(h, "free") /\ port # h /\ port' = port
    BY <1>1, <2>2 DEF PreDrainAtPort, Becomes
  <2>3. CASE /\ port = h
             /\ \/ Becomes(h, "free")
                \/ Becomes(h, "draining") /\ helper[h].build \in Draining
    BY <1>1, <2>3 DEF PreDrainAtPort, Becomes
  <2>4. QED
    BY <1>3, <2>1, <2>2, <2>3, HelperActsDoes
<1>4. CASE UNCHANGED <<port, helper>>
  BY <1>1, <1>4 DEF PreDrainAtPort
<1>5. QED
  BY <1>2, <1>3, <1>4, NextCases, HandleClientDoes DEF LoseToken, vars

LEMMA ReleaseOnlyInductive ==
  ASSUME HandoffInv, [Next]_vars
  PROVE  ReleaseOnly'
<1>1. ReleaseOnly
  BY DEF HandoffInv
<1>2. ASSUME NEW d \in Desktops, DesktopStep(d)
      PROVE  ReleaseOnly'
  <2>1. SomeAborts' => SomeAborts
    BY <1>2, DesktopStepDoes DEF SomeAborts, Spawns, StopsHolder, Becomes
  <2>2. SomeAborts => \A e \in Desktops : desk'[e].pc \in Stopping => desk'[e].goal = "release"
    <3>1. /\ \A e \in Desktops : e # d => desk'[e] = desk[e]
          /\ SomeAborts /\ desk'[d].pc \in Stopping => desk'[d].goal = "release"
      BY <1>2, DesktopStepDoes DEF Proceeds, Returns, Moves, Stopping
    <3>2. QED
      BY <1>1, <3>1 DEF ReleaseOnly
  <2>3. SomeAborts => \A h \in Helpers : helper'[h].state = "closing" => helper'[h].asked = "release"
    BY <1>1, <1>2, DesktopStepDoes DEF ReleaseOnly, Spawns, StopsHolder, Becomes
  <2>4. QED
    BY <2>1, <2>2, <2>3 DEF ReleaseOnly
<1>3. ASSUME NEW h \in Helpers, HelperActs(h)
      PROVE  ReleaseOnly'
  <2>1. SomeAborts' => SomeAborts
    BY <1>3, HelperActsDoes DEF SomeAborts, Becomes
  <2>2. QED
    BY <1>1, <1>3, <2>1, HelperActsDoes DEF ReleaseOnly, Becomes
<1>4. CASE UNCHANGED <<windows, desk, helper>>
  BY <1>1, <1>4 DEF ReleaseOnly, SomeAborts
<1>5. QED
  BY <1>2, <1>3, <1>4, NextCases, HandleClientDoes DEF LoseToken, vars

LEMMA ClosingWatchedInductive ==
  ASSUME HandoffInv, [Next]_vars
  PROVE  ClosingWatched'
<1>1. ClosingWatched
  BY DEF HandoffInv
<1>2. ASSUME NEW d \in Desktops, DesktopStep(d)
      PROVE  ClosingWatched'
  <2>1. /\ \A e \in Desktops : e # d => desk'[e] = desk[e]
        /\ settled = "never" => settled' = "never"
    BY <1>2, DesktopStepDoes DEF Proceeds, Returns, Moves
  <2>2. CASE desk'[d].pc = "released"
    BY <2>2 DEF ClosingWatched
  <2>3. CASE /\ desk[d].pc = "released" => NoneCloses \/ settled' = "never"
             /\ \A h \in Helpers : helper'[h].state = "closing" => helper[h].state = "closing"
    BY <1>1, <2>1, <2>3 DEF ClosingWatched, NoneCloses
  <2>4. CASE StopsHolder /\ Moves(d, "released")
    BY <2>2, <2>4 DEF Moves
  <2>5. desk[d].pc = "released" => NoneCloses \/ settled' = "never"
    BY <1>2, DesktopStepDoes DEF Proceeds, Returns
  <2>6. CASE settled' = "never"
    BY <2>6 DEF ClosingWatched
  <2>7. QED
    BY <1>2, <2>3, <2>4, <2>5, <2>6, DesktopStepDoes DEF Spawns, Becomes
<1>3. ASSUME NEW h \in Helpers, HelperActs(h)
      PROVE  ClosingWatched'
  BY <1>1, <1>3, HelperActsDoes DEF ClosingWatched, Becomes
<1>4. CASE UNCHANGED <<desk, helper, settled>>
  BY <1>1, <1>4 DEF ClosingWatched
<1>5. QED
  BY <1>2, <1>3, <1>4, NextCases, HandleClientDoes DEF LoseToken, vars

LEMMA AnswerTrueInductive ==
  ASSUME HandoffInv, [Next]_vars
  PROVE  AnswerTrue'
<1>1. /\ AnswerTrue /\ ClosingWatched
      /\ port \in Helpers \cup {NoOne} /\ NoOne \notin Helpers
      /\ port # NoOne => helper[port].state \in {"listening", "closing"}
  BY BoundAssumption DEF HandoffInv, TypeOK
<1>2. ASSUME NEW d \in Desktops, DesktopStep(d)
      PROVE  AnswerTrue'
  <2>1. port' = port /\ \A e \in Desktops : e # d => desk'[e] = desk[e]
    BY <1>2, DesktopStepDoes DEF Proceeds, Returns, Moves
  <2>2. CASE Proceeds(d)
    BY <2>2 DEF Proceeds, Moves, AnswerTrue
  <2>3. CASE helper' = helper /\ Returns(d)
    <3> SUFFICES ASSUME settled' = "yes"
                 PROVE  \/ port # NoOne /\ helper[port].state = "listening"
                        \/ \E e \in Desktops : desk'[e].pc # "idle"
      BY <2>1, <2>3 DEF AnswerTrue
    <3>1. port # NoOne /\ desk[d].pc # "released" /\ settled # "never"
      BY <2>3 DEF Returns
    <3>2. CASE helper[port].state = "closing"
      <4>1. PICK e \in Desktops : desk[e].pc = "released"
        BY <1>1, <3>1, <3>2 DEF ClosingWatched
      <4>2. QED
        BY <2>1, <3>1, <4>1
    <3>3. QED
      BY <1>1, <3>1, <3>2
  <2>4. CASE settled' = "never"
    BY <2>4 DEF AnswerTrue
  <2>5. QED
    BY <1>2, <2>2, <2>3, <2>4, DesktopStepDoes
<1>3. ASSUME NEW h \in Helpers, HelperActs(h)
      PROVE  AnswerTrue'
  <2>1. CASE Becomes(h, "listening") /\ port' = h
    BY <1>1, <2>1 DEF AnswerTrue, Becomes
  <2>2. CASE Becomes(h, "free") /\ port # h /\ port' = port
    BY <1>1, <1>3, <2>2, HelperActsDoes DEF AnswerTrue, Becomes
  <2>3. CASE settled' # "yes"
    BY <2>3 DEF AnswerTrue
  <2>4. CASE helper[h].state = "closing" /\ settled' = "yes"
    BY <1>1, <1>3, <2>4, HelperActsDoes DEF AnswerTrue, ClosingWatched
  <2>5. QED
    BY <1>3, <2>1, <2>2, <2>3, <2>4, HelperActsDoes
<1>4. CASE UNCHANGED <<desk, helper, port, settled>>
  BY <1>1, <1>4 DEF AnswerTrue
<1>5. CASE LoseToken
  BY <1>4, <1>5 DEF LoseToken
<1>6. CASE UNCHANGED vars
  BY <1>4, <1>6 DEF vars
<1>7. QED
  BY <1>2, <1>3, <1>4, <1>5, <1>6, NextCases, HandleClientDoes

LEMMA HandoffInit == Init => HandoffInv
<1> SUFFICES ASSUME Init PROVE HandoffInv
  OBVIOUS
<1>1. PICK b \in Builds, p \in {FreeHelper(Helpers), NoOne} :
        /\ port = p
        /\ token = (IF p = NoOne THEN 0 ELSE 1)
        /\ helper = [h \in Helpers |->
             IF h = p THEN [state |-> "listening", build |-> b, asked |-> "no"]
                      ELSE [state |-> "free", build |-> AnyBuild, asked |-> "no"]]
  BY DEF Init
<1>2. Builds # {} /\ AnyBuild \in Builds
  BY <1>1, AnyBuildTyped
<1>3. p \in Helpers \cup {NoOne} /\ NoOne \notin Helpers
  BY BoundAssumption, <1>1 DEF FreeHelper
<1>4. \A d \in Desktops : desk[d].pc = "idle" /\ desk[d].held = 0
  BY DEF Init
<1>5. \A h \in Helpers : helper[h].state = (IF h = p THEN "listening" ELSE "free")
  BY <1>1
<1>6. TypeOK
  <2>1. token \in 0..MaxToken /\ calls \in 0..MaxCalls /\ faults \in 0..MaxFaults
    BY <1>1, TokenBound, BoundAssumption DEF Init
  <2>2. desk \in [Desktops -> [pc: Places, build: OwnBuilds,
                               goal: {"ensure", "release"}, held: 0..MaxToken]]
    <3>1. desk \in [Desktops -> [pc: {"idle"}, build: OwnBuilds, goal: {"ensure"}, held: {0}]]
      BY DEF Init
    <3>2. QED
      BY <3>1, TokenBound DEF Places
  <2>3. helper \in [Helpers -> [state: HelperStates, build: Builds,
                                asked: {"no", "handoff", "release"}]]
    BY <1>1, <1>2 DEF HelperStates
  <2>4. session \in [Clients -> [at: Helpers \cup {NoOne},
                                 is: {"none", "queued", "served", "cut"}]]
    BY DEF Init
  <2>5. windows \in BOOLEAN /\ settled = "no"
    BY DEF Init
  <2>6. QED
    BY <1>1, <1>3, <1>5, <2>1, <2>2, <2>3, <2>4, <2>5 DEF TypeOK
<1>7. QED
  BY <1>1, <1>2, <1>3, <1>4, <1>5, <1>6
     DEF HandoffInv, TokenRead, PortHeld, PreDrainAtPort, ReleaseOnly, Stopping, ClosingWatched, AnswerTrue, Init

LEMMA HandoffStep == HandoffInv /\ [Next]_vars => HandoffInv'
BY TypesInductive, TokenReadInductive, PortHeldInductive, PreDrainAtPortInductive, ReleaseOnlyInductive,
   ClosingWatchedInductive, AnswerTrueInductive DEF HandoffInv

LEMMA HandoffInvariant == Spec => []HandoffInv
BY HandoffInit, HandoffStep, PTL DEF Spec
-----------------------------------------------------------------------------
\* Every variable keeps its type, and the helper that holds the port listens or closes.
THEOREM TypeCorrect == Spec => []TypeOK
BY HandoffInvariant, PTL DEF HandoffInv

\* An answer of ensure_running that the router is there is true once every call
\* has returned, whichever desktops replaced or stopped a helper meanwhile.
THEOREM NoPortLeftDead == Spec => []NoDeadPort
<1>1. HandoffInv => NoDeadPort
  BY DEF HandoffInv, AnswerTrue, NoDeadPort
<1>2. QED
  BY <1>1, HandoffInvariant, PTL

\* No handoff between builds cuts a session: who is cut was with a helper that was
\* killed or with one that cannot drain and was told to stop for good.
THEOREM HandoffKeepsSessions == Spec => HandoffCutsNothing
<1> DEFINE Kept == \A c \in Clients :
      session[c].is \in {"queued", "served"} /\ session'[c].is = "cut"
      => \/ faults' # faults
         \/ /\ AbortsClients(session[c].at)
            /\ helper[session[c].at].asked = "release"
<1>1. HandoffInv /\ [Next]_vars => [Kept]_vars
  <2> SUFFICES ASSUME HandoffInv, Next, NEW c \in Clients,
                      session[c].is \in {"queued", "served"}, session'[c].is = "cut"
               PROVE  \/ faults' # faults
                      \/ /\ AbortsClients(session[c].at)
                         /\ helper[session[c].at].asked = "release"
    OBVIOUS
  <2>1. TypeOK /\ session' # session
    BY DEF HandoffInv
  <2>2. CASE \E d \in Desktops : DesktopStep(d)
    BY <2>1, <2>2, DesktopStepDoes
  <2>3. CASE \E e \in Clients : HandleClient(e)
    BY <2>1, <2>3, HandleClientDoes
  <2>4. CASE LoseToken
    BY <2>1, <2>4 DEF LoseToken
  <2>5. ASSUME NEW h \in Helpers, HelperActs(h)
        PROVE  \/ faults' # faults
               \/ AbortsClients(session[c].at) /\ helper[session[c].at].asked = "release"
    <3>1. CASE Kill(h)
      BY <2>1, <3>1, FaultDoes DEF Kill
    <3>2. CASE LeavePort(h)
      <4>1. AbortsClients(h) /\ Cut(h) /\ helper[h].state = "closing"
        BY <2>1, <3>2 DEF LeavePort
      <4>2. session[c].at = h
        BY <2>1, <4>1 DEF Cut
      <4>3. helper[h].asked = "release"
        BY <4>1 DEF HandoffInv, ReleaseOnly, SomeAborts, AbortsClients
      <4>4. QED
        BY <4>1, <4>2, <4>3
    <3>3. QED
      BY <2>1, <2>5, <3>1, <3>2 DEF HelperActs, Bind, Drained
  <2>6. QED
    BY <2>2, <2>3, <2>4, <2>5, NextCases
<1>2. QED
  BY <1>1, HandoffInvariant, PTL DEF Spec, HandoffCutsNothing
=============================================================================
