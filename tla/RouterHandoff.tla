---------------------------- MODULE RouterHandoff ----------------------------
(***************************************************************************)
(* The detached Codex router (codex_router.rs): processes of several       *)
(* builds that own the stable port 6891 one after the other, the desktops  *)
(* that look for one, replace one or stop one, and the Codex sessions they *)
(* carry.                                                                  *)
(*                                                                         *)
(* start_lock serialises the callers of one desktop process, so a desktop  *)
(* is one thread here.  Nothing serialises two of them: a second launch,   *)
(* or an uninstaller, runs ensure_running or shutdown_and_wait in its own  *)
(* process, before the single-instance plugin sends it away.               *)
(*                                                                         *)
(* Every probe is a connection of its own and sees whoever holds the port  *)
(* at that moment.  A helper answers a connection only when one of its     *)
(* MAX_INFLIGHT permits is free; the probe gives up after CONNECT_TIMEOUT. *)
(***************************************************************************)
EXTENDS Naturals, FiniteSets

CONSTANTS
    Desktops,      \* processes that manage the router
    Helpers,       \* detached router processes
    Clients,       \* Codex sessions
    Builds,        \* versions a helper may report
    OwnBuilds,     \* the builds a desktop may be of
    Draining,      \* builds whose version says "+drain.", as every own one does
    OtherProtocol, \* builds that speak another ROUTER_PROTOCOL_VERSION
    NoOne,         \* nobody holds the port, a session is at no helper
    MaxInflight,   \* MAX_INFLIGHT
    MaxCalls,      \* bound on calls of ensure_running and shutdown_and_wait
    MaxFaults      \* bound on faults

ASSUME BuildAssumption ==
    /\ Draining \cup OtherProtocol \subseteq Builds
    /\ OwnBuilds \subseteq Draining
ASSUME BoundAssumption ==
    /\ IsFiniteSet(Desktops) /\ Helpers # {}
    /\ MaxInflight \in Nat \ {0}
    /\ {MaxCalls, MaxFaults} \subseteq Nat
    /\ NoOne \notin Helpers

VARIABLES
    windows,   \* cfg!(windows)
    port,      \* the helper that listens on CODEX_ROUTER_PORT
    helper,    \* each helper: state, build, and who asked it to stop
    session,   \* each session: the helper it is at and how far it is
    token,     \* the control token in the state file, 0 when there is none
    desk,      \* each desktop: pc, build, goal, and the token it read
    calls,
    settled,   \* history: was the last answer Ok and has nothing failed since?
               \* "never" once a desktop left a helper closing and went away
    faults

vars == <<windows, port, helper, session, token, desk, calls, settled, faults>>

HelperStates == {"free", "starting", "listening", "closing", "draining"}
Places == {"idle", "token", "mint", "probe", "version", "stopProbe", "stopToken",
           "stopVersion", "post", "released", "spawn", "await", "awaitOther"}

\* A new UUID is one that nobody remembers, so a few of them are enough.
MaxToken == Cardinality(Desktops) + 1
FreshToken == CHOOSE t \in 1..MaxToken :
    t # token /\ \A d \in Desktops : t # desk[d].held

TypeOK ==
    /\ windows \in BOOLEAN
    /\ port \in Helpers \cup {NoOne}
    /\ helper \in [Helpers -> [state: HelperStates, build: Builds,
                               asked: {"no", "handoff", "release"}]]
    /\ session \in [Clients -> [at: Helpers \cup {NoOne},
                                is: {"none", "queued", "served", "cut"}]]
    /\ token \in 0..MaxToken
    /\ desk \in [Desktops -> [pc: Places, build: OwnBuilds,
                              goal: {"ensure", "release"}, held: 0..MaxToken]]
    /\ port # NoOne => helper[port].state \in {"listening", "closing"}
    /\ calls \in 0..MaxCalls
    /\ settled \in {"no", "yes", "never"}
    /\ faults \in 0..MaxFaults

\* The build of a process that has ended is of no interest.
AnyBuild == CHOOSE b \in Builds : TRUE
Gone(h) == [helper EXCEPT ![h].state = "free", ![h].build = AnyBuild]

\* Which of the free identities a new process gets makes no difference.
FreeHelper(free) == CHOOSE h \in free : TRUE

\* A helper of an earlier launch may be there, of whatever build, or none.
Init ==
    /\ windows \in BOOLEAN
    /\ session = [c \in Clients |-> [at |-> NoOne, is |-> "none"]]
    /\ desk \in [Desktops -> [pc: {"idle"}, build: OwnBuilds, goal: {"ensure"}, held: {0}]]
    /\ \E b \in Builds, p \in {FreeHelper(Helpers), NoOne} :
        /\ p = NoOne => b = AnyBuild
        /\ port = p
        /\ token = (IF p = NoOne THEN 0 ELSE 1)
        /\ helper = [h \in Helpers |->
             IF h = p THEN [state |-> "listening", build |-> b, asked |-> "no"]
                      ELSE [state |-> "free", build |-> AnyBuild, asked |-> "no"]]
    /\ calls = 0 /\ faults = 0
    /\ settled = "no"
-----------------------------------------------------------------------------
\* What a desktop learns from a connection.

InFlight(h) == {c \in Clients : session[c] = [at |-> h, is |-> "served"]}
HasPermit(h) == Cardinality(InFlight(h)) < MaxInflight

\* May a connection made now be answered, may it fail?  A helper without a free
\* permit lets the probe time out.  One that is closing is gone before that, and
\* a connection it no longer accepts fails when the listener is dropped.
Answers == port # NoOne /\ HasPermit(port)
Fails ==
    \/ port = NoOne
    \/ port # NoOne /\ ~HasPermit(port) /\ helper[port].state = "listening"

\* The helper echoes the probe's token when its state file holds the same.
Owned(d) == Answers /\ token # 0 /\ token = desk[d].held
OwnsCurrent(d) == Owned(d) /\ helper[port].build = desk[d].build

\* Mutant: Windows hands over as well.
ReuseOnWindows(theirs, mine) ==
    IF theirs = mine THEN "Current"
    ELSE IF theirs \in OtherProtocol THEN "Incompatible"
    ELSE IF theirs \in Draining THEN "GracefulHandoff"
    ELSE "LegacyDirect"

Goto(d, place) == desk' = [desk EXCEPT ![d].pc = place]

\* router_reuse_action.
Reuse(theirs, mine) ==
    IF theirs = mine THEN "Current"
    ELSE IF theirs \in OtherProtocol THEN "Incompatible"
    ELSE IF ~windows /\ theirs \in Draining THEN "GracefulHandoff"
    ELSE "LegacyDirect"

\* Its locals go out of scope.
Leave(d) == desk' = [desk EXCEPT ![d].pc = "idle", ![d].goal = "ensure", ![d].held = 0]

Settle(as) == IF settled = "never" THEN settled ELSE as

\* The call returns.  Only an answer of ensure_running can settle the port.
Answer(d, ok) ==
    /\ Leave(d)
    /\ settled' = Settle(IF ok /\ desk[d].goal = "ensure" THEN "yes" ELSE "no")

Fault == faults < MaxFaults /\ faults' = faults + 1
-----------------------------------------------------------------------------
\* ensure_running and shutdown_and_wait.

Call(d, goal) ==
    /\ desk[d].pc = "idle"
    /\ calls < MaxCalls
    /\ calls' = calls + 1
    /\ desk' = [desk EXCEPT ![d].goal = goal,
                            ![d].pc = IF goal = "ensure" THEN "token" ELSE "stopProbe"]
    /\ settled' = Settle(IF goal = "ensure" THEN settled ELSE "no")
    /\ UNCHANGED <<windows, port, helper, session, token, faults>>

\* ensure_control_token: state_write_lock does not reach the other process.
ReadToken(d) ==
    /\ desk[d].pc = "token"
    /\ desk' = [desk EXCEPT ![d].held = token,
                            ![d].pc = IF token = 0 THEN "mint" ELSE "probe"]
    /\ UNCHANGED <<windows, port, helper, session, token, calls, settled, faults>>

\* The write of a fresh token may fail.
MintToken(d) ==
    /\ desk[d].pc = "mint"
    /\ UNCHANGED <<windows, port, helper, session, calls>>
    /\ \/ /\ token' = FreshToken
          /\ desk' = [desk EXCEPT ![d].held = token', ![d].pc = "probe"]
          /\ UNCHANGED <<settled, faults>>
       \/ Fault /\ Answer(d, FALSE) /\ UNCHANGED token

\* probe_router_public: no answer, nobody to reuse.
Probe(d) ==
    /\ desk[d].pc = "probe"
    /\ \/ Answers /\ Goto(d, "version")
       \/ Fails /\ Goto(d, "spawn")
    /\ UNCHANGED <<windows, port, helper, session, token, calls, settled, faults>>

\* probe_router_owned_version and what follows from it.
CheckVersion(d) ==
    /\ desk[d].pc = "version"
    /\ \/ /\ Owned(d)
          /\ LET action == Reuse(helper[port].build, desk[d].build) IN
             \/ action = "GracefulHandoff" /\ Goto(d, "stopProbe") /\ UNCHANGED settled
             \/ action = "Current" /\ Answer(d, TRUE)
             \/ action \in {"LegacyDirect", "Incompatible"} /\ Answer(d, FALSE)
       \/ (Fails \/ ~Owned(d)) /\ Answer(d, FALSE)
    /\ UNCHANGED <<windows, port, helper, session, token, calls, faults>>

\* Mutant: after a handoff the port is taken to be served.
ReleasedAsIs(d) == Answer(d, TRUE)

\* shutdown_and_wait_locked returns Ok: the handoff goes on, a release is done.
Released(d) ==
    \/ desk[d].goal = "ensure" /\ Goto(d, "spawn") /\ UNCHANGED settled
    \/ desk[d].goal = "release" /\ Answer(d, TRUE)

StopProbe(d) ==
    /\ desk[d].pc = "stopProbe"
    /\ \/ Answers /\ Goto(d, "stopToken") /\ UNCHANGED settled
       \/ Fails /\ Released(d)
    /\ UNCHANGED <<windows, port, helper, session, token, calls, faults>>

StopToken(d) ==
    /\ desk[d].pc = "stopToken"
    /\ \/ /\ token # 0
          /\ desk' = [desk EXCEPT ![d].held = token, ![d].pc = "stopVersion"]
          /\ UNCHANGED settled
       \/ token = 0 /\ Answer(d, FALSE)
    /\ UNCHANGED <<windows, port, helper, session, token, calls, faults>>

StopVersion(d) ==
    /\ desk[d].pc = "stopVersion"
    /\ \/ Owned(d) /\ Goto(d, "post") /\ UNCHANGED settled
       \/ (Fails \/ ~Owned(d)) /\ Answer(d, FALSE)
    /\ UNCHANGED <<windows, port, helper, session, token, calls, faults>>

\* handle_router_control: the helper that holds the port closes.  Who asked last is
\* who it closes for.
ShutDown(d) ==
    helper' = [helper EXCEPT ![port].state = "closing",
                 ![port].asked = IF desk[d].goal = "release" THEN "release"
                                 ELSE IF @ = "release" THEN @ ELSE "handoff"]

\* request_shutdown: the helper says 202; it does not know the token; or its answer
\* is lost, and the call fails while the helper closes.
Post(d) ==
    /\ desk[d].pc = "post"
    /\ \/ /\ Owned(d) /\ ShutDown(d) /\ Goto(d, "released")
          /\ UNCHANGED <<settled, faults>>
       \/ (Fails \/ ~Owned(d)) /\ Answer(d, FALSE) /\ UNCHANGED <<helper, faults>>
       \/ Owned(d) /\ ShutDown(d) /\ Fault /\ Leave(d) /\ settled' = "never"
    /\ UNCHANGED <<windows, port, session, token, calls>>

\* wait_router_released: polls until nobody answers.
SeeReleased(d) ==
    /\ desk[d].pc = "released"
    /\ Fails
    /\ Released(d)
    /\ UNCHANGED <<windows, port, helper, session, token, calls, faults>>

\* Its deadline: another desktop's helper answers, or the one that closes
\* has been held up for three seconds, which takes a fault.
GiveUpRelease(d) ==
    /\ desk[d].pc = "released"
    /\ Answers
    /\ \/ helper[port].state = "listening" /\ Answer(d, FALSE) /\ UNCHANGED faults
       \/ helper[port].state = "closing" /\ Fault /\ Leave(d) /\ settled' = "never"
    /\ UNCHANGED <<windows, port, helper, session, token, calls>>

\* The detached child; the spawn itself may fail.
SpawnHelper(d) ==
    /\ desk[d].pc = "spawn"
    /\ UNCHANGED <<windows, port, session, token, calls>>
    /\ \/ LET free == {h \in Helpers : helper[h].state = "free"} IN
          /\ free # {}
          /\ helper' = [helper EXCEPT ![FreeHelper(free)] =
               [state |-> "starting", build |-> desk[d].build, asked |-> "no"]]
          /\ Goto(d, "await")
          /\ UNCHANGED <<settled, faults>>
       \/ Fault /\ Answer(d, FALSE) /\ UNCHANGED helper

\* The startup loop: first whether ours is up,
AwaitOwn(d) ==
    /\ desk[d].pc = "await"
    /\ \/ OwnsCurrent(d) /\ Answer(d, TRUE)
       \/ (Fails \/ ~OwnsCurrent(d)) /\ Goto(d, "awaitOther") /\ UNCHANGED settled
    /\ UNCHANGED <<windows, port, helper, session, token, calls, faults>>

\* then whether somebody else is; if nobody is, once more.
AwaitOther(d) ==
    /\ desk[d].pc = "awaitOther"
    /\ \/ Fails /\ Goto(d, "await") /\ UNCHANGED settled
       \/ Answers /\ Answer(d, OwnsCurrent(d))
    /\ UNCHANGED <<windows, port, helper, session, token, calls, faults>>

\* Mutant: the startup loop has no deadline.
GiveUpStartNever(d) ==
    /\ FALSE
    /\ UNCHANGED vars

\* STARTUP_WAIT passes; a probe under way makes no difference.
GiveUpStart(d) ==
    /\ desk[d].pc \in {"await", "awaitOther"}
    /\ Answer(d, FALSE)
    /\ UNCHANGED <<windows, port, helper, session, token, calls, faults>>
-----------------------------------------------------------------------------
\* The helpers.

\* run_server: one attempt to bind; without the port the process ends.
Bind(h) ==
    /\ helper[h].state = "starting"
    /\ \/ port = NoOne /\ port' = h /\ helper' = [helper EXCEPT ![h].state = "listening"]
       \/ port # NoOne /\ UNCHANGED port /\ helper' = Gone(h)
    /\ UNCHANGED <<windows, session, token, desk, calls, settled, faults>>

Cut(h) == session' = [c \in Clients |->
    IF session[c].at = h THEN [at |-> NoOne, is |-> "cut"] ELSE session[c]]

\* Mutant: the listener is dropped after the sessions have ended.
DrainFirst(h) ==
    /\ helper[h].state = "closing"
    /\ helper' = [helper EXCEPT ![h].state = "draining"]
    /\ UNCHANGED <<windows, port, session, token, desk, calls, settled, faults>>

\* drain_router_clients: Windows aborts the clients, and so does a helper of before
\* there was a drain (router_reuse_action).
AbortsClients(h) == windows \/ helper[h].build \notin Draining

\* ROUTER_SHUTDOWN_REQUESTED is set after the drain of 100 ms and seen by the
\* accept loop, which drops the listener first.
LeavePort(h) ==
    /\ helper[h].state = "closing"
    /\ port' = NoOne
    /\ \/ AbortsClients(h) /\ helper' = Gone(h) /\ Cut(h)
       \/ ~AbortsClients(h) /\ UNCHANGED session
          /\ helper' = [helper EXCEPT ![h].state = "draining"]
    /\ UNCHANGED <<windows, token, desk, calls, settled, faults>>

\* drain_router_clients has joined the last one, and the process ends.
Drained(h) ==
    /\ helper[h].state = "draining"
    /\ \A c \in Clients : session[c].at # h
    /\ helper' = Gone(h)
    /\ UNCHANGED <<windows, port, session, token, desk, calls, settled, faults>>

\* Codex connects to the stable port.  The task may wait for a permit; once it
\* has one the request is relayed or forwarded until either side is done.
Connect(c) ==
    /\ session[c].is = "none"
    /\ port # NoOne
    /\ session' = [session EXCEPT ![c] = [at |-> port, is |-> "queued"]]
    /\ UNCHANGED <<windows, port, helper, token, desk, calls, settled, faults>>

Admit(c) ==
    /\ session[c].is = "queued"
    /\ HasPermit(session[c].at)
    /\ session' = [session EXCEPT ![c].is = "served"]
    /\ UNCHANGED <<windows, port, helper, token, desk, calls, settled, faults>>

End(c) ==
    /\ session[c].is # "none"
    /\ session' = [session EXCEPT ![c] = [at |-> NoOne, is |-> "none"]]
    /\ UNCHANGED <<windows, port, helper, token, desk, calls, settled, faults>>
-----------------------------------------------------------------------------
\* Faults: a helper is killed, a desktop is killed in the middle of a call, the
\* state file is lost (stop_heartbeat removes it when it cannot write it).

Kill(h) ==
    /\ Fault
    /\ helper[h].state # "free"
    /\ helper' = Gone(h)
    /\ port' = IF port = h THEN NoOne ELSE port
    /\ Cut(h)
    /\ settled' = Settle("no")
    /\ UNCHANGED <<windows, token, desk, calls>>

KillDesktop(d) ==
    /\ Fault
    /\ desk[d].pc # "idle"
    /\ Leave(d)
    /\ settled' = IF desk[d].pc = "released" THEN "never" ELSE Settle("no")
    /\ UNCHANGED <<windows, port, helper, session, token, calls>>

LoseToken ==
    /\ Fault
    /\ token # 0
    /\ token' = 0
    /\ UNCHANGED <<windows, port, helper, session, desk, calls, settled>>
-----------------------------------------------------------------------------
EnsureRunning(d) ==
    \/ ReadToken(d) \/ MintToken(d) \/ Probe(d) \/ CheckVersion(d)
    \/ SpawnHelper(d) \/ AwaitOwn(d) \/ AwaitOther(d) \/ GiveUpStart(d)

ShutdownAndWait(d) ==
    \/ StopProbe(d) \/ StopToken(d) \/ StopVersion(d) \/ Post(d)
    \/ SeeReleased(d) \/ GiveUpRelease(d)

RunServer(h) == Bind(h) \/ LeavePort(h) \/ Drained(h)

HandleClient(c) == Connect(c) \/ Admit(c) \/ End(c)

Next ==
    \/ \E d \in Desktops :
         \/ \E goal \in {"ensure", "release"} : Call(d, goal)
         \/ EnsureRunning(d) \/ ShutdownAndWait(d) \/ KillDesktop(d)
    \/ \E h \in Helpers : RunServer(h) \/ Kill(h)
    \/ \E c \in Clients : HandleClient(c)
    \/ LoseToken

\* The desktop's calls run and their deadlines pass; helpers run.  Codex
\* sessions last as long as they like, and nobody has to call again.
Fairness ==
    /\ \A d \in Desktops : WF_vars(EnsureRunning(d) \/ ShutdownAndWait(d))
                        /\ WF_vars(GiveUpStart(d))
    /\ \A h \in Helpers : WF_vars(RunServer(h))

Spec == Init /\ [][Next]_vars /\ Fairness
-----------------------------------------------------------------------------
\* A session leaves its helper in three ways only: by itself, with a helper
\* that was killed, or with one that cannot drain, of Windows or of before there was
\* a drain, and that an uninstall or an app update stopped.  A handoff between builds
\* cuts no session, whichever desktops race for the port (drain_router_clients,
\* router_reuse_action).
HandoffCutsNothing ==
    [][\A c \in Clients :
         session[c].is \in {"queued", "served"} /\ session'[c].is = "cut"
         => \/ faults' # faults
            \/ /\ AbortsClients(session[c].at)
               /\ helper[session[c].at].asked = "release"]_vars

\* ensure_running says Ok so that a 6891 address may be written into Codex's
\* configuration.  When every call has returned, the last one said so and nothing
\* failed since, the port is not dead: a helper listens and nobody has told it to
\* stop, also when two desktops replaced the same helper, when one of them stopped
\* it, or when it had no permit left.
NoDeadPort ==
    /\ settled = "yes"
    /\ \A d \in Desktops : desk[d].pc = "idle"
    => port # NoOne /\ helper[port].state = "listening"

\* Every call answers, whoever else holds or takes the port (the deadlines of
\* wait_router_released and of the startup loop).
CallsReturn == \A d \in Desktops : desk[d].pc # "idle" ~> desk[d].pc = "idle"
=============================================================================
