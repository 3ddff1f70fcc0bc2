----------------------------- MODULE CodexDrain -----------------------------
(***************************************************************************)
(* The connection gate of the intercept on port 6867: struct CodexDrain    *)
(* and its static instance in proxy_intercept.rs.                          *)
(*                                                                         *)
(* One mutex guards the pair (draining, count); here the count is the set  *)
(* of sockets it counts.  Waiters sleep on one condition variable, so a    *)
(* waiter is "ready" when it is about to take the mutex and read the pair, *)
(* and "parked" when it sleeps.  Every action is one critical section.     *)
(* resume releases the mutex before it notifies: that gap is notifyOwed.   *)
(***************************************************************************)
EXTENDS Naturals

CONSTANTS
    Sockets,    \* connections accepted on port 6867
    Waiters     \* threads that call retire_codex_requests, drain_codex_requests

VARIABLES
    draining,     \* state.0
    live,         \* the sockets state.1 counts
    phase,        \* where each waiter stands in wait
    deadline,     \* the deadline of its wait
    verdict,      \* what its last wait returned
    notifyOwed,   \* a resume has cleared the flag and not yet notified
    sealed        \* history: told TRUE since the gate last reopened

vars == <<draining, live, phase, deadline, verdict, notifyOwed, sealed>>
gate == <<draining, live>>

Phase == {"idle", "ready", "parked", "returned"}
Deadline == {"none", "running", "passed"}

TypeOK ==
    /\ draining \in BOOLEAN
    /\ live \subseteq Sockets
    /\ phase \in [Waiters -> Phase]
    /\ deadline \in [Waiters -> Deadline]
    /\ verdict \in [Waiters -> BOOLEAN]
    /\ notifyOwed \in BOOLEAN
    /\ sealed \subseteq Waiters

Init ==
    /\ draining = FALSE
    /\ live = {}
    /\ phase = [w \in Waiters |-> "idle"]
    /\ deadline = [w \in Waiters |-> "none"]
    /\ verdict = [w \in Waiters |-> FALSE]
    /\ notifyOwed = FALSE
    /\ sealed = {}

\* idle.notify_all()
NotifyAll ==
    phase' = [w \in Waiters |-> IF phase[w] = "parked" THEN "ready" ELSE phase[w]]

\* Mutants, each the definition it is named after with one plausible bug.
BeginUngated(s) ==
    /\ s \notin live
    /\ live' = live \cup {s}
    /\ UNCHANGED <<draining, phase, deadline, verdict, notifyOwed, sealed>>

DropRequestSilently(s) ==
    /\ s \in live
    /\ live' = live \ {s}
    /\ UNCHANGED <<draining, phase, deadline, verdict, notifyOwed, sealed>>

DrainKeepsDuration(w) ==
    /\ phase[w] = "idle"
    /\ draining' = TRUE
    /\ phase' = [phase EXCEPT ![w] = "ready"]
    /\ deadline' = [deadline EXCEPT ![w] = "duration"]
    /\ UNCHANGED <<live, verdict, notifyOwed, sealed>>

DeadlinePassesUnseen(w) ==
    /\ deadline[w] = "running"
    /\ phase[w] = "ready"
    /\ deadline' = [deadline EXCEPT ![w] = "passed"]
    /\ UNCHANGED <<draining, live, phase, verdict, notifyOwed, sealed>>

\* handle counts the socket before it reads a byte of it; a shut gate answers
\* 503 and changes nothing.
Begin(s) ==
    /\ ~draining
    /\ s \notin live
    /\ live' = live \cup {s}
    /\ UNCHANGED <<draining, phase, deadline, verdict, notifyOwed, sealed>>

\* The guard of a handler that ends, however it ends, is dropped.
DropRequest(s) ==
    /\ s \in live
    /\ live' = live \ {s}
    /\ NotifyAll
    /\ UNCHANGED <<draining, deadline, verdict, notifyOwed, sealed>>

BeginRetirement ==
    /\ draining' = TRUE
    /\ UNCHANGED <<live, phase, deadline, verdict, notifyOwed, sealed>>

\* retire_codex_requests: wait(None).
Retire(w) ==
    /\ phase[w] = "idle"
    /\ phase' = [phase EXCEPT ![w] = "ready"]
    /\ deadline' = [deadline EXCEPT ![w] = "none"]
    /\ UNCHANGED <<draining, live, verdict, notifyOwed, sealed>>

\* drain: sets the flag, then waits at most CODEX_DRAIN_TIMEOUT.
Drain(w) ==
    /\ phase[w] = "idle"
    /\ draining' = TRUE
    /\ phase' = [phase EXCEPT ![w] = "ready"]
    /\ deadline' = [deadline EXCEPT ![w] = "running"]
    /\ UNCHANGED <<live, verdict, notifyOwed, sealed>>

WaitReturns(w, v) ==
    /\ phase' = [phase EXCEPT ![w] = "returned"]
    /\ verdict' = [verdict EXCEPT ![w] = v]
    /\ sealed' = IF v THEN sealed \cup {w} ELSE sealed
    /\ UNCHANGED <<draining, live, deadline, notifyOwed>>

\* Mutant of Recheck: a wait that ran out of time reports success.
RecheckForgivesTimeout(w) ==
    /\ phase[w] = "ready"
    /\ \/ /\ live = {} \/ ~draining \/ deadline[w] = "passed"
          /\ WaitReturns(w, draining)
       \/ /\ live # {}
          /\ draining /\ deadline[w] # "passed"
          /\ phase' = [phase EXCEPT ![w] = "parked"]
          /\ UNCHANGED <<draining, live, deadline, verdict, notifyOwed, sealed>>

\* One turn of the loop of wait.
Recheck(w) ==
    /\ phase[w] = "ready"
    /\ \/ /\ live = {}
          /\ WaitReturns(w, draining)
       \/ /\ live # {}
          /\ ~draining \/ deadline[w] = "passed"
          /\ WaitReturns(w, FALSE)
       \/ /\ live # {}
          /\ draining /\ deadline[w] # "passed"
          /\ phase' = [phase EXCEPT ![w] = "parked"]
          /\ UNCHANGED <<draining, live, deadline, verdict, notifyOwed, sealed>>

\* wait_for gives up when the deadline passes; a waiter that holds or awaits
\* the mutex at that moment sees it on its next turn.
DeadlinePasses(w) ==
    /\ deadline[w] = "running"
    /\ phase[w] \in {"ready", "parked"}
    /\ deadline' = [deadline EXCEPT ![w] = "passed"]
    /\ phase' = [phase EXCEPT ![w] = "ready"]
    /\ UNCHANGED <<draining, live, verdict, notifyOwed, sealed>>

ResumeClears ==
    /\ draining' = FALSE
    /\ notifyOwed' = TRUE
    /\ sealed' = {}
    /\ UNCHANGED <<live, phase, deadline, verdict>>

ResumeNotifies ==
    /\ notifyOwed
    /\ notifyOwed' = FALSE
    /\ NotifyAll
    /\ UNCHANGED <<draining, live, deadline, verdict, sealed>>

\* The caller has acted on the answer and may wait again later.
Forget(w) ==
    /\ phase[w] = "returned"
    /\ phase' = [phase EXCEPT ![w] = "idle"]
    /\ UNCHANGED <<draining, live, deadline, verdict, notifyOwed, sealed>>

Next ==
    \/ \E s \in Sockets : Begin(s) \/ DropRequest(s)
    \/ BeginRetirement
    \/ ResumeClears
    \/ ResumeNotifies
    \/ \E w \in Waiters :
          Retire(w) \/ Drain(w) \/ Recheck(w) \/ DeadlinePasses(w) \/ Forget(w)

\* The threads run: a woken waiter gets the mutex, time passes, and the thread
\* inside resume reaches its notify.  Nothing is assumed of the clients.
Fairness ==
    /\ \A w \in Waiters : WF_vars(Recheck(w)) /\ WF_vars(DeadlinePasses(w))
    /\ WF_vars(ResumeNotifies)

Spec == Init /\ [][Next]_vars /\ Fairness
-----------------------------------------------------------------------------
Waiting(w) == phase[w] \in {"ready", "parked"}

\* No wake-up is lost: a parked waiter always has something to wait for (a
\* socket inside a shut gate), or a notification is on its way.  The flag and
\* the count change in four places and only two of them notify.
NoLostWakeup ==
    \A w \in Waiters :
        phase[w] = "parked" =>
            /\ live # {}
            /\ deadline[w] # "passed"
            /\ draining \/ notifyOwed

\* What pause, quit and restart rely on when they stop the backend after a
\* successful retire: from that answer until somebody reopens the gate, no
\* socket is inside and none can enter.
RetirementHolds == sealed # {} => draining /\ live = {}

\* A drain is bounded: stop_headroom gets its answer although no client ever
\* closes its connection.
DrainAnswers ==
    \A w \in Waiters :
        (Waiting(w) /\ deadline[w] # "none") ~> ~Waiting(w)

\* An unbounded retire is answered if every client leaves again and again, as
\* one that closes its connections does, once the gate stops being opened and
\* shut: the clients leave, or a resume sends the waiter home.
ClientsLeave == \A s \in Sockets : []<>(s \notin live)

RetireAnswers ==
    ClientsLeave /\ (<>[]draining \/ <>[](~draining)) =>
        \A w \in Waiters : Waiting(w) ~> ~Waiting(w)
-----------------------------------------------------------------------------
\* The gate as its callers see it: a waiter is inside wait from its first turn
\* to its last, however often it sleeps in between.
AbstractWait ==
    [w \in Waiters |->
        IF phase[w] = "idle" THEN "none"
        ELSE IF phase[w] = "returned" THEN "returned"
        ELSE IF deadline[w] = "none" THEN "retire" ELSE "drain"]

Gate == INSTANCE DrainGate WITH waiting <- AbstractWait

\* The condition variable implements the atomic gate.
ImplementsGate == Gate!Spec
=============================================================================
