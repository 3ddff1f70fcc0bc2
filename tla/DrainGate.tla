------------------------------ MODULE DrainGate ------------------------------
(***************************************************************************)
(* What CodexDrain (proxy_intercept.rs) promises to its callers, with the  *)
(* mutex and the condition variable abstracted away.                       *)
(*                                                                         *)
(* The gate counts the sockets that entered the intercept.  Shutting it    *)
(* turns newcomers away and leaves the ones inside alone; a caller may     *)
(* then wait for the last of them to leave.  A wait returns TRUE only      *)
(* while the gate is shut and empty, and FALSE only because somebody       *)
(* reopened the gate or because a bounded wait ran out of time.            *)
(***************************************************************************)
CONSTANTS Sockets, Waiters

VARIABLES
    draining,   \* the gate is shut
    live,       \* the sockets inside
    waiting,    \* what each waiter is doing
    verdict     \* what its last wait returned

vars == <<draining, live, waiting, verdict>>

Wait == {"none", "retire", "drain", "returned"}

TypeOK ==
    /\ draining \in BOOLEAN
    /\ live \subseteq Sockets
    /\ waiting \in [Waiters -> Wait]
    /\ verdict \in [Waiters -> BOOLEAN]

Init ==
    /\ draining = FALSE
    /\ live = {}
    /\ waiting = [w \in Waiters |-> "none"]
    /\ verdict = [w \in Waiters |-> FALSE]

Admit(s) ==
    /\ ~draining
    /\ s \notin live
    /\ live' = live \cup {s}
    /\ UNCHANGED <<draining, waiting, verdict>>

Leave(s) ==
    /\ s \in live
    /\ live' = live \ {s}
    /\ UNCHANGED <<draining, waiting, verdict>>

Shut ==
    /\ draining' = TRUE
    /\ UNCHANGED <<live, waiting, verdict>>

Reopen ==
    /\ draining' = FALSE
    /\ UNCHANGED <<live, waiting, verdict>>

\* An unbounded wait; its caller has shut the gate earlier.
Retire(w) ==
    /\ waiting[w] = "none"
    /\ waiting' = [waiting EXCEPT ![w] = "retire"]
    /\ UNCHANGED <<draining, live, verdict>>

\* A bounded wait that shuts the gate itself.
Drain(w) ==
    /\ waiting[w] = "none"
    /\ waiting' = [waiting EXCEPT ![w] = "drain"]
    /\ draining' = TRUE
    /\ UNCHANGED <<live, verdict>>

Return(w) ==
    /\ \/ /\ waiting[w] \in {"retire", "drain"}
          /\ ~draining
          /\ verdict' = [verdict EXCEPT ![w] = FALSE]
       \/ /\ waiting[w] \in {"retire", "drain"}
          /\ draining /\ live = {}
          /\ verdict' = [verdict EXCEPT ![w] = TRUE]
       \/ /\ waiting[w] = "drain"
          /\ draining /\ live # {}
          /\ verdict' = [verdict EXCEPT ![w] = FALSE]
    /\ waiting' = [waiting EXCEPT ![w] = "returned"]
    /\ UNCHANGED <<draining, live>>

Forget(w) ==
    /\ waiting[w] = "returned"
    /\ waiting' = [waiting EXCEPT ![w] = "none"]
    /\ UNCHANGED <<draining, live, verdict>>

Next ==
    \/ \E s \in Sockets : Admit(s) \/ Leave(s)
    \/ Shut
    \/ Reopen
    \/ \E w \in Waiters : Retire(w) \/ Drain(w) \/ Return(w) \/ Forget(w)

Spec == Init /\ [][Next]_vars
=============================================================================
