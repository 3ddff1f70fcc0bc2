-------------------------- MODULE CodexDrainProofs --------------------------
(***************************************************************************)
(* Proofs about the drain gate, for any sets of sockets and waiters.       *)
(*                                                                         *)
(* NoLostWakeup is inductive only together with RetirementHolds' mates:    *)
(* DrainInv is the conjunction that a step preserves.                      *)
(***************************************************************************)
EXTENDS CodexDrain, TLAPS

DrainInv == TypeOK /\ NoLostWakeup /\ RetirementHolds

LEMMA TypeInit == Init => TypeOK
  BY DEF Init, TypeOK, Phase, Deadline

\* Every action of the gate keeps every variable in its type.
LEMMA TypeStep == TypeOK /\ [Next]_vars => TypeOK'
<1> SUFFICES ASSUME TypeOK, [Next]_vars PROVE TypeOK'
  OBVIOUS
<1> USE DEF TypeOK, Phase, Deadline
<1>1. ASSUME NEW s \in Sockets, Begin(s) PROVE TypeOK'
  BY <1>1 DEF Begin
<1>2. ASSUME NEW s \in Sockets, DropRequest(s) PROVE TypeOK'
  BY <1>2 DEF DropRequest, NotifyAll
<1>3. CASE BeginRetirement
  BY <1>3 DEF BeginRetirement
<1>4. CASE ResumeClears
  BY <1>4 DEF ResumeClears
<1>5. CASE ResumeNotifies
  BY <1>5 DEF ResumeNotifies, NotifyAll
<1>6. ASSUME NEW w \in Waiters, Retire(w) PROVE TypeOK'
  BY <1>6 DEF Retire
<1>7. ASSUME NEW w \in Waiters, Drain(w) PROVE TypeOK'
  BY <1>7 DEF Drain
<1>8. ASSUME NEW w \in Waiters, Recheck(w) PROVE TypeOK'
  BY <1>8 DEF Recheck, WaitReturns
<1>9. ASSUME NEW w \in Waiters, DeadlinePasses(w) PROVE TypeOK'
  BY <1>9 DEF DeadlinePasses
<1>10. ASSUME NEW w \in Waiters, Forget(w) PROVE TypeOK'
  BY <1>10 DEF Forget
<1>11. CASE UNCHANGED vars
  BY <1>11 DEF vars
<1> QED
  BY <1>1, <1>2, <1>3, <1>4, <1>5, <1>6, <1>7, <1>8, <1>9, <1>10, <1>11 DEF Next

\* The drain gate is type correct.
THEOREM TypeCorrect == Spec => []TypeOK
<1>1. Init => TypeOK
  BY TypeInit
<1>2. TypeOK /\ [Next]_vars => TypeOK'
  BY TypeStep
<1> QED
  BY <1>1, <1>2, PTL DEF Spec
-----------------------------------------------------------------------------
\* A waiter that is parked after a step was parked before it, or has just
\* found a socket inside a shut gate and time left.
LEMMA WakeupStep == DrainInv /\ [Next]_vars => NoLostWakeup'
<1> SUFFICES ASSUME DrainInv, [Next]_vars PROVE NoLostWakeup'
  OBVIOUS
<1> USE DEF DrainInv, TypeOK, NoLostWakeup
<1>1. ASSUME NEW s \in Sockets, Begin(s) PROVE NoLostWakeup'
  BY <1>1 DEF Begin
<1>2. ASSUME NEW s \in Sockets, DropRequest(s) PROVE NoLostWakeup'
  \* Everybody parked is woken.
  BY <1>2 DEF DropRequest, NotifyAll
<1>3. CASE BeginRetirement
  BY <1>3 DEF BeginRetirement
<1>4. CASE ResumeClears
  BY <1>4 DEF ResumeClears
<1>5. CASE ResumeNotifies
  BY <1>5 DEF ResumeNotifies, NotifyAll
<1>6. ASSUME NEW w \in Waiters, Retire(w) PROVE NoLostWakeup'
  BY <1>6 DEF Retire
<1>7. ASSUME NEW w \in Waiters, Drain(w) PROVE NoLostWakeup'
  BY <1>7 DEF Drain
<1>8. ASSUME NEW w \in Waiters, Recheck(w) PROVE NoLostWakeup'
  BY <1>8 DEF Recheck, WaitReturns
<1>9. ASSUME NEW w \in Waiters, DeadlinePasses(w) PROVE NoLostWakeup'
  BY <1>9 DEF DeadlinePasses
<1>10. ASSUME NEW w \in Waiters, Forget(w) PROVE NoLostWakeup'
  BY <1>10 DEF Forget
<1>11. CASE UNCHANGED vars
  BY <1>11 DEF vars
<1> QED
  BY <1>1, <1>2, <1>3, <1>4, <1>5, <1>6, <1>7, <1>8, <1>9, <1>10, <1>11 DEF Next

\* A gate sealed by a successful wait stays shut and empty; only a resume
\* opens it, and it breaks every seal.
LEMMA RetirementStep == DrainInv /\ [Next]_vars => RetirementHolds'
<1> SUFFICES ASSUME DrainInv, [Next]_vars PROVE RetirementHolds'
  OBVIOUS
<1> USE DEF DrainInv, TypeOK, RetirementHolds
<1>1. ASSUME NEW s \in Sockets, Begin(s) PROVE RetirementHolds'
  BY <1>1 DEF Begin
<1>2. ASSUME NEW s \in Sockets, DropRequest(s) PROVE RetirementHolds'
  BY <1>2 DEF DropRequest
<1>3. CASE BeginRetirement
  BY <1>3 DEF BeginRetirement
<1>4. CASE ResumeClears
  BY <1>4 DEF ResumeClears
<1>5. CASE ResumeNotifies
  BY <1>5 DEF ResumeNotifies
<1>6. ASSUME NEW w \in Waiters, Retire(w) \/ Forget(w) \/ DeadlinePasses(w)
      PROVE  RetirementHolds'
  BY <1>6 DEF Retire, Forget, DeadlinePasses
<1>7. ASSUME NEW w \in Waiters, Drain(w) PROVE RetirementHolds'
  BY <1>7 DEF Drain
<1>8. ASSUME NEW w \in Waiters, Recheck(w) PROVE RetirementHolds'
  BY <1>8 DEF Recheck, WaitReturns
<1>9. CASE UNCHANGED vars
  BY <1>9 DEF vars
<1> QED
  BY <1>1, <1>2, <1>3, <1>4, <1>5, <1>6, <1>7, <1>8, <1>9 DEF Next

LEMMA DrainInvariant == Spec => []DrainInv
<1>1. Init => DrainInv
  BY TypeInit DEF Init, DrainInv, NoLostWakeup, RetirementHolds
<1>2. DrainInv /\ [Next]_vars => DrainInv'
  BY TypeStep, WakeupStep, RetirementStep DEF DrainInv
<1> QED
  BY <1>1, <1>2, PTL DEF Spec

\* No wake-up of a waiter is ever lost.
THEOREM WakeupsArrive == Spec => []NoLostWakeup
<1>1. DrainInv => NoLostWakeup
  BY DEF DrainInv
<1> QED
  BY <1>1, DrainInvariant, PTL

\* After a successful retire no socket enters until somebody reopens the gate.
THEOREM RetirementIsSound == Spec => []RetirementHolds
<1>1. DrainInv => RetirementHolds
  BY DEF DrainInv
<1> QED
  BY <1>1, DrainInvariant, PTL
-----------------------------------------------------------------------------
\* Each step of the condition variable is a step of the atomic gate or none.
LEMMA GateStep == TypeOK /\ [Next]_vars => [Gate!Next]_(Gate!vars)
<1> SUFFICES ASSUME TypeOK, TypeOK', [Next]_vars PROVE [Gate!Next]_(Gate!vars)
  BY TypeStep
<1> USE DEF TypeOK, Phase, Deadline, AbstractWait
<1>1. ASSUME NEW s \in Sockets, Begin(s) PROVE Gate!Admit(s)
  BY <1>1 DEF Begin, Gate!Admit
<1>2. ASSUME NEW s \in Sockets, DropRequest(s) PROVE Gate!Leave(s)
  <2>1. AbstractWait' = AbstractWait
    BY <1>2 DEF DropRequest, NotifyAll
  <2> QED
    BY <1>2, <2>1 DEF DropRequest, Gate!Leave
<1>3. CASE BeginRetirement
  BY <1>3 DEF BeginRetirement, Gate!Shut, Gate!Next
<1>4. CASE ResumeClears
  BY <1>4 DEF ResumeClears, Gate!Reopen, Gate!Next
<1>5. CASE ResumeNotifies
  <2>1. AbstractWait' = AbstractWait
    BY <1>5 DEF ResumeNotifies, NotifyAll
  <2> QED
    BY <1>5, <2>1 DEF ResumeNotifies, Gate!vars
<1>6. ASSUME NEW w \in Waiters, Retire(w) PROVE Gate!Retire(w)
  BY <1>6 DEF Retire, Gate!Retire
<1>7. ASSUME NEW w \in Waiters, Drain(w) PROVE Gate!Drain(w)
  BY <1>7 DEF Drain, Gate!Drain
<1>8. ASSUME NEW w \in Waiters, Recheck(w) PROVE Gate!Return(w) \/ UNCHANGED Gate!vars
  <2>1. AbstractWait[w] = IF deadline[w] = "none" THEN "retire" ELSE "drain"
    BY <1>8 DEF Recheck
  <2>2. ASSUME NEW v \in BOOLEAN, WaitReturns(w, v)
        PROVE  AbstractWait' = [AbstractWait EXCEPT ![w] = "returned"]
    BY <2>2 DEF WaitReturns
  <2>3. CASE live = {} /\ WaitReturns(w, draining) /\ draining
    BY <2>1, <2>2, <2>3 DEF WaitReturns, Gate!Return
  <2>4. CASE live = {} /\ WaitReturns(w, draining) /\ ~draining
    BY <2>1, <2>2, <2>4 DEF WaitReturns, Gate!Return
  <2>5. CASE live # {} /\ (~draining \/ deadline[w] = "passed") /\ WaitReturns(w, FALSE)
    BY <2>1, <2>2, <2>5 DEF WaitReturns, Gate!Return
  <2>6. CASE UNCHANGED <<draining, live, deadline, verdict, notifyOwed, sealed>>
             /\ phase' = [phase EXCEPT ![w] = "parked"]
    <3>1. AbstractWait' = AbstractWait
      BY <1>8, <2>6 DEF Recheck
    <3> QED
      BY <2>6, <3>1 DEF Gate!vars
  <2> QED
    BY <1>8, <2>3, <2>4, <2>5, <2>6 DEF Recheck
<1>9. ASSUME NEW w \in Waiters, DeadlinePasses(w) PROVE UNCHANGED Gate!vars
  <2>1. AbstractWait' = AbstractWait
    BY <1>9 DEF DeadlinePasses
  <2> QED
    BY <1>9, <2>1 DEF DeadlinePasses, Gate!vars
<1>10. ASSUME NEW w \in Waiters, Forget(w) PROVE Gate!Forget(w)
  BY <1>10 DEF Forget, Gate!Forget
<1>11. CASE UNCHANGED vars
  BY <1>11 DEF vars, Gate!vars
<1> QED
  BY <1>1, <1>2, <1>3, <1>4, <1>5, <1>6, <1>7, <1>8, <1>9, <1>10, <1>11
     DEF Next, Gate!Next

\* CodexDrain implements the gate its callers reason with.
THEOREM GateRefinement == Spec => ImplementsGate
<1>1. Init => Gate!Init
  BY DEF Init, Gate!Init, AbstractWait
<1>2. TypeOK /\ [Next]_vars => [Gate!Next]_(Gate!vars)
  BY GateStep
<1> QED
  BY <1>1, <1>2, TypeCorrect, PTL DEF Spec, ImplementsGate, Gate!Spec
=============================================================================
