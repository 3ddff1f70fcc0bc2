\* Safety, refinement and liveness of the drain gate.
SPECIFICATION Spec
CONSTANTS
    Sockets = {s1, s2}
    Waiters = {w1, w2}
INVARIANTS
    TypeOK
    NoLostWakeup
    RetirementHolds
PROPERTIES
    ImplementsGate
    DrainAnswers
    RetireAnswers
