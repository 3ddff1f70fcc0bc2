\* A pause, a quit and a resume, one after the other.
SPECIFICATION Spec
CONSTANTS
    Users = {u1, u2, u3}
    Dog = dog
    Armer = armer
    Nobody = nobody
    Sockets = {s1}
    Commands = {"pause", "resume", "quit"}
    MaxCommands = 3
    Faults = {}
    MaxFaults = 0
    MaxStrikes = 3
    Overlap = FALSE
INVARIANTS
    PendingQuitHasFinisher
CHECK_DEADLOCK FALSE
