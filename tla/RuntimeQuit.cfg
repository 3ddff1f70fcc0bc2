\* Quit, reopen and pause beside each other, and a config write that may fail.
SPECIFICATION FairSpec
CONSTANTS
    Users = {u1, u2}
    Dog = dog
    Armer = armer
    Nobody = nobody
    Sockets = {s1}
    Commands = {"pause", "quit", "reopen"}
    MaxCommands = 3
    Faults = {"write"}
    MaxFaults = 1
    MaxStrikes = 3
    Overlap = FALSE
INVARIANTS
    PendingQuitHasFinisher
    CancelledQuitStaysCancelled
PROPERTIES
    GracefulStop
    QuitEnds
CHECK_DEADLOCK FALSE
