\* The watchdog against every fault, with resume, forced restart and restart.
SPECIFICATION FairSpec
CONSTANTS
    Users = {u1}
    Dog = dog
    Armer = armer
    Nobody = nobody
    Sockets = {}
    Commands = {"resume", "forceRestart", "restart"}
    MaxCommands = 2
    Faults = {"router", "deadline", "spawn", "write", "sleep", "busy", "backend"}
    MaxFaults = 2
    MaxStrikes = 3
    Overlap = FALSE
INVARIANTS
    TypeOK
    BypassEnds
    GateMatchesPause
PROPERTIES
    NoSecondBackend
    ServiceRecovers
CHECK_DEADLOCK FALSE
