\* Show beside a quit that goes through.
SPECIFICATION Spec
CONSTANTS
    Users = {u1, u2}
    Dog = dog
    Armer = armer
    Nobody = nobody
    Sockets = {s1}
    Commands = {"quit", "reopen"}
    MaxCommands = 2
    Faults = {}
    MaxFaults = 0
    MaxStrikes = 3
    Overlap = FALSE
INVARIANTS
    NoBackendAfterExit
CHECK_DEADLOCK FALSE
