\* No user; the backend dies and does not start again.
SPECIFICATION Spec
CONSTANTS
    Users = {u1}
    Dog = dog
    Armer = armer
    Nobody = nobody
    Sockets = {s1}
    Commands = {}
    MaxCommands = 0
    Faults = {"spawn", "backend"}
    MaxFaults = 2
    MaxStrikes = 2
    Overlap = FALSE
INVARIANTS
    GiveUpPassesThrough
CHECK_DEADLOCK FALSE
