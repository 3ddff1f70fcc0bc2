\* Two GUI threads, two heartbeat threads, one crash.
SPECIFICATION FairSpec
CONSTANTS
    Callers = {c1, c2}
    Heartbeats = {h1, h2}
    NoOne = NoOne
    StaleAfter = 2
    MaxGeneration = 4
    MaxCrashes = 1
INVARIANTS
    HeartbeatInv
    DirectOnceStopped
    BoundedExposure
    OneHeartbeat
PROPERTIES
    CallsReturn
CHECK_DEADLOCK FALSE
