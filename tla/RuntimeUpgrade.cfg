\* Any four faults of any kind, at any place.
SPECIFICATION FairSpec
CONSTANTS
    NoFile = NoFile
    MaxAttempts = 2
    Faults = {"crash", "tear", "offline", "smoke", "boot", "io", "user"}
    MaxFaults = 4
INVARIANTS
    TypeOK
    
    RollbackRestores
    RuntimeUsable
PROPERTY
    RetriesEnd
