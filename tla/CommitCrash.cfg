\* One crash, and nothing else, during the upgrade.
SPECIFICATION Spec
CONSTANTS
    NoFile = NoFile
    MaxAttempts = 2
    Faults = {"crash"}
    MaxFaults = 1
INVARIANT
    ReceiptTruthful
