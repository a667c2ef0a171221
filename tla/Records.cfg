SPECIFICATION RecordsSpec
CONSTANTS
    NoValue = NoValue
    Modules = {"dns"}
    UnitsOf <- MCUnitsOf
    Reloadable = {"relay"}
    Rerendered = {"dns"}
    Texts = {"t1", "t2"}
    Edited = "edited"
    GiveUpAfter = 3
    Faults = {"read", "bus", "store", "write", "refuse", "act", "crash"}
    MaxApplies = 2
    MaxEvents = 1
    MaxFaults = 1
INVARIANTS RecordsKept  ApplySettles
PROPERTIES ResultsKept OrderlySteps
CHECK_DEADLOCK FALSE
