SPECIFICATION Spec
CONSTANTS
    Devices = {"d"}
    Marks = {"none", "direct"}
    ExitMarks = {}
    Sizes = {1, 2}
    BucketLen = 3
    Retention = 0
    Entries = 1
    MaxTime = 5
    MaxPackets = 3
    MaxFaults = 0
INVARIANT DifferencesOnly
CHECK_DEADLOCK FALSE
