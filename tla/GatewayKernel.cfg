SPECIFICATION LiveSpec
CONSTANTS
    MaxSlot = 2
    Networks <- MCNetworks
    Tun = "socks"
    DestPrefixes = {}
    Addresses = {"other"}
    Within <- MCWithin
    Docs <- MCDocs
    Links <- MCLinks
    Flows <- MCFlows
    Names = {1, 2}
    Threshold = 1
    Handlers = 1
    MaxEdits = 2
    MaxFlips = 1
    MaxFaults = 1
INVARIANTS
    Converged
PROPERTIES
    MovesToDesired
    VerdictProgrammed
CHECK_DEADLOCK FALSE
