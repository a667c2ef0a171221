SPECIFICATION LiveSpec
CONSTANTS
    MaxSlot = 2
    Networks <- MCNetworks
    Tun = "socks"
    DestPrefixes = {}
    Addresses = {"other"}
    Within <- MCWithin
    Docs <- ProxyDocs
    Links <- MCLinks
    Flows <- MCFlows
    Names = {1, 2}
    Threshold = 2
    Handlers = 1
    MaxEdits = 0
    MaxFlips = 2
    MaxFaults = 0
PROPERTIES
    Recovers
CHECK_DEADLOCK FALSE
