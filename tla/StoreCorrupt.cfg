SPECIFICATION Spec
CONSTANTS
    Ifaces = {"e0", "e1"}
    Known = {"link", "dhcp", "dns"}
    Others = {"next"}
    MaxEdits = 0
    MaxHand = 1
    MaxFaults = 0
INVARIANT ComesUp
CHECK_DEADLOCK FALSE
