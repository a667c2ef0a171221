SPECIFICATION SystemSpec
CONSTANTS
    NoValue = NoValue
    Names = {"a", "b"}
    Hosts = {"h1", "h2"}
    Ports = {1, 2}
    Ifaces = {"wg0", "wg1", "eth0"}
    Taken = {"eth0"}
    Tail = 3
    MaxKeys = 4
    MaxEdits = 3
    MaxFaults = 1
INVARIANTS OnlyStoredDevices DevicesKept HostHandedBack  DocumentKept
PROPERTIES NobodyLockedOut 
CHECK_DEADLOCK FALSE
