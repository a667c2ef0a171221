SPECIFICATION PoliciesSpec
CONSTANTS
    Names = {"lan", "guest"}
    Ifaces = {"e1", "e2"}
    Blocks <- LinkBlocks
    Delegated <- LinkPrefixes
    MaxEdits = 3
    MaxFaults = 1
INVARIANTS NetworksInForce SteersAsIntended Resolves
PROPERTIES AddressesSpared PinnedConnection
CHECK_DEADLOCK FALSE
