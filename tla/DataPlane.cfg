SPECIFICATION Spec
CONSTANTS
    NatMaxSlot = 2
    Wires <- MCWires
    Lans = {"lan0", "lan1"}
    Wans = {"wan0"}
    Tunnel = "wg0"
    TunnelPrefix = {"w1", "w2"}
    Broker = "broker"
    Forwards <- MCForwards
    IPTVs <- MCIPTVs
    Packets <- MCPackets
    EventBuffer = 2
    MaxEdits = 2
    MaxFaults = 1
INVARIANTS OutsideStopped Delivered
PROPERTY FilterCatchesUp
CHECK_DEADLOCK FALSE
