SPECIFICATION ServicesSpec
CONSTANTS
    Devs = {"e0", "e1"}
    Statics <- UplinkStatics
    Servers = {"s"}
    Sources = {"r64"}
    MaxEdits = 2
    MaxFaults = 1
INVARIANTS WayOutKept 
PROPERTIES  NothingTakenUnconfirmed
CHECK_DEADLOCK FALSE
