SPECIFICATION Spec
CONSTANTS
    Paths = {"docs", "docs/old"}
    Overlaps <- MCOverlaps
    Linked = {"docs"}
    Toggled = {"docs"}
    Automated = {"docs"}
    MaxRooms = 1
    MaxDevices = 1
    MaxRules = 0
    MaxFaults = 0
    MaxIncidents = 2
INVARIANT DatabaseMirrorsMemory
CHECK_DEADLOCK FALSE
