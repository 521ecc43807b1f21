SPECIFICATION Spec
CONSTANTS
    Paths = {"docs", "docs/old"}
    Overlaps <- MCOverlaps
    Linked = {"docs"}
    Toggled = {"docs/old"}
    Automated = {"docs"}
    MaxRooms = 2
    MaxDevices = 2
    MaxRules = 1
    MaxFaults = 2
    MaxIncidents = 4
INVARIANTS StoreLoads DatabaseMirrors PolicyIsNotInherited DetachedMeansClosed RemovedRoomIsDetached
CHECK_DEADLOCK FALSE
