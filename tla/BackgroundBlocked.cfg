SPECIFICATION Spec
CONSTANTS
    Rooms = {11}
    Writers = {1, 2}
    PageSize = 2
    FastEvery = 2
    FullEvery = 3
    MaxEvents = 3
    MaxDevices = 2
    MaxExtras = 0
PROPERTY EverythingReconciles
CHECK_DEADLOCK FALSE
