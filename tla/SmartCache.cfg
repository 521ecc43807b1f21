SPECIFICATION Spec
CONSTANTS
    Paths = {1, 2}
    Versions = {1, 2}
    Usage <- MCUsage
    Edited = {1}
    Policies <- MCTwo
    FirstPolicy <- MCFirst
    Chosen = {1}
    Preferences = {"pinned"}
    MaxActs = 2
    MaxReservations = 2
    MaxUploads = 2
    MaxFaults = 1
INVARIANTS AvailableIsBacked QuotaIsKept OverwrittenIsReported
CHECK_DEADLOCK FALSE
