SPECIFICATION Spec
CONSTANTS
    Transfers = {1}
    Versions = {1, 2, 3, 4}
    SizeOf <- MCSizeOf
    MaxBytes = 1
    MaxFaults = 3
INVARIANTS ReadyIsFaithful DeadLetterIsFinal
PROPERTIES Settles ObjectsAreDeleted
CHECK_DEADLOCK FALSE
