SPECIFICATION Spec
CONSTANTS
    Devices = {0, 1, 2}
    Capacity = 2
INVARIANTS
    TypeOK
    ReleasedExactlyOnce
    UsedOnOwnDevice
    CallEndsCleanly
