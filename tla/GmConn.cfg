SPECIFICATION Spec
CONSTANTS
    Policies = {"never", "once"}
    HalfClosers = {"never"}
    MaxReads = 2
    MaxWrites = 1
    MaxPeer = 2
    Window = 1
    MaxWarn = 1
    MaxEmpty = 1
CHECK_DEADLOCK FALSE
INVARIANTS WireInv CloseNotifyLast ReadersInSync
