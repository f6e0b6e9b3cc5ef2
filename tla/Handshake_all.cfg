SPECIFICATION Spec
CONSTANTS
    Configs <- AllConfigs
    MaxConns = 2
    MaxRotates = 1
    MaxFaults = 1
CHECK_DEADLOCK FALSE
INVARIANTS HandshakeInv FinishedProtects PolicyHolds CacheMatchesTicket
PROPERTY HandshakeEnds
