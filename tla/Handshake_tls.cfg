SPECIFICATION Spec
CONSTANTS
    Configs <- PlainTls
    MaxConns = 1
    MaxRotates = 0
    MaxFaults = 0
INVARIANTS HandshakeHasResult
CHECK_DEADLOCK FALSE
