SPECIFICATION Spec
CONSTANTS
    Workers = {w1, w2, w3}
    Txs = {t1, t2, t3}
    Accounts = {A, B, C}
    NoTx = NoTx
    Free = Free
    NoAccount = NoAccount
    MaxAttempts = 1
SYMMETRY Symmetry
CHECK_DEADLOCK FALSE
INVARIANTS MutualExclusion NoMutualWait
PROPERTIES PanicIsDeadlock ImplementsLockService
