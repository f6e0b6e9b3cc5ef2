SPECIFICATION FairSpec
CONSTANTS
    Workers = {w1, w2}
    Txs = {t1, t2, t3}
    Accounts = {A, B}
    NoTx = NoTx
    Free = Free
    NoAccount = NoAccount
    MaxAttempts = 1
INVARIANTS UnlocksOwnMutexes ReplayOrder
PROPERTY WaiterServed
