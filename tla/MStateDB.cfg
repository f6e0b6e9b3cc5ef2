SPECIFICATION Spec
CONSTANTS
    Workers = {w1, w2}
    Accounts = {A, B}
    Quiet = {A}
    Free = Free
    Nonces = {0}
    Balances = {0, 1}
    Absent = Absent
    Nil = Nil
    Calls <- QuietOrAll
    MaxObjects = 3
    MaxJournal = 2
    MaxTxs = 3
SYMMETRY Symmetry
INVARIANT Coherent
PROPERTIES ImplementsSerialState Isolation
