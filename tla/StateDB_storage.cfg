SPECIFICATION Spec
CONSTANTS
    Addresses = {a}
    Ripemd = NoObject
    Keys = {k}
    PdxKeys = {p}
    Values = {Zero, one}
    Zero = Zero
    Codes = {EmptyCode}
    EmptyCode = EmptyCode
    Nonces = {0}
    Balances = {0}
    Hashes = {one}
    Stored <- MCStored
    NoObject = NoObject
    Miss = Miss
    one = one
    ResetExisting = FALSE
    MaxJournal = 2
    MaxRevisions = 2
    MaxFinalise = 2
INVARIANTS MarksExact Sound
PROPERTY ImplementsWorldState
