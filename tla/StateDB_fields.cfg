SPECIFICATION Spec
CONSTANTS
    Addresses = {r, b}
    Ripemd = r
    Keys = {}
    PdxKeys = {}
    Values = {Zero}
    Zero = Zero
    Codes = {EmptyCode, one}
    EmptyCode = EmptyCode
    Nonces = {0}
    Balances = {0, 1}
    Hashes = {}
    Stored <- MCStored
    NoObject = NoObject
    Miss = Miss
    one = one
    ResetExisting = TRUE
    MaxJournal = 2
    MaxRevisions = 2
    MaxFinalise = 1
PROPERTY ImplementsWorldState
