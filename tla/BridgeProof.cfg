SPECIFICATION Spec
SYMMETRY Symm
CHECK_DEADLOCK FALSE
CONSTANTS
    StartHash = StartHash
    ZeroHash = ZeroHash
    Addresses = {a1, a2}
    TxRoots <- MCTxRoots
    Base = 3
    TargetBytes = 5
    Bits <- MCBits
    Depth = 2
    ClaimDepth = 1
    NumRounds = 2
    MaxBlockHandleOps = 2
    MaxBlocks = 2
    MaxPayments = 1
    MaxDeep = 1
    MaxPow = 4
INVARIANTS
    TypeOK
    TreesMatchReference
    ProofsExact
    PaymentsOnChain
    LcBuried
    WorkMatchesNetwork
    ProvedBeatsChallenge
    ClaimCountsPayments
