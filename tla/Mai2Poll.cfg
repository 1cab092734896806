SPECIFICATION Spec
CONSTANTS
    Procs = {game}
    P1Pages <- MCP1Pages
    P2Pages <- MCP2Pages
    KeySets <- MCKeySets
    MaxPresses = 3
INVARIANTS
    TypeOK
    SingleCredit
    EveryCreditObserved
PROPERTY
    LatchFollowsCoin
