SPECIFICATION Spec
CONSTANTS
    Procs = {game, daemon}
    P1Pages <- MCP1Pages
    P2Pages <- MCP2Pages
    KeySets <- MCKeySets
    MaxPresses = 2
INVARIANT
    SingleCredit
