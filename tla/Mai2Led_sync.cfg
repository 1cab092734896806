SPECIFICATION Spec
CONSTANTS
    Colors = {dark, red}
    Dark = dark
    MaxUpdates = 2
    PauseAge = 1
    ReconnectAge = 2
    GraceAge = 3
INVARIANTS
    TypeOK
    InSync
