SPECIFICATION Spec
CONSTANTS
    Colors = {dark, red}
    Dark = dark
    MaxUpdates = 1
    PauseAge = 1
    ReconnectAge = 2
    GraceAge = 3
PROPERTY
    LedsConverge
