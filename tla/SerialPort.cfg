SPECIFICATION Spec
CONSTANTS
    Players = {p1, p2}
    Handles = {h1, h2}
    Free = free
    Invalid = invalid
INVARIANTS
    IoInCall
    HandlesMatch
    ForeignReadOnlyWhenClosing
PROPERTY
    DeviceReturns
