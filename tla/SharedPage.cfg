SPECIFICATION Spec
CONSTANTS
    Procs = {p1, p2, p3}
    Words <- MCWords
    Vals <- MCVals
    Updates <- MCUpdates
    Apply <- MCApply
    Zero <- MCZero
    Default <- MCZero
    NoPage = nopage
    Nobody = nobody
INVARIANT
    HolderAlone
PROPERTIES
    Refines
    WaiterServed
