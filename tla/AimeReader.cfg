SPECIFICATION Spec
CONSTANTS
    Threads = {t1, t2}
    Nobody = nobody
    Mifare = {mifare}
    Felica = {felica}
    NoCard = nocard
    SeqMod = 2
    MaxPending = 2
INVARIANTS
    TypeOK
    CardIsWhatWasPolled
PROPERTIES
    OwnAnswer
    OnlyTheLineStrands
    HolderReturns
    Recovers
    CardSettles
