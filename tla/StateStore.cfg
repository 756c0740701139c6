CONSTANTS
    Clients = {c1, c2, c3}
    Keys = {k1}
    NoKey = NoKey
    LegacyReaders = {c1}
    MaxEdits = 3
SPECIFICATION Spec
INVARIANTS NoLostUpdate LogExplainsRow KeyTakesEffectOnce
PROPERTY ImplementsRunRecord
CHECK_DEADLOCK FALSE
