CONSTANTS
    Clients = {c1, c2}
    Keys = {k1}
    NoKey = NoKey
    LegacyReaders = {c1, c2}
    MaxEdits = 2
SPECIFICATION Spec
INVARIANT NoLostUpdate
CHECK_DEADLOCK FALSE
