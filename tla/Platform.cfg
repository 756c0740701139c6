SPECIFICATION FairSpec
CONSTANTS
    None = None
    c1 = c1
    c2 = c2
    c3 = c3
INVARIANTS
    TypeOK
    OrderIsSound
    ChildrenAnswerForStep
    MirrorSettled
    QuorumBeforeDecided
    ResumedRunWasDecided
    OneEffectPerIncident
    ReplayIsAResult
    SpendsWhatAccrues
    ChainIsWhole
    RefundsWithinCaptured
    RefundsAreShown
PROPERTIES
    OnlyRacesReopen
    RunSettles
    ClosedStays
    KeyComesFree
    VerdictIsRight
    RowsGetSealed
    OutcomeIsEarned
    
CHECK_DEADLOCK FALSE
