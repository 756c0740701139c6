SPECIFICATION Spec
CONSTANTS
    Deliveries = {d1, d2}
    MaxFaults = 1
INVARIANTS
    OneClaimPerListener
    ResumedByAnEvent
    ClaimedIsCarried
PROPERTY
    EventResumesRun
CHECK_DEADLOCK FALSE
