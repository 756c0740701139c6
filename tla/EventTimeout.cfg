SPECIFICATION Spec
CONSTANTS
    Deliveries = {d1}
    MaxFaults = 0
PROPERTY
    EventWaitEnds
CHECK_DEADLOCK FALSE
