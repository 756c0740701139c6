SPECIFICATION FairSpec
CHECK_DEADLOCK FALSE
CONSTANTS
    N = 3
    Approvals = {3}
    Waits = {1}
    MaxFaults = 0
PROPERTY NeverDowngraded
