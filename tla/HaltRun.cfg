SPECIFICATION Spec
CONSTANTS
    Messages = {m1, m2}
    MaxSteps = 3
    MaxPauses = 1
    MaxMishaps = 2
    SweepEnabled = TRUE
    PromptHolders = TRUE
INVARIANTS
    SomebodyDrives
PROPERTIES
    HeldRunResumes
    CancelEndsRetries
