SPECIFICATION Spec
CONSTANTS
    Messages = {m1, m2}
    MaxSteps = 2
    MaxPauses = 1
    MaxMishaps = 2
    SweepEnabled = TRUE
    PromptHolders = TRUE
PROPERTY
    EveryHeldRunResumes
