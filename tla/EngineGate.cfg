SPECIFICATION Spec
CONSTANTS
    Steps <- GateSteps
    None = None
    Definition <- GateSteps
    Kind <- GateKind
    DependsOn <- GateDependsOn
    Pos <- GatePos
    Fallback <- NoEdges
    Optional = {}
    TruePath <- GateTruePath
    FalsePath <- GateFalsePath
    ReplanOnFailure = FALSE
    MaxReplans = 0
    HasTimeout = TRUE
    Workers = {w1, w2}
    MaxVersion = 4
INVARIANTS
    DependenciesHonoured
    PausesAreAnswered
    OneStepAfterTheEnd
    SkippedForCause
PROPERTIES
    FinishedStaysFinished
