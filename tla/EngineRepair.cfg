SPECIFICATION FairSpec
CONSTANTS
    Steps <- RepairSteps
    None = None
    Definition <- RepairDefinition
    Kind <- RepairKind
    DependsOn <- RepairDependsOn
    Pos <- RepairPos
    Fallback <- RepairFallback
    Optional = {"report"}
    TruePath <- NoEdges
    FalsePath <- NoEdges
    ReplanOnFailure = TRUE
    MaxReplans = 1
    HasTimeout = FALSE
    Workers = {w1, w2}
    MaxVersion = 4
INVARIANTS
    FallbackOnlyAfterFailure
    CompletedIsComplete
PROPERTIES
    ResultsAreFinal
    RunMoves
