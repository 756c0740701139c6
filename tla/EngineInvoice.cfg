SPECIFICATION Spec
CONSTANTS
    Steps <- InvoiceSteps
    None = None
    Definition <- InvoiceSteps
    Kind <- InvoiceKind
    DependsOn <- InvoiceDependsOn
    Pos <- InvoicePos
    Fallback <- NoEdges
    Optional = {}
    TruePath <- InvoiceTruePath
    FalsePath <- InvoiceFalsePath
    ReplanOnFailure = FALSE
    MaxReplans = 0
    HasTimeout = FALSE
    Workers = {w1}
    MaxVersion = 0
INVARIANT
    ApprovedIsPosted
