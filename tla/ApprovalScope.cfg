SPECIFICATION FairSpec
CHECK_DEADLOCK FALSE
CONSTANTS
    People = {"ann"}
    May <- mcMay
    Requester = "cy"
    AssigneeRole = "manager"
    EscalationRole = None
    Policies <- mcPolicies
    WorkflowId = "workflow"
    RunId = "run"
    AgentId = "agent"
    Kinds = {"workflow"}
    Decisions = {"approve", "reject"}
    None = None
PROPERTY WorkflowPolicyApplies
