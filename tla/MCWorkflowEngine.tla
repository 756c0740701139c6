-------------------------- MODULE MCWorkflowEngine --------------------------
(***************************************************************************)
(* Small definitions for WorkflowEngine.                                    *)
(***************************************************************************)
EXTENDS WorkflowEngine

Edges(s, d) == [x \in Steps |-> IF x = s THEN d ELSE None]

\* An event, a condition on it, an approval on one path and a delay on the other,
\* and an agent that needs the approval.
GateSteps == {"reply", "gate", "approval", "delay", "notify"}
GateKind == [s \in GateSteps |->
    CASE s = "reply" -> "wait_for_event" [] s = "gate" -> "condition"
      [] s = "approval" -> "human_in_loop" [] s = "delay" -> "wait" [] OTHER -> "agent"]
GateDependsOn == [s \in GateSteps |->
    CASE s = "gate" -> {"reply"} [] s \in {"approval", "delay"} -> {"gate"}
      [] s = "notify" -> {"approval"} [] OTHER -> {}]
GatePos == [s \in GateSteps |->
    CASE s = "reply" -> 1 [] s = "gate" -> 2 [] s = "approval" -> 3 [] s = "delay" -> 4
      [] OTHER -> 5]
GateTruePath == Edges("gate", "approval")
GateFalsePath == Edges("gate", "delay")
NoEdges == Edges(None, None)

\* An agent with a fallback, an optional agent, and a step only a re-plan adds.
RepairSteps == {"pay", "manual", "report", "fix"}
RepairDefinition == {"pay", "manual", "report"}
RepairKind == [s \in RepairSteps |-> "agent"]
RepairDependsOn == [s \in RepairSteps |->
    CASE s = "manual" -> {"pay"} [] s = "report" -> {"manual"} [] OTHER -> {}]
RepairFallback == Edges("pay", "manual")
RepairPos == [s \in RepairSteps |->
    CASE s = "pay" -> 1 [] s = "manual" -> 2 [] s = "report" -> 3 [] OTHER -> 4]

\* The definition of docs/api-reference.md, "Create Workflow", in the order
\* TopologicalSort gives it.
InvoiceSteps == {"extract", "validate", "match", "gate", "hitl", "post"}
InvoiceKind == [s \in InvoiceSteps |->
    CASE s = "gate" -> "condition" [] s = "hitl" -> "human_in_loop" [] OTHER -> "agent"]
InvoiceDependsOn == [s \in InvoiceSteps |->
    CASE s = "match" -> {"validate"} [] s = "post" -> {"gate"} [] OTHER -> {}]
InvoicePos == [s \in InvoiceSteps |->
    CASE s = "extract" -> 1 [] s = "validate" -> 2 [] s = "gate" -> 3 [] s = "hitl" -> 4
      [] s = "match" -> 5 [] OTHER -> 6]
InvoiceTruePath == Edges("gate", "hitl")
InvoiceFalsePath == Edges("gate", "post")

\* docs/api-reference.md, "Workflow Execution Example": an approved invoice is
\* posted (HITL -->|approved| Post), and a run completes only after Post.
ApprovedIsPosted ==
    row.status = "completed" /\ row.results["hitl"] = "completed" =>
        row.results["post"] = "completed"
=============================================================================
