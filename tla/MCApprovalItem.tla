---------------------------- MODULE MCApprovalItem ----------------------------
(***************************************************************************)
(* An instance of ApprovalItem: one reviewer, one item of a workflow run,  *)
(* a policy scoped to that workflow and the tenant's default.              *)
(***************************************************************************)
EXTENDS ApprovalItem

mcMay == [p \in People |-> {"manager", "cfo"}]

OneStep(role) == <<[role |-> role, quorum |-> 1, condition |-> "holds"]>>

mcPolicies ==
    {[id |-> "forWorkflow", workflow |-> WorkflowId, agent |-> None, steps |-> OneStep("cfo")],
     [id |-> "default", workflow |-> None, agent |-> None, steps |-> OneStep("manager")]}
=============================================================================
