----------------------------- MODULE ApprovalItem -----------------------------
(***************************************************************************)
(* One item of the approval queue: the decisions reviewers take on it      *)
(* (api/v1/approvals.py decide), the approval policy they are counted      *)
(* under (core/approvals/policy_engine.py), its deadline                   *)
(* (expire_pending_hitl_items) and the resume of the agent run that waits  *)
(* behind it (core/approvals/agent_run_resume.py).                         *)
(*                                                                         *)
(* decide holds the item's row lock from its first read to its commit, so  *)
(* one call at a time is inside; what it reads elsewhere (the policy, its  *)
(* steps, the deny flag) and the deadline task are not under that lock.    *)
(* Tenant admins create and delete policies meanwhile; no code edits one   *)
(* in place.                                                               *)
(*                                                                         *)
(* A person is one identity: _voter_identities matches every identifier of *)
(* a session.  Whether someone may decide for a role, by their own role or *)
(* by a delegation, is the constant May.  A condition is given by its      *)
(* value for this item: holds, fails or unknown.                           *)
(***************************************************************************)
EXTENDS Integers, Sequences, FiniteSets, FiniteSetsExt

CONSTANTS
    People,
    May,            \* person -> the roles they may decide for (_can_decide)
    Requester,      \* requested_by_user_id
    AssigneeRole,   \* the item's role when it was raised
    EscalationRole, \* approval_timeout_policy.escalation_role
    Policies,       \* policies an admin may create: [id, workflow, agent, steps]
    WorkflowId, RunId, AgentId, \* of the item: its workflow, run and agent
    Kinds,          \* {"workflow", "agent_run"}: what waits behind the item
    Decisions,      \* approve, reject, defer
    None

VARIABLES
    policies,   \* approval_policies and approval_steps
    deny,       \* approvals.unevaluable_condition is deny (or unreadable)
    item,       \* the hitl_queue row
    call,       \* the decide call that holds the row lock, or NoCall
    late,       \* expires_at has passed
    timeout,    \* the deadline task: what it is about to write
    task,       \* the background resume decide queued after its commit
    closings,   \* history: commits that closed the item with a decision
    run,        \* the run behind the item: waiting, resumed or failed
    gone,       \* policies deleted (an id is not used again)
    raced       \* history: a policy was deleted under a call that uses it

vars == <<policies, deny, item, call, late, timeout, task, closings, run, gone, raced>>

NoCall == [pc |-> "none", who |-> None, decision |-> None, policy |-> None,
           seq |-> 0, action |-> "advance"]

NewItem(kind) ==
    [kind |-> kind, status |-> "pending", role |-> AssigneeRole, escalated |-> FALSE,
     policy |-> None, seq |-> 0, collected |-> 0, votes |-> << >>, refused |-> FALSE,
     decision |-> None, resume |-> "none", under |-> None]

Init ==
    /\ policies \in SUBSET Policies
    /\ deny \in BOOLEAN
    /\ \E kind \in Kinds : item = NewItem(kind)
    /\ call = NoCall
    /\ late = FALSE
    /\ timeout = "none"
    /\ task = "none"
    /\ closings = 0
    /\ run = "waiting"
    /\ gone = {}
    /\ raced = FALSE

-----------------------------------------------------------------------------
(* The policy engine                                                       *)

\* _condition_matches: what cannot be evaluated applies.
Applies(step) == step.condition # "fails"

\* The applicable steps of a policy after a sequence number; a deleted
\* policy has none.
StepsAfter(p, seq) ==
    IF p \in policies THEN {i \in (seq + 1)..Len(p.steps) : Applies(p.steps[i])} ELSE {}

\* first_applicable_step and next_step_after, 0 for None.
NextStepAfter(p, seq) == IF StepsAfter(p, seq) = {} THEN 0 ELSE Min(StepsAfter(p, seq))

Unevaluable(p) == {i \in 1..Len(p.steps) : p.steps[i].condition = "unknown"}

\* resolve_policy: workflow-scoped, then agent-scoped, then the default.
ResolvePolicy(workflow, agent) ==
    LET byWorkflow == {p \in policies : workflow # None /\ p.workflow = workflow}
        byAgent == {p \in policies : p.agent = agent}
    IN  IF byWorkflow # {} THEN byWorkflow
        ELSE IF byAgent # {} THEN byAgent
        ELSE {p \in policies : p.workflow = None /\ p.agent = None}

\* apply_decision, for approve and reject.
ApplyDecision(step, collected, decision) ==
    IF decision = "reject" THEN "reject"
    ELSE IF collected + 1 >= step.quorum THEN "advance" ELSE "collect"

-----------------------------------------------------------------------------
(* decide                                                                  *)

Outside == UNCHANGED <<policies, deny, late, timeout, run, gone>>

\* The row is locked and read: 409 unless pending, 410 past the deadline,
\* 403 without the role.
Begin(p, d) ==
    /\ call = NoCall
    /\ item.status = "pending" /\ ~late /\ item.role \in May[p]
    /\ call' = [NoCall EXCEPT !.pc = "policy", !.who = p, !.decision = d]
    /\ raced' = FALSE
    /\ UNCHANGED <<item, task, closings>> /\ Outside

\* The id decide passes as the workflow: the item's run.
PolicyFor == ResolvePolicy(IF item.kind = "workflow" THEN RunId ELSE None, AgentId)

\* 409 when the policy an item is in changed; in deny mode anything but a
\* rejection is refused while a condition is unknown, and only the refusal
\* marker is committed.
BindPolicy(p) ==
    LET changed == item.policy # None /\ (p = None \/ p.id # item.policy)
        refused == p # None /\ call.decision # "reject" /\ deny /\ Unevaluable(p) # {}
    IN  CASE changed -> call' = NoCall /\ UNCHANGED item
          [] ~changed /\ refused -> call' = NoCall /\ item' = [item EXCEPT !.refused = TRUE]
          [] OTHER -> call' = [call EXCEPT !.pc = "step", !.policy = p] /\ UNCHANGED item

\* More than one match makes scalar_one_or_none raise.
Resolve ==
    /\ call.pc = "policy"
    /\ IF Cardinality(PolicyFor) > 1
       THEN call' = NoCall /\ UNCHANGED item
       ELSE BindPolicy(IF PolicyFor = {} THEN None ELSE CHOOSE p \in PolicyFor : TRUE)
    /\ UNCHANGED <<task, closings, raced>> /\ Outside

\* The item's current step, or the first that applies to it; 0 for none.
CurrentStep == IF item.seq > 0 THEN item.seq ELSE NextStepAfter(call.policy, 0)

\* Mutation: a reviewer may vote again once the item has moved to another step.
MayVotePerStep(p, i) ==
    /\ call.policy.steps[i].role \in May[p]
    /\ p # Requester
    /\ \A v \in 1..Len(item.votes) : item.votes[v].who = p => item.votes[v].seq # i

\* The step's own role, not the requester, and one vote per person and item.
MayVote(p, i) ==
    /\ call.policy.steps[i].role \in May[p]
    /\ p # Requester
    /\ \A v \in 1..Len(item.votes) : item.votes[v].who # p

\* Choose the step and apply the decision: 409 for a step that is gone, 403
\* or 409 for who may not vote, and an error for a decision that is neither
\* approve nor reject.  Without a policy, or a step that applies, any
\* decision stands.
TakeStep ==
    LET none == call.policy = None \/ (item.seq = 0 /\ CurrentStep = 0)
        i == CurrentStep
        missing == item.seq > 0 /\ call.policy \notin policies
    IN  /\ call.pc = "step"
        /\ IF none
           THEN call' = [call EXCEPT !.pc = "close"]
           ELSE IF missing \/ ~MayVote(call.who, i) \/ call.decision \notin {"approve", "reject"}
           THEN call' = NoCall
           ELSE call' = [call EXCEPT !.pc = "close", !.seq = i,
                    !.action = ApplyDecision(call.policy.steps[i], item.collected, call.decision)]
        /\ UNCHANGED <<item, task, closings, raced>> /\ Outside

\* The item with the vote of the call recorded at its step.
Voted ==
    IF call.seq = 0 THEN [item EXCEPT !.refused = FALSE]
    ELSE [item EXCEPT
            !.refused = FALSE,
            !.policy = call.policy.id,
            !.seq = call.seq,
            !.collected = IF call.decision = "approve" THEN @ + 1 ELSE @,
            !.votes = Append(@, [who |-> call.who, decision |-> call.decision, seq |-> call.seq])]

\* should_resume and resume_command: a workflow is always resumed, an agent
\* run for approve and reject, when its flag is on.
Queues(flag) ==
    \/ item.kind = "workflow"
    \/ call.decision \in {"approve", "reject"} /\ flag

\* next_step_after, the writes and the commit; then the resume is queued.
Close ==
    LET next == IF call.seq > 0 /\ call.action = "advance"
                THEN NextStepAfter(call.policy, call.seq) ELSE 0
        stays == call.action = "collect" \/ next # 0
    IN  /\ call.pc = "close"
        /\ IF stays
           THEN /\ item' = IF next = 0 THEN Voted
                           ELSE [Voted EXCEPT !.seq = next, !.collected = 0,
                                              !.role = call.policy.steps[next].role]
                /\ UNCHANGED <<task, closings>>
           ELSE /\ item' = [Voted EXCEPT !.decision = call.decision, !.under = call.policy,
                                         !.status = IF call.action = "reject" THEN "rejected" ELSE "decided"]
                /\ closings' = closings + 1
                /\ \E flag \in BOOLEAN : task' = IF Queues(flag) THEN "queued" ELSE "skipped"
        /\ call' = NoCall
        /\ UNCHANGED raced /\ Outside

-----------------------------------------------------------------------------
(* The background resume                                                   *)

\* Mutation: the run is resumed whatever became of it meanwhile.
ResumeWorkflowAnyway ==
    /\ task = "queued" /\ item.kind = "workflow"
    /\ task' = "done"
    /\ run' = "resumed"
    /\ UNCHANGED <<policies, deny, item, call, late, timeout, closings, gone, raced>>

\* _resume_workflow_bg: resume_from_hitl, if the run still waits.
ResumeWorkflow ==
    /\ task = "queued" /\ item.kind = "workflow"
    /\ task' = "done"
    /\ run' = IF run = "waiting" THEN "resumed" ELSE run
    /\ UNCHANGED <<policies, deny, item, call, late, timeout, closings, gone, raced>>

\* _claim, under the row lock; it refuses a run already claimed, and may
\* find the agent or the recorded parameters gone.
Claim(usable) ==
    /\ task = "queued" /\ item.kind = "agent_run" /\ call = NoCall
    /\ IF item.resume = "none" /\ usable
       THEN task' = "running" /\ item' = [item EXCEPT !.resume = "resuming"]
       ELSE task' = "done" /\ item' = [item EXCEPT !.resume = IF @ = "none" THEN "refused" ELSE @]
    /\ UNCHANGED <<policies, deny, call, late, timeout, closings, run, gone, raced>>

\* resume_agent, _classify and _record.
Record(outcome) ==
    /\ task = "running" /\ call = NoCall
    /\ task' = "done"
    /\ item' = [item EXCEPT !.resume = outcome]
    /\ run' = IF outcome \in {"completed", "rejected"} THEN "resumed" ELSE run
    /\ outcome \in {"completed", "rejected"} =>
          outcome = (IF item.decision = "reject" THEN "rejected" ELSE "completed")
    /\ UNCHANGED <<policies, deny, call, late, timeout, closings, gone, raced>>

\* The API process stops: a background task is kept nowhere.
TaskLost ==
    /\ task \in {"queued", "running"}
    /\ task' = "lost"
    /\ UNCHANGED <<policies, deny, item, call, late, timeout, closings, run, gone, raced>>

-----------------------------------------------------------------------------
(* The deadline                                                            *)

Deadline ==
    /\ ~late
    /\ late' = TRUE
    /\ UNCHANGED <<policies, deny, item, call, timeout, task, closings, run, gone, raced>>

\* Mutation: the run is failed without a look at whether it still waits.
TimeoutBeginAlways ==
    /\ timeout = "none" /\ late /\ item.kind = "workflow"
    /\ IF EscalationRole # None /\ ~item.escalated
       THEN timeout' = "escalate" /\ item' = [item EXCEPT !.escalated = TRUE] /\ UNCHANGED run
       ELSE timeout' = "expire" /\ run' = "failed" /\ UNCHANGED item
    /\ UNCHANGED <<policies, deny, call, late, task, closings, gone, raced>>

\* timeout_workflow_hitl finds the run waiting and saves its state: escalated
\* once, then failed.
TimeoutBegin ==
    /\ timeout = "none" /\ late /\ item.kind = "workflow" /\ run = "waiting"
    /\ IF EscalationRole # None /\ ~item.escalated
       THEN timeout' = "escalate" /\ item' = [item EXCEPT !.escalated = TRUE] /\ UNCHANGED run
       ELSE timeout' = "expire" /\ run' = "failed" /\ UNCHANGED item
    /\ UNCHANGED <<policies, deny, call, late, task, closings, gone, raced>>

\* expire_pending_hitl_items reads the row without a lock...
TimeoutRead ==
    /\ timeout \in {"escalate", "expire"}
    /\ timeout' = CASE item.status # "pending" -> "none"
                    [] item.status = "pending" /\ timeout = "escalate" -> "escalating"
                    [] item.status = "pending" /\ timeout = "expire" -> "expiring"
    /\ UNCHANGED <<policies, deny, item, call, late, task, closings, run, gone, raced>>

\* ... and writes what it changed once no decision holds it.
TimeoutWrite ==
    /\ call = NoCall
    /\ \/ timeout = "escalating" /\ item' = [item EXCEPT !.role = EscalationRole] /\ late' = FALSE
       \/ timeout = "expiring" /\ item' = [item EXCEPT !.status = "expired"] /\ UNCHANGED late
    /\ timeout' = "none"
    /\ UNCHANGED <<policies, deny, call, task, closings, run, gone, raced>>

\* The worker stops, or the write fails: nothing repeats it.
TimeoutLost ==
    /\ timeout # "none"
    /\ timeout' = "none"
    /\ UNCHANGED <<policies, deny, item, call, late, task, closings, run, gone, raced>>

-----------------------------------------------------------------------------
(* Tenant admins                                                           *)

CreatePolicy(p) ==
    /\ p \in Policies \ (policies \cup gone)
    /\ policies' = policies \cup {p}
    /\ UNCHANGED <<deny, item, call, late, timeout, task, closings, run, gone, raced>>

DeletePolicy(p) ==
    /\ p \in policies
    /\ policies' = policies \ {p}
    /\ gone' = gone \cup {p}
    /\ raced' = (raced \/ call.policy = p)
    /\ UNCHANGED <<deny, item, call, late, timeout, task, closings, run>>

SetDeny ==
    /\ deny' = ~deny
    /\ UNCHANGED <<policies, item, call, late, timeout, task, closings, run, gone, raced>>

Next ==
    \/ \E p \in People, d \in Decisions : Begin(p, d)
    \/ Resolve \/ TakeStep \/ Close
    \/ ResumeWorkflow
    \/ \E usable \in BOOLEAN : Claim(usable)
    \/ \E outcome \in {"completed", "rejected", "failed", "refused"} : Record(outcome)
    \/ TaskLost
    \/ Deadline \/ TimeoutBegin \/ TimeoutRead \/ TimeoutWrite \/ TimeoutLost
    \/ \E p \in Policies : CreatePolicy(p) \/ DeletePolicy(p)
    \/ SetDeny

Spec == Init /\ [][Next]_vars

\* A call that holds the row goes on to its commit or its error.
FairSpec == Spec /\ WF_vars(Resolve) /\ WF_vars(TakeStep) /\ WF_vars(Close)

-----------------------------------------------------------------------------
(* Properties                                                              *)

\* The approvals of a step, by the people who gave them.
Approvers(i) ==
    {item.votes[v].who : v \in {w \in 1..Len(item.votes) :
        item.votes[w].seq = i /\ item.votes[w].decision = "approve"}}

\* Every variable has the shape the columns and the context JSON give it.
TypeOK ==
    /\ policies \in SUBSET Policies /\ gone \in SUBSET Policies /\ deny \in BOOLEAN
    /\ item.status \in {"pending", "decided", "rejected", "expired"}
    /\ item.seq \in Nat /\ item.collected \in Nat /\ item.refused \in BOOLEAN
    /\ item.decision \in Decisions \cup {None}
    /\ \A v \in 1..Len(item.votes) : item.votes[v].who \in People
    /\ call.pc \in {"none", "policy", "step", "close"}
    /\ late \in BOOLEAN /\ raced \in BOOLEAN /\ closings \in Nat
    /\ timeout \in {"none", "escalate", "expire", "escalating", "expiring"}
    /\ task \in {"none", "queued", "running", "done", "skipped", "lost"}
    /\ run \in {"waiting", "resumed", "failed"}

\* decide approves an item under a policy only when every step that applies
\* to it, the ones whose condition cannot be evaluated included, has a quorum
\* of approvals, each from another person, none of them the requester; over
\* any number of calls, refusals, escalations and policy changes, unless the
\* policy is deleted while the last call is inside it.  On the way there,
\* policy_state agrees with its own history: the counter is the number of
\* approvals of the current step, and an item is bound to a policy exactly
\* when someone has voted under it.
QuorumBeforeDecided ==
    /\ item.status = "decided" /\ item.under # None /\ ~raced =>
        LET applicable == {i \in 1..Len(item.under.steps) : Applies(item.under.steps[i])}
        IN  /\ \A i \in applicable : Cardinality(Approvers(i)) >= item.under.steps[i].quorum
            /\ \A i, j \in applicable : i # j => Approvers(i) \cap Approvers(j) = {}
            /\ Requester \notin UNION {Approvers(i) : i \in applicable}
    /\ item.policy # None <=> item.votes # << >>
    /\ item.seq > 0 => item.collected = Cardinality(Approvers(item.seq))

\* decide closes an item at most once, whoever else was deciding, and the run
\* behind it goes on only because of that decision, an agent run only on
\* approve or reject, and never once the deadline task has failed it.  An
\* item expires only behind a failed run, and a run is failed only once the
\* deadline has passed, after which no new call may decide the item.
ResumedRunWasDecided ==
    /\ closings <= 1 /\ (closings = 0 <=> item.decision = None)
    /\ run = "resumed" => closings = 1 /\ item.status \in {"decided", "rejected"}
    /\ run = "resumed" /\ item.kind = "agent_run" =>
          item.decision \in {"approve", "reject"} /\ item.resume \in {"completed", "rejected"}
    /\ item.status = "expired" => run = "failed"
    /\ run = "failed" => late

\* Once decided or rejected an item keeps its status and its decision, except
\* that the deadline task may still mark it expired when it read the row
\* while the decision was being taken; and a run that was resumed is not
\* failed by the deadline task, nor a failed one resumed.
ClosedStays ==
    [][/\ item.status # "pending" =>
            /\ item'.decision = item.decision /\ item'.votes = item.votes
            /\ item'.status = item.status \/ (timeout = "expiring" /\ item'.status = "expired")
       /\ run # "waiting" => run' = run]_vars

\* An item of a workflow run is decided under the policy written for that
\* workflow when there is one (resolve_policy: workflow-scoped, then
\* agent-scoped, then the tenant's default).
WorkflowPolicyApplies ==
    [][\A p \in policies :
         item.kind = "workflow" /\ p.workflow = WorkflowId /\ call.pc = "policy" /\ call'.pc = "step"
            => call'.policy = p]_vars
=============================================================================
