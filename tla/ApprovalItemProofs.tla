------------------------- MODULE ApprovalItemProofs -------------------------
(***************************************************************************)
(* What the approval queue guarantees of one item, for any people, roles,   *)
(* policies and decisions: the run behind it goes on only because of one    *)
(* decision, and an approval under a policy has its quorums.                *)
(*                                                                          *)
(* The argument: a call inside decide holds the row, so the item stays      *)
(* pending and undecided under it.  The resume is queued by the only commit *)
(* that closes the item.  The deadline task writes the run before the item, *)
(* so an item it marks expired has a failed run behind it.                  *)
(*                                                                          *)
(* The votes: an item stands at one step of the policy it is bound to by id.*)
(* Every earlier step has its quorum, nobody has voted at a later one, and  *)
(* the counter is the number of approvals at this one, each of another      *)
(* person.  The item moves on, or is approved, only with the counter full.  *)
(***************************************************************************)
EXTENDS ApprovalItem, FiniteSetTheorems, TLAPS

IsItem(x) ==
    x \in [kind : {x.kind}, status : {x.status}, role : {x.role}, escalated : {x.escalated},
         policy : {x.policy}, seq : {x.seq}, collected : {x.collected}, votes : {x.votes},
         refused : {x.refused}, decision : {x.decision}, resume : {x.resume}, under : {x.under}]

IsCall(x) ==
    x \in [pc : {x.pc}, who : {x.who}, decision : {x.decision}, policy : {x.policy},
         seq : {x.seq}, action : {x.action}]

\* The edits decide makes to its own state change the fields they name.
LEMMA CallEdits ==
    ASSUME NEW x, IsCall(x), NEW p, NEW i, NEW a
    PROVE  /\ [x EXCEPT !.pc = "step", !.policy = p] \in
                 [pc : {"step"}, who : {x.who}, decision : {x.decision}, policy : {p},
                  seq : {x.seq}, action : {x.action}]
           /\ [x EXCEPT !.pc = "close"] \in
                 [pc : {"close"}, who : {x.who}, decision : {x.decision}, policy : {x.policy},
                  seq : {x.seq}, action : {x.action}]
           /\ [x EXCEPT !.pc = "close", !.seq = i, !.action = a] \in
                 [pc : {"close"}, who : {x.who}, decision : {x.decision}, policy : {x.policy},
                  seq : {i}, action : {a}]
BY DEF IsCall

(***************************************************************************)
(* The run behind the item                                                  *)
(***************************************************************************)
\* Under a call the item is pending, and a pending item has no decision.
Held ==
    /\ IsItem(item) /\ IsCall(call)
    /\ item.status \in {"pending", "decided", "rejected", "expired"}
    /\ call.pc \in {"none", "policy", "step", "close"}
    /\ call.pc = "none" => call = NoCall
    /\ call.pc # "none" => item.status = "pending" /\ call.decision \in Decisions
    /\ item.status = "pending" => closings = 0 /\ task = "none"
    /\ item.status \in {"decided", "rejected"} => closings = 1

\* A resume belongs to the decision that queued it.
Queued ==
    /\ closings \in {0, 1} /\ (closings = 0 <=> item.decision = None)
    /\ task # "none" => closings = 1
    /\ task = "running" => item.kind = "agent_run"
    /\ task \in {"queued", "running"} /\ item.kind # "workflow" =>
          item.decision \in {"approve", "reject"} /\ run = "waiting"

\* The deadline task has failed the run before it marks the item.
Deadlines ==
    /\ item.status = "expired" => run = "failed"
    /\ timeout \in {"expire", "expiring"} => run = "failed"
    /\ timeout \in {"escalate", "escalating"} => run # "failed"
    /\ run = "failed" => late /\ item.kind = "workflow"

Resumed ==
    /\ run \in {"waiting", "resumed", "failed"}
    /\ run = "resumed" => task = "done" /\ item.status \in {"decided", "rejected"}
    /\ run = "resumed" /\ item.kind = "agent_run" =>
          item.decision \in {"approve", "reject"} /\ item.resume \in {"completed", "rejected"}

RunInv == Held /\ Queued /\ Deadlines /\ Resumed

LEMMA RunInit == Init => RunInv
BY DEF Init, NewItem, NoCall, RunInv, Held, Queued, Deadlines, Resumed, IsItem, IsCall

\* What the run behind the item and a closed item may do in one step.
ClosedStep ==
    /\ item.status # "pending" =>
         /\ item'.decision = item.decision /\ item'.votes = item.votes
         /\ item'.status = item.status \/ (timeout = "expiring" /\ item'.status = "expired")
    /\ run # "waiting" => run' = run

\* The steps of decide before its commit change at most the refusal marker.
LEMMA DecidingStep ==
    ASSUME RunInv, (\E p \in People, d \in Decisions : Begin(p, d)) \/ Resolve \/ TakeStep
    PROVE  RunInv' /\ ClosedStep
<1>1. /\ IsItem(item') /\ item'.status = item.status /\ item'.decision = item.decision
      /\ item'.kind = item.kind /\ item'.resume = item.resume /\ item'.votes = item.votes
  BY DEF RunInv, Held, IsItem, Begin, Resolve, BindPolicy, TakeStep
<1>2. UNCHANGED <<closings, task, run, timeout, late>>
  BY DEF Begin, Resolve, TakeStep, Outside
<1>3. /\ IsCall(call') /\ call'.pc \in {"none", "policy", "step", "close"}
      /\ call'.pc = "none" => call' = NoCall
      /\ call'.pc # "none" => item.status = "pending" /\ call'.decision \in Decisions
  <2>1. CASE \E p \in People, d \in Decisions : Begin(p, d)
    BY <2>1 DEF Begin, NoCall, IsCall
  <2>2. CASE Resolve
    <3>1. call' = NoCall \/ \E p : call' = [call EXCEPT !.pc = "step", !.policy = p]
      BY <2>2 DEF Resolve, BindPolicy
    <3>2. call.pc = "policy"
      BY <2>2 DEF Resolve
    <3>3. IsCall(call) /\ item.status = "pending" /\ call.decision \in Decisions
      BY <3>2 DEF RunInv, Held
    <3>4. CASE call' = NoCall
      BY <3>3, <3>4 DEF NoCall, IsCall
    <3>5. CASE call' # NoCall
      BY <3>1, <3>3, <3>5, CallEdits DEF IsCall
    <3> QED BY <3>4, <3>5
  <2>3. CASE TakeStep
    <3>1. \/ call' = NoCall
          \/ call' = [call EXCEPT !.pc = "close"]
          \/ \E i, a : call' = [call EXCEPT !.pc = "close", !.seq = i, !.action = a]
      BY <2>3 DEF TakeStep
    <3>2. call.pc = "step"
      BY <2>3 DEF TakeStep
    <3>3. IsCall(call) /\ item.status = "pending" /\ call.decision \in Decisions
      BY <3>2 DEF RunInv, Held
    <3>4. CASE call' = NoCall
      BY <3>3, <3>4 DEF NoCall, IsCall
    <3>5. CASE call' = [call EXCEPT !.pc = "close"]
      BY <3>3, <3>5, CallEdits DEF IsCall
    <3>6. CASE \E i, a : call' = [call EXCEPT !.pc = "close", !.seq = i, !.action = a]
      <4>1. PICK i, a : call' = [call EXCEPT !.pc = "close", !.seq = i, !.action = a]
        BY <3>6
      <4> QED BY <3>3, <4>1, CallEdits DEF IsCall
    <3> QED BY <3>1, <3>4, <3>5, <3>6
  <2> QED BY <2>1, <2>2, <2>3
<1> QED BY <1>1, <1>2, <1>3 DEF RunInv, Held, Queued, Deadlines, Resumed, ClosedStep

\* The commit of decide leaves the item pending or closes it.
LEMMA CloseStep ==
    ASSUME None \notin Decisions, RunInv, Close
    PROVE  RunInv' /\ ClosedStep
<1>1. /\ IsItem(Voted) /\ Voted.status = "pending" /\ Voted.decision = item.decision
      /\ Voted.kind = item.kind /\ Voted.resume = item.resume
  BY DEF RunInv, Held, Close, IsItem, Voted
<1> HIDE DEF Voted
<1>2. call' = NoCall /\ UNCHANGED <<run, timeout, late>> /\ item.status = "pending"
  BY DEF Close, Outside, RunInv, Held
<1>3. CASE UNCHANGED <<task, closings>>
  <2>1. /\ IsItem(item') /\ item'.status = "pending" /\ item'.decision = item.decision
        /\ item'.kind = item.kind /\ item'.resume = item.resume
    BY <1>1, <1>3 DEF Close, IsItem, RunInv, Held, Queued
  <2> QED BY <1>2, <1>3, <2>1 DEF RunInv, Held, Queued, Deadlines, Resumed, ClosedStep, NoCall, IsCall
<1>4. CASE ~UNCHANGED <<task, closings>>
  <2>1. /\ IsItem(item') /\ item'.status \in {"decided", "rejected"} /\ item'.decision = call.decision
        /\ item'.kind = item.kind /\ item'.resume = item.resume
    BY <1>1, <1>4 DEF Close, IsItem
  <2>2. /\ closings' = 1 /\ task' \in {"queued", "skipped"}
        /\ task' = "queued" /\ item.kind # "workflow" => call.decision \in {"approve", "reject"}
    BY <1>2, <1>4 DEF Close, Queues, RunInv, Held
  <2>3. call.decision \in Decisions
    BY DEF Close, RunInv, Held
  <2> QED BY <1>2, <2>1, <2>2, <2>3 DEF RunInv, Held, Queued, Deadlines, Resumed, ClosedStep, NoCall, IsCall
<1> QED BY <1>3, <1>4

\* The background resume.
LEMMA TaskStep ==
    ASSUME RunInv,
           \/ ResumeWorkflow \/ TaskLost
           \/ \E usable \in BOOLEAN : Claim(usable)
           \/ \E outcome \in {"completed", "rejected", "failed", "refused"} : Record(outcome)
    PROVE  RunInv' /\ ClosedStep
<1>1. /\ IsItem(item') /\ item'.status = item.status /\ item'.decision = item.decision
      /\ item'.kind = item.kind /\ item'.votes = item.votes
  BY DEF RunInv, Held, IsItem, ResumeWorkflow, TaskLost, Claim, Record
<1>2. UNCHANGED <<closings, call, timeout, late>> /\ task # "none"
  BY DEF ResumeWorkflow, TaskLost, Claim, Record
<1>3. CASE ResumeWorkflow \/ TaskLost
  BY <1>1, <1>2, <1>3 DEF ResumeWorkflow, TaskLost, RunInv, Held, Queued, Deadlines, Resumed, ClosedStep
<1>4. CASE \E usable \in BOOLEAN : Claim(usable)
  BY <1>1, <1>2, <1>4 DEF Claim, RunInv, Held, Queued, Deadlines, Resumed, ClosedStep
<1>5. ASSUME NEW outcome \in {"completed", "rejected", "failed", "refused"}, Record(outcome)
      PROVE  RunInv' /\ ClosedStep
  <2>1. item'.resume = outcome
    BY <1>5 DEF Record, RunInv, Held, IsItem
  <2> QED BY <1>1, <1>2, <1>5, <2>1 DEF Record, RunInv, Held, Queued, Deadlines, Resumed, ClosedStep
<1> QED BY <1>3, <1>4, <1>5

\* The deadline task.
LEMMA DeadlineStep ==
    ASSUME RunInv, Deadline \/ TimeoutBegin \/ TimeoutRead \/ TimeoutWrite \/ TimeoutLost
    PROVE  RunInv' /\ ClosedStep
<1>1. /\ IsItem(item') /\ item'.decision = item.decision /\ item'.resume = item.resume
      /\ item'.kind = item.kind /\ item'.votes = item.votes
  BY DEF RunInv, Held, IsItem, Deadline, TimeoutBegin, TimeoutRead, TimeoutWrite, TimeoutLost
<1>2. UNCHANGED <<closings, call, task>>
  BY DEF Deadline, TimeoutBegin, TimeoutRead, TimeoutWrite, TimeoutLost
<1>3. CASE Deadline \/ TimeoutRead \/ TimeoutLost
  BY <1>1, <1>2, <1>3 DEF Deadline, TimeoutRead, TimeoutLost, RunInv, Held, Queued, Deadlines, Resumed, ClosedStep
<1>4. CASE TimeoutBegin
  <2>1. item'.status = item.status
    BY <1>4 DEF TimeoutBegin, RunInv, Held, IsItem
  <2> QED BY <1>1, <1>2, <1>4, <2>1 DEF TimeoutBegin, RunInv, Held, Queued, Deadlines, Resumed, ClosedStep
<1>5. CASE TimeoutWrite
  <2>1. \/ timeout = "escalating" /\ item'.status = item.status /\ late' = FALSE
        \/ timeout = "expiring" /\ item'.status = "expired" /\ late' = late
    BY <1>5 DEF TimeoutWrite, RunInv, Held, IsItem
  <2> QED BY <1>1, <1>2, <1>5, <2>1 DEF TimeoutWrite, RunInv, Held, Queued, Deadlines, Resumed, ClosedStep, NoCall
<1> QED BY <1>3, <1>4, <1>5

LEMMA RunNext ==
    ASSUME None \notin Decisions, RunInv, [Next]_vars
    PROVE  RunInv' /\ ClosedStep
<1>1. CASE UNCHANGED vars \/ (\E p \in Policies : CreatePolicy(p) \/ DeletePolicy(p)) \/ SetDeny
  <2>1. UNCHANGED <<item, call, late, timeout, task, closings, run>>
    BY <1>1 DEF vars, CreatePolicy, DeletePolicy, SetDeny
  <2> QED BY <2>1 DEF RunInv, Held, Queued, Deadlines, Resumed, ClosedStep
<1> QED BY <1>1, DecidingStep, CloseStep, TaskStep, DeadlineStep DEF Next

\* decide closes an item at most once, the run behind it goes on only because of
\* that decision and never once the deadline task has failed it, and an item
\* expires only behind a failed run, whatever calls, deadlines, lost tasks and
\* policy changes interleave (decide, _resume_workflow_bg, _claim,
\* expire_pending_hitl_items).
THEOREM ResumesAreDecided ==
    ASSUME None \notin Decisions
    PROVE  Spec => []ResumedRunWasDecided
<1>1. RunInv => ResumedRunWasDecided
  BY DEF RunInv, Held, Queued, Deadlines, Resumed, ResumedRunWasDecided
<1>2. RunInv /\ [Next]_vars => RunInv'
  BY RunNext
<1> QED BY <1>1, <1>2, RunInit, PTL DEF Spec

\* A closed item keeps its decision and its votes, and its status too unless the
\* deadline task had read it before the decision; a run that was resumed or failed
\* stays so (decide, timeout_workflow_hitl, expire_pending_hitl_items).
THEOREM ClosedItemsStay ==
    ASSUME None \notin Decisions
    PROVE  Spec => ClosedStays
<1>1. RunInv /\ [Next]_vars => RunInv' /\ [ClosedStep]_vars
  BY RunNext
<1>2. [ClosedStep]_vars => 
        [/\ item.status # "pending" =>
            /\ item'.decision = item.decision /\ item'.votes = item.votes
            /\ item'.status = item.status \/ (timeout = "expiring" /\ item'.status = "expired")
         /\ run # "waiting" => run' = run]_vars
  BY DEF ClosedStep
<1> QED BY <1>1, <1>2, RunInit, PTL DEF Spec, ClosedStays

(***************************************************************************)
(* The votes                                                                *)
(***************************************************************************)
\* What the schema and the routes make sure of: the id of a policy is its primary
\* key, its steps are a list, and a quorum is a number.
PoliciesAreRows ==
    /\ None \notin Policies
    /\ \A p \in Policies :
         /\ p.id # None
         /\ Len(p.steps) \in Nat
         /\ \A i \in 1..Len(p.steps) : p.steps[i].quorum \in Int
    /\ \A p, q \in Policies : p.id = q.id => p = q

Applicable(p) == {i \in 1..Len(p.steps) : Applies(p.steps[i])}

VoteRecords == [who : People \ {Requester}, decision : {"approve", "reject"}, seq : Nat]

\* One vote a person.
Votes ==
    /\ item.votes \in Seq(VoteRecords)
    /\ \A v, w \in 1..Len(item.votes) : item.votes[v].who = item.votes[w].who => v = w

HasQuorum(p, i) == Cardinality(Approvers(i)) >= p.steps[i].quorum

\* Where an item bound to policy p stands: the steps before its own have their
\* quorum, nobody has voted at a later one, and the counter counts.
Stands(p) ==
    /\ item.seq \in Applicable(p)
    /\ \A v \in 1..Len(item.votes) : item.votes[v].seq <= item.seq
    /\ \A i \in Applicable(p) : i < item.seq => HasQuorum(p, i)
    /\ item.collected = Cardinality(Approvers(item.seq))

Bound ==
    /\ item.policy = None => item.seq = 0 /\ item.collected = 0 /\ item.votes = << >>
    /\ item.policy # None => /\ item.votes # << >>
                             /\ \E p \in Policies : p.id = item.policy /\ Stands(p)

\* The policy a call is in is the item's, and there unless it was deleted meanwhile.
InPolicy ==
    /\ call.pc # "none" => call.who \in People
    /\ call.pc \in {"policy", "step"} => call.seq = 0 /\ call.action = "advance"
    /\ call.pc \in {"step", "close"} =>
         IF call.policy = None THEN item.policy = None
         ELSE /\ call.policy \in Policies
              /\ raced \/ call.policy \in policies
              /\ item.policy \in {None, call.policy.id}

\* What a call that is about to commit has chosen.
Chosen ==
    call.pc = "close" =>
        IF call.seq = 0
        THEN /\ call.action = "advance"
             /\ call.policy = None \/ raced \/ Applicable(call.policy) = {}
        ELSE /\ call.policy # None
             /\ call.seq \in Applicable(call.policy)
             /\ item.seq = 0 => \A i \in Applicable(call.policy) : call.seq <= i
             /\ item.seq # 0 => item.seq = call.seq
             /\ MayVote(call.who, call.seq)
             /\ call.decision \in {"approve", "reject"}
             /\ call.action = ApplyDecision(call.policy.steps[call.seq], item.collected, call.decision)

Decided ==
    item.status = "decided" /\ item.under # None /\ ~raced =>
        item.under \in Policies /\ \A i \in Applicable(item.under) : HasQuorum(item.under, i)

VoteInv == Votes /\ Bound /\ InPolicy /\ Chosen /\ Decided

LEMMA ApproversFinite ==
    ASSUME Votes, NEW i PROVE IsFiniteSet(Approvers(i))
<1> DEFINE D == {w \in 1..Len(item.votes) : item.votes[w].seq = i /\ item.votes[w].decision = "approve"}
           f == [v \in D |-> item.votes[v].who]
<1>1. IsFiniteSet(1..Len(item.votes))
  BY FS_Interval DEF Votes
<1>2. IsFiniteSet(D)
  BY <1>1, FS_Subset
<1>3. f \in Surjection(D, Approvers(i))
  BY DEF Surjection, Approvers
<1> HIDE DEF D, f
<1> QED BY <1>2, <1>3, FS_Surjection

\* A vote adds one approver to its step, when it approves.
LEMMA ApproverAdded ==
    ASSUME Votes, NEW r \in VoteRecords, item'.votes = Append(item.votes, r),
           \A v \in 1..Len(item.votes) : item.votes[v].who # r.who, NEW i
    PROVE  /\ Votes'
           /\ Approvers(i)' = IF r.seq = i /\ r.decision = "approve"
                              THEN Approvers(i) \cup {r.who} ELSE Approvers(i)
           /\ Cardinality(Approvers(i)') = IF r.seq = i /\ r.decision = "approve"
                                           THEN Cardinality(Approvers(i)) + 1 ELSE Cardinality(Approvers(i))
           /\ Cardinality(Approvers(i)) \in Nat
<1> DEFINE n == Len(item.votes)
<1>1. /\ n \in Nat /\ item'.votes \in Seq(VoteRecords) /\ Len(item'.votes) = n + 1
      /\ \A v \in 1..n : item'.votes[v] = item.votes[v]
      /\ item'.votes[n + 1] = r
  BY DEF Votes
<1>2. Votes'
  BY <1>1 DEF Votes
<1>3. Approvers(i)' = IF r.seq = i /\ r.decision = "approve"
                      THEN Approvers(i) \cup {r.who} ELSE Approvers(i)
  BY <1>1 DEF Approvers
<1>4. r.who \notin Approvers(i)
  BY DEF Approvers
<1>5. IsFiniteSet(Approvers(i))
  BY ApproversFinite
<1>6. Cardinality(Approvers(i)) \in Nat
  BY <1>5, FS_CardinalityType
<1> QED BY <1>2, <1>3, <1>4, <1>5, <1>6, FS_AddElement

\* The first step that applies after a place is the least of them.
LEMMA Smallest ==
    ASSUME NEW S \in SUBSET Nat, S # {}
    PROVE  /\ Min(S) \in S
           /\ \A y \in S : Min(S) <= y
<1> DEFINE R == OpToRel(<, Nat)
<1>1. IsWellFoundedOn(R, Nat)
  BY NatLessThanWellFounded, Zenon
<1>2. R = {ss \in Nat \X Nat : ss[1] < ss[2]}
  BY Zenon DEF OpToRel
<1> HIDE DEF R
<1>3. PICK x \in S : \A y \in S : ~(<<y, x>> \in R)
  BY <1>1, WFMin, Zenon
<1>4. ASSUME NEW y \in S PROVE x <= y
  <2> DEFINE p == <<y, x>>
  <2>1. p \in Nat \X Nat /\ p[1] = y /\ p[2] = x
    OBVIOUS
  <2>2. p \notin R
    BY <1>3, Zenon
  <2> HIDE DEF p
  <2>3. ~(y < x)
    BY <1>2, <2>1, <2>2, Zenon
  <2> QED BY <2>3
<1> QED BY <1>4 DEF Min

LEMMA NextStep ==
    ASSUME PoliciesAreRows, NEW p \in Policies, NEW seq \in Nat
    PROVE  IF NextStepAfter(p, seq) = 0
           THEN p \in policies => \A i \in Applicable(p) : i <= seq
           ELSE /\ NextStepAfter(p, seq) \in Applicable(p)
                /\ NextStepAfter(p, seq) > seq
                /\ \A i \in Applicable(p) : i > seq => NextStepAfter(p, seq) <= i
                /\ p \in policies
<1>1. StepsAfter(p, seq) \in SUBSET Nat /\ 0 \notin StepsAfter(p, seq)
  BY DEF StepsAfter, PoliciesAreRows
<1>2. \A i \in Nat : i \in StepsAfter(p, seq) <=> p \in policies /\ i \in Applicable(p) /\ i > seq
  BY DEF StepsAfter, Applicable, PoliciesAreRows
<1>3. Applicable(p) \subseteq Nat
  BY DEF Applicable
<1>4. CASE StepsAfter(p, seq) = {}
  BY <1>2, <1>3, <1>4 DEF NextStepAfter
<1>5. CASE StepsAfter(p, seq) # {}
  <2>1. /\ Min(StepsAfter(p, seq)) \in StepsAfter(p, seq)
        /\ \A y \in StepsAfter(p, seq) : Min(StepsAfter(p, seq)) <= y
    BY <1>1, <1>5, Smallest
  <2>2. NextStepAfter(p, seq) = Min(StepsAfter(p, seq))
    BY <1>5 DEF NextStepAfter
  <2> HIDE DEF NextStepAfter
  <2> QED BY <1>1, <1>2, <1>3, <2>1, <2>2
<1> QED BY <1>4, <1>5

\* The columns of the item that its votes are about.
Ledger == <<item.policy, item.seq, item.collected, item.votes, item.under>>

LEMMA LedgerKept ==
    ASSUME Votes, Bound, Ledger' = Ledger
    PROVE  /\ Votes' /\ Bound'
           /\ \A p, i : HasQuorum(p, i)' <=> HasQuorum(p, i)
<1>1. /\ item'.policy = item.policy /\ item'.seq = item.seq /\ item'.collected = item.collected
      /\ item'.votes = item.votes
  BY DEF Ledger
<1>2. \A i : Approvers(i)' = Approvers(i)
  BY <1>1 DEF Approvers
<1>3. \A p, i : HasQuorum(p, i)' <=> HasQuorum(p, i)
  BY <1>2 DEF HasQuorum
<1>4. \A p : Stands(p) => Stands(p)'
  BY <1>1, <1>2, <1>3 DEF Stands
<1>5. Bound'
  BY <1>1, <1>4 DEF Bound
<1> QED BY <1>1, <1>3, <1>5 DEF Votes

\* Steps outside decide.
LEMMA OutsideKept ==
    ASSUME VoteInv, Ledger' = Ledger, call' = call, item'.status = "decided" => item.status = "decided",
           raced => raced', call.policy \in policies => raced' \/ call.policy \in policies'
    PROVE  VoteInv'
<1>1. /\ item'.policy = item.policy /\ item'.seq = item.seq /\ item'.collected = item.collected
      /\ item'.votes = item.votes /\ item'.under = item.under
  BY DEF Ledger
<1>2. Votes' /\ Bound' /\ \A p, i : HasQuorum(p, i)' <=> HasQuorum(p, i)
  BY LedgerKept DEF VoteInv
<1>3. InPolicy'
  BY <1>1 DEF VoteInv, InPolicy
<1>4. Chosen'
  BY <1>1 DEF VoteInv, Chosen, MayVote
<1>5. Decided'
  BY <1>1, <1>2 DEF VoteInv, Decided
<1> QED BY <1>2, <1>3, <1>4, <1>5 DEF VoteInv

LEMMA OutsideStep ==
    ASSUME RunInv, VoteInv,
           \/ ResumeWorkflow \/ TaskLost
           \/ \E usable \in BOOLEAN : Claim(usable)
           \/ \E outcome \in {"completed", "rejected", "failed", "refused"} : Record(outcome)
           \/ Deadline \/ TimeoutBegin \/ TimeoutRead \/ TimeoutWrite \/ TimeoutLost
           \/ \E p \in Policies : CreatePolicy(p) \/ DeletePolicy(p)
           \/ SetDeny \/ UNCHANGED vars
    PROVE  VoteInv'
<1>1. Ledger' = Ledger /\ (item'.status = "decided" => item.status = "decided")
  <2>0. IsItem(item)
    BY DEF RunInv, Held
  <2>1. CASE item' = item
    BY <2>1 DEF Ledger
  <2>2. CASE \E x : item' = [item EXCEPT !.resume = x]
    BY <2>0, <2>2 DEF IsItem, Ledger
  <2>3. CASE \E x : item' = [item EXCEPT !.role = x]
    BY <2>0, <2>3 DEF IsItem, Ledger
  <2>4. CASE item' \in {[item EXCEPT !.escalated = TRUE], [item EXCEPT !.status = "expired"]}
    BY <2>0, <2>4 DEF IsItem, Ledger
  <2>5. CASE \E usable \in BOOLEAN : Claim(usable)
    BY <2>2, <2>5 DEF Claim
  <2>6. CASE \E outcome \in {"completed", "rejected", "failed", "refused"} : Record(outcome)
    BY <2>2, <2>6 DEF Record
  <2>7. CASE TimeoutBegin \/ TimeoutWrite
    BY <2>1, <2>3, <2>4, <2>7 DEF TimeoutBegin, TimeoutWrite
  <2>8. CASE \/ ResumeWorkflow \/ TaskLost \/ Deadline \/ TimeoutRead \/ TimeoutLost
             \/ \E p \in Policies : CreatePolicy(p) \/ DeletePolicy(p)
             \/ SetDeny \/ UNCHANGED vars
    BY <2>1, <2>8 DEF vars, ResumeWorkflow, TaskLost, Deadline, TimeoutRead, TimeoutLost, CreatePolicy,
                      DeletePolicy, SetDeny
  <2> QED BY <2>5, <2>6, <2>7, <2>8
<1>2. call' = call
  BY DEF vars, ResumeWorkflow, TaskLost, Claim, Record, Deadline, TimeoutBegin,
         TimeoutRead, TimeoutWrite, TimeoutLost, CreatePolicy, DeletePolicy, SetDeny
<1>3. (raced => raced') /\ (call.policy \in policies => raced' \/ call.policy \in policies')
  <2>1. CASE raced' = raced /\ policies \subseteq policies'
    BY <2>1
  <2>2. ASSUME NEW p \in Policies, DeletePolicy(p)
        PROVE  (raced => raced') /\ (call.policy \in policies => raced' \/ call.policy \in policies')
    <3>1. raced' = (raced \/ call.policy = p) /\ policies' = policies \ {p}
      BY <2>2 DEF DeletePolicy
    <3> QED BY <3>1, Zenon
  <2> QED BY <2>1, <2>2 DEF vars, ResumeWorkflow, TaskLost, Claim, Record, Deadline, TimeoutBegin,
             TimeoutRead, TimeoutWrite, TimeoutLost, CreatePolicy, SetDeny
<1> QED BY <1>1, <1>2, <1>3, OutsideKept

LEMMA BeginStep ==
    ASSUME RunInv, VoteInv, NEW p \in People, NEW d \in Decisions, Begin(p, d)
    PROVE  VoteInv'
<1>1. item' = item /\ Ledger' = Ledger /\ item.status = "pending"
  BY DEF Begin, Ledger
<1>2. call'.pc = "policy" /\ call'.who = p /\ call'.seq = 0 /\ call'.action = "advance"
  BY DEF Begin, NoCall
<1>3. InPolicy' /\ Chosen' /\ Decided'
  BY <1>1, <1>2 DEF InPolicy, Chosen, Decided
<1> QED BY <1>1, <1>3, LedgerKept DEF VoteInv

LEMMA NoCallLeft ==
    ASSUME VoteInv, Ledger' = Ledger, item'.status = "pending", call' = NoCall
    PROVE  VoteInv'
<1>1. InPolicy' /\ Chosen' /\ Decided'
  BY DEF InPolicy, Chosen, Decided, NoCall
<1> QED BY <1>1, LedgerKept DEF VoteInv

LEMMA ResolveStep ==
    ASSUME PoliciesAreRows, RunInv, VoteInv, policies \subseteq Policies, Resolve
    PROVE  VoteInv'
<1> DEFINE q == IF PolicyFor = {} THEN None ELSE CHOOSE p \in PolicyFor : TRUE
<1>1. /\ call.pc = "policy" /\ item.status = "pending" /\ IsCall(call) /\ IsItem(item)
      /\ call.who \in People /\ call.seq = 0 /\ call.action = "advance"
  BY DEF Resolve, RunInv, Held, VoteInv, InPolicy
<1>2. q = None \/ q \in policies
  BY DEF PolicyFor, ResolvePolicy
<1>3. Ledger' = Ledger /\ item'.status = "pending" /\ item'.policy = item.policy
  BY <1>1 DEF Resolve, BindPolicy, IsItem, Ledger
<1>4. CASE call' = NoCall
  BY <1>3, <1>4, NoCallLeft
<1>5. CASE call' # NoCall
  <2>1. item.policy # None => q # None /\ q.id = item.policy
    BY <1>5 DEF Resolve, BindPolicy
  <2>2. call' = [call EXCEPT !.pc = "step", !.policy = q]
    BY <1>5 DEF Resolve, BindPolicy
  <2> HIDE DEF q
  <2>3. call'.pc = "step" /\ call'.policy = q /\ call'.who = call.who /\ call'.seq = 0 /\ call'.action = "advance"
    BY <1>1, <2>2 DEF IsCall
  <2>4. InPolicy' /\ Chosen' /\ Decided'
    <3>1. UNCHANGED <<policies, raced>>
      BY DEF Resolve, Outside
    <3> QED BY <1>1, <1>2, <1>3, <2>1, <2>2, <2>3, <3>1 DEF InPolicy, Chosen, Decided, PoliciesAreRows
  <2> QED BY <1>3, <2>4, LedgerKept DEF VoteInv
<1> QED BY <1>4, <1>5

\* The item's policy, when it has one, is the call's.
LEMMA CallStands ==
    ASSUME PoliciesAreRows, VoteInv, call.pc \in {"step", "close"}, call.policy # None, item.policy # None
    PROVE  Stands(call.policy)
BY DEF VoteInv, InPolicy, Bound, PoliciesAreRows

LEMMA TakeStepStep ==
    ASSUME PoliciesAreRows, RunInv, VoteInv, TakeStep
    PROVE  VoteInv'
<1>1. /\ call.pc = "step" /\ item.status = "pending" /\ IsCall(call)
      /\ call.who \in People /\ call.seq = 0 /\ call.action = "advance"
      /\ item' = item /\ Ledger' = Ledger /\ UNCHANGED <<policies, raced>>
  BY DEF TakeStep, RunInv, Held, VoteInv, InPolicy, Ledger, Outside
<1> DEFINE none == call.policy = None \/ (item.seq = 0 /\ CurrentStep = 0)
           i == CurrentStep
           step == call.policy.steps[i]
<1>2. CASE call' = NoCall
  BY <1>1, <1>2, NoCallLeft
<1>3. CASE none /\ call' # NoCall
  <2>1. call' = [call EXCEPT !.pc = "close"]
    BY <1>3 DEF TakeStep
  <2>2. /\ call'.pc = "close" /\ call'.who = call.who /\ call'.policy = call.policy
        /\ call'.seq = 0 /\ call'.action = "advance"
    BY <1>1, <2>1 DEF IsCall
  <2>3. call.policy = None \/ raced \/ Applicable(call.policy) = {}
    <3>1. SUFFICES ASSUME call.policy # None, ~raced PROVE Applicable(call.policy) = {}
      OBVIOUS
    <3>2. call.policy \in Policies /\ call.policy \in policies /\ NextStepAfter(call.policy, 0) = 0
      BY <1>1, <1>3, <3>1 DEF VoteInv, InPolicy, CurrentStep
    <3>3. \A k \in Applicable(call.policy) : k <= 0
      BY <3>2, NextStep
    <3> QED BY <3>3 DEF Applicable
  <2>4. InPolicy' /\ Chosen' /\ Decided'
    BY <1>1, <2>2, <2>3 DEF VoteInv, InPolicy, Chosen, Decided
  <2> QED BY <1>1, <2>4, LedgerKept DEF VoteInv
<1>4. CASE ~none /\ call' # NoCall
  <2>1. /\ call' = [call EXCEPT !.pc = "close", !.seq = i,
                      !.action = ApplyDecision(step, item.collected, call.decision)]
        /\ MayVote(call.who, i) /\ call.decision \in {"approve", "reject"}
    BY <1>4 DEF TakeStep
  <2>2. /\ call'.pc = "close" /\ call'.who = call.who /\ call'.policy = call.policy /\ call'.seq = i
        /\ call'.decision = call.decision
        /\ call'.action = ApplyDecision(step, item.collected, call.decision)
    BY <1>1, <2>1 DEF IsCall
  <2>3. /\ i \in Applicable(call.policy)
        /\ item.seq = 0 => \A k \in Applicable(call.policy) : i <= k
        /\ item.seq # 0 => item.seq = i
    <3>1. CASE item.seq = 0
      <4>1. call.policy \in Policies /\ i = NextStepAfter(call.policy, 0) /\ i # 0
        BY <1>1, <1>4, <3>1 DEF VoteInv, InPolicy, CurrentStep
      <4>2. i \in Applicable(call.policy) /\ \A k \in Applicable(call.policy) : k > 0 => i <= k
        BY <4>1, NextStep
      <4> QED BY <3>1, <4>2 DEF Applicable
    <3>2. CASE item.seq # 0
      <4>1. item.policy # None
        BY <3>2 DEF VoteInv, Bound
      <4>2. Stands(call.policy)
        BY <1>1, <1>4, <4>1, CallStands
      <4>3. item.seq \in Applicable(call.policy) /\ item.seq > 0
        BY <4>2 DEF Stands, Applicable
      <4> QED BY <4>3 DEF CurrentStep
    <3> QED BY <3>1, <3>2
  <2>4. i # 0
    BY <2>3 DEF Applicable
  <2> HIDE DEF i, step
  <2>5. InPolicy' /\ Decided'
    BY <1>1, <2>2 DEF VoteInv, InPolicy, Decided
  <2>6. Chosen'
    BY <1>1, <1>4, <2>1, <2>2, <2>3, <2>4 DEF Chosen, MayVote, step
  <2> QED BY <1>1, <2>5, <2>6, LedgerKept DEF VoteInv
<1> QED BY <1>2, <1>3, <1>4

LEMMA CloseVotes ==
    ASSUME PoliciesAreRows, None \notin Decisions, RunInv, VoteInv, Close
    PROVE  VoteInv'
<1>1. /\ call.pc = "close" /\ item.status = "pending" /\ IsCall(call) /\ IsItem(item)
      /\ call.who \in People /\ call' = NoCall /\ UNCHANGED <<policies, raced>>
  BY DEF Close, RunInv, Held, VoteInv, InPolicy, Outside
<1> DEFINE p == call.policy
           next == IF call.seq > 0 /\ call.action = "advance" THEN NextStepAfter(p, call.seq) ELSE 0
           closed == [Voted EXCEPT !.decision = call.decision, !.under = p,
                          !.status = IF call.action = "reject" THEN "rejected" ELSE "decided"]
<1>2. InPolicy' /\ Chosen'
  BY <1>1 DEF InPolicy, Chosen, NoCall
<1>3. CASE call.seq = 0
  <2>1. Voted = [item EXCEPT !.refused = FALSE] /\ IsItem(Voted)
    BY <1>1, <1>3 DEF Voted, IsItem
  <2>2. item' = closed
    BY <1>1, <1>3 DEF Close, VoteInv, Chosen
  <2>3. /\ item'.policy = item.policy /\ item'.seq = item.seq /\ item'.collected = item.collected
        /\ item'.votes = item.votes /\ item'.under = p
    BY <1>1, <2>1, <2>2 DEF IsItem
  <2>4. Votes' /\ Bound'
    <3>1. \A i : Approvers(i)' = Approvers(i)
      BY <2>3 DEF Approvers
    <3>2. \A q : Stands(q) => Stands(q)'
      BY <2>3, <3>1 DEF Stands, HasQuorum
    <3> QED BY <2>3, <3>2 DEF VoteInv, Votes, Bound
  <2>5. Decided'
    BY <1>1, <1>3, <2>3 DEF VoteInv, InPolicy, Chosen, Decided
  <2> QED BY <1>2, <2>4, <2>5 DEF VoteInv
<1>4. CASE call.seq # 0
  <2>0. PICK q \in Policies, k \in Nat : q = call.policy /\ k = call.seq
    BY <1>1, <1>4 DEF VoteInv, InPolicy, Chosen, Applicable
  <2>1. /\ q # None /\ q.id # None /\ item.policy \in {None, q.id}
        /\ k \in Applicable(q) /\ k > 0
        /\ MayVote(call.who, k) /\ call.decision \in {"approve", "reject"}
        /\ call.action = ApplyDecision(q.steps[k], item.collected, call.decision)
        /\ item.seq = 0 => \A i \in Applicable(q) : k <= i
        /\ item.seq # 0 => item.seq = k
        /\ ~raced => q \in policies
    BY <1>1, <1>4, <2>0 DEF VoteInv, InPolicy, Chosen, PoliciesAreRows, Applicable
  <2>2. PICK n : n = IF call.action = "advance" THEN NextStepAfter(q, k) ELSE 0
    OBVIOUS
  <2> DEFINE r == [who |-> call.who, decision |-> call.decision, seq |-> k]
  <2>3. r \in VoteRecords /\ \A v \in 1..Len(item.votes) : item.votes[v].who # r.who
    BY <1>1, <2>1 DEF VoteRecords, MayVote
  <2>4. item.policy # None => Stands(q)
    BY <1>1, <2>0, <2>1, CallStands
  <2>5. /\ item.collected = Cardinality(Approvers(k))
        /\ \A v \in 1..Len(item.votes) : item.votes[v].seq <= k
        /\ \A i \in Applicable(q) : i < k => HasQuorum(q, i)
    <3>1. CASE item.policy = None
      <4>1. item.seq = 0 /\ item.collected = 0 /\ item.votes = << >>
        BY <3>1 DEF VoteInv, Bound
      <4>2. Approvers(k) = {}
        BY <4>1 DEF Approvers
      <4> QED BY <2>1, <4>1, <4>2, FS_EmptySet DEF Applicable
    <3>2. CASE item.policy # None
      <4>1. Stands(q) /\ item.seq = k
        BY <2>1, <2>4, <3>2 DEF Stands, Applicable
      <4> QED BY <4>1 DEF Stands
    <3> QED BY <3>1, <3>2
  <2>6. /\ IsItem(Voted) /\ Voted.policy = q.id /\ Voted.seq = k
        /\ Voted.votes = Append(item.votes, r) /\ Voted.status = "pending"
        /\ Voted.collected = IF call.decision = "approve" THEN item.collected + 1 ELSE item.collected
    BY <1>1, <1>4, <2>0 DEF Voted, IsItem
  <2> HIDE DEF p, r, next, closed, Voted
  <2>7. \/ /\ n # 0 /\ call.action # "collect"
           /\ item' = [Voted EXCEPT !.seq = n, !.collected = 0, !.role = q.steps[n].role]
        \/ n = 0 /\ item' = Voted
        \/ n = 0 /\ call.action # "collect" /\ item' = closed
    <3>1. next = n /\ p = q
      BY <2>0, <2>1, <2>2 DEF next, p
    <3>2. call.action = "collect" => n = 0
      BY <2>2
    <3> QED BY <2>0, <3>1, <3>2 DEF Close, next, closed, p
  <2>8. /\ item'.policy = q.id /\ item'.votes = Append(item.votes, r)
        /\ n # 0 => item'.seq = n /\ item'.collected = 0 /\ item'.status = "pending"
        /\ n = 0 => /\ item'.seq = k
                   /\ item'.collected = IF call.decision = "approve" THEN item.collected + 1 ELSE item.collected
        /\ item'.status = "decided" => n = 0 /\ call.action = "advance" /\ item'.under = q
    <3>1. call.action \in {"advance", "collect", "reject"}
      BY <2>1 DEF ApplyDecision
    <3>2. CASE item' = [Voted EXCEPT !.seq = n, !.collected = 0, !.role = q.steps[n].role] /\ n # 0
      BY <2>6, <3>2 DEF IsItem
    <3>3. CASE item' = Voted /\ n = 0
      BY <2>6, <3>3
    <3>4. CASE n = 0 /\ call.action # "collect" /\ item' = closed
      BY <2>0, <2>6, <3>1, <3>4 DEF IsItem, closed, p
    <3> QED BY <2>7, <3>2, <3>3, <3>4
  <2>9. ASSUME NEW i
        PROVE  /\ Cardinality(Approvers(i)') = IF k = i /\ call.decision = "approve"
                                               THEN Cardinality(Approvers(i)) + 1 ELSE Cardinality(Approvers(i))
               /\ Cardinality(Approvers(i)) \in Nat
               /\ Votes'
    <3>1. r.seq = k /\ r.decision = call.decision
      BY DEF r
    <3> QED BY <2>3, <2>8, <3>1, ApproverAdded DEF VoteInv
  <2>10. Votes' /\ \A v \in 1..Len(item'.votes) : item'.votes[v].seq <= k
    <3>1. r.seq = k /\ item.votes \in Seq(VoteRecords)
      BY DEF r, VoteInv, Votes
    <3> QED BY <2>3, <2>5, <2>8, <2>9, <3>1
  <2>11. \A i \in Applicable(q) : i < k => HasQuorum(q, i)'
    BY <2>5, <2>9 DEF HasQuorum, PoliciesAreRows, Applicable
  <2>12. call.action = "advance" => HasQuorum(q, k)'
    BY <2>1, <2>5, <2>9 DEF HasQuorum, ApplyDecision, PoliciesAreRows, Applicable
  <2>13. n # 0 => /\ call.action = "advance" /\ n \in Applicable(q) /\ n > k
                 /\ \A i \in Applicable(q) : i > k => n <= i
    BY <2>2, NextStep
  <2>14. Stands(q)'
    <3>1. CASE n = 0
      <4>1. item'.collected = Cardinality(Approvers(k)')
        BY <2>5, <2>8, <2>9, <3>1
      <4> QED BY <2>1, <2>8, <2>10, <2>11, <3>1, <4>1 DEF Stands
    <3>2. CASE n # 0
      <4>1. n \in Nat /\ \A v \in 1..Len(item'.votes) : item'.votes[v].seq <= n /\ item'.votes[v].seq # n
        <5>1. \A v \in 1..Len(item'.votes) : item'.votes[v] \in VoteRecords
          BY <2>10 DEF Votes
        <5>2. \A v \in 1..Len(item'.votes) : item'.votes[v].seq \in Nat
          BY <5>1 DEF VoteRecords
        <5> QED BY <2>10, <2>13, <3>2, <5>2 DEF Applicable
      <4>2. Approvers(n)' = {}
        BY <4>1 DEF Approvers
      <4>3. item'.collected = Cardinality(Approvers(n)')
        BY <2>8, <3>2, <4>2, FS_EmptySet
      <4>4. \A i \in Applicable(q) : i < n => HasQuorum(q, i)'
        BY <2>11, <2>12, <2>13, <3>2 DEF Applicable
      <4> QED BY <2>8, <2>13, <3>2, <4>1, <4>3, <4>4 DEF Stands
    <3> QED BY <3>1, <3>2
  <2>15. Bound'
    <3>1. item'.votes # << >>
      BY <2>3, <2>8 DEF VoteInv, Votes
    <3> QED BY <2>1, <2>8, <2>14, <3>1 DEF Bound
  <2>16. Decided'
    <3>1. SUFFICES ASSUME item'.status = "decided", ~raced', NEW i \in Applicable(q)
                   PROVE  HasQuorum(q, i)'
      BY <2>8 DEF Decided
    <3>2. call.action = "advance" /\ NextStepAfter(q, k) = 0 /\ q \in policies
      BY <1>1, <2>1, <2>2, <2>8, <3>1
    <3>3. i <= k
      BY <3>2, NextStep
    <3> QED BY <2>11, <2>12, <3>2, <3>3 DEF Applicable
  <2> QED BY <1>2, <2>10, <2>15, <2>16 DEF VoteInv
<1> QED BY <1>3, <1>4

LEMMA VoteInit == ASSUME PoliciesAreRows, Init PROVE VoteInv
<1>1. Votes
  BY DEF Init, NewItem, Votes
<1> QED BY <1>1 DEF Init, NewItem, NoCall, VoteInv, Bound, InPolicy, Chosen, Decided

LEMMA VoteNext ==
    ASSUME PoliciesAreRows, None \notin Decisions, RunInv, VoteInv, policies \subseteq Policies, [Next]_vars
    PROVE  VoteInv' /\ policies' \subseteq Policies
<1>1. policies' \subseteq Policies
  BY DEF Next, vars, Begin, Resolve, TakeStep, Close, Outside, ResumeWorkflow, TaskLost, Claim, Record, Deadline,
         TimeoutBegin, TimeoutRead, TimeoutWrite, TimeoutLost, CreatePolicy, DeletePolicy, SetDeny
<1>2. VoteInv'
  BY OutsideStep, BeginStep, ResolveStep, TakeStepStep, CloseVotes DEF Next
<1> QED BY <1>1, <1>2

\* An item is approved under a policy only with a quorum of approvals at every
\* step that applies, from different people, none of them the requester, whatever
\* calls, refusals, escalations and policy changes come between; unless the policy
\* is deleted while the last call is inside it.  The counter in policy_state is the
\* number of approvals of the current step (decide, apply_decision,
\* next_step_after).
THEOREM QuorumsAreMet ==
    ASSUME PoliciesAreRows, None \notin Decisions
    PROVE  Spec => []QuorumBeforeDecided
<1> DEFINE Inv == RunInv /\ VoteInv /\ policies \subseteq Policies
<1>1. Init => Inv
  BY RunInit, VoteInit DEF Init
<1>2. Inv /\ [Next]_vars => Inv'
  BY RunNext, VoteNext
<1>3. Inv => QuorumBeforeDecided
  <2> SUFFICES ASSUME Inv PROVE QuorumBeforeDecided
    OBVIOUS
  <2>1. item.policy # None <=> item.votes # << >>
    BY DEF VoteInv, Bound
  <2>2. item.seq > 0 => item.collected = Cardinality(Approvers(item.seq))
    BY DEF VoteInv, Bound, Stands
  <2>3. \A i, j \in Nat : i # j => Approvers(i) \cap Approvers(j) = {}
    BY DEF VoteInv, Votes, Approvers
  <2>4. \A i : Requester \notin Approvers(i)
    <3>1. \A v \in 1..Len(item.votes) : item.votes[v] \in VoteRecords
      BY DEF VoteInv, Votes
    <3>2. \A v \in 1..Len(item.votes) : item.votes[v].who # Requester
      BY <3>1 DEF VoteRecords
    <3> QED BY <3>2 DEF Approvers
  <2>5. ASSUME item.status = "decided", item.under # None, ~raced
        PROVE  /\ item.under \in Policies
               /\ \A i \in Applicable(item.under) : Cardinality(Approvers(i)) >= item.under.steps[i].quorum
    BY <2>5 DEF VoteInv, Decided, HasQuorum
  <2>6. Applicable(item.under) \subseteq Nat
    BY DEF Applicable
  <2> QED BY <2>1, <2>2, <2>3, <2>4, <2>5, <2>6 DEF QuorumBeforeDecided, Applicable
<1> HIDE DEF Inv
<1> QED BY <1>1, <1>2, <1>3, PTL DEF Spec
=============================================================================
