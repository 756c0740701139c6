------------------------------ MODULE MCPlatform ------------------------------
(***************************************************************************)
(* Small instances of the components around the engine: the order of a     *)
(* definition, the run's mirror in the database, the approval queue, the   *)
(* tool gateway, its rate limiter, the audit chain, the refunds of hosted  *)
(* payments, the outbox of cases and steps with children.  They share no   *)
(* state.  A behaviour picks one, part, and moves only that; the others    *)
(* stay in one of their initial states.                                    *)
(***************************************************************************)
EXTENDS Integers, Sequences

CONSTANTS
    None, c1, c2, c3    \* model values: no one, and the calls of the gateway

VARIABLES
    part,
    def, in_degree, queue, rest, order, result,
    engine, row, stepRows, items, driver, cancel, counted, faults, overlapped,
    policies, deny, item, deciding, late, timeout, task, closings, run, deleted, raced,
    key, call, answer, connector, connLock, instances, effects, incidents,
    now, bucket, used, asked, passed, setBack,
    log, anchor, lock, sealer, heads, witness, check, gone, fails,
    kind, journal, plural, adj, byHand, pay, caller, sweep, crashes, disturbed,
    enabled, trouble, outbox, pushing, received, overrun, replays, flips, deaths,
    policy, started, child, ready, results, left, step, winner

\* Every definition of three steps of which at most one has a fallback, the
\* cyclic ones included.
Fallbacks == {f \in [1..3 -> 0..3] : \A i, j \in 1..3 : f[i] # 0 /\ f[j] # 0 => i = j}

Sort == INSTANCE TopologicalSort WITH
    N <- 3,
    Definitions <- [dependsOn : [1..3 -> SUBSET (1..3)], fallback : Fallbacks]

\* A run that begins with a delay and ends with an approval, with a step that
\* may fail between.
Mirror == INSTANCE RunMirror WITH N <- 3, Approvals <- {3}, Waits <- {1}, MaxFaults <- 1

\* Three reviewers, one of them the requester; one policy for the workflow,
\* one for the agent whose conditions hold, fail and cannot be evaluated, and
\* a default with a quorum of two.
Roles == [ann |-> {"manager", "cfo"}, bob |-> {"manager", "cfo"}, cy |-> {"manager"}]
Needs(role, quorum, condition) == [role |-> role, quorum |-> quorum, condition |-> condition]
Written ==
    {[id |-> "W", workflow |-> "wf", agent |-> None, steps |-> <<Needs("cfo", 1, "holds")>>],
     [id |-> "A", workflow |-> None, agent |-> "agent",
      steps |-> <<Needs("manager", 1, "unknown"), Needs("manager", 1, "fails"),
                  Needs("cfo", 1, "holds")>>],
     [id |-> "D", workflow |-> None, agent |-> None, steps |-> <<Needs("manager", 2, "holds")>>]}

Queue == INSTANCE ApprovalItem WITH
    People <- {"ann", "bob", "cy"}, May <- Roles, Requester <- "cy",
    AssigneeRole <- "manager", EscalationRole <- "cfo", Policies <- Written,
    WorkflowId <- "wf", RunId <- "run", AgentId <- "agent",
    Kinds <- {"workflow", "agent_run"}, Decisions <- {"approve", "reject", "defer"},
    call <- deciding, gone <- deleted

\* A call, an overlapping duplicate and a retry.
Gateway == INSTANCE ToolGateway WITH Calls <- {c1, c2, c3}, MaxIncidents <- 2

\* Two callers, two requests a minute, for long enough that a bucket that ran
\* empty is dropped.
Limiter == INSTANCE RateLimiter WITH
    Callers <- {c1, c2}, Limit <- 2, Minute <- 2, Ttl <- 4, MaxTime <- 5

\* Two workers that seal, one of which may fail.
Sealing == INSTANCE AuditChain WITH
    Rows <- 1..3, Sealers <- {1, 2}, Batch <- 2, MaxRounds <- 2, Page <- 2,
    Asked <- {}, MaxFails <- 1, MaxGone <- 0

\* Verifications of the whole chain and of a part, while one worker seals and
\* a sealed row may be lost.
Verifying == INSTANCE AuditChain WITH
    Rows <- 1..3, Sealers <- {1}, Batch <- 2, MaxRounds <- 1, Page <- 2,
    Asked <- {<<1, -1>>, <<2, 1>>}, MaxFails <- 0, MaxGone <- 1

\* Two administrators refund one order, all of it or half, while the merchant
\* records a refund by hand.
Refunds == INSTANCE HostedRefunds WITH
    Kinds <- {"order"}, Callers <- {1, 2}, Amount <- [half |-> 1, all |-> 2], Total <- 2,
    MaxAttempts <- 0, MaxByHand <- 1, MaxCrashes <- 1, check <- sweep

\* Two clicks on a payment that needs the merchant, twice over if refused.
Clicks == INSTANCE HostedRefunds WITH
    Kinds <- {"stock_short", "unmatched"}, Callers <- {1, 2}, Amount <- <<>>, Total <- 2,
    MaxAttempts <- 2, MaxByHand <- 0, MaxCrashes <- 1, check <- sweep

\* Two dispatchers for one event, which is replayed, while the endpoint is
\* switched off and on or is in trouble.
Leases == INSTANCE CasePush WITH
    Events <- {1}, Workers <- {1, 2}, Batch <- 1, MaxAttempts <- 2, MaxReplays <- 1,
    MaxFlips <- 2, MaxCrashes <- 1, row <- outbox, worker <- pushing, crashes <- deaths

\* One dispatcher with two events in a batch, and an endpoint that is in trouble
\* and out of it.
Batches == INSTANCE CasePush WITH
    Events <- {1, 2}, Workers <- {1}, Batch <- 2, MaxAttempts <- 2, MaxReplays <- 0,
    MaxFlips <- 2, MaxCrashes <- 1, row <- outbox, worker <- pushing, crashes <- deaths

\* Up to three children under every policy: a count of none, of fewer than
\* there are and of more, and votes that may be tied.
Parallel == INSTANCE ParallelStep WITH
    Children <- {"a", "b", "c"}, Decisions <- {"yes", "no"},
    Policies <- {[how |-> h, n |-> 0] : h \in {"all", "any", "merge", "vote", "first"}}
                   \cup {[how |-> "count", n |-> k] : k \in {0, 1, 2, 4}}

sortVars == <<def, in_degree, queue, rest, order, result>>
mirrorVars == <<engine, row, stepRows, items, driver, cancel, counted, faults, overlapped>>
queueVars ==
    <<policies, deny, item, deciding, late, timeout, task, closings, run, deleted, raced>>
gatewayVars == <<key, call, answer, connector, connLock, instances, effects, incidents>>
limiterVars == <<now, bucket, used, asked, passed, setBack>>
auditVars == <<log, anchor, lock, sealer, heads, witness, check, gone, fails>>
refundVars == <<kind, journal, plural, adj, byHand, pay, caller, sweep, crashes, disturbed>>
pushVars == <<enabled, trouble, outbox, pushing, received, overrun, replays, flips, deaths>>

\* The components in two halves, for the steps that leave most of them alone.
parallelVars == <<policy, started, child, ready, results, left, step, winner>>
workflowVars == <<sortVars, mirrorVars, queueVars, parallelVars>>
serviceVars == <<gatewayVars, limiterVars, auditVars, refundVars, pushVars>>

vars == <<part, workflowVars, serviceVars>>

Init ==
    /\ part \in {"sort", "mirror", "queue", "gateway", "limiter", "sealing", "verifying",
                 "refunds", "clicks", "leases", "batches", "parallel"}
    /\ part # "sort" => def = [dependsOn |-> <<{}, {}, {}>>, fallback |-> <<0, 0, 0>>]
    /\ Sort!Init
    /\ Mirror!Init
    /\ part # "queue" => policies = {} /\ deny = FALSE /\ item = Queue!NewItem("workflow")
    /\ Queue!Init
    /\ Gateway!Init
    /\ Limiter!Init
    /\ IF part = "sealing" THEN Sealing!Init ELSE Verifying!Init
    /\ IF part = "clicks" THEN Clicks!Init ELSE Refunds!Init
    /\ IF part = "batches" THEN Batches!Init ELSE Leases!Init
    /\ part # "parallel" => policy = [how |-> "all", n |-> 0] /\ started = {}
    /\ Parallel!Init

-----------------------------------------------------------------------------
(* One part moves                                                          *)

Next ==
    \/ /\ part = "sort" /\ Sort!Next
       /\ UNCHANGED <<part, mirrorVars, queueVars, parallelVars, serviceVars>>
    \/ /\ part = "mirror" /\ Mirror!Next
       /\ UNCHANGED <<part, sortVars, queueVars, parallelVars, serviceVars>>
    \/ /\ part = "queue" /\ Queue!Next
       /\ UNCHANGED <<part, sortVars, mirrorVars, parallelVars, serviceVars>>
    \/ /\ part = "gateway" /\ Gateway!Next
       /\ UNCHANGED <<part, workflowVars, limiterVars, auditVars, refundVars, pushVars>>
    \/ /\ part = "limiter" /\ Limiter!Next
       /\ UNCHANGED <<part, workflowVars, gatewayVars, auditVars, refundVars, pushVars>>
    \/ /\ part = "sealing" /\ Sealing!Next
       /\ UNCHANGED <<part, workflowVars, gatewayVars, limiterVars, refundVars, pushVars>>
    \/ /\ part = "verifying" /\ Verifying!Next
       /\ UNCHANGED <<part, workflowVars, gatewayVars, limiterVars, refundVars, pushVars>>
    \/ /\ part = "refunds" /\ Refunds!Next
       /\ UNCHANGED <<part, workflowVars, gatewayVars, limiterVars, auditVars, pushVars>>
    \/ /\ part = "clicks" /\ Clicks!Next
       /\ UNCHANGED <<part, workflowVars, gatewayVars, limiterVars, auditVars, pushVars>>
    \/ /\ part = "leases" /\ Leases!Next
       /\ UNCHANGED <<part, workflowVars, gatewayVars, limiterVars, auditVars, refundVars>>
    \/ /\ part = "batches" /\ Batches!Next
       /\ UNCHANGED <<part, workflowVars, gatewayVars, limiterVars, auditVars, refundVars>>
    \/ /\ part = "parallel" /\ Parallel!Next
       /\ UNCHANGED <<part, sortVars, mirrorVars, queueVars, serviceVars>>

Spec == Init /\ [][Next]_vars

\* The fairness each component's FairSpec states, for the part that moves.
FairSpec ==
    /\ Spec
    /\ WF_mirrorVars(part = "mirror" /\ Mirror!Goes)
    /\ \A c \in {c1, c2, c3} : WF_gatewayVars(part = "gateway" /\ Gateway!Step(c))
    /\ WF_gatewayVars(part = "gateway" /\ Gateway!ReservationExpires)
    /\ WF_auditVars(part = "sealing" /\ \E s \in {1, 2} : Sealing!Beat(s))
    /\ \A s \in {1, 2} : WF_auditVars(part = "sealing" /\ Sealing!SealStep(s))
    /\ WF_pushVars(part = "batches" /\ Batches!Step)

-----------------------------------------------------------------------------
(* What is checked of each                                                 *)

\* Every part keeps the type invariant of its module.
TypeOK ==
    CASE part = "sort" -> Sort!TypeOK
      [] part = "mirror" -> Mirror!TypeOK
      [] part = "queue" -> Queue!TypeOK
      [] part = "gateway" -> Gateway!TypeOK
      [] part = "limiter" -> Limiter!TypeOK
      [] part = "sealing" -> Sealing!TypeOK
      [] part = "verifying" -> Verifying!TypeOK
      [] part = "refunds" -> Refunds!TypeOK
      [] part = "clicks" -> Clicks!TypeOK
      [] part = "leases" -> Leases!TypeOK
      [] part = "batches" -> Batches!TypeOK
      [] part = "parallel" -> Parallel!TypeOK

\* _topological_sort orders a definition along its edges and refuses exactly
\* the cyclic ones (TopologicalSort).
OrderIsSound == part = "sort" => Sort!OrderIsSound

\* A step with children returns what its children and its policy warrant,
\* with none of them at work (ParallelStep).
ChildrenAnswerForStep == part = "parallel" => Parallel!ChildrenAnswerForStep

\* Unless two syncs overlap, one approval and one step row for each step, and a
\* row that agrees with the engine once nobody drives the run (RunMirror).
MirrorSettled == part = "mirror" => Mirror!Settled

\* Only a session that read the row before it was terminal, or the error
\* handler of a resume, changes a terminal row (RunMirror).
OnlyRacesReopen == Mirror!OnlyRacesReopen

\* Unless two syncs overlap or a cancel is lost, the row comes to be terminal,
\* or has an open approval (RunMirror).
RunSettles == <>[](part = "mirror" => Mirror!AtRest)

\* An item is approved under a policy only by a quorum of every step that
\* applies (ApprovalItem).
QuorumBeforeDecided == part = "queue" => Queue!QuorumBeforeDecided

\* An item is decided once, and only then its run goes on (ApprovalItem).
ResumedRunWasDecided == part = "queue" => Queue!ResumedRunWasDecided

\* A closed item stays as it was decided (ApprovalItem).
ClosedStays == Queue!ClosedStays

\* One effect for an idempotency key, and one more for each incident
\* (ToolGateway).
OneEffectPerIncident == part = "gateway" => Gateway!OneEffectPerIncident

\* What is replayed is a result (ToolGateway).
ReplayIsAResult == part = "gateway" => Gateway!ReplayIsAResult

\* A reservation does not outlive its call for ever (ToolGateway).
KeyComesFree == Gateway!KeyComesFree

\* The token bucket lets through what accrued (RateLimiter).
SpendsWhatAccrues == part = "limiter" => Limiter!SpendsWhatAccrues

\* Sealers build one chain, and every head they gave out is on it
\* (AuditChain).
ChainIsWhole == part \in {"sealing", "verifying"} => Verifying!ChainIsWhole

\* A verification blames an intact chain for a race only, and clears a
\* damaged one only after its numbers were given out again (AuditChain).
VerdictIsRight == Verifying!VerdictIsRight

\* Every audit row is sealed in the end (AuditChain).
RowsGetSealed == <>[](part = "sealing" => Sealing!Unsealed = {})

\* Plural gives back at most what was captured, and the journal is right
\* about it (HostedRefunds).
RefundsWithinCaptured ==
    /\ part = "refunds" => Refunds!RefundsWithinCaptured
    /\ part = "clicks" => Clicks!RefundsWithinCaptured

\* The order and the payment's row show what the journal holds, once nobody
\* is at work (HostedRefunds).
RefundsAreShown ==
    /\ part = "refunds" => Refunds!RefundsAreShown
    /\ part = "clicks" => Clicks!RefundsAreShown

\* Unless a lease ran out under a dispatcher, an event is delivered or a dead
\* letter for good reason (CasePush).
OutcomeIsEarned ==
    [][/\ part = "leases" => Leases!Earned
       /\ part = "batches" => Batches!Earned]_vars

=============================================================================
