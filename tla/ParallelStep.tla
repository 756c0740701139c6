----------------------------- MODULE ParallelStep -----------------------------
(***************************************************************************)
(* A step with children that run at once: a parallel step                  *)
(* (workflows/parallel_executor.py, step_types.py _execute_parallel) or a  *)
(* collaboration of agents (workflows/collaboration.py).  The children are *)
(* asyncio tasks: they finish in any order, several between two turns of   *)
(* the step, and go on running until a cancellation reaches them.          *)
(*                                                                         *)
(* A child's result is its status, completed or not, and the decision its  *)
(* output holds, which only a vote reads.  A child that raises is one that *)
(* is not completed.                                                       *)
(***************************************************************************)
EXTENDS Integers, Sequences, FiniteSets, Functions

CONSTANTS
    Children,
    Policies,   \* wait_for "all", "any" or a count; "merge", "vote", "first"
    Decisions,  \* what agents may vote for
    None

Collaborations == {"merge", "vote", "first"}

Outcome(status, decision) == [status |-> status, decision |-> decision]
Running == Outcome("running", None)
Cancelling == Outcome("cancelling", None)
Cancelled == Outcome("cancelled", None)

VARIABLES
    policy,
    started,    \* the children the step has
    child,      \* child -> running, cancelling, cancelled or its result
    ready,      \* children that finished and were not collected, in that order
    results,    \* children whose result the step has collected
    left,       \* agents a collaboration has yet to cancel
    step,       \* wait, drain, or the status it returned, raised_ if the wait raised
    winner      \* of a first or a vote

vars == <<policy, started, child, ready, results, left, step, winner>>

Is(what) == policy.how = what
Raised == {"raised_completed", "raised_failed"}

Init ==
    /\ policy \in Policies
    /\ started \in SUBSET Children
    /\ child = [c \in Children |-> Running]
    /\ ready = << >> /\ results = {} /\ left = {}
    /\ step = "wait"
    /\ winner = None

Unsettled == {c \in started : child[c] \in {Running, Cancelling}}
Completed(S) == {c \in S : child[c].status = "completed"}

-----------------------------------------------------------------------------
(* The children                                                            *)

\* A child returns; also one that was told to stop, when it lets the
\* cancellation pass (a nested collaboration that drains its own agents).
Finish(c) ==
    /\ c \in Unsettled
    /\ \E status \in {"completed", "failed"}, decision \in Decisions \cup {None} :
          /\ Is("vote") \/ decision = None
          /\ child' = [child EXCEPT ![c] = Outcome(status, decision)]
    /\ ready' = Append(ready, c)
    /\ UNCHANGED <<policy, started, results, left, step, winner>>

\* CancelledError reaches the child.
Stops(c) ==
    /\ c \in started /\ child[c] = Cancelling
    /\ child' = [child EXCEPT ![c] = Cancelled]
    /\ UNCHANGED <<policy, started, ready, results, left, step, winner>>

-----------------------------------------------------------------------------
(* execute_parallel                                                        *)

\* The children that still run are told to stop, all at once.
CancelAll == child' = [c \in Children |-> IF c \in Unsettled THEN Cancelling ELSE child[c]]

Collect(S) ==
    /\ results' = results \cup S
    /\ ready' = << >>
    /\ UNCHANGED <<policy, started, left, winner>>

\* wait_for all: gather.
GatherAll ==
    /\ Is("all") /\ step = "wait" /\ Unsettled = {}
    /\ Collect(started)
    /\ step' = "drain"
    /\ UNCHANGED child

\* Mutation: the wait ends with the first child, whatever became of it.
WaitAnyFirst ==
    LET done == Range(ready) IN
    /\ Is("any") /\ step = "wait"
    /\ done # {} \/ started = {}
    /\ Collect(done) /\ CancelAll /\ step' = "drain"

\* wait_for any: every turn takes what is done, in no order; the first child
\* that completed ends the loop, and results after it are not looked at.
WaitAny ==
    LET done == Range(ready) IN
    /\ Is("any") /\ step = "wait"
    /\ done # {} \/ Unsettled = {}
    /\ IF Completed(done) # {}
       THEN /\ \E c \in Completed(done), S \in SUBSET (done \ Completed(done)) :
                   Collect({c} \cup S)
            /\ CancelAll /\ step' = "drain"
       ELSE /\ Collect(done)
            /\ step' = IF Unsettled = {} THEN "drain" ELSE "wait"
            /\ UNCHANGED child

\* wait_for a count: one child at a time, as they finish, until enough have
\* completed or none is left.
TakeNext ==
    LET collected == results \cup {Head(ready)}
        enough == Cardinality(Completed(collected)) >= policy.n
    IN  /\ Is("count") /\ step = "wait" /\ ready # << >>
        /\ results' = collected /\ ready' = Tail(ready)
        /\ IF enough THEN CancelAll ELSE UNCHANGED child
        /\ step' = IF enough \/ collected = started THEN "drain" ELSE "wait"
        /\ UNCHANGED <<policy, started, left, winner>>

\* A count, and no children.
TakeNone ==
    /\ Is("count") /\ step = "wait" /\ started = {}
    /\ step' = "drain"
    /\ UNCHANGED <<policy, started, child, ready, results, left, winner>>

-----------------------------------------------------------------------------
(* execute_collaboration_step                                              *)

\* asyncio.wait returns, because all agents are done, one is, or the time is
\* over; what is done by then is collected.
WaitAgents ==
    /\ policy.how \in Collaborations /\ step = "wait" /\ started # {}
    /\ results' = Range(ready) /\ ready' = << >>
    /\ left' = started \ Range(ready)
    /\ step' = "drain"
    /\ UNCHANGED <<policy, started, child, winner>>

\* The agents that were pending are cancelled one after the other, each
\* awaited before the next; meanwhile the others run on.
CancelNext(c) ==
    /\ step = "drain" /\ c \in left
    /\ \A d \in started : child[d] # Cancelling
    /\ left' = left \ {c}
    /\ child' = [child EXCEPT ![c] = IF @ = Running THEN Cancelling ELSE @]
    /\ UNCHANGED <<policy, started, ready, results, step, winner>>

\* asyncio.wait refuses a timeout_seconds that is no number, before any agent has
\* had a turn.  The exception is logged and the agents run on.  Without results a
\* merge has no agent that failed and a vote nothing to fail over: both complete.
\* first_complete reports the failure.
WaitRaises ==
    /\ policy.how \in Collaborations /\ step = "wait" /\ started # {}
    /\ \A c \in started : child[c] = Running
    /\ step' = IF Is("first") THEN "raised_failed" ELSE "raised_completed"
    /\ UNCHANGED <<policy, started, child, ready, results, left, winner>>

NoAgents ==
    /\ policy.how \in Collaborations /\ step = "wait" /\ started = {}
    /\ step' = "failed"
    /\ UNCHANGED <<policy, started, child, ready, results, left, winner>>

-----------------------------------------------------------------------------
(* What the step returns                                                   *)

\* The children that were cancelled have settled.
Drained == step = "drain" /\ left = {} /\ Unsettled = {}

Return(good) ==
    /\ step' = IF good THEN "completed" ELSE "failed"
    /\ UNCHANGED <<policy, started, child, ready, results, left>>

\* _execute_parallel: any child that completed will do under any; otherwise
\* one that did not fails the step.
ParallelReturns ==
    /\ Drained /\ policy.how \in {"all", "any", "count"}
    /\ Return(IF Is("any") THEN Completed(results) # {} ELSE Completed(results) = results)
    /\ UNCHANGED winner

MergeReturns ==
    /\ Drained /\ Is("merge")
    /\ Return(Completed(results) # {})
    /\ UNCHANGED winner

Votes(d) == Cardinality({c \in results : child[c].decision = d})
Voted == {d \in Decisions : Votes(d) > 0}

\* The decision with the most votes; of several, the one counted first, which
\* may be any: agents are counted in no order.
VoteReturns ==
    /\ Drained /\ Is("vote")
    /\ Return(Voted # {})
    /\ winner' \in IF Voted = {} THEN {None}
                   ELSE {d \in Voted : \A e \in Voted : Votes(e) =< Votes(d)}

\* One of the agents that were done, whatever became of it.
FirstReturns ==
    /\ Drained /\ Is("first")
    /\ IF results = {}
       THEN step' = "timed_out" /\ UNCHANGED <<policy, started, child, ready, results, left, winner>>
       ELSE winner' \in results /\ Return(child[winner'].status = "completed")

Next ==
    \/ \E c \in Children : Finish(c) \/ Stops(c) \/ CancelNext(c)
    \/ GatherAll \/ WaitAny \/ TakeNext \/ TakeNone
    \/ WaitAgents \/ WaitRaises \/ NoAgents
    \/ ParallelReturns \/ MergeReturns \/ VoteReturns \/ FirstReturns

Spec == Init /\ [][Next]_vars

-----------------------------------------------------------------------------
(* Properties                                                              *)

\* Children, collected results and what is left to cancel are among the
\* children the step has, and no result is collected before it is there.
TypeOK ==
    /\ policy \in Policies /\ started \subseteq Children
    /\ \A c \in Children :
          /\ child[c].status \in {"running", "cancelling", "cancelled", "completed", "failed"}
          /\ child[c].decision \in Decisions \cup {None}
    /\ ready \in Seq(started) /\ results \subseteq started \ Unsettled
    /\ left \subseteq started
    /\ step \in {"wait", "drain", "completed", "failed", "timed_out"} \cup Raised
    /\ winner \in Children \cup Decisions \cup {None}

\* What wait_for asks for has happened.
Satisfied ==
    CASE Is("all") -> Completed(results) = started
      [] Is("any") -> Completed(results) # {}
      [] Is("count") -> Cardinality(Completed(results)) >= policy.n
      [] OTHER -> TRUE

\* In whatever order the children finish, fail and are cancelled, unless a
\* collaboration's wait itself raises, none is still at work when the step
\* returns.  A parallel step that completed has what wait_for asks for, or, when
\* that is more than it has, all its children; one that failed has a child that
\* did not complete, and under any has none that did.  A child's result is dropped
\* only once wait_for is satisfied.  A collaboration completes with the result of
\* an agent that was done when the wait ended (execute_parallel,
\* _execute_parallel, _run_all_agents, _first_complete).
ChildrenAnswerForStep ==
    step \notin {"wait", "drain"} \cup Raised =>
        /\ Unsettled = {}
        /\ started \ results # {} => Satisfied
        /\ step = "completed" =>
              CASE policy.how \in {"all", "any", "count"} ->
                        Satisfied \/ (Is("count") /\ Completed(started) = started)
                [] Is("merge") -> Completed(results) # {}
                [] Is("vote") -> \E c \in results : child[c].decision = winner
                [] Is("first") -> winner \in Completed(results)
        /\ step = "failed" =>
              CASE Is("any") -> results = started /\ Completed(started) = {}
                [] policy.how \in {"all", "count"} -> Completed(results) # results
                [] Is("merge") -> Completed(results) = {}
                [] OTHER -> winner \notin Completed(results)
=============================================================================
