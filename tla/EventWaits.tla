----------------------------- MODULE EventWaits -----------------------------
(***************************************************************************)
(* One wait_for_event step of a run: the executor that registers a listener *)
(* and then pauses the run (workflows/step_types.py, workflows/engine.py),  *)
(* the listener's row (workflows/event_waits.py), the webhook deliveries    *)
(* that claim it (api/v1/webhooks.py), and the tasks that resume the run or *)
(* time its wait out (core/tasks/workflow_tasks.py).                        *)
(*                                                                          *)
(* A run and a step have at most one waiting row, and it is the one updated *)
(* last, so the module keeps the status of that row.                        *)
(***************************************************************************)
EXTENDS Naturals, FiniteSets

CONSTANTS
    Deliveries,   \* webhook deliveries of an event the listener matches
    MaxFaults     \* bound on the processes that die

ASSUME WaitAssumption == MaxFaults \in Nat

VARIABLES
    run,        \* the run, as this step sees it
    exec,       \* the process that executes the step
    listener,   \* status of the step's WorkflowEventWait row, or "none"
    attempts,   \* times the step has registered; each renews timeout_at
    due,        \* how many of their time-outs have passed, in order
    timers,     \* queued timeout_workflow_event tasks, by attempt
    marked,     \* those of them that have marked the listener
    hook,       \* per delivery: how far its webhook call is
    resume,     \* per delivery: its resume_workflow_wait task or direct call
    claims,     \* history: the deliveries that claimed a listener
    rows,       \* history: listener rows created
    dropped,    \* history: a claimed event was given up
    faults      \* processes that have died

vars == <<run, exec, listener, attempts, due, timers, marked, hook, resume,
          claims, rows, dropped, faults>>

\* The step is without a result, paused, resumed, timed out, or the run cancelled.
Runs == {"running", "waiting", "resumed", "timed_out", "cancelled"}

TypeOK ==
    /\ run \in Runs
    /\ exec \in {"step", "registered", "pausing", "dead", "off"}
    /\ listener \in {"none", "waiting", "matched", "timed_out"}
    /\ attempts \in Nat
    /\ due \in 0..attempts
    /\ timers \subseteq Nat
    /\ marked \subseteq timers
    /\ hook \in [Deliveries -> {"new", "listed", "claimed", "done"}]
    /\ resume \in [Deliveries -> {"off", "queued", "loaded", "direct", "direct_loaded"}]
    /\ claims \subseteq Deliveries
    /\ rows \in Nat
    /\ dropped \in BOOLEAN
    /\ faults \in 0..MaxFaults

Init ==
    /\ run = "running"
    /\ exec = "step"
    /\ listener = "none"
    /\ attempts = 0
    /\ due = 0
    /\ timers = {}
    /\ marked = {}
    /\ hook = [d \in Deliveries |-> "new"]
    /\ resume = [d \in Deliveries |-> "off"]
    /\ claims = {}
    /\ rows = 0
    /\ dropped = FALSE
    /\ faults = 0

(***************************************************************************)
(* The executor: register, schedule the time-out, checkpoint                *)
(***************************************************************************)
\* A waiting row is renewed, otherwise a new one is inserted.
Register ==
    /\ exec = "step"
    /\ exec' = "registered"
    /\ listener' = "waiting"
    /\ attempts' = attempts + 1
    /\ rows' = IF listener = "waiting" THEN rows ELSE rows + 1
    /\ UNCHANGED <<run, due, timers, marked, hook, resume, claims, dropped, faults>>

\* Best effort: the queue may refuse the time-out.
ScheduleTimeout ==
    /\ exec = "registered"
    /\ exec' = "pausing"
    /\ timers' = timers \cup {attempts} \/ UNCHANGED timers
    /\ UNCHANGED <<run, listener, attempts, due, marked, hook, resume, claims, rows, dropped, faults>>

\* The engine saves waiting_event; after a cancel the save is stale.
Checkpoint ==
    /\ exec = "pausing"
    /\ exec' = "off"
    /\ run' = IF run = "running" THEN "waiting" ELSE run
    /\ UNCHANGED <<listener, attempts, due, timers, marked, hook, resume, claims, rows, dropped, faults>>

ExecutorDies ==
    /\ exec \in {"registered", "pausing"}
    /\ faults < MaxFaults
    /\ faults' = faults + 1
    /\ exec' = "dead"
    /\ UNCHANGED <<run, listener, attempts, due, timers, marked, hook, resume, claims, rows, dropped>>

\* Another process drives the run, and the step, which has no result, is executed
\* anew.  Only a retry of a held run (resume_halted_workflow) drives a run that is
\* running: the API's background task is not started again, and a resume task that
\* is delivered again finds nothing to resume.
Redrive ==
    /\ exec = "dead"
    /\ exec' = IF run = "running" THEN "step" ELSE "off"
    /\ UNCHANGED <<run, listener, attempts, due, timers, marked, hook, resume, claims, rows, dropped, faults>>

(***************************************************************************)
(* A webhook delivery: list the waiting rows, claim, hand over              *)
(***************************************************************************)
\* list_waiting passes over a row whose timeout_at is past.
ListWaiting(d) ==
    /\ hook[d] = "new"
    /\ hook' = [hook EXCEPT ![d] = IF listener = "waiting" /\ due < attempts
                                   THEN "listed" ELSE "done"]
    /\ UNCHANGED <<run, exec, listener, attempts, due, timers, marked, resume, claims, rows, dropped, faults>>

\* Mutation: the claim trusts the list.
ClaimListed(d) ==
    /\ hook[d] = "listed"
    /\ hook' = [hook EXCEPT ![d] = "claimed"]
    /\ listener' = "matched"
    /\ claims' = claims \cup {d}
    /\ UNCHANGED <<run, exec, attempts, due, timers, marked, resume, rows, dropped, faults>>

\* claim_matched locks the row of the run and the step that is waiting now.
ClaimMatched(d) ==
    /\ hook[d] = "listed"
    /\ IF listener = "waiting"
       THEN /\ listener' = "matched"
            /\ claims' = claims \cup {d}
            /\ hook' = [hook EXCEPT ![d] = "claimed"]
       ELSE /\ hook' = [hook EXCEPT ![d] = "done"]
            /\ UNCHANGED <<listener, claims>>
    /\ UNCHANGED <<run, exec, attempts, due, timers, marked, resume, rows, dropped, faults>>

\* resume_workflow_wait.delay; if the queue refuses, the task's body is called.
HandOver(d) ==
    /\ hook[d] = "claimed"
    /\ hook' = [hook EXCEPT ![d] = "done"]
    /\ \E r \in {"queued", "direct"} : resume' = [resume EXCEPT ![d] = r]
    /\ UNCHANGED <<run, exec, listener, attempts, due, timers, marked, claims, rows, dropped, faults>>

HookDies(d) ==
    /\ hook[d] = "claimed"
    /\ faults < MaxFaults
    /\ faults' = faults + 1
    /\ hook' = [hook EXCEPT ![d] = "done"]
    /\ dropped' = TRUE
    /\ UNCHANGED <<run, exec, listener, attempts, due, timers, marked, resume, claims, rows>>

(***************************************************************************)
(* resume_workflow_wait, as a task or called directly                       *)
(***************************************************************************)
ResumeGoes(d, from, to) ==
    /\ resume[d] = from
    /\ resume' = [resume EXCEPT ![d] = to]
    /\ UNCHANGED <<exec, listener, attempts, due, timers, marked, hook, claims, rows>>

\* Mutation: a run that is not waiting yet is left alone.
ResumeLoadOnce(d) ==
    /\ ResumeGoes(d, "queued", IF run = "waiting" THEN "loaded" ELSE "off")
    /\ UNCHANGED <<run, dropped, faults>>

\* Without the checkpoint the task retries; a run that is waiting is resumed; any
\* other is left alone.
ResumeLoad(d) ==
    /\ ResumeGoes(d, "queued", CASE run = "running" -> "queued"
                                 [] run = "waiting" -> "loaded"
                                 [] OTHER -> "off")
    /\ UNCHANGED <<run, dropped, faults>>

\* The retries run out before the checkpoint is written.
ResumeExhausted(d) ==
    /\ run = "running"
    /\ ResumeGoes(d, "queued", "off")
    /\ dropped' = TRUE
    /\ UNCHANGED <<run, faults>>

\* The step completes, or a stale save makes the task try again.  The save of a
\* second resume of the step carries a key already used and writes nothing.
ResumeSave(d) ==
    /\ ResumeGoes(d, "loaded", IF run \in {"waiting", "resumed"} THEN "off" ELSE "queued")
    /\ run' = IF run = "waiting" THEN "resumed" ELSE run
    /\ UNCHANGED <<dropped, faults>>

WorkerDies(d) ==
    /\ faults < MaxFaults
    /\ ResumeGoes(d, "loaded", "queued")
    /\ faults' = faults + 1
    /\ UNCHANGED <<run, dropped>>

\* The webhook's direct call: its "retry" is ignored.
DirectLoad(d) ==
    /\ ResumeGoes(d, "direct", IF run = "waiting" THEN "direct_loaded" ELSE "off")
    /\ dropped' = (dropped \/ run = "running")
    /\ UNCHANGED <<run, faults>>

DirectSave(d) ==
    /\ ResumeGoes(d, "direct_loaded", "off")
    /\ run' = IF run = "waiting" THEN "resumed" ELSE run
    /\ UNCHANGED <<dropped, faults>>

(***************************************************************************)
(* timeout_workflow_event                                                   *)
(***************************************************************************)
TimerUnchanged ==
    UNCHANGED <<exec, attempts, due, hook, resume, claims, rows, dropped, faults>>

\* mark_timed_out marks the row updated last if it waits, whichever attempt the
\* task was queued by; a matched row ends the task.
MarkTimedOut(n) ==
    /\ n \in timers \ marked
    /\ n <= due
    /\ listener' = IF listener = "waiting" THEN "timed_out" ELSE listener
    /\ IF listener = "matched"
       THEN timers' = timers \ {n} /\ UNCHANGED marked
       ELSE marked' = marked \cup {n} /\ UNCHANGED timers
    /\ UNCHANGED run
    /\ TimerUnchanged

\* The checkpoint that pauses the run records waiting_event as the step's result.
StepRecorded == run \in {"waiting", "resumed", "timed_out"}

\* Mutation: a wait that is over is resumed, whatever it waited for.
TimeOutStepResumes(n) ==
    /\ n \in marked
    /\ marked' = marked \ {n}
    /\ timers' = timers \ {n}
    /\ run' = IF run = "waiting" THEN "resumed" ELSE run
    /\ UNCHANGED listener
    /\ TimerUnchanged

\* The task: already_completed, or retried from its start until its retries run
\* out, or the wait times out, or nothing.
TimeOutStep(n) ==
    /\ n \in marked
    /\ marked' = marked \ {n}
    /\ IF ~StepRecorded /\ run = "running"
       THEN timers' \in {timers, timers \ {n}}
       ELSE timers' = timers \ {n}
    /\ run' = IF ~StepRecorded /\ run = "waiting" THEN "timed_out" ELSE run
    /\ UNCHANGED listener
    /\ TimerUnchanged

(***************************************************************************)
(* The environment                                                          *)
(***************************************************************************)
TimePasses ==
    /\ due < attempts
    /\ due' = due + 1
    /\ UNCHANGED <<run, exec, listener, attempts, timers, marked, hook, resume, claims, rows, dropped, faults>>

Cancel ==
    /\ run \in {"running", "waiting"}
    /\ run' = "cancelled"
    /\ UNCHANGED <<exec, listener, attempts, due, timers, marked, hook, resume, claims, rows, dropped, faults>>

Executor == Register \/ ScheduleTimeout \/ Checkpoint
Webhook(d) == ListWaiting(d) \/ ClaimMatched(d) \/ HandOver(d)
Resumer(d) == ResumeLoad(d) \/ ResumeSave(d) \/ DirectLoad(d) \/ DirectSave(d)
Timer(n) == MarkTimedOut(n) \/ TimeOutStep(n)

Next ==
    \/ Executor \/ ExecutorDies \/ Redrive
    \/ \E d \in Deliveries : \/ Webhook(d) \/ HookDies(d)
                             \/ Resumer(d) \/ ResumeExhausted(d) \/ WorkerDies(d)
    \/ \E n \in 1..attempts : Timer(n)
    \/ TimePasses \/ Cancel

\* Processes that live go on, and the queue delivers.  Nothing promises that a run
\* whose executor died is driven again.
Fairness ==
    /\ WF_vars(Executor)
    /\ WF_vars(TimePasses)
    /\ \A d \in Deliveries : WF_vars(Webhook(d)) /\ WF_vars(Resumer(d))
    /\ \A n \in 1..(MaxFaults + 1) : WF_vars(n \in 1..attempts /\ Timer(n))

Spec == Init /\ [][Next]_vars /\ Fairness

(***************************************************************************)
(* Properties                                                               *)
(***************************************************************************)
Unresolved == run \in {"running", "waiting"}

\* A listener is claimed by one delivery: of two that listed it, the second finds
\* it matched under the row's lock (claim_matched).
OneClaimPerListener == Cardinality(claims) <= rows

\* A run is resumed only by an event that claimed a listener of its step.
ResumedByAnEvent == run = "resumed" => claims # {}

\* A claimed event is on its way to the run until the run has moved on, or the
\* step is executed anew and listens again, unless it was dropped: the webhook
\* died before handing it over, the retries ran out, or the direct call came
\* before the checkpoint.
ClaimedIsCarried ==
    listener = "matched" /\ Unresolved =>
        \/ dropped
        \/ exec \in {"step", "dead"}
        \/ \E d \in claims : hook[d] = "claimed" \/ resume[d] # "off"

\* A claimed event that is not dropped does resume the run, also when it arrives
\* before the run has paused (_CHECKPOINT_RETRY_MAX) and when the worker that
\* resumes it dies; if the executor dies before the run has paused, the event has
\* nothing to resume until another process drives the run.
EventResumesRun ==
    listener = "matched" ~>
        (~Unresolved \/ dropped \/ listener = "waiting" \/ exec = "dead")

\* workflow_tasks.py, timeout_workflow_event: "Mark an event wait as timed_out and
\* let the engine continue later": a wait whose time-out task is queued ends.
EventWaitEnds == (run = "waiting" /\ attempts \in timers) ~> run # "waiting"
=============================================================================
