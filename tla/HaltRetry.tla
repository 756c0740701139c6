----------------------------- MODULE HaltRetry -----------------------------
(***************************************************************************)
(* Who drives a run that an operator override holds.  The engine answers a  *)
(* driver "halted" and leaves the run at running; the background executor   *)
(* (api/v1/workflows.py) hands the retry to the task queue, or while the    *)
(* broker is down records it on the run and retries in process; the task    *)
(* resume_halted_workflow retries until the override is released; a beat    *)
(* sweep re-queues a run whose record has gone stale.  A run resumed after  *)
(* a pause is driven by the resume itself (_drive_engine_and_sync,          *)
(* _resume_workflow_bg).                                                    *)
(*                                                                          *)
(* The engine is reduced to the steps the run still has to take; module     *)
(* WorkflowEngine has the rest.                                             *)
(***************************************************************************)
EXTENDS Naturals

CONSTANTS
    Messages,      \* resume_halted_workflow messages that can exist at once
    MaxSteps,      \* steps of the run
    MaxPauses,     \* how many of them pause the run
    MaxMishaps,    \* how often a task is lost or raises
    SweepEnabled,  \* operator_halt_recovery_sweep_enabled
    PromptHolders  \* TRUE: whoever holds the retry refreshes its record in time

ASSUME HaltAssumption ==
    /\ MaxSteps \in Nat \ {0}
    /\ MaxPauses \in Nat
    /\ MaxMishaps \in Nat
    /\ SweepEnabled \in BOOLEAN
    /\ PromptHolders \in BOOLEAN

VARIABLES
    status,     \* the run's durable status
    done,       \* steps done: the version a driver's save is checked against
    pauses,     \* pauses so far
    override,   \* an operator override holds the workflow
    broker,     \* the task queue can be reached
    api,        \* the background executor
    task,       \* per message: absent, queued, or where its execution is
    resumer,    \* the resume after a pause
    marker,     \* the run's pending-retry record: "none", "fresh" or "stale"
    mishaps,    \* lost and failed executions of tasks so far
    closed,     \* the executor's error handler has marked the run's row failed
    lost        \* history: a holder was lost with no record, or beside another one

vars == <<status, done, pauses, override, broker, api, task, resumer, marker, mishaps, closed, lost>>

\* A driver: where it is and the version of the state it loaded.
Driver == [pc : {"off", "queued", "load", "drive", "exec", "halted", "asleep", "clear"},
           seen : Nat]
At(pc) == [pc |-> pc, seen |-> 0]

TypeOK ==
    /\ status \in {"running", "waiting", "completed", "cancelled"}
    /\ done \in Nat
    /\ pauses \in 0..MaxPauses
    /\ override \in BOOLEAN
    /\ broker \in BOOLEAN
    /\ api \in Driver
    /\ task \in [Messages -> Driver]
    /\ resumer \in Driver
    /\ marker \in {"none", "fresh", "stale"}
    /\ mishaps \in Nat
    /\ closed \in BOOLEAN
    /\ lost \in BOOLEAN

Init ==
    /\ status = "running"
    /\ done = 0
    /\ pauses = 0
    /\ override \in BOOLEAN
    /\ broker = TRUE
    /\ api = At("drive")
    /\ task = [m \in Messages |-> At("off")]
    /\ resumer = At("off")
    /\ marker = "none"
    /\ mishaps = 0
    /\ closed = FALSE
    /\ lost = FALSE

(***************************************************************************)
(* The engine, as a driver sees it                                          *)
(***************************************************************************)
\* The save at the end of a step: the run goes on, pauses or completes.
StepSaved ==
    \/ /\ done' = done + 1
       /\ status' = IF done + 1 = MaxSteps THEN "completed" ELSE "running"
       /\ UNCHANGED pauses
    \/ /\ pauses < MaxPauses
       /\ done + 1 < MaxSteps
       /\ status' = "waiting"
       /\ pauses' = pauses + 1
       /\ UNCHANGED done

\* A save the version check refuses: the driver is told the run's status.
StepRefused == UNCHANGED <<status, done, pauses>>

Enqueue(m) ==
    /\ task[m].pc = "off"
    /\ task' = [task EXCEPT ![m] = At("queued")]

Held == api.pc # "off" \/ \E m \in Messages : task[m].pc # "off"

\* A holder goes without handing over.  The sweep makes up for the only holder
\* of a run that has its retry recorded; a second one may still drop that record.
HolderLost(recorded) == lost' = (lost \/ ~recorded \/ Held')

(***************************************************************************)
(* _execute_workflow_bg                                                     *)
(***************************************************************************)
ApiUnchanged == UNCHANGED <<override, broker, resumer, mishaps, closed, lost>>

\* execute_next finds the run held, or begins a step, or the run has moved on.
ApiDrive ==
    /\ api.pc = "drive"
    /\ api' = IF status # "running" THEN At("off")
              ELSE IF override THEN At("halted")
              ELSE [pc |-> "exec", seen |-> done]
    /\ UNCHANGED <<status, done, pauses, task, marker>>
    /\ ApiUnchanged

ApiStep ==
    /\ api.pc = "exec"
    /\ IF status = "running" /\ api.seen = done THEN StepSaved ELSE StepRefused
    /\ api' = At("drive")
    /\ UNCHANGED <<task, marker>>
    /\ ApiUnchanged

\* schedule_halted_workflow_retry: the queue takes the retry over.
ApiSchedule ==
    /\ api.pc = "halted"
    /\ broker
    /\ \E m \in Messages : Enqueue(m)
    /\ api' = At("off")
    /\ UNCHANGED <<status, done, pauses, marker>>
    /\ ApiUnchanged

\* Mutation: the retry is kept in the process alone.
ApiSleepUnrecorded ==
    /\ api.pc = "halted"
    /\ ~broker
    /\ api' = At("asleep")
    /\ UNCHANGED <<status, done, pauses, task, marker>>
    /\ ApiUnchanged

\* The queue is down: record_halt_retry, then sleep and try again.
ApiRecord ==
    /\ api.pc = "halted"
    /\ ~broker
    /\ marker' = "fresh"
    /\ api' = At("asleep")
    /\ UNCHANGED <<status, done, pauses, task>>
    /\ ApiUnchanged

ApiWake ==
    /\ api.pc = "asleep"
    /\ api' = At("drive")
    /\ UNCHANGED <<status, done, pauses, task, marker>>
    /\ ApiUnchanged

\* The API process restarts, whatever its background executor is at.  One that
\* sleeps has recorded its retry.
ApiRestart ==
    /\ api.pc # "off"
    /\ api' = At("off")
    /\ UNCHANGED <<status, done, pauses, override, broker, task, resumer, marker, mishaps, closed>>
    /\ HolderLost(api.pc = "asleep" \/ marker # "none")

\* An exception in the loop: the error handler marks the row failed, and the
\* engine's run stays as it is.  A handler that fails too is ApiRestart's case.
ApiRaises ==
    /\ api.pc \in {"drive", "exec", "halted"}
    /\ api' = At("off")
    /\ closed' = TRUE
    /\ UNCHANGED <<status, done, pauses, override, broker, task, resumer, marker, mishaps, lost>>

(***************************************************************************)
(* resume_halted_workflow: a message is acknowledged late, so a worker that  *)
(* is lost leaves it to another.  An exception is retried five times at     *)
(* most, and Celery counts the retries of the hold among them.              *)
(***************************************************************************)
TaskGoes(m, from, to) ==
    /\ task[m].pc = from
    /\ task' = [task EXCEPT ![m] = to]
    /\ UNCHANGED <<override, broker, api, resumer, closed>>

TaskBegin(m) ==
    /\ broker
    /\ TaskGoes(m, "queued", At("load"))
    /\ UNCHANGED <<status, done, pauses, marker, mishaps, lost>>

\* A run that is not running any more is left alone.
TaskLoad(m) ==
    /\ TaskGoes(m, "load", IF status = "running" THEN At("drive") ELSE At("off"))
    /\ UNCHANGED <<status, done, pauses, marker, mishaps, lost>>

TaskDrive(m) ==
    /\ TaskGoes(m, "drive", IF status # "running" THEN At("clear")
                            ELSE IF override THEN At("halted")
                            ELSE [pc |-> "exec", seen |-> done])
    /\ UNCHANGED <<status, done, pauses, marker, mishaps, lost>>

\* execute goes on after a step it saved and returns after one it could not.
TaskStep(m) ==
    /\ \/ /\ status = "running" /\ task[m].seen = done
          /\ TaskGoes(m, "exec", At("drive"))
          /\ StepSaved
       \/ /\ ~(status = "running" /\ task[m].seen = done)
          /\ TaskGoes(m, "exec", At("clear"))
          /\ StepRefused
    /\ UNCHANGED <<marker, mishaps, lost>>

\* Mutation: a task that finds the run still held is done.
TaskGivesUp(m) ==
    /\ TaskGoes(m, "halted", At("off"))
    /\ UNCHANGED <<status, done, pauses, marker, mishaps, lost>>

\* Still held: the record is refreshed (best effort) and the task retried.
TaskRetry(m) ==
    /\ broker
    /\ TaskGoes(m, "halted", At("queued"))
    /\ marker' = "fresh" \/ UNCHANGED marker
    /\ UNCHANGED <<status, done, pauses, mishaps, lost>>

\* Not held: the record is dropped (best effort) and the message acknowledged.
TaskDone(m) ==
    /\ TaskGoes(m, "clear", At("off"))
    /\ marker' = "none" \/ UNCHANGED marker
    /\ UNCHANGED <<status, done, pauses, mishaps, lost>>

Mishap(m) ==
    /\ task[m].pc \notin {"off", "queued"}
    /\ mishaps < MaxMishaps
    /\ mishaps' = mishaps + 1

\* The worker is lost and the message redelivered.
TaskLost(m) ==
    /\ Mishap(m)
    /\ TaskGoes(m, task[m].pc, At("queued"))
    /\ UNCHANGED <<status, done, pauses, marker, lost>>

\* The task raises, a retry it could not publish included.  The message is
\* retried, or is gone once its retries are used up.
TaskRaises(m) ==
    /\ Mishap(m)
    /\ \/ broker /\ TaskGoes(m, task[m].pc, At("queued")) /\ UNCHANGED lost
       \/ TaskGoes(m, task[m].pc, At("off")) /\ HolderLost(marker # "none")
    /\ UNCHANGED <<status, done, pauses, marker>>

(***************************************************************************)
(* recover_halted_workflows                                                 *)
(***************************************************************************)
\* The record has not been refreshed for three retry intervals.  A holder that
\* is executing a step does not refresh it, however long the step takes.
GoesStale ==
    /\ marker = "fresh"
    /\ PromptHolders => ~Held
    /\ marker' = "stale"
    /\ UNCHANGED <<status, done, pauses, override, broker, api, task, resumer, mishaps, closed, lost>>

\* Mutation: the sweep looks at no status.
SweepAnyStatus ==
    /\ SweepEnabled
    /\ broker
    /\ marker = "stale"
    /\ \E m \in Messages : Enqueue(m)
    /\ marker' = "fresh"
    /\ UNCHANGED <<status, done, pauses, override, broker, api, resumer, mishaps, closed, lost>>

Sweep ==
    /\ SweepEnabled
    /\ broker
    /\ status = "running" /\ ~closed
    /\ marker = "stale"
    /\ \E m \in Messages : Enqueue(m)
    /\ marker' = "fresh"
    /\ UNCHANGED <<status, done, pauses, override, broker, api, resumer, mishaps, closed, lost>>

\* The sweep queues the retry before it refreshes the record, and dies in between.
SweepDies ==
    /\ SweepEnabled
    /\ broker
    /\ status = "running" /\ ~closed
    /\ marker = "stale"
    /\ \E m \in Messages : Enqueue(m)
    /\ UNCHANGED <<status, done, pauses, override, broker, api, resumer, marker, mishaps, closed, lost>>

(***************************************************************************)
(* A paused run goes on                                                     *)
(***************************************************************************)
ResumerUnchanged == UNCHANGED <<override, broker, api, task, marker, mishaps, closed, lost>>

\* The decision, the timer or the event is recorded and the run is running again.
Resume ==
    /\ status = "waiting"
    /\ status' = "running"
    /\ done' = done + 1
    /\ resumer' = At("drive")
    /\ UNCHANGED pauses
    /\ ResumerUnchanged

\* The resume drives the engine; told that the run is held, it returns.
ResumerDrive ==
    /\ resumer.pc = "drive"
    /\ resumer' = IF status # "running" \/ override THEN At("off")
                  ELSE [pc |-> "exec", seen |-> done]
    /\ UNCHANGED <<status, done, pauses>>
    /\ ResumerUnchanged

ResumerStep ==
    /\ resumer.pc = "exec"
    /\ IF status = "running" /\ resumer.seen = done
       THEN StepSaved /\ resumer' = At("drive")
       ELSE StepRefused /\ resumer' = At("off")
    /\ ResumerUnchanged

(***************************************************************************)
(* The environment                                                          *)
(***************************************************************************)
Cancel ==
    /\ status \in {"running", "waiting"}
    /\ status' = "cancelled"
    /\ UNCHANGED <<done, pauses, override, broker, api, task, resumer, marker, mishaps, closed, lost>>

SetOrRelease ==
    /\ override' = ~override
    /\ UNCHANGED <<status, done, pauses, broker, api, task, resumer, marker, mishaps, closed, lost>>

BrokerChanges ==
    /\ broker' = ~broker
    /\ UNCHANGED <<status, done, pauses, override, api, task, resumer, marker, mishaps, closed, lost>>

Api == ApiDrive \/ ApiStep \/ ApiSchedule \/ ApiRecord \/ ApiWake
Task(m) ==
    \/ TaskBegin(m) \/ TaskLoad(m) \/ TaskDrive(m) \/ TaskStep(m)
    \/ TaskRetry(m) \/ TaskDone(m)
Resumer == ResumerDrive \/ ResumerStep

Next ==
    \/ Api \/ ApiRestart \/ ApiRaises
    \/ \E m \in Messages : Task(m) \/ TaskLost(m) \/ TaskRaises(m)
    \/ GoesStale \/ Sweep \/ SweepDies
    \/ Resume \/ Resumer
    \/ Cancel \/ SetOrRelease \/ BrokerChanges

\* Processes that live go on; the queue delivers; the sweep runs every minute.
Fairness ==
    /\ WF_vars(Api) /\ WF_vars(Resumer)
    /\ \A m \in Messages : WF_vars(Task(m))
    /\ WF_vars(GoesStale) /\ WF_vars(Sweep)

Spec == Init /\ [][Next]_vars /\ Fairness

(***************************************************************************)
(* Properties                                                               *)
(***************************************************************************)
\* Somebody will drive a run that is running, has not been paused and whose
\* executor has not failed: the executor, a message, or a record the sweep finds
\* (run_sync.py record_halt_retry, recover_halted_workflows).  A holder may go at
\* any point; the run is only left alone if it went with no record, or beside
\* another holder.
SomebodyDrives ==
    status = "running" /\ pauses = 0 /\ ~closed /\ ~lost
        => Held \/ (SweepEnabled /\ marker # "none")

\* The override is released for good, the queue reachable, and no holder was
\* lost unrecorded.
Released == <>[]~override /\ <>[]broker /\ [](~closed /\ ~lost)

\* A run that has not been paused is driven on once it is released: it does not
\* stay running (resume_halted_workflow retries until then, and the sweep
\* re-queues what a restart or a dropped message left recorded).
HeldRunResumes == Released /\ [](pauses = 0) => []<>(status # "running")

\* operator-override.md: the run "keeps status running and the
\* resume_halted_workflow worker task retries the step ... until the override is
\* released or the run is cancelled", whether or not the run was ever paused.
EveryHeldRunResumes == Released => []<>(status # "running")

\* A cancelled run is let go: its messages end and the sweep queues no others.
CancelEndsRetries ==
    <>[]broker => (status = "cancelled" ~> [](\A m \in Messages : task[m].pc = "off"))
=============================================================================
