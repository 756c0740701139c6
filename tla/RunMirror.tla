------------------------------ MODULE RunMirror ------------------------------
(***************************************************************************)
(* The WorkflowRun row, its step rows and its approvals as a mirror of the *)
(* engine's durable state: the background executor                         *)
(* (api/v1/workflows.py _execute_workflow_bg), the resume behind a decided *)
(* approval (api/v1/approvals.py _resume_workflow_bg), the task that ends  *)
(* a delay (core/tasks/workflow_tasks.py resume_workflow_wait), the latter *)
(* two with workflows/run_sync.py sync_engine_state_to_workflow_run, and   *)
(* the cancel route.  A delay may end while whoever reached it has yet to  *)
(* sync, so that two of them drive the engine and write the rows at once.  *)
(*                                                                         *)
(* Every session here reads the row without a lock (READ COMMITTED),       *)
(* decides on what it read, and writes the attributes it changed at its    *)
(* commit.  The engine saves a step under a version check                  *)
(* (WorkflowStateStore).  Steps run in the order 1..N.                     *)
(* The tenant has an agent its approvals can be attached to.               *)
(***************************************************************************)
EXTENDS Integers, FiniteSets

CONSTANTS
    N,          \* steps of the definition
    Approvals,  \* the ones a person approves
    Waits,      \* the ones that delay the run, none of them an approval
    MaxFaults   \* bound: errors and crashes

Steps == 1..N
Drivers == 0..N     \* 0: the background executor; i: the resume behind step i
Terminal == {"completed", "failed", "timed_out", "cancelled"}
Paused == {"waiting_hitl", "waiting_delay", "waiting_event"}

VARIABLES
    engine,     \* the engine's state: status, steps done, result of the next
    row,        \* WorkflowRun: status, _engine_run_id known, A/B outcome recorded
    stepRows,   \* per step: how many StepExecution rows, and their status
    items,      \* per step: HITLQueue rows raised and still open
    driver,     \* per driver: where it is and what it has read
    cancel,     \* the cancel request
    counted,    \* outcomes counted on the A/B variant
    faults,     \* errors and crashes so far
    overlapped  \* history: a driver began to sync while another had yet to finish

vars == <<engine, row, stepRows, items, driver, cancel, counted, faults, overlapped>>

NoState == [status |-> "running", done |-> 0, next |-> "none"]
NoRow == [status |-> "running", known |-> FALSE, ab |-> FALSE]
Off == [pc |-> "off", st |-> NoState, seen |-> NoRow, absent |-> {}, reject |-> FALSE]

Init ==
    /\ engine = NoState
    /\ row = NoRow
    /\ stepRows = [i \in Steps |-> [n |-> 0, status |-> "none"]]
    /\ items = [i \in Steps |-> [raised |-> 0, open |-> 0]]
    /\ driver = [d \in Drivers |-> IF d = 0 THEN [Off EXCEPT !.pc = "begin"] ELSE Off]
    /\ cancel = [pc |-> "off", steps |-> {}]
    /\ counted = 0
    /\ faults = 0
    /\ overlapped = FALSE

At(d, pc) == driver[d].pc = pc
\* A driver goes on; what it had read is behind it.
Goto(d, pc) == driver' = [driver EXCEPT ![d] = [Off EXCEPT !.pc = pc]]
Rows == <<row, stepRows, items, counted>>

-----------------------------------------------------------------------------
(* Driving the engine                                                      *)

\* start_run, then _engine_run_id on the row.
Begin ==
    /\ At(0, "begin")
    /\ row' = [row EXCEPT !.known = TRUE]
    /\ Goto(0, "pump")
    /\ UNCHANGED <<engine, stepRows, items, cancel, counted, faults, overlapped>>

\* One step of the engine: it pauses for an approval or a delay, completes a
\* step, fails, or finds no step left.
Advanced ==
    LET i == engine.done + 1
        stop(status) == [engine EXCEPT !.status = status, !.next = status]
    IN  IF i > N THEN {[engine EXCEPT !.status = "completed"]}
        ELSE IF i \in Approvals THEN {stop("waiting_hitl")}
        ELSE IF i \in Waits THEN {stop("waiting_delay")}
        ELSE {[engine EXCEPT !.done = i], stop("failed")}

\* execute_next of the executor, and execute of the others, begin a step, or
\* find that the run does not go on; the driver then loads the state.
Pump(d) ==
    /\ At(d, "pump")
    /\ IF engine.status = "running"
       THEN driver' = [driver EXCEPT ![d].pc = "exec", ![d].st = engine]
       ELSE Goto(d, "load")
    /\ UNCHANGED <<engine, Rows, cancel, faults, overlapped>>

\* The step is saved unless somebody saved meanwhile.  The executor syncs after
\* a step, the others when the run stops or their save is refused.
Exec(d) ==
    /\ At(d, "exec")
    /\ IF engine = driver[d].st
       THEN engine' \in Advanced /\ Goto(d, IF d = 0 THEN "load" ELSE "pump")
       ELSE UNCHANGED engine /\ Goto(d, "load")
    /\ UNCHANGED <<Rows, cancel, faults, overlapped>>

\* resume_workflow_wait: the step the run waits at is over, and the task drives on.
WaitOver(i) ==
    /\ At(i, "off")
    /\ engine.status = "waiting_delay" /\ engine.done + 1 = i
    /\ engine' = [status |-> "running", done |-> i, next |-> "none"]
    /\ Goto(i, "pump")
    /\ UNCHANGED <<Rows, cancel, faults, overlapped>>

\* resume_from_hitl: an error unless the run waits for a person.
Resume(d) ==
    /\ At(d, "resume")
    /\ IF engine.status = "waiting_hitl"
       THEN /\ engine' = IF driver[d].reject
                         THEN [engine EXCEPT !.status = "failed", !.next = "rejected"]
                         ELSE [status |-> "running", done |-> engine.done + 1, next |-> "none"]
            /\ Goto(d, IF driver[d].reject THEN "load" ELSE "pump")
       ELSE UNCHANGED engine /\ Goto(d, "error")
    /\ UNCHANGED <<Rows, cancel, faults, overlapped>>

\* A driver is in the middle of a sync, the executor's count of the outcome
\* included.
Syncing(d) == driver[d].pc \in {"read", "count", "commit", "finally", "outcome"}

Load(d) ==
    /\ At(d, "load")
    /\ driver' = [driver EXCEPT ![d].pc = "read", ![d].st = engine]
    /\ overlapped' = (overlapped \/ \E e \in Drivers \ {d} : Syncing(e))
    /\ UNCHANGED <<engine, Rows, cancel, faults>>

-----------------------------------------------------------------------------
(* Syncing the rows                                                        *)

\* The result a state holds for a step; cancelling leaves it as it is.
ResultOf(st, i) ==
    IF i <= st.done THEN "completed" ELSE IF i = st.done + 1 THEN st.next ELSE "none"

\* Where an exception takes a driver: a task has no handler, and its message,
\* delivered again, finds that the run does not wait for it.
Handler(d) == IF d \in Waits THEN "off" ELSE "error"

\* The run row and the step rows, as the session finds them; two rows for a
\* step make scalar_one_or_none raise.
Read(d) ==
    /\ At(d, "read")
    /\ IF \E i \in Steps : stepRows[i].n > 1
       THEN Goto(d, Handler(d))
       ELSE driver' = [driver EXCEPT ![d].pc = IF d = 0 THEN "commit" ELSE "count",
                                     ![d].seen = row,
                                     ![d].absent = {i \in Steps : stepRows[i].n = 0}]
    /\ UNCHANGED <<engine, Rows, cancel, faults, overlapped>>

\* Mutation: a paused row is kept like a terminal one.
StatusKept(d) ==
    IF driver[d].seen.status \in Terminal \cup Paused THEN driver[d].seen.status ELSE driver[d].st.status

\* The status the session leaves on its copy of the row.
StatusOf(d) ==
    IF driver[d].seen.status \in Terminal THEN driver[d].seen.status ELSE driver[d].st.status

\* Mutation: the marker of a recorded outcome is not looked at.
CountsAgain(d, status) == status \in Terminal

\* record_ab_outcome_if_terminal counts in a session of its own; the executor
\* does it after its loop.
Counts(d, status) == status \in Terminal /\ ~driver[d].seen.ab

Count(d) ==
    /\ At(d, "count")
    /\ counted' = IF Counts(d, StatusOf(d)) THEN counted + 1 ELSE counted
    /\ driver' = [driver EXCEPT ![d].pc = "commit"]
    /\ UNCHANGED <<engine, row, stepRows, items, cancel, faults, overlapped>>

\* Mutation: the terminal status the session read is not looked at.
RowWrittenAnyway(d) ==
    [row EXCEPT !.status = driver[d].st.status,
                !.ab = row.ab \/ (d # 0 /\ Counts(d, StatusOf(d)))]

\* Only changed attributes are written.
RowWritten(d) ==
    [row EXCEPT !.status = IF StatusOf(d) = driver[d].seen.status THEN @ ELSE StatusOf(d),
                !.ab = row.ab \/ (d # 0 /\ Counts(d, StatusOf(d)))]

\* The steps whose result the session inserts a row for.
Created(d) == {i \in driver[d].absent : ResultOf(driver[d].st, i) # "none"}

\* _upsert_step_execution for every result.
Upserted(d) ==
    [i \in Steps |->
        IF ResultOf(driver[d].st, i) = "none" THEN stepRows[i]
        ELSE [n |-> stepRows[i].n + (IF i \in Created(d) THEN 1 ELSE 0),
              status |-> ResultOf(driver[d].st, i)]]

\* An approval for a step that waits and is new.
Raised(d) ==
    [i \in Steps |->
        IF i \in Created(d) /\ ResultOf(driver[d].st, i) = "waiting_hitl"
        THEN [raised |-> items[i].raised + 1, open |-> items[i].open + 1] ELSE items[i]]

\* The step rows, the approvals, the run row, and the commit.  The executor
\* goes on unless the run has stopped.
Commit(d) ==
    LET stopped == \/ driver[d].seen.status \in Terminal
                   \/ driver[d].st.status \in Terminal \cup Paused
    IN  /\ At(d, "commit")
        /\ stepRows' = Upserted(d)
        /\ items' = Raised(d)
        /\ row' = RowWritten(d)
        /\ Goto(d, IF d # 0 THEN "off" ELSE IF stopped THEN "finally" ELSE "pump")
        /\ UNCHANGED <<engine, cancel, counted, faults, overlapped>>

\* The executor's finally: the row is read, ...
Finally ==
    /\ At(0, "finally")
    /\ driver' = [driver EXCEPT ![0].pc = "outcome", ![0].seen = row]
    /\ UNCHANGED <<engine, Rows, cancel, faults, overlapped>>

\* ... the outcome counted and marked.
Outcome ==
    LET counts == Counts(0, driver[0].seen.status)
    IN  /\ At(0, "outcome")
        /\ counted' = IF counts THEN counted + 1 ELSE counted
        /\ row' = [row EXCEPT !.ab = @ \/ counts]
        /\ Goto(0, "off")
        /\ UNCHANGED <<engine, stepRows, items, cancel, faults, overlapped>>

\* The error handler of a resume looks at no status.
ResumeError(d) ==
    /\ d # 0
    /\ At(d, "error")
    /\ row' = [row EXCEPT !.status = "failed"]
    /\ Goto(d, "off")
    /\ UNCHANGED <<engine, stepRows, items, cancel, counted, faults, overlapped>>

\* The executor's reads it first.
ErrorRead ==
    /\ At(0, "error")
    /\ driver' = [driver EXCEPT ![0].pc = "mark", ![0].seen = row]
    /\ UNCHANGED <<engine, Rows, cancel, faults, overlapped>>

ErrorWrite ==
    /\ At(0, "mark")
    /\ row' = IF driver[0].seen.status \in Terminal THEN row ELSE [row EXCEPT !.status = "failed"]
    /\ Goto(0, "finally")
    /\ UNCHANGED <<engine, stepRows, items, cancel, counted, faults, overlapped>>

-----------------------------------------------------------------------------
(* People, and what goes wrong                                             *)

\* A reviewer decides an open approval (ApprovalItem); its resume is queued.
Decide(i, reject) ==
    /\ items[i].open > 0
    /\ At(i, "off")
    /\ items' = [items EXCEPT ![i].open = @ - 1]
    /\ driver' = [driver EXCEPT ![i] = [Off EXCEPT !.pc = "resume", !.reject = reject]]
    /\ UNCHANGED <<engine, row, stepRows, cancel, counted, faults, overlapped>>

\* cancel_workflow_run: nothing to do for a terminal row.
CancelRead ==
    /\ cancel.pc = "off"
    /\ row.status \notin Terminal
    /\ cancel' = [pc |-> IF row.known THEN "engine" ELSE "commit",
                  steps |-> {i \in Steps : stepRows[i].status = "waiting_hitl"}]
    /\ UNCHANGED <<engine, Rows, driver, faults, overlapped>>

\* engine.cancel sets the status whatever it is; an error, a stale save among
\* them, is only logged.
CancelEngine(ok) ==
    /\ cancel.pc = "engine"
    /\ engine' = IF ok THEN [engine EXCEPT !.status = "cancelled"] ELSE engine
    /\ cancel' = [cancel EXCEPT !.pc = "commit"]
    /\ UNCHANGED <<Rows, driver, faults, overlapped>>

CancelCommit ==
    /\ cancel.pc = "commit"
    /\ row' = [row EXCEPT !.status = "cancelled"]
    /\ stepRows' = [i \in Steps |->
          IF i \in cancel.steps THEN [stepRows[i] EXCEPT !.status = "cancelled"] ELSE stepRows[i]]
    /\ cancel' = [cancel EXCEPT !.pc = "done"]
    /\ UNCHANGED <<engine, items, driver, counted, faults, overlapped>>

\* A call raises: the session rolls back and the handler, if any, takes over.
Raise(d) ==
    /\ faults < MaxFaults
    /\ driver[d].pc \in {"pump", "exec", "resume", "load", "read", "count", "commit"}
    /\ Goto(d, Handler(d))
    /\ faults' = faults + 1
    /\ UNCHANGED <<engine, Rows, cancel, overlapped>>

\* The process of a driver stops; nothing takes its work over.
Crash(d) ==
    /\ faults < MaxFaults
    /\ driver[d].pc # "off"
    /\ Goto(d, "off")
    /\ faults' = faults + 1
    /\ UNCHANGED <<engine, Rows, cancel, overlapped>>

Sync(d) == Load(d) \/ Read(d) \/ Count(d) \/ Commit(d)

Drive(d) ==
    \/ Pump(d) \/ Exec(d) \/ Resume(d) \/ Sync(d) \/ ResumeError(d)
    \/ d = 0 /\ (Begin \/ Finally \/ Outcome \/ ErrorRead \/ ErrorWrite)

Next ==
    \/ \E d \in Drivers : Drive(d) \/ Raise(d) \/ Crash(d)
    \/ \E i \in Waits : WaitOver(i)
    \/ \E i \in Approvals, reject \in BOOLEAN : Decide(i, reject)
    \/ CancelRead
    \/ \E ok \in BOOLEAN : CancelEngine(ok)
    \/ CancelCommit

Spec == Init /\ [][Next]_vars

\* Drivers that live go on, and delays end.
Goes == (\E d \in Drivers : Drive(d)) \/ (\E i \in Waits : WaitOver(i))

FairSpec == Spec /\ WF_vars(Goes)

-----------------------------------------------------------------------------
(* Properties                                                              *)

States == [status : Terminal \cup Paused \cup {"running"}, done : 0..N,
           next : {"none", "failed", "rejected"} \cup Paused]

\* The variables hold what the columns and the drivers' locals can hold.
TypeOK ==
    /\ engine \in States
    /\ row.status \in Terminal \cup Paused \cup {"running"}
    /\ \A i \in Steps : stepRows[i].n \in Nat /\ items[i].open \in 0..items[i].raised
    /\ \A d \in Drivers : driver[d].st \in States /\ driver[d].absent \subseteq Steps
    /\ cancel.pc \in {"off", "engine", "commit", "done"}
    /\ counted \in Nat /\ faults \in 0..MaxFaults

\* Drivers whose syncs do not overlap raise one approval and one step row for a
\* step, however often they sync it and however their steps interleave.  When
\* nobody drives such a run, nothing failed and nobody cancelled, the row has
\* the engine's status, every step row its result, a paused run an open approval
\* for the step it waits at, and a finished one is counted once on its A/B
\* variant (_upsert_step_execution, record_ab_outcome_if_terminal).
Settled ==
    ~overlapped =>
        /\ \A i \in Steps : items[i].raised <= 1 /\ stepRows[i].n <= 1
        /\ (\A d \in Drivers : At(d, "off")) /\ faults = 0 /\ cancel.pc = "off" =>
            /\ row.status = engine.status
            /\ \A i \in Steps : stepRows[i].status = ResultOf(engine, i)
            /\ engine.status = "waiting_hitl" => items[engine.done + 1].open = 1
            /\ counted = (IF row.status \in Terminal THEN 1 ELSE 0)

\* A terminal row is overwritten only by a session that had read it before it
\* became terminal, or by the error handler of a resume.
OnlyRacesReopen ==
    [][row.status \in Terminal /\ row'.status # row.status =>
         \/ cancel.pc = "commit" /\ cancel'.pc = "done"
         \/ \E d \in Drivers : d # 0 /\ At(d, "error") /\ driver'[d].pc = "off"
         \/ \E d \in Drivers : /\ driver[d].pc \in {"commit", "mark"} /\ driver'[d].pc # driver[d].pc
                               /\ driver[d].seen.status \notin Terminal]_vars

\* The run is terminal, or a person is asked.  Or something crashed or raised, or
\* two syncs overlapped; or a cancel that stopped half way or raced with a sync
\* has left a paused row.
AtRest ==
    \/ row.status \in Terminal
    \/ \E i \in Steps : items[i].open > 0
    \/ faults > 0 \/ overlapped
    \/ cancel.pc # "off" /\ row.status \in Paused

\* A run is not left hanging: unless something crashes or raises, or two syncs
\* overlap, it comes to be terminal or waiting on an approval that is open,
\* whatever is decided and cancelled meanwhile.
RunSettles == <>[]AtRest

\* "A concurrent cancel already finalised the DB row; an in-flight engine
\* checkpoint must never downgrade a terminal status" (api/v1/workflows.py, and
\* in other words workflows/run_sync.py): a terminal row stays terminal.
NeverDowngraded == [][row.status \in Terminal => row'.status \in Terminal]_vars
=============================================================================
