--------------------------- MODULE WorkflowEngine ---------------------------
(***************************************************************************)
(* The workflow engine (workflows/engine.py) over one durable run.  Several *)
(* processes act on the run at once: the background executor, the resume    *)
(* and timeout tasks, an approver's resume, the cancel route.  Each loads a *)
(* copy of the state, works on it, and saves it under the store's version   *)
(* check (WorkflowStateStore proves what that check gives); a save that was *)
(* overtaken raises StaleStateError and the caller stops.                   *)
(*                                                                          *)
(* What a step produces is abstracted to the status it returns.  The        *)
(* execution order of _topological_sort is the constant Pos (the sort       *)
(* itself is module TopologicalSort).                                       *)
(***************************************************************************)
EXTENDS Naturals

CONSTANTS
    Steps,            \* every step id of the definition or of a re-plan
    None,             \* no step
    Definition,       \* the steps of the definition the run starts with
    Kind,             \* a step's type
    DependsOn,        \* depends_on
    Fallback,         \* the step on_failure: fallback(<id>) names, or None
    Optional,         \* optional, allow_failure, on_failure: continue / ignore
    TruePath,         \* a condition's true_path, or None
    FalsePath,        \* a condition's false_path, or None
    Pos,              \* a step's place in the execution order
    ReplanOnFailure,  \* the definition's replan_on_failure
    MaxReplans,       \* MAX_REPLAN_ATTEMPTS
    HasTimeout,       \* the definition has timeout_hours
    Workers,          \* processes acting on the run
    MaxVersion        \* bound: no cancel is begun once the row has this version

Kinds == {"agent", "condition", "human_in_loop", "wait", "wait_for_event"}

ASSUME EngineAssumption ==
    /\ None \notin Steps
    /\ Definition \subseteq Steps
    /\ Kind \in [Steps -> Kinds]
    /\ DependsOn \in [Steps -> SUBSET Steps]
    /\ Fallback \in [Steps -> Steps \cup {None}]
    /\ Optional \subseteq Steps
    /\ TruePath \in [Steps -> Steps \cup {None}]
    /\ FalsePath \in [Steps -> Steps \cup {None}]
    /\ Pos \in [Steps -> Nat]
    /\ ReplanOnFailure \in BOOLEAN
    /\ HasTimeout \in BOOLEAN
    /\ MaxReplans \in Nat
    /\ MaxVersion \in Nat

\* What _topological_sort guarantees of its order.
ASSUME OrderAssumption ==
    /\ \A s, t \in Steps : Pos[s] = Pos[t] => s = t
    /\ \A s \in Steps : \A d \in DependsOn[s] : Pos[d] < Pos[s]
    /\ \A s \in Steps : Fallback[s] \in Steps \ {s} => Pos[s] < Pos[Fallback[s]]

VARIABLES
    row,        \* the durable state of the run and its version
    mem,        \* per process: where it is and the copy of the state it holds
    begun,      \* history: the steps some process has begun to execute
    expired,    \* the run is older than timeout_hours
    override    \* an operator override holds the workflow

vars == <<row, mem, begun, expired, override>>

Waiting == {"waiting_hitl", "waiting_delay", "waiting_event"}
Terminal == {"completed", "failed", "timed_out", "cancelled"}
Statuses == {"running"} \cup Waiting \cup Terminal

\* "other" stands for the statuses of ALLOWED_STEP_STATUSES the engine does not tell
\* apart when a step returns them: stubbed, timed_out (a collaboration, a nested
\* run), cancelled (a nested run), skipped, compensated.
Results == {"none", "completed", "failed", "skipped", "other", "replanned",
            "rejected", "timed_out"} \cup Waiting

Rows == [status    : Statuses,
         waiting   : Steps \cup {None},
         results   : [Steps -> Results],
         escalated : SUBSET Steps,
         defn      : SUBSET Steps,
         replans   : 0..MaxReplans,
         broken    : BOOLEAN,        \* _topological_sort refuses the definition
         version   : Nat]

Points == {"idle", "loop", "ready", "exec", "hitl", "wait", "cancel"}
Calls == {"execute", "execute_next"}
Copies == [pc : Points, call : Calls, st : Rows, ran : BOOLEAN, late : Nat]

\* start_run
StartRow == [status    |-> "running",
             waiting   |-> None,
             results   |-> [s \in Steps |-> "none"],
             escalated |-> {},
             defn      |-> Definition,
             replans   |-> 0,
             broken    |-> FALSE,
             version   |-> 1]

Idle == [pc |-> "idle", call |-> "execute", st |-> StartRow, ran |-> FALSE, late |-> 0]

TypeOK ==
    /\ row \in Rows
    /\ mem \in [Workers -> Copies]
    /\ begun \subseteq Steps
    /\ expired \in BOOLEAN
    /\ override \in BOOLEAN

Init ==
    /\ row = StartRow
    /\ mem = [w \in Workers |-> Idle]
    /\ begun = {}
    /\ expired = FALSE
    /\ override = FALSE

(***************************************************************************)
(* Loads and saves                                                          *)
(***************************************************************************)
Load(w, pc, call) ==
    /\ mem[w].pc = "idle"
    /\ mem' = [mem EXCEPT ![w] = [pc |-> pc, call |-> call, st |-> row,
                                  ran |-> FALSE, late |-> 0]]
    /\ UNCHANGED <<row, begun, expired, override>>

\* Mutation: the last writer wins.
AnyVersion(w) == TRUE

Fresh(w) == row.version = mem[w].st.version

\* state_store.save of the state new; the process goes on at pc.  A stale save
\* writes nothing and ends the call.
Save(w, new, pc, ran) ==
    LET saved == [new EXCEPT !.version = row.version + 1] IN
    /\ IF Fresh(w)
       THEN /\ row' = saved
            /\ mem' = [mem EXCEPT ![w] = IF pc = "idle" THEN Idle
                                         ELSE [pc |-> pc, call |-> mem[w].call, st |-> saved,
                                               ran |-> ran, late |-> mem[w].late]]
       ELSE /\ row' = row
            /\ mem' = [mem EXCEPT ![w] = Idle]
    /\ UNCHANGED <<begun, expired, override>>

SaveAndReturn(w, new) == Save(w, new, "idle", FALSE)

(***************************************************************************)
(* execute and execute_next: finding the next step                          *)
(***************************************************************************)
Pending(st) == {s \in st.defn : st.results[s] = "none"}

\* Mutation: any step without a result may be next.
IsNextUnordered(s, st) == s \in Pending(st)

\* The first step in execution order that has no result.
IsNext(s, st) ==
    /\ s \in Pending(st)
    /\ \A t \in Pending(st) : Pos[s] <= Pos[t]

Sources(s, st) == {d \in st.defn \ {s} : Fallback[d] = s}

\* Mutation: a dependency only has to have a result.
DependenciesRan(s, st) ==
    \A d \in DependsOn[s] : st.results[d] # "none"

\* _check_dependencies: a fallback runs when a step it stands in for failed, and
\* every other dependency must have completed.
DependenciesMet(s, st) ==
    /\ Sources(s, st) # {} =>
         /\ \A d \in Sources(s, st) : st.results[d] # "none"
         /\ \E d \in Sources(s, st) : st.results[d] = "failed"
    /\ \A d \in DependsOn[s] \ Sources(s, st) : st.results[d] = "completed"

\* Where the definition has no order, the sort raises and nothing is written.
Drive(w, call) == row.status = "running" /\ ~row.broken /\ Load(w, "loop", call)

\* execute reads the status again before every step but its first.
Recheck(w) ==
    /\ mem[w].pc = "loop"
    /\ mem[w].ran
    /\ Pending(mem[w].st) # {}
    /\ mem' = [mem EXCEPT ![w] = IF row.status = "running"
                                 THEN [mem[w] EXCEPT !.pc = "ready"] ELSE Idle]
    /\ UNCHANGED <<row, begun, expired, override>>

AtStep(w, s) ==
    /\ mem[w].pc = "ready" \/ (mem[w].pc = "loop" /\ ~mem[w].ran)
    /\ IsNext(s, mem[w].st)

\* execute asks for an override first, execute_next last.
NotHeld(w) == mem[w].call = "execute" => ~override

Halt(w, s) ==
    /\ AtStep(w, s)
    /\ override
    /\ mem[w].call = "execute_next" => ~expired /\ DependenciesMet(s, mem[w].st)
    /\ mem' = [mem EXCEPT ![w] = Idle]
    /\ UNCHANGED <<row, begun, expired, override>>

TimeOut(w, s) ==
    /\ AtStep(w, s)
    /\ NotHeld(w)
    /\ expired
    /\ SaveAndReturn(w, [mem[w].st EXCEPT !.status = "timed_out"])

Record(st, s, r) == [st EXCEPT !.results = [st.results EXCEPT ![s] = r]]

Skip(w, s) ==
    /\ AtStep(w, s)
    /\ NotHeld(w)
    /\ ~expired
    /\ ~DependenciesMet(s, mem[w].st)
    /\ Save(w, Record(mem[w].st, s, "skipped"), "loop", mem[w].ran)

Begin(w, s) ==
    /\ AtStep(w, s)
    /\ ~override
    /\ ~expired
    /\ DependenciesMet(s, mem[w].st)
    /\ begun' = begun \cup {s}
    /\ mem' = [mem EXCEPT ![w] = [mem[w] EXCEPT !.pc = "exec",
                  !.late = mem[w].late + IF row.status \in Terminal THEN 1 ELSE 0]]
    /\ UNCHANGED <<row, expired, override>>

\* Mutation: a run with a skipped step is never finished.
CompleteUnskipped(w) ==
    /\ mem[w].pc \in {"loop", "ready"}
    /\ \A s \in mem[w].st.defn : mem[w].st.results[s] = "completed"
    /\ SaveAndReturn(w, [mem[w].st EXCEPT !.status = "completed"])

Complete(w) ==
    /\ mem[w].pc \in {"loop", "ready"}
    /\ Pending(mem[w].st) = {}
    /\ SaveAndReturn(w, [mem[w].st EXCEPT !.status = "completed"])

(***************************************************************************)
(* execute and execute_next: what a step returned                           *)
(***************************************************************************)
Executing(w, s) == mem[w].pc = "exec" /\ IsNext(s, mem[w].st)

\* The checkpoint after a step; execute_next returns there.
Checkpoint(w, new) ==
    IF mem[w].call = "execute" THEN Save(w, new, "loop", TRUE) ELSE SaveAndReturn(w, new)

AllowsFailure(s) == s \in Optional \/ Fallback[s] # None

\* An agent, a collaboration, a parallel or a nested workflow (kind agent) may
\* return any of these; a wait whose time has come is done.  The
\* other kinds pause or branch.
MayReturn(kind, r) == kind = "agent" \/ (kind = "wait" /\ r = "completed")

\* Mutation: a failed step never fails the run.
StepReturnsAlwaysAllowed(w, s, r) ==
    /\ Executing(w, s)
    /\ MayReturn(Kind[s], r)
    /\ Checkpoint(w, Record(mem[w].st, s, r))

StepReturns(w, s, r) ==
    /\ Executing(w, s)
    /\ MayReturn(Kind[s], r)
    /\ IF r = "failed" /\ ~AllowsFailure(s)
       THEN SaveAndReturn(w, [Record(mem[w].st, s, r) EXCEPT !.status = "failed"])
       ELSE Checkpoint(w, Record(mem[w].st, s, r))

\* A condition sends the run one way and skips the other path.
Branch(w, s, taken, other) ==
    LET st == Record(mem[w].st, s, "completed") IN
    /\ Executing(w, s)
    /\ Kind[s] = "condition"
    /\ Checkpoint(w, IF other \in Steps /\ other # taken /\ st.results[other] = "none"
                     THEN Record(st, other, "skipped") ELSE st)

StepBranches(w, s) ==
    \/ Branch(w, s, TruePath[s], FalsePath[s])
    \/ Branch(w, s, FalsePath[s], TruePath[s])

\* The step needs a person, a delay or an event: the run pauses at it.
PauseOf(kind) ==
    CASE kind \in {"human_in_loop", "agent"} -> "waiting_hitl"
      [] kind = "wait" -> "waiting_delay"
      [] kind = "wait_for_event" -> "waiting_event"
      [] OTHER -> "none"

\* Mutation: the paused step is not recorded on the run.
PauseWithoutStep(w, s) ==
    /\ Executing(w, s)
    /\ PauseOf(Kind[s]) # "none"
    /\ SaveAndReturn(w, [Record(mem[w].st, s, PauseOf(Kind[s]))
                         EXCEPT !.status = PauseOf(Kind[s])])

Pause(w, s) ==
    /\ Executing(w, s)
    /\ PauseOf(Kind[s]) # "none"
    /\ SaveAndReturn(w, [Record(mem[w].st, s, PauseOf(Kind[s]))
                         EXCEPT !.status = PauseOf(Kind[s]), !.waiting = s])

\* A step that raises fails the run, whatever its on_failure says.
StepRaises(w, s) ==
    /\ Executing(w, s)
    /\ SaveAndReturn(w, [Record(mem[w].st, s, "failed") EXCEPT !.status = "failed"])

\* _attempt_replan: the failed step is marked, the steps without a result give
\* way to new ones, and the run is executed again.  replan_workflow (an LLM)
\* returns any steps that have no result yet, the failed one included.  Nothing
\* checks that they have an order: they may form a cycle, and the failed step, which
\* is kept, is then in the definition twice, which the sort refuses if an edge
\* leads to it.
Replan(w, s, new) ==
    LET defn == (mem[w].st.defn \ Pending(mem[w].st)) \cup {s} \cup new IN
    /\ Executing(w, s)
    /\ mem[w].call = "execute"
    /\ ReplanOnFailure
    /\ mem[w].st.replans < MaxReplans
    /\ new # {}
    /\ \A t \in new : mem[w].st.results[t] = "none"
    /\ \E broken \in BOOLEAN :
          /\ s \in new /\ (\E d \in defn \ {s} : d \in DependsOn[s] \/ Fallback[d] = s) => broken
          /\ SaveAndReturn(w, [Record(mem[w].st, s, "replanned")
                  EXCEPT !.replans = mem[w].st.replans + 1, !.defn = defn, !.broken = broken])

(***************************************************************************)
(* Resuming, timing out and cancelling a run                                *)
(***************************************************************************)
LoadForHitl(w) == row.status = "waiting_hitl" /\ Load(w, "hitl", "execute")

\* The paused step gets its result and the run its status; nobody waits.
Settle(st, r, status) ==
    [Record(st, st.waiting, r) EXCEPT !.status = status, !.waiting = None]

Approve(w) ==
    /\ mem[w].pc = "hitl"
    /\ SaveAndReturn(w, Settle(mem[w].st, "completed", "running"))

Reject(w) ==
    /\ mem[w].pc = "hitl"
    /\ SaveAndReturn(w, Settle(mem[w].st, "rejected", "failed"))

\* timeout_workflow_hitl: escalated once, then failed.
Escalate(w) ==
    /\ mem[w].pc = "hitl"
    /\ mem[w].st.waiting \notin mem[w].st.escalated
    /\ SaveAndReturn(w, [mem[w].st EXCEPT
                            !.escalated = mem[w].st.escalated \cup {mem[w].st.waiting}])

HitlTimesOut(w) ==
    /\ mem[w].pc = "hitl"
    /\ SaveAndReturn(w, Settle(mem[w].st, "timed_out", "failed"))

LoadForWait(w) ==
    row.status \in {"waiting_delay", "waiting_event"} /\ Load(w, "wait", "execute")

\* resume_from_wait, resume_from_event and the task resume_workflow_wait
ResumeFromWait(w) ==
    /\ mem[w].pc = "wait"
    /\ SaveAndReturn(w, Settle(mem[w].st, "completed", "running"))

TimeoutEventWait(w) ==
    /\ mem[w].pc = "wait"
    /\ mem[w].st.status = "waiting_event"
    /\ SaveAndReturn(w, Settle(mem[w].st, "timed_out", "running"))

\* cancel looks at no status, and leaves waiting_step_id in place.
LoadForCancel(w) == row.version < MaxVersion /\ Load(w, "cancel", "execute")

Cancel(w) ==
    /\ mem[w].pc = "cancel"
    /\ SaveAndReturn(w, [mem[w].st EXCEPT !.status = "cancelled"])

\* The process dies, or the database refuses a call.
Crash(w) ==
    /\ mem[w].pc # "idle"
    /\ mem' = [mem EXCEPT ![w] = Idle]
    /\ UNCHANGED <<row, begun, expired, override>>

Expire ==
    /\ HasTimeout
    /\ ~expired
    /\ expired' = TRUE
    /\ UNCHANGED <<row, mem, begun, override>>

\* An operator sets an override or releases it.
SetOrRelease ==
    /\ override' = ~override
    /\ UNCHANGED <<row, mem, begun, expired>>

Search(w) ==
    \/ Recheck(w) \/ Complete(w)
    \/ \E s \in Steps : Halt(w, s) \/ TimeOut(w, s) \/ Skip(w, s) \/ Begin(w, s)

Return(w) ==
    \E s \in Steps :
        \/ \E r \in {"completed", "failed", "other"} : StepReturns(w, s, r)
        \/ StepBranches(w, s) \/ Pause(w, s) \/ StepRaises(w, s)
        \/ \E new \in SUBSET Steps : Replan(w, s, new)

Resume(w) ==
    \/ LoadForHitl(w) \/ Approve(w) \/ Reject(w) \/ Escalate(w) \/ HitlTimesOut(w)
    \/ LoadForWait(w) \/ ResumeFromWait(w) \/ TimeoutEventWait(w)

Act(w) ==
    \/ \E call \in Calls : Drive(w, call)
    \/ Search(w) \/ Return(w) \/ Resume(w)
    \/ LoadForCancel(w) \/ Cancel(w)

NextWithoutCrash == (\E w \in Workers : Act(w)) \/ Expire \/ SetOrRelease
Next == NextWithoutCrash \/ \E w \in Workers : Crash(w)

Spec == Init /\ [][Next]_vars

\* A process that lives goes on with its call.  A run that nobody holds is driven
\* while it is running: the background executor calls execute_next until the run
\* leaves running, and whoever resumes it calls execute next.
Fairness ==
    /\ WF_vars(\E w \in Workers : \E call \in Calls : Drive(w, call))
    /\ \A w \in Workers : WF_vars(mem[w].pc # "idle" /\ Act(w))

FairSpec == Init /\ [][NextWithoutCrash]_vars /\ Fairness

(***************************************************************************)
(* Properties                                                               *)
(***************************************************************************)
\* A finished run stays finished: no executor, resume or timeout that was still
\* at work brings it back or touches its results.  Only cancel, which looks at
\* no status, may still rename the end (engine.py cancel, StaleStateError).
FinishedStaysFinished ==
    [][row.status \in Terminal =>
         /\ row'.status \in {row.status, "cancelled"}
         /\ row'.results = row.results]_vars

\* A result, once it is not a pause, is never replaced: of two processes that
\* execute the same step only one records what it returned.
ResultsAreFinal ==
    [][\A s \in Steps : row.results[s] \notin {"none"} \cup Waiting =>
                            row'.results[s] = row.results[s]]_vars

\* No step is begun, by any process and at any time, unless every step it
\* depends on has completed for good; a dependency it is the fallback of may
\* have ended otherwise (_check_dependencies, over a copy that may be stale).
DependenciesHonoured ==
    \A s \in begun : \A d \in DependsOn[s] :
        \/ row.results[d] = "completed"
        \/ Fallback[d] = s /\ row.results[d] # "none"

\* A fallback is begun only after a step it stands in for has failed.
FallbackOnlyAfterFailure ==
    \A s \in begun : Sources(s, row) # {} => \E d \in Sources(s, row) : row.results[d] = "failed"

Answered(st) ==
    /\ st.status \in {"running", "completed"} =>
         \A s \in Steps : st.results[s] \notin Waiting
    /\ st.status \in Waiting =>
         /\ st.waiting \in Steps
         /\ st.results[st.waiting] = st.status
         /\ \A s \in Steps \ {st.waiting} : st.results[s] \notin Waiting

\* A pause is never left behind: a run that goes on or has completed has no step
\* still waiting, and a paused run names the one step that is, so that a
\* decision, a timer or an event can be recorded on it (resume_from_hitl,
\* resume_from_wait).
PausesAreAnswered == Answered(row)

\* A completed run has run or skipped every step of its definition, and every
\* failure in it was one its step allows.  A step that returned another status
\* (timed_out and cancelled among them) is no failure to the engine.
CompletedIsComplete ==
    row.status = "completed" =>
        \A s \in row.defn :
            /\ row.results[s] # "none"
            /\ row.results[s] = "failed" => AllowsFailure(s)

\* A process that is still in a call when the run is cancelled, times out or
\* fails begins at most one more step before it notices.
OneStepAfterTheEnd == \A w \in Workers : mem[w].late <= 1

\* A step is skipped for a reason that lasts: the path not taken, a dependency
\* that ended other than completed or is no part of the definition, or a fallback
\* nobody needs.  It is never skipped because a dependency had not been reached.
SkippedForCause ==
    \A s \in Steps : row.results[s] = "skipped" =>
        \/ \E c \in Steps : Kind[c] = "condition" /\ row.results[c] = "completed"
                            /\ s \in {TruePath[c], FalsePath[c]}
        \/ \E d \in DependsOn[s] : row.results[d] \notin {"none", "completed"} \cup Waiting
        \/ \E d \in DependsOn[s] : d \notin row.defn
        \/ /\ Sources(s, row) # {}
           /\ \A d \in Sources(s, row) : row.results[d] \notin {"none", "failed"}

\* A run no operator holds, whose processes live, does not stay running: it ends,
\* or pauses for a person, a delay or an event (execute, execute_next), unless a
\* re-plan gave it steps without an order, over which every call raises.  Who
\* drives a run that is held is module HaltRetry.
RunMoves == []~override => []<>(row.status # "running" \/ row.broken)
=============================================================================
