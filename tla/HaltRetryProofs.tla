-------------------------- MODULE HaltRetryProofs --------------------------
(***************************************************************************)
(* A run that has not been paused is left without a driver only by a holder  *)
(* that was lost unrecorded, for any number of steps, messages and mishaps, *)
(* when the sweep is enabled and holders refresh their record in time.      *)
(* SomebodyDrives is not inductive: a task whose save was refused lets go   *)
(* of a running run.  The invariant says that there is then another,        *)
(* current one: of the tasks a run may have (a sweep that dies adds one),   *)
(* the task that saved last goes on.                                        *)
(*                                                                          *)
(* The second half is about the drivers of a run and the rows in which they *)
(* mirror it (RunMirror).                                                   *)
(***************************************************************************)
EXTENDS HaltRetry, Integers, TLAPS

\* A leaf that names no prover is Zenon's; those with arithmetic are for SMT.
USE Zenon

On(m) == task[m].pc # "off"

\* A task that has not been overtaken and is not about to let go.
Current(m) ==
    /\ task[m].pc \notin {"off", "clear"}
    /\ task[m].pc = "exec" => task[m].seen = done

\* The executor and the queue never hold the run at once.
ApiAlone == \A m \in Messages : On(m) => api.pc = "off"

\* A sleeping executor has left a record, and the sweep finds none it refreshes.
Recorded ==
    /\ api.pc = "asleep" => marker # "none"
    /\ marker = "stale" => api.pc = "off"

Driven ==
    status = "running" =>
        \/ api.pc # "off"
        \/ \E m \in Messages : Current(m)
        \/ marker # "none" /\ \A m \in Messages : ~On(m)

Unpaused ==
    /\ status # "waiting"
    /\ resumer.pc = "off"
    /\ ApiAlone
    /\ Recorded
    /\ Driven

\* The runs the property is about.
Plain == pauses = 0 /\ ~closed /\ ~lost

Inv == TypeOK /\ (Plain => Unpaused)

\* A driver that is at a point of its call, or executes a step, is a driver.
LEMMA Drivers ==
    /\ \A pc \in {"off", "queued", "load", "drive", "exec", "halted", "asleep", "clear"} :
           At(pc) \in Driver /\ At(pc).pc = pc
    /\ \A n \in Nat : LET d == [pc |-> "exec", seen |-> n] IN
           d \in Driver /\ d.pc = "exec" /\ d.seen = n
BY DEF At, Driver

LEMMA InvInit == Init => Inv
<1> SUFFICES ASSUME Init PROVE Inv
  OBVIOUS
<1>1. TypeOK
  <2>1. done \in Nat /\ pauses \in 0..MaxPauses /\ mishaps \in Nat
    BY HaltAssumption, SMT DEF Init
  <2> QED BY <2>1, Drivers DEF Init, TypeOK
<1>2. Unpaused
  BY Drivers DEF Init, Unpaused, ApiAlone, Recorded, Driven, On
<1> QED BY <1>1, <1>2 DEF Inv

\* The background executor.
LEMMA ApiMoves ==
    ASSUME Inv, PromptHolders = TRUE, SweepEnabled = TRUE, Api \/ ApiRestart \/ ApiRaises
    PROVE  Inv'
<1> USE HaltAssumption, Drivers
<1>1. CASE ApiDrive
  <2>1. TypeOK'
    BY <1>1 DEF Inv, TypeOK, ApiDrive, ApiUnchanged
  <2>2. ASSUME Plain' PROVE Unpaused'
    BY <1>1, <2>2 DEF Plain, Inv, TypeOK, ApiDrive, ApiUnchanged, Unpaused, ApiAlone, Recorded, Driven, On, Current,
                      Held
  <2> QED BY <2>1, <2>2 DEF Inv
<1>2. CASE ApiStep
  <2>1. TypeOK'
    BY <1>2, SMT DEF Inv, TypeOK, ApiStep, ApiUnchanged, StepSaved, StepRefused
  <2>2. ASSUME Plain' PROVE Unpaused'
    BY <1>2, <2>2, SMT DEF Plain, Inv, TypeOK, ApiStep, ApiUnchanged, StepSaved, StepRefused, Unpaused, ApiAlone,
                           Recorded, Driven, On, Current, Held
  <2> QED BY <2>1, <2>2 DEF Inv
<1>3. CASE ApiSchedule
  <2>1. TypeOK'
    BY <1>3 DEF Inv, TypeOK, ApiSchedule, ApiUnchanged, Enqueue
  <2>2. ASSUME Plain' PROVE Unpaused'
    BY <1>3, <2>2 DEF Plain, Inv, TypeOK, ApiSchedule, ApiUnchanged, Enqueue, Unpaused, ApiAlone, Recorded, Driven, On,
                      Current, Held
  <2> QED BY <2>1, <2>2 DEF Inv
<1>4. CASE ApiRecord
  <2>1. TypeOK'
    BY <1>4 DEF Inv, TypeOK, ApiRecord, ApiUnchanged
  <2>2. ASSUME Plain' PROVE Unpaused'
    BY <1>4, <2>2 DEF Plain, Inv, TypeOK, ApiRecord, ApiUnchanged, Unpaused, ApiAlone, Recorded, Driven, On, Current,
                      Held
  <2> QED BY <2>1, <2>2 DEF Inv
<1>5. CASE ApiWake
  <2>1. TypeOK'
    BY <1>5 DEF Inv, TypeOK, ApiWake, ApiUnchanged
  <2>2. ASSUME Plain' PROVE Unpaused'
    BY <1>5, <2>2 DEF Plain, Inv, TypeOK, ApiWake, ApiUnchanged, Unpaused, ApiAlone, Recorded, Driven, On, Current,
                      Held
  <2> QED BY <2>1, <2>2 DEF Inv
<1>6. CASE ApiRestart
  <2>1. TypeOK'
    BY <1>6 DEF Inv, TypeOK, ApiRestart, HolderLost
  <2>2. ASSUME Plain' PROVE Unpaused'
    BY <1>6, <2>2 DEF Plain, Inv, TypeOK, ApiRestart, HolderLost, Unpaused, ApiAlone, Recorded, Driven, On, Current,
                      Held
  <2> QED BY <2>1, <2>2 DEF Inv
<1>7. CASE ApiRaises
  BY <1>7 DEF Inv, TypeOK, Plain, ApiRaises
<1> QED BY <1>1, <1>2, <1>3, <1>4, <1>5, <1>6, <1>7 DEF Api

\* The task of a message.
LEMMA TaskMoves ==
    ASSUME Inv, PromptHolders = TRUE, SweepEnabled = TRUE, NEW m \in Messages,
           Task(m) \/ TaskLost(m) \/ TaskRaises(m)
    PROVE  Inv'
<1> USE HaltAssumption, Drivers
<1>1. CASE TaskBegin(m)
  <2>1. TypeOK'
    BY <1>1 DEF Inv, TypeOK, TaskBegin, TaskGoes
  <2>2. ASSUME Plain' PROVE Unpaused'
    BY <1>1, <2>2 DEF Plain, Inv, TypeOK, TaskBegin, TaskGoes, Unpaused, ApiAlone, Recorded, Driven, On, Current, Held
  <2> QED BY <2>1, <2>2 DEF Inv
<1>2. CASE TaskLoad(m)
  <2>1. TypeOK'
    BY <1>2 DEF Inv, TypeOK, TaskLoad, TaskGoes
  <2>2. ASSUME Plain' PROVE Unpaused'
    BY <1>2, <2>2 DEF Plain, Inv, TypeOK, TaskLoad, TaskGoes, Unpaused, ApiAlone, Recorded, Driven, On, Current, Held
  <2> QED BY <2>1, <2>2 DEF Inv
<1>3. CASE TaskDrive(m)
  <2>1. TypeOK'
    BY <1>3 DEF Inv, TypeOK, TaskDrive, TaskGoes
  <2>2. ASSUME Plain' PROVE Unpaused'
    BY <1>3, <2>2 DEF Plain, Inv, TypeOK, TaskDrive, TaskGoes, Unpaused, ApiAlone, Recorded, Driven, On, Current, Held
  <2> QED BY <2>1, <2>2 DEF Inv
<1>4. CASE TaskStep(m)
  <2>1. TypeOK'
    BY <1>4, SMT DEF Inv, TypeOK, TaskStep, TaskGoes, StepSaved, StepRefused
  <2>2. ASSUME Plain' PROVE Unpaused'
    BY <1>4, <2>2, SMT DEF Plain, Inv, TypeOK, TaskStep, TaskGoes, StepSaved, StepRefused, Unpaused, ApiAlone,
                           Recorded, Driven, On, Current, Held
  <2> QED BY <2>1, <2>2 DEF Inv
<1>5. CASE TaskRetry(m)
  <2>1. TypeOK'
    BY <1>5 DEF Inv, TypeOK, TaskRetry, TaskGoes
  <2>2. ASSUME Plain' PROVE Unpaused'
    BY <1>5, <2>2 DEF Plain, Inv, TypeOK, TaskRetry, TaskGoes, Unpaused, ApiAlone, Recorded, Driven, On, Current, Held
  <2> QED BY <2>1, <2>2 DEF Inv
<1>6. CASE TaskDone(m)
  <2>1. TypeOK'
    BY <1>6 DEF Inv, TypeOK, TaskDone, TaskGoes
  <2>2. ASSUME Plain' PROVE Unpaused'
    BY <1>6, <2>2, SMT DEF Plain, Inv, TypeOK, TaskDone, TaskGoes, Unpaused, ApiAlone, Recorded, Driven, On, Current,
                           Held
  <2> QED BY <2>1, <2>2 DEF Inv
<1>7. CASE TaskLost(m)
  <2>1. TypeOK'
    BY <1>7, SMT DEF Inv, TypeOK, TaskLost, Mishap, TaskGoes
  <2>2. ASSUME Plain' PROVE Unpaused'
    BY <1>7, <2>2, SMT DEF Plain, Inv, TypeOK, TaskLost, Mishap, TaskGoes, Unpaused, ApiAlone, Recorded, Driven, On, Current,
                           Held
  <2> QED BY <2>1, <2>2 DEF Inv
<1>8. CASE TaskRaises(m)
  <2>1. TypeOK'
    <3>1. mishaps' \in Nat
      BY <1>8, SMT DEF Inv, TypeOK, TaskRaises, Mishap
    <3> QED BY <1>8, <3>1 DEF Inv, TypeOK, TaskRaises, TaskGoes, HolderLost
  <2>2. ASSUME Plain' PROVE Unpaused'
    <3>1. CASE task' = [task EXCEPT ![m] = At("queued")] /\ UNCHANGED lost
      BY <1>8, <2>2, <3>1, SMT DEF Plain, Inv, TypeOK, TaskRaises, Mishap, TaskGoes, Unpaused, ApiAlone,
                               Recorded, Driven, On, Current, Held
    <3>2. CASE task' = [task EXCEPT ![m] = At("off")] /\ HolderLost(marker # "none")
      <4>1. marker' # "none" /\ api'.pc = "off" /\ (\A n \in Messages : ~On(n)')
        <5>1. marker # "none" /\ ~Held'
          BY <2>2, <3>2 DEF Plain, HolderLost
        <5>2. marker' = marker
          BY <1>8 DEF TaskRaises
        <5> QED BY <5>1, <5>2 DEF Held, On
      <4>2. Plain /\ UNCHANGED <<status, resumer, api, marker>>
        <5>1. ~lost
          BY <2>2, <3>2 DEF Plain, HolderLost
        <5>2. UNCHANGED <<status, pauses, resumer, api, marker, closed>>
          BY <1>8 DEF TaskRaises, TaskGoes
        <5> QED BY <2>2, <5>1, <5>2 DEF Plain
      <4> QED BY <4>1, <4>2 DEF Inv, Unpaused, ApiAlone, Recorded, Driven, On
    <3> QED BY <1>8, <3>1, <3>2 DEF TaskRaises, TaskGoes
  <2> QED BY <2>1, <2>2 DEF Inv
<1> QED BY <1>1, <1>2, <1>3, <1>4, <1>5, <1>6, <1>7, <1>8 DEF Task

\* The record goes stale, and the sweep queues a run nobody holds.
LEMMA SweepMoves ==
    ASSUME Inv, PromptHolders = TRUE, SweepEnabled = TRUE, GoesStale \/ Sweep \/ SweepDies
    PROVE  Inv'
<1> USE HaltAssumption, Drivers
<1>1. CASE GoesStale
  <2>1. TypeOK'
    BY <1>1 DEF Inv, TypeOK, GoesStale
  <2>2. ASSUME Plain' PROVE Unpaused'
    BY <1>1, <2>2 DEF Plain, Inv, TypeOK, GoesStale, Unpaused, ApiAlone, Recorded, Driven, On, Current, Held
  <2> QED BY <2>1, <2>2 DEF Inv
<1>2. CASE Sweep
  <2>1. TypeOK'
    BY <1>2 DEF Inv, TypeOK, Sweep, Enqueue
  <2>2. ASSUME Plain' PROVE Unpaused'
    BY <1>2, <2>2 DEF Plain, Inv, TypeOK, Sweep, Enqueue, Unpaused, ApiAlone, Recorded, Driven, On, Current, Held
  <2> QED BY <2>1, <2>2 DEF Inv
<1>3. CASE SweepDies
  <2>1. TypeOK'
    BY <1>3 DEF Inv, TypeOK, SweepDies, Enqueue
  <2>2. ASSUME Plain' PROVE Unpaused'
    BY <1>3, <2>2 DEF Plain, Inv, TypeOK, SweepDies, Enqueue, Unpaused, ApiAlone, Recorded, Driven, On, Current, Held
  <2> QED BY <2>1, <2>2 DEF Inv
<1> QED BY <1>1, <1>2, <1>3

\* A paused run is resumed.
LEMMA ResumerMoves ==
    ASSUME Inv, PromptHolders = TRUE, SweepEnabled = TRUE, Resume \/ Resumer
    PROVE  Inv'
<1> USE HaltAssumption, Drivers
<1>1. CASE Resume
  <2>1. TypeOK'
    BY <1>1, SMT DEF Inv, TypeOK, Resume, ResumerUnchanged
  <2>2. ASSUME Plain' PROVE Unpaused'
    BY <1>1, <2>2 DEF Plain, Inv, TypeOK, Resume, ResumerUnchanged, Unpaused, ApiAlone, Recorded, Driven, On, Current,
                      Held
  <2> QED BY <2>1, <2>2 DEF Inv
<1>2. CASE ResumerDrive
  <2>1. TypeOK'
    BY <1>2 DEF Inv, TypeOK, ResumerDrive, ResumerUnchanged
  <2>2. ASSUME Plain' PROVE Unpaused'
    BY <1>2, <2>2 DEF Plain, Inv, TypeOK, ResumerDrive, ResumerUnchanged, Unpaused, ApiAlone, Recorded, Driven, On,
                      Current, Held
  <2> QED BY <2>1, <2>2 DEF Inv
<1>3. CASE ResumerStep
  <2>1. TypeOK'
    BY <1>3, SMT DEF Inv, TypeOK, ResumerStep, ResumerUnchanged, StepSaved, StepRefused
  <2>2. ASSUME Plain' PROVE Unpaused'
    BY <1>3, <2>2, SMT DEF Plain, Inv, TypeOK, ResumerStep, ResumerUnchanged, StepSaved, StepRefused, Unpaused,
                           ApiAlone, Recorded, Driven, On, Current, Held
  <2> QED BY <2>1, <2>2 DEF Inv
<1> QED BY <1>1, <1>2, <1>3 DEF Resumer

\* A cancel, an operator, the broker.
LEMMA EnvironmentMoves ==
    ASSUME Inv, PromptHolders = TRUE, SweepEnabled = TRUE, Cancel \/ SetOrRelease \/ BrokerChanges
    PROVE  Inv'
<1> USE HaltAssumption, Drivers
<1>1. CASE Cancel
  <2>1. TypeOK'
    BY <1>1 DEF Inv, TypeOK, Cancel
  <2>2. ASSUME Plain' PROVE Unpaused'
    BY <1>1, <2>2 DEF Plain, Inv, TypeOK, Cancel, Unpaused, ApiAlone, Recorded, Driven, On, Current, Held
  <2> QED BY <2>1, <2>2 DEF Inv
<1>2. CASE SetOrRelease
  <2>1. TypeOK'
    BY <1>2 DEF Inv, TypeOK, SetOrRelease
  <2>2. ASSUME Plain' PROVE Unpaused'
    BY <1>2, <2>2 DEF Plain, Inv, TypeOK, SetOrRelease, Unpaused, ApiAlone, Recorded, Driven, On, Current, Held
  <2> QED BY <2>1, <2>2 DEF Inv
<1>3. CASE BrokerChanges
  <2>1. TypeOK'
    BY <1>3 DEF Inv, TypeOK, BrokerChanges
  <2>2. ASSUME Plain' PROVE Unpaused'
    BY <1>3, <2>2 DEF Plain, Inv, TypeOK, BrokerChanges, Unpaused, ApiAlone, Recorded, Driven, On, Current, Held
  <2> QED BY <2>1, <2>2 DEF Inv
<1> QED BY <1>1, <1>2, <1>3

LEMMA InvNext ==
    ASSUME PromptHolders = TRUE, SweepEnabled = TRUE
    PROVE  Inv /\ [Next]_vars => Inv'
<1> SUFFICES ASSUME Inv, [Next]_vars PROVE Inv'
  OBVIOUS
<1>1. CASE UNCHANGED vars
  BY <1>1 DEF vars, Inv, TypeOK, Plain, Unpaused, ApiAlone, Recorded, Driven, On, Current
<1>2. CASE Next
  BY <1>2, ApiMoves, TaskMoves, SweepMoves, ResumerMoves, EnvironmentMoves DEF Next
<1> QED BY <1>1, <1>2

\* With the recovery sweep enabled and records refreshed in time, a running run
\* that has not been paused has a driver or a record the sweep will find, whatever
\* overrides, broker outages, restarts, lost workers and failing tasks interleave,
\* unless its executor failed or a holder went with no record or beside another
\* holder (record_halt_retry, resume_halted_workflow, recover_halted_workflows).
THEOREM SomebodyAlwaysDrives ==
    ASSUME PromptHolders = TRUE, SweepEnabled = TRUE
    PROVE  Spec => []SomebodyDrives
<1>1. Inv => SomebodyDrives
  BY DEF Inv, Plain, Unpaused, Driven, Current, SomebodyDrives, Held
<1>2. Inv /\ [Next]_vars => Inv'
  BY InvNext
<1> QED BY <1>1, <1>2, InvInit, PTL DEF Spec

(***************************************************************************)
(* The mirror of a run                                                     *)
(*                                                                         *)
(* As long as no two syncs overlap, one session at most has the rows, and  *)
(* what it knows of the missing ones is true (Apart).  While, besides,     *)
(* nothing failed and nobody cancelled, a session holds a state the engine *)
(* was in (Past), and unless that is its state now, some driver has yet to *)
(* load (Knows); the rows never hold a result the engine does not          *)
(* (RowsFollow).  So whoever syncs last brings the rows up to the engine.  *)
(***************************************************************************)
CONSTANTS N, Approvals, Waits, MaxFaults
VARIABLES engine, row, stepRows, items, driver, cancel, counted, faults, overlapped

Mirror == INSTANCE RunMirror

\* Approvals and delays are among the steps.
MirrorSetup == N \in Nat /\ Approvals \subseteq 1..N /\ Waits \subseteq 1..N /\ MaxFaults \in Nat

Statuses == Mirror!Terminal \cup Mirror!Paused \cup {"running"}
Results == {"none", "completed", "failed", "rejected", "cancelled"} \cup Mirror!Paused
RunRows == [status : Statuses, known : BOOLEAN, ab : BOOLEAN]
Places ==
    {"off", "begin", "pump", "exec", "resume", "load", "read", "count", "commit", "finally", "outcome", "error", "mark"}
DriverStates ==
    [pc : Places, st : Mirror!States, seen : RunRows, absent : SUBSET Mirror!Steps, reject : BOOLEAN]

MirrorTyped ==
    /\ engine \in Mirror!States
    /\ row \in RunRows
    /\ stepRows \in [Mirror!Steps -> [n : Nat, status : Results]]
    /\ items \in [Mirror!Steps -> [raised : Nat, open : Nat]]
    /\ driver \in [Mirror!Drivers -> DriverStates]
    /\ cancel \in [pc : {"off", "engine", "commit", "done"}, steps : SUBSET Mirror!Steps]
    /\ counted \in Nat /\ faults \in 0..MaxFaults /\ overlapped \in BOOLEAN

\* What the engine leaves in a state: a run that goes on has no result for the
\* next step, and one that waits for a person has "waiting_hitl".
Sane(st) ==
    /\ st.status = "running" => st.next = "none"
    /\ st.status = "waiting_hitl" => st.next = "waiting_hitl" /\ st.done < N

\* A driver begins a step of a run that goes on.
SaneStates ==
    /\ Sane(engine)
    /\ \A d \in Mirror!Drivers :
          Sane(driver[d].st) /\ (driver[d].pc = "exec" => driver[d].st.status = "running")

\* One driver moves.
Moves(d, r) == driver' = [driver EXCEPT ![d] = r]

LEMMA Moved ==
    ASSUME MirrorTyped, NEW d \in Mirror!Drivers, NEW r \in DriverStates, Moves(d, r)
    PROVE  /\ driver' \in [Mirror!Drivers -> DriverStates]
           /\ driver'[d] = r
           /\ \A e \in Mirror!Drivers \ {d} : driver'[e] = driver[e]
BY DEF MirrorTyped, Moves

LEMMA OffFields ==
    ASSUME MirrorSetup, NEW pc \in Places
    PROVE  LET r == [Mirror!Off EXCEPT !.pc = pc]
           IN  r \in DriverStates /\ r.pc = pc /\ r.st = Mirror!NoState /\ Sane(r.st) /\ r.st.status = "running"
<1>1. Mirror!NoState \in Mirror!States /\ Sane(Mirror!NoState) /\ Mirror!NoState.status = "running"
  BY SMT DEF Mirror!NoState, Mirror!States, Sane, MirrorSetup
<1>2. Mirror!NoRow \in RunRows
  BY DEF Mirror!NoRow, RunRows, Statuses
<1> DEFINE r == [Mirror!Off EXCEPT !.pc = pc]
<1>3. r \in DriverStates /\ r.pc = pc /\ r.st = Mirror!NoState
  BY <1>1, <1>2 DEF Mirror!Off, DriverStates
<1> HIDE DEF r
<1>4. r \in DriverStates /\ r.pc = pc /\ r.st = Mirror!NoState /\ Sane(r.st) /\ r.st.status = "running"
  BY <1>1, <1>3
<1> QED BY <1>4 DEF r

LEMMA WentTo ==
    ASSUME MirrorSetup, MirrorTyped, NEW d \in Mirror!Drivers, NEW pc \in Places, Mirror!Goto(d, pc)
    PROVE  /\ driver' \in [Mirror!Drivers -> DriverStates]
           /\ driver'[d].pc = pc /\ driver'[d].st = Mirror!NoState
           /\ Sane(driver'[d].st) /\ driver'[d].st.status = "running"
           /\ \A e \in Mirror!Drivers \ {d} : driver'[e] = driver[e]
<1> DEFINE r == [Mirror!Off EXCEPT !.pc = pc]
<1>1. r \in DriverStates /\ r.pc = pc /\ r.st = Mirror!NoState /\ Sane(r.st) /\ r.st.status = "running"
  BY OffFields
<1>2. driver' = [driver EXCEPT ![d] = r]
  BY DEF Mirror!Goto
<1> HIDE DEF r
<1>3. Moves(d, r)
  BY <1>2 DEF Moves
<1> QED BY <1>1, <1>3, Moved

LEMMA StateFields ==
    ASSUME MirrorSetup, NEW st \in Mirror!States
    PROVE  /\ st.status \in Statuses /\ st.done \in 0..N
           /\ st.next \in {"none", "failed", "rejected"} \cup Mirror!Paused
           /\ st = [status |-> st.status, done |-> st.done, next |-> st.next]
BY DEF Mirror!States, Statuses

\* A step of the engine: it leaves no terminal state, no result is taken back, and
\* a run comes to wait at a step without one.
Progress(st, to) ==
    /\ st.status \notin Mirror!Terminal
    /\ st.done <= to.done
    /\ to.done = st.done => st.next = "none" \/ to.next \notin {"none", "waiting_hitl"}
    /\ \A i \in Mirror!Steps : Mirror!ResultOf(to, i) = "none" => Mirror!ResultOf(st, i) = "none"
    /\ to.status = "waiting_hitl" => Mirror!ResultOf(st, to.done + 1) = "none"
    /\ to.next = "waiting_hitl" => to.status = "waiting_hitl"

LEMMA StateUpdates ==
    ASSUME NEW st \in Mirror!States, NEW x \in 0..N
    PROVE  /\ [st EXCEPT !.done = x] = [status |-> st.status, done |-> x, next |-> st.next]
           /\ \A s \in {"failed", "waiting_delay"} :
                [st EXCEPT !.status = s, !.next = s] = [status |-> s, done |-> st.done, next |-> s]
<1>1. [st EXCEPT !.done = x] = [status |-> st.status, done |-> x, next |-> st.next]
  BY SMT DEF Mirror!States
<1>2. ASSUME NEW s \in {"failed", "waiting_delay"}
      PROVE  [st EXCEPT !.status = s, !.next = s] = [status |-> s, done |-> st.done, next |-> s]
  <2> DEFINE r == [st EXCEPT !.status = s, !.next = s]
  <2>1. r \in Mirror!States /\ r.status = s /\ r.done = st.done /\ r.next = s
    BY DEF Mirror!States, Mirror!Terminal, Mirror!Paused
  <2> HIDE DEF r
  <2>2. r = [status |-> r.status, done |-> r.done, next |-> r.next]
    BY <2>1 DEF Mirror!States
  <2>3. r = [status |-> s, done |-> st.done, next |-> s]
    BY <2>1, <2>2
  <2> QED BY <2>3 DEF r
<1> QED BY <1>1, <1>2

LEMMA Advances ==
    ASSUME MirrorSetup, engine \in Mirror!States, Sane(engine), engine.status = "running",
           NEW to \in Mirror!Advanced
    PROVE  to \in Mirror!States /\ Sane(to) /\ Progress(engine, to)
<1> DEFINE st == engine
           i == st.done + 1
<1>1. st.done \in 0..N /\ st.next = "none" /\ st = [status |-> "running", done |-> st.done, next |-> "none"]
  BY StateFields DEF Sane
<1>2. \/ i > N /\ to = [status |-> "completed", done |-> st.done, next |-> "none"]
      \/ i \in 1..N /\ to = [status |-> "waiting_hitl", done |-> st.done, next |-> "waiting_hitl"]
      \/ i \in 1..N /\ to = [status |-> "waiting_delay", done |-> st.done, next |-> "waiting_delay"]
      \/ i \in 1..N /\ to = [status |-> "running", done |-> i, next |-> "none"]
      \/ i \in 1..N /\ to = [status |-> "failed", done |-> st.done, next |-> "failed"]
  <2>1. CASE i > N
    <3>1. to = [st EXCEPT !.status = "completed"]
      BY <2>1 DEF Mirror!Advanced
    <3> QED BY <1>1, <2>1, <3>1
  <2>2. CASE ~(i > N) /\ i \in Approvals
    <3>1. to = [st EXCEPT !.status = "waiting_hitl", !.next = "waiting_hitl"]
      BY <2>2 DEF Mirror!Advanced
    <3> QED BY <1>1, <2>2, <3>1 DEF MirrorSetup
  <2>3. CASE ~(i > N) /\ i \notin Approvals
    <3>1. \/ to = [st EXCEPT !.done = i]
          \/ to = [st EXCEPT !.status = "failed", !.next = "failed"]
          \/ to = [st EXCEPT !.status = "waiting_delay", !.next = "waiting_delay"]
      BY <2>3 DEF Mirror!Advanced
    <3>2. i \in 1..N
      BY <1>1, <2>3, SMT DEF MirrorSetup
    <3>3. /\ [st EXCEPT !.done = i] = [status |-> "running", done |-> i, next |-> "none"]
          /\ [st EXCEPT !.status = "failed", !.next = "failed"] = [status |-> "failed", done |-> st.done, next |-> "failed"]
          /\ [st EXCEPT !.status = "waiting_delay", !.next = "waiting_delay"]
             = [status |-> "waiting_delay", done |-> st.done, next |-> "waiting_delay"]
      <4>1. st.status = "running" /\ st.next = "none" /\ st \in Mirror!States
        BY <1>1
      <4>2. i \in 0..N
        BY <3>2, SMT
      <4> HIDE DEF st, i
      <4> QED BY <4>1, <4>2, StateUpdates
    <3> QED BY <3>1, <3>2, <3>3
  <2> QED BY <2>1, <2>2, <2>3
<1> HIDE DEF st
<1>3. to \in Mirror!States /\ Sane(to)
  BY <1>1, <1>2, SMT DEF MirrorSetup, Mirror!States, Mirror!Terminal, Mirror!Paused, Sane
<1>4. Progress(st, to)
  BY <1>1, <1>2, SMT DEF MirrorSetup, Mirror!ResultOf, Mirror!Steps, Progress, Mirror!Terminal
<1> QED BY <1>3, <1>4 DEF st

\* resume_from_hitl decides the step that waits.
LEMMA Resumes ==
    ASSUME MirrorSetup, engine \in Mirror!States, Sane(engine), engine.status = "waiting_hitl", NEW to,
           \/ to = [engine EXCEPT !.status = "failed", !.next = "rejected"]
           \/ to = [status |-> "running", done |-> engine.done + 1, next |-> "none"]
    PROVE  to \in Mirror!States /\ Sane(to) /\ Progress(engine, to) /\ to.status \in {"running", "failed"}
<1>1. engine.done \in 0..N /\ engine.done < N /\ engine.next = "waiting_hitl"
      /\ engine = [status |-> "waiting_hitl", done |-> engine.done, next |-> "waiting_hitl"]
  BY StateFields DEF Sane
<1> DEFINE k == engine.done
<1>2. \/ to = [status |-> "failed", done |-> k, next |-> "rejected"]
      \/ to = [status |-> "running", done |-> k + 1, next |-> "none"]
  BY <1>1
<1>3. to \in Mirror!States /\ Sane(to) /\ to.status \in {"running", "failed"}
  BY <1>1, <1>2, SMT DEF MirrorSetup, Mirror!States, Mirror!Terminal, Mirror!Paused, Sane
<1>4. Progress(engine, to)
  BY <1>1, <1>2, SMT DEF MirrorSetup, Mirror!ResultOf, Mirror!Steps, Progress, Mirror!Terminal
<1> QED BY <1>3, <1>4

\* resume_workflow_wait ends the step that waits.
LEMMA Waited ==
    ASSUME MirrorSetup, engine \in Mirror!States, engine.status = "waiting_delay", NEW i \in Waits, engine.done + 1 = i,
           NEW to, to = [status |-> "running", done |-> i, next |-> "none"]
    PROVE  to \in Mirror!States /\ Sane(to) /\ Progress(engine, to)
<1>1. engine.done \in 0..N /\ i \in 1..N
  BY StateFields DEF MirrorSetup
<1>2. to \in Mirror!States /\ Sane(to)
  BY <1>1, SMT DEF MirrorSetup, Mirror!States, Mirror!Terminal, Mirror!Paused, Sane
<1>3. Progress(engine, to)
  BY <1>1, SMT DEF MirrorSetup, Mirror!ResultOf, Mirror!Steps, Progress, Mirror!Terminal
<1> QED BY <1>2, <1>3

LEMMA CancelSane ==
    ASSUME MirrorSetup, engine \in Mirror!States, Sane(engine), NEW to, to = [engine EXCEPT !.status = "cancelled"]
    PROVE  to \in Mirror!States /\ Sane(to)
BY DEF Mirror!States, Sane, Mirror!Terminal, Mirror!Paused

Base == MirrorTyped /\ SaneStates

LEMMA BaseInit == ASSUME MirrorSetup, Mirror!Init PROVE Base
<1>1. Mirror!NoState \in Mirror!States /\ Sane(Mirror!NoState)
  BY SMT DEF Mirror!NoState, Mirror!States, Sane, MirrorSetup
<1>2. Mirror!NoRow \in RunRows
  BY DEF Mirror!NoRow, RunRows, Statuses
<1>3. Mirror!Off \in DriverStates /\ [Mirror!Off EXCEPT !.pc = "begin"] \in DriverStates
      /\ Mirror!Off.st = Mirror!NoState /\ [Mirror!Off EXCEPT !.pc = "begin"].st = Mirror!NoState
      /\ Mirror!Off.pc = "off" /\ [Mirror!Off EXCEPT !.pc = "begin"].pc = "begin"
  BY <1>1, <1>2 DEF Mirror!Off, DriverStates, Places
<1>4. /\ driver \in [Mirror!Drivers -> DriverStates]
      /\ \A d \in Mirror!Drivers : driver[d].st = Mirror!NoState /\ driver[d].pc # "exec"
  BY <1>3 DEF Mirror!Init
<1>5. /\ stepRows \in [Mirror!Steps -> [n : Nat, status : Results]]
      /\ items \in [Mirror!Steps -> [raised : Nat, open : Nat]]
      /\ cancel \in [pc : {"off", "engine", "commit", "done"}, steps : SUBSET Mirror!Steps]
      /\ counted \in Nat /\ faults \in 0..MaxFaults /\ overlapped \in BOOLEAN
  <2>1. [n |-> 0, status |-> "none"] \in [n : Nat, status : Results] /\ [raised |-> 0, open |-> 0] \in [raised : Nat, open : Nat]
    BY DEF Results
  <2>2. 0 \in 0..MaxFaults
    BY SMT DEF MirrorSetup
  <2> QED BY <2>1, <2>2 DEF Mirror!Init
<1> QED BY <1>1, <1>2, <1>4, <1>5 DEF Mirror!Init, Base, MirrorTyped, SaneStates

LEMMA DriverFields ==
    ASSUME MirrorTyped, NEW d \in Mirror!Drivers
    PROVE  /\ driver[d] \in DriverStates /\ driver[d].pc \in Places /\ driver[d].st \in Mirror!States
           /\ driver[d].seen \in RunRows /\ driver[d].seen.status \in Statuses /\ driver[d].seen.ab \in BOOLEAN
           /\ driver[d].absent \in SUBSET Mirror!Steps
<1>1. driver[d] \in DriverStates
  BY DEF MirrorTyped
<1>2. /\ driver[d].pc \in Places /\ driver[d].st \in Mirror!States
      /\ driver[d].seen \in RunRows /\ driver[d].absent \in SUBSET Mirror!Steps
  BY <1>1 DEF DriverStates
<1> QED BY <1>1, <1>2 DEF RunRows

\* The engine moves on, or nothing does, and a driver with it.
LEMMA BaseEngine ==
    ASSUME MirrorSetup, Base, NEW d \in Mirror!Drivers, NEW pc \in Places, Mirror!Goto(d, pc),
           engine' \in Mirror!States, Sane(engine)',
           UNCHANGED <<row, stepRows, items, counted, cancel, faults, overlapped>>
    PROVE  Base'
<1>1. MirrorTyped'
  BY WentTo DEF Base, MirrorTyped
<1>2. /\ Sane(driver'[d].st) /\ driver'[d].st.status = "running"
      /\ \A e \in Mirror!Drivers \ {d} : driver'[e] = driver[e]
  BY WentTo DEF Base
<1>3. \A e \in Mirror!Drivers : Sane(driver'[e].st) /\ (driver'[e].pc = "exec" => driver'[e].st.status = "running")
  BY <1>2 DEF Base, SaneStates
<1> QED BY <1>1, <1>3 DEF Base, SaneStates, Sane

\* The status of the row, or the mark on it, is written by a driver.
LEMMA BaseRow ==
    ASSUME MirrorSetup, Base, NEW d \in Mirror!Drivers, NEW pc \in Places, Mirror!Goto(d, pc),
           row' \in RunRows, stepRows' \in [Mirror!Steps -> [n : Nat, status : Results]],
           items' \in [Mirror!Steps -> [raised : Nat, open : Nat]], counted' \in Nat, faults' \in 0..MaxFaults,
           UNCHANGED <<engine, cancel, overlapped>>
    PROVE  Base'
<1>1. MirrorTyped'
  BY WentTo DEF Base, MirrorTyped
<1>2. /\ Sane(driver'[d].st) /\ driver'[d].st.status = "running"
      /\ \A e \in Mirror!Drivers \ {d} : driver'[e] = driver[e]
  BY WentTo DEF Base
<1>3. \A e \in Mirror!Drivers : Sane(driver'[e].st) /\ (driver'[e].pc = "exec" => driver'[e].st.status = "running")
  BY <1>2 DEF Base, SaneStates
<1> QED BY <1>1, <1>3 DEF Base, SaneStates, Sane

\* A driver notes what it reads.
LEMMA BaseRead ==
    ASSUME MirrorSetup, Base, NEW d \in Mirror!Drivers, NEW r \in DriverStates, Moves(d, r),
           Sane(r.st), r.pc = "exec" => r.st.status = "running",
           items' \in [Mirror!Steps -> [raised : Nat, open : Nat]], counted' \in Nat, overlapped' \in BOOLEAN,
           UNCHANGED <<engine, row, stepRows, cancel, faults>>
    PROVE  Base'
<1>1. MirrorTyped'
  BY Moved DEF Base, MirrorTyped
<1>2. driver'[d] = r /\ \A e \in Mirror!Drivers \ {d} : driver'[e] = driver[e]
  BY Moved DEF Base
<1>3. \A e \in Mirror!Drivers : Sane(driver'[e].st) /\ (driver'[e].pc = "exec" => driver'[e].st.status = "running")
  BY <1>2 DEF Base, SaneStates
<1> QED BY <1>1, <1>3 DEF Base, SaneStates, Sane

\* What RowWritten leaves on the row.
LEMMA RowIsWritten ==
    ASSUME MirrorTyped, NEW d \in Mirror!Drivers, row' = Mirror!RowWritten(d)
    PROVE  /\ row' \in RunRows
           /\ row'.status = IF Mirror!StatusOf(d) = driver[d].seen.status THEN row.status ELSE Mirror!StatusOf(d)
           /\ row'.ab <=> row.ab \/ (d # 0 /\ Mirror!Counts(d, Mirror!StatusOf(d)))
<1>1. Mirror!StatusOf(d) \in Statuses
  BY DriverFields DEF Mirror!StatusOf, Mirror!States, Statuses
<1>2. row \in RunRows /\ row.status \in Statuses
  BY DEF MirrorTyped, RunRows
<1> DEFINE to == IF Mirror!StatusOf(d) = driver[d].seen.status THEN row.status ELSE Mirror!StatusOf(d)
           mark == row.ab \/ (d # 0 /\ Mirror!Counts(d, Mirror!StatusOf(d)))
<1>3. to \in Statuses /\ mark \in BOOLEAN
  BY <1>1, <1>2
<1>4. row' = [row EXCEPT !.status = to, !.ab = mark]
  BY DEF Mirror!RowWritten
<1> HIDE DEF to, mark
<1>5. row' \in RunRows /\ row'.status = to /\ row'.ab = mark
  BY <1>2, <1>3, <1>4 DEF RunRows
<1> QED BY <1>5 DEF to, mark

LEMMA RowStatus ==
    ASSUME MirrorTyped, NEW to \in Statuses, row' = [row EXCEPT !.status = to]
    PROVE  row' \in RunRows /\ row'.status = to /\ row'.ab = row.ab
<1>1. row \in RunRows
  BY DEF MirrorTyped
<1> QED BY <1>1 DEF RunRows

LEMMA RowMark ==
    ASSUME MirrorTyped, NEW mark \in BOOLEAN, row' = [row EXCEPT !.ab = @ \/ mark]
    PROVE  row' \in RunRows /\ row'.status = row.status /\ (row'.ab <=> row.ab \/ mark)
<1>1. row \in RunRows
  BY DEF MirrorTyped
<1> DEFINE m == row.ab \/ mark
<1>2. row' = [row EXCEPT !.ab = m] /\ m \in BOOLEAN
  OBVIOUS
<1> HIDE DEF m
<1>3. row' \in RunRows /\ row'.status = row.status /\ row'.ab = m
  BY <1>1, <1>2 DEF RunRows
<1> QED BY <1>3 DEF m

\* The steps a session writes.
LEMMA StepsWritten ==
    ASSUME MirrorSetup, MirrorTyped, NEW d \in Mirror!Drivers, stepRows' = Mirror!Upserted(d), items' = Mirror!Raised(d)
    PROVE  /\ stepRows' \in [Mirror!Steps -> [n : Nat, status : Results]]
           /\ items' \in [Mirror!Steps -> [raised : Nat, open : Nat]]
           /\ \A i \in Mirror!Steps :
                LET result == Mirror!ResultOf(driver[d].st, i)
                    new == i \in driver[d].absent /\ result # "none"
                IN  /\ stepRows'[i].n = IF new THEN stepRows[i].n + 1 ELSE stepRows[i].n
                    /\ stepRows'[i].status = IF result = "none" THEN stepRows[i].status ELSE result
                    /\ items'[i].raised = IF new /\ result = "waiting_hitl" THEN items[i].raised + 1 ELSE items[i].raised
                    /\ items'[i].open = IF new /\ result = "waiting_hitl" THEN items[i].open + 1 ELSE items[i].open
<1>1. ASSUME NEW i \in Mirror!Steps
      PROVE  LET result == Mirror!ResultOf(driver[d].st, i)
                 new == i \in driver[d].absent /\ result # "none"
             IN  /\ stepRows'[i] \in [n : Nat, status : Results] /\ items'[i] \in [raised : Nat, open : Nat]
                 /\ stepRows'[i].n = IF new THEN stepRows[i].n + 1 ELSE stepRows[i].n
                 /\ stepRows'[i].status = IF result = "none" THEN stepRows[i].status ELSE result
                 /\ items'[i].raised = IF new /\ result = "waiting_hitl" THEN items[i].raised + 1 ELSE items[i].raised
                 /\ items'[i].open = IF new /\ result = "waiting_hitl" THEN items[i].open + 1 ELSE items[i].open
  <2> DEFINE result == Mirror!ResultOf(driver[d].st, i)
             new == i \in driver[d].absent /\ result # "none"
  <2>1. result \in Results
    BY DriverFields, StateFields DEF Mirror!ResultOf, Results
  <2>2. stepRows[i] \in [n : Nat, status : Results] /\ items[i] \in [raised : Nat, open : Nat]
    BY DEF MirrorTyped
  <2>3. new <=> i \in Mirror!Created(d)
    BY DriverFields DEF Mirror!Created
  <2>4. stepRows'[i] = IF result = "none" THEN stepRows[i]
                       ELSE [n |-> stepRows[i].n + (IF new THEN 1 ELSE 0), status |-> result]
    BY <2>3 DEF Mirror!Upserted
  <2>5. items'[i] = IF new /\ result = "waiting_hitl"
                    THEN [raised |-> items[i].raised + 1, open |-> items[i].open + 1] ELSE items[i]
    BY <2>3 DEF Mirror!Raised
  <2> HIDE DEF result
  <2>6. /\ stepRows'[i] \in [n : Nat, status : Results]
        /\ stepRows'[i].n = IF new THEN stepRows[i].n + 1 ELSE stepRows[i].n
        /\ stepRows'[i].status = IF result = "none" THEN stepRows[i].status ELSE result
    BY <2>1, <2>2, <2>4, SMT
  <2>7. /\ items'[i] \in [raised : Nat, open : Nat]
        /\ items'[i].raised = IF new /\ result = "waiting_hitl" THEN items[i].raised + 1 ELSE items[i].raised
        /\ items'[i].open = IF new /\ result = "waiting_hitl" THEN items[i].open + 1 ELSE items[i].open
    BY <2>2, <2>5, SMT
  <2> QED BY <2>6, <2>7 DEF result
<1>2. /\ stepRows' \in [Mirror!Steps -> [n : Nat, status : Results]]
      /\ items' \in [Mirror!Steps -> [raised : Nat, open : Nat]]
  <2>1. DOMAIN stepRows' = Mirror!Steps /\ stepRows' = [i \in Mirror!Steps |-> stepRows'[i]]
    BY DEF Mirror!Upserted
  <2>2. DOMAIN items' = Mirror!Steps /\ items' = [i \in Mirror!Steps |-> items'[i]]
    BY DEF Mirror!Raised
  <2> QED BY <1>1, <2>1, <2>2
<1> QED BY <1>1, <1>2

LEMMA BaseStep == ASSUME MirrorSetup, Base, [Mirror!Next]_(Mirror!vars) PROVE Base'
<1> USE DEF Mirror!Rows
<1>0. MirrorTyped /\ SaneStates /\ 0 \in Mirror!Drivers
  BY SMT DEF Base, MirrorSetup, Mirror!Drivers
<1>1. ASSUME NEW d \in Mirror!Drivers, Mirror!Pump(d) PROVE Base'
  <2>1. CASE engine.status = "running"
    <3> DEFINE r == [driver[d] EXCEPT !.pc = "exec", !.st = engine]
    <3>1. r \in DriverStates /\ r.st = engine
      BY <1>0, DriverFields DEF MirrorTyped, DriverStates, Places
    <3>2. Moves(d, r)
      BY <1>1, <2>1 DEF Mirror!Pump, Moves
    <3> HIDE DEF r
    <3>3. Sane(r.st) /\ r.st.status = "running"
      BY <1>0, <2>1, <3>1 DEF SaneStates
    <3>4. /\ items' \in [Mirror!Steps -> [raised : Nat, open : Nat]] /\ counted' \in Nat /\ overlapped' \in BOOLEAN
          /\ UNCHANGED <<engine, row, stepRows, cancel, faults>>
      BY <1>0, <1>1 DEF Mirror!Pump, MirrorTyped
    <3> QED BY <3>1, <3>2, <3>3, <3>4, BaseRead
  <2>2. CASE engine.status # "running"
    <3>1. Mirror!Goto(d, "load") /\ "load" \in Places
          /\ UNCHANGED <<engine, row, stepRows, items, counted, cancel, faults, overlapped>>
      BY <1>1, <2>2 DEF Mirror!Pump, Places
    <3>2. engine' \in Mirror!States /\ Sane(engine)'
      BY <1>0, <3>1 DEF SaneStates, MirrorTyped, Sane
    <3> QED BY <3>1, <3>2, BaseEngine
  <2> QED BY <2>1, <2>2
<1>20. ASSUME NEW d \in Mirror!Drivers, Mirror!Exec(d) PROVE Base'
  <2>1. PICK pc \in Places :
          Mirror!Goto(d, pc) /\ (engine' = engine \/ (engine = driver[d].st /\ engine' \in Mirror!Advanced))
    BY <1>20 DEF Mirror!Exec, Places
  <2>2. engine = driver[d].st => engine.status = "running"
    BY <1>0, <1>20 DEF SaneStates, Mirror!Exec, Mirror!At
  <2>3. engine' \in Mirror!States /\ Sane(engine)'
    BY <1>0, <2>1, <2>2, Advances DEF SaneStates, MirrorTyped, Sane
  <2> QED BY <1>20, <2>1, <2>3, BaseEngine DEF Mirror!Exec
<1>21. ASSUME NEW i \in Waits, Mirror!WaitOver(i) PROVE Base'
  <2>1. engine' \in Mirror!States /\ Sane(engine)'
    BY <1>0, <1>21, Waited DEF Mirror!WaitOver, SaneStates, MirrorTyped, Sane
  <2>2. i \in Mirror!Drivers
    BY SMT DEF MirrorSetup, Mirror!Drivers
  <2>3. Mirror!Goto(i, "pump") /\ "pump" \in Places
    BY <1>21 DEF Mirror!WaitOver, Places
  <2> QED BY <1>21, <2>1, <2>2, <2>3, BaseEngine DEF Mirror!WaitOver
<1>2. ASSUME NEW d \in Mirror!Drivers, Mirror!Resume(d) PROVE Base'
  <2>1. PICK pc \in Places :
          /\ Mirror!Goto(d, pc)
          /\ \/ engine' = engine
             \/ /\ engine.status = "waiting_hitl"
                /\ \/ engine' = [engine EXCEPT !.status = "failed", !.next = "rejected"]
                   \/ engine' = [status |-> "running", done |-> engine.done + 1, next |-> "none"]
    BY <1>2 DEF Mirror!Resume, Places
  <2>2. engine' \in Mirror!States /\ Sane(engine)'
    BY <1>0, <2>1, Resumes DEF SaneStates, MirrorTyped, Sane
  <2> QED BY <1>2, <2>1, <2>2, BaseEngine DEF Mirror!Resume
<1>3. ASSUME NEW d \in Mirror!Drivers, Mirror!Load(d) PROVE Base'
  <2> DEFINE r == [driver[d] EXCEPT !.pc = "read", !.st = engine]
  <2>1. r \in DriverStates /\ r.st = engine /\ r.pc = "read"
    BY <1>0, DriverFields DEF MirrorTyped, DriverStates, Places
  <2>2. Moves(d, r)
    BY <1>3 DEF Mirror!Load, Moves
  <2> HIDE DEF r
  <2>3. Sane(r.st) /\ r.pc # "exec"
    BY <1>0, <2>1 DEF SaneStates
  <2>4. items' \in [Mirror!Steps -> [raised : Nat, open : Nat]] /\ counted' \in Nat /\ overlapped' \in BOOLEAN
    BY <1>0, <1>3 DEF Mirror!Load, MirrorTyped
  <2> QED BY <1>3, <2>1, <2>2, <2>3, <2>4, BaseRead DEF Mirror!Load
<1>4. ASSUME NEW d \in Mirror!Drivers, Mirror!Read(d) PROVE Base'
  <2>1. CASE \E i \in Mirror!Steps : stepRows[i].n > 1
    <3>1. Mirror!Goto(d, Mirror!Handler(d)) /\ Mirror!Handler(d) \in Places
          /\ UNCHANGED <<engine, row, stepRows, items, counted, cancel, faults, overlapped>>
      BY <1>4, <2>1 DEF Mirror!Read, Mirror!Handler, Places
    <3>2. engine' \in Mirror!States /\ Sane(engine)'
      BY <1>0, <3>1 DEF SaneStates, MirrorTyped, Sane
    <3> QED BY <3>1, <3>2, BaseEngine
  <2>2. CASE ~\E i \in Mirror!Steps : stepRows[i].n > 1
    <3>1. PICK pc \in {"commit", "count"}, absent \in SUBSET Mirror!Steps :
            driver' = [driver EXCEPT ![d].pc = pc, ![d].seen = row, ![d].absent = absent]
      BY <1>4, <2>2 DEF Mirror!Read
    <3> DEFINE r == [driver[d] EXCEPT !.pc = pc, !.seen = row, !.absent = absent]
    <3>2. r \in DriverStates /\ r.st = driver[d].st /\ r.pc = pc
      BY <1>0, DriverFields, ZenonT(40) DEF MirrorTyped, DriverStates, Places
    <3>3. Moves(d, r)
      BY <3>1 DEF Moves
    <3> HIDE DEF r
    <3>4. Sane(r.st) /\ r.pc # "exec"
      BY <1>0, <3>2 DEF SaneStates
    <3>5. /\ items' \in [Mirror!Steps -> [raised : Nat, open : Nat]] /\ counted' \in Nat /\ overlapped' \in BOOLEAN
          /\ UNCHANGED <<engine, row, stepRows, cancel, faults>>
      BY <1>0, <1>4 DEF Mirror!Read, MirrorTyped
    <3> QED BY <3>2, <3>3, <3>4, <3>5, BaseRead
  <2> QED BY <2>1, <2>2
<1>5. ASSUME NEW d \in Mirror!Drivers, Mirror!Count(d) PROVE Base'
  <2> DEFINE r == [driver[d] EXCEPT !.pc = "commit"]
  <2>1. r \in DriverStates /\ r.st = driver[d].st /\ r.pc = "commit"
    BY <1>0, DriverFields DEF MirrorTyped, DriverStates, Places
  <2>2. Moves(d, r)
    BY <1>5 DEF Mirror!Count, Moves
  <2> HIDE DEF r
  <2>3. Sane(r.st) /\ r.pc # "exec"
    BY <1>0, <2>1 DEF SaneStates
  <2>4. counted' \in Nat
    BY <1>0, <1>5, SMT DEF Mirror!Count, MirrorTyped
  <2>5. items' \in [Mirror!Steps -> [raised : Nat, open : Nat]] /\ overlapped' \in BOOLEAN
    BY <1>0, <1>5 DEF Mirror!Count, MirrorTyped
  <2> QED BY <1>5, <2>1, <2>2, <2>3, <2>4, <2>5, BaseRead DEF Mirror!Count
<1>6. ASSUME NEW d \in Mirror!Drivers, Mirror!Commit(d) PROVE Base'
  <2>1. row' \in RunRows /\ stepRows' \in [Mirror!Steps -> [n : Nat, status : Results]]
        /\ items' \in [Mirror!Steps -> [raised : Nat, open : Nat]]
    BY <1>0, <1>6, StepsWritten, RowIsWritten DEF Mirror!Commit
  <2>2. PICK pc \in Places : Mirror!Goto(d, pc)
    BY <1>6 DEF Mirror!Commit, Places
  <2>3. counted' \in Nat /\ faults' \in 0..MaxFaults
    BY <1>0, <1>6 DEF Mirror!Commit, MirrorTyped
  <2> QED BY <1>6, <2>1, <2>2, <2>3, BaseRow DEF Mirror!Commit
<1>7. ASSUME NEW d \in Mirror!Drivers, Mirror!ResumeError(d) PROVE Base'
  <2>1. row' \in RunRows
    BY <1>0, <1>7, RowStatus DEF Mirror!ResumeError, Statuses, Mirror!Terminal
  <2>2. Mirror!Goto(d, "off") /\ "off" \in Places
    BY <1>7 DEF Mirror!ResumeError, Places
  <2> QED BY <1>0, <1>7, <2>1, <2>2, BaseRow DEF Mirror!ResumeError, MirrorTyped
<1>8. CASE Mirror!Begin
  <2>1. row' \in RunRows
    <3>1. row \in RunRows /\ row' = [row EXCEPT !.known = TRUE]
      BY <1>0, <1>8 DEF Mirror!Begin, MirrorTyped
    <3> QED BY <3>1 DEF RunRows
  <2>2. Mirror!Goto(0, "pump") /\ "pump" \in Places
    BY <1>8 DEF Mirror!Begin, Places
  <2> QED BY <1>0, <1>8, <2>1, <2>2, BaseRow DEF Mirror!Begin, MirrorTyped
<1>9. CASE Mirror!Finally \/ Mirror!ErrorRead
  <2>1. PICK pc \in {"outcome", "mark"} : driver' = [driver EXCEPT ![0].pc = pc, ![0].seen = row]
    BY <1>9 DEF Mirror!Finally, Mirror!ErrorRead
  <2> DEFINE r == [driver[0] EXCEPT !.pc = pc, !.seen = row]
  <2>2. r \in DriverStates /\ r.st = driver[0].st /\ r.pc = pc
    BY <1>0, DriverFields DEF MirrorTyped, DriverStates, Places
  <2>3. Moves(0, r)
    BY <2>1 DEF Moves
  <2> HIDE DEF r
  <2>4. Sane(r.st) /\ r.pc # "exec"
    BY <1>0, <2>2 DEF SaneStates
  <2>5. /\ items' \in [Mirror!Steps -> [raised : Nat, open : Nat]] /\ counted' \in Nat /\ overlapped' \in BOOLEAN
        /\ UNCHANGED <<engine, row, stepRows, cancel, faults>>
    BY <1>0, <1>9 DEF Mirror!Finally, Mirror!ErrorRead, MirrorTyped
  <2> QED BY <1>0, <2>2, <2>3, <2>4, <2>5, BaseRead
<1>10. CASE Mirror!Outcome
  <2>1. row' \in RunRows
    <3>1. Mirror!Counts(0, driver[0].seen.status) \in BOOLEAN
      BY DEF Mirror!Counts
    <3> QED BY <1>0, <1>10, <3>1, RowMark DEF Mirror!Outcome
  <2>2. Mirror!Goto(0, "off") /\ "off" \in Places /\ counted' \in Nat
    BY <1>0, <1>10, SMT DEF Mirror!Outcome, Places, MirrorTyped
  <2> QED BY <1>0, <1>10, <2>1, <2>2, BaseRow DEF Mirror!Outcome, MirrorTyped
<1>11. CASE Mirror!ErrorWrite
  <2>1. row' \in RunRows
    BY <1>0, <1>11, RowStatus DEF Mirror!ErrorWrite, Statuses, Mirror!Terminal, MirrorTyped
  <2>2. Mirror!Goto(0, "finally") /\ "finally" \in Places
    BY <1>11 DEF Mirror!ErrorWrite, Places
  <2> QED BY <1>0, <1>11, <2>1, <2>2, BaseRow DEF Mirror!ErrorWrite, MirrorTyped
<1>12. ASSUME NEW d \in Mirror!Drivers, Mirror!Raise(d) \/ Mirror!Crash(d) PROVE Base'
  <2>1. PICK pc \in Places : Mirror!Goto(d, pc)
    BY <1>12 DEF Mirror!Raise, Mirror!Crash, Mirror!Handler, Places
  <2>2. faults' \in 0..MaxFaults
    BY <1>0, <1>12, SMT DEF Mirror!Raise, Mirror!Crash, MirrorTyped, MirrorSetup
  <2>3. UNCHANGED <<engine, row, stepRows, items, counted, cancel, overlapped>>
    BY <1>12 DEF Mirror!Raise, Mirror!Crash
  <2> QED BY <1>0, <2>1, <2>2, <2>3, BaseRow DEF MirrorTyped
<1>13. ASSUME NEW i \in Approvals, NEW reject \in BOOLEAN, Mirror!Decide(i, reject) PROVE Base'
  <2>0. i \in Mirror!Drivers /\ i \in Mirror!Steps
    BY SMT DEF MirrorSetup, Mirror!Drivers, Mirror!Steps
  <2> DEFINE r == [Mirror!Off EXCEPT !.pc = "resume", !.reject = reject]
  <2>1. Mirror!NoState \in Mirror!States /\ Sane(Mirror!NoState) /\ Mirror!NoRow \in RunRows
    <3>1. Mirror!NoState \in Mirror!States /\ Sane(Mirror!NoState)
      BY SMT DEF Mirror!NoState, Mirror!States, Sane, MirrorSetup
    <3>2. Mirror!NoRow \in RunRows
      BY DEF Mirror!NoRow, RunRows, Statuses
    <3> QED BY <3>1, <3>2
  <2>2. r \in DriverStates /\ r.st = Mirror!NoState /\ r.pc = "resume"
    BY <2>1 DEF Mirror!Off, DriverStates, Places
  <2>3. Moves(i, r)
    BY <1>13 DEF Mirror!Decide, Moves
  <2> HIDE DEF r
  <2>4. items' \in [Mirror!Steps -> [raised : Nat, open : Nat]]
    BY <1>0, <1>13, <2>0, SMT DEF Mirror!Decide, MirrorTyped
  <2>5. counted' \in Nat /\ overlapped' \in BOOLEAN
    BY <1>0, <1>13 DEF Mirror!Decide, MirrorTyped
  <2>6. Sane(r.st) /\ r.pc # "exec"
    BY <2>1, <2>2
  <2> QED BY <1>13, <2>0, <2>2, <2>3, <2>4, <2>5, <2>6, BaseRead DEF Mirror!Decide
<1>14. ASSUME cancel' \in [pc : {"off", "engine", "commit", "done"}, steps : SUBSET Mirror!Steps],
              engine' \in Mirror!States, Sane(engine)', row' \in RunRows,
              stepRows' \in [Mirror!Steps -> [n : Nat, status : Results]], UNCHANGED <<items, driver, counted, faults, overlapped>>
       PROVE  Base'
  BY <1>0, <1>14 DEF Base, MirrorTyped, SaneStates, Sane
<1>15. CASE Mirror!CancelRead
  <2>1. cancel' \in [pc : {"off", "engine", "commit", "done"}, steps : SUBSET Mirror!Steps]
    BY <1>15 DEF Mirror!CancelRead
  <2> QED BY <1>0, <1>14, <1>15, <2>1 DEF Mirror!CancelRead, MirrorTyped, SaneStates, Sane
<1>16. ASSUME NEW ok \in BOOLEAN, Mirror!CancelEngine(ok) PROVE Base'
  <2>1. cancel' \in [pc : {"off", "engine", "commit", "done"}, steps : SUBSET Mirror!Steps]
    BY <1>0, <1>16 DEF Mirror!CancelEngine, MirrorTyped
  <2>2. engine' \in Mirror!States /\ Sane(engine)'
    BY <1>0, <1>16, CancelSane DEF Mirror!CancelEngine, MirrorTyped, SaneStates, Sane
  <2> QED BY <1>0, <1>14, <1>16, <2>1, <2>2 DEF Mirror!CancelEngine, MirrorTyped
<1>17. CASE Mirror!CancelCommit
  <2>1. cancel' \in [pc : {"off", "engine", "commit", "done"}, steps : SUBSET Mirror!Steps]
    BY <1>0, <1>17 DEF Mirror!CancelCommit, MirrorTyped
  <2>2. row' \in RunRows
    BY <1>0, <1>17, RowStatus DEF Mirror!CancelCommit, Statuses, Mirror!Terminal
  <2>3. stepRows' \in [Mirror!Steps -> [n : Nat, status : Results]]
    BY <1>0, <1>17 DEF Mirror!CancelCommit, MirrorTyped, Results
  <2> QED BY <1>0, <1>14, <1>17, <2>1, <2>2, <2>3 DEF Mirror!CancelCommit, MirrorTyped, SaneStates, Sane
<1>18. CASE UNCHANGED Mirror!vars
  BY <1>0, <1>14, <1>18 DEF Mirror!vars, MirrorTyped, SaneStates, Sane
<1> QED BY <1>1, <1>2, <1>3, <1>4, <1>5, <1>6, <1>7, <1>8, <1>9, <1>10, <1>11, <1>12, <1>13, <1>15, <1>16,
           <1>17, <1>18, <1>20, <1>21
        DEF Mirror!Next, Mirror!Drive, Mirror!Sync

\* For any run, approvals and faults: a terminal row of workflow_runs changes its
\* status only through the commit of a cancellation, the error handler of a resume,
\* or a session that had read the row before it was terminal
\* (_execute_workflow_bg, _resume_workflow_bg, cancel_workflow_run).
THEOREM OnlyRacesOverwrite ==
    ASSUME MirrorSetup
    PROVE  Mirror!Spec => Mirror!OnlyRacesReopen
<1> DEFINE A == row.status \in Mirror!Terminal /\ row'.status # row.status =>
         \/ cancel.pc = "commit" /\ cancel'.pc = "done"
         \/ \E d \in Mirror!Drivers : d # 0 /\ Mirror!At(d, "error") /\ driver'[d].pc = "off"
         \/ \E d \in Mirror!Drivers : /\ driver[d].pc \in {"commit", "mark"} /\ driver'[d].pc # driver[d].pc
                                      /\ driver[d].seen.status \notin Mirror!Terminal
<1>1. ASSUME Base, [Mirror!Next]_(Mirror!vars) PROVE A
  <2> SUFFICES ASSUME row.status \in Mirror!Terminal, row'.status # row.status
               PROVE  \/ cancel.pc = "commit" /\ cancel'.pc = "done"
                      \/ \E d \in Mirror!Drivers : d # 0 /\ Mirror!At(d, "error") /\ driver'[d].pc = "off"
                      \/ \E d \in Mirror!Drivers : /\ driver[d].pc \in {"commit", "mark"} /\ driver'[d].pc # driver[d].pc
                                                   /\ driver[d].seen.status \notin Mirror!Terminal
    OBVIOUS
  <2>0. MirrorTyped /\ 0 \in Mirror!Drivers /\ row \in RunRows
    BY <1>1, SMT DEF Base, MirrorTyped, MirrorSetup, Mirror!Drivers
  <2>1. CASE \E d \in Mirror!Drivers : Mirror!Commit(d)
    <3>1. PICK d \in Mirror!Drivers : Mirror!Commit(d)
      BY <2>1
    <3>2. driver[d].seen.status \notin Mirror!Terminal
      BY <2>0, <3>1, RowIsWritten DEF Mirror!Commit, Mirror!StatusOf
    <3>3. PICK pc \in {"off", "finally", "pump"} : Mirror!Goto(d, pc)
      BY <3>1 DEF Mirror!Commit
    <3>4. driver'[d].pc = pc /\ driver[d].pc = "commit"
      BY <2>0, <3>1, <3>3, WentTo DEF Mirror!Commit, Mirror!At, Places
    <3> QED BY <3>2, <3>3, <3>4
  <2>2. CASE \E d \in Mirror!Drivers : Mirror!ResumeError(d)
    <3>1. PICK d \in Mirror!Drivers : Mirror!ResumeError(d)
      BY <2>2
    <3>2. driver'[d].pc = "off"
      BY <2>0, <3>1, WentTo DEF Mirror!ResumeError, Places
    <3> QED BY <3>1, <3>2 DEF Mirror!ResumeError
  <2>3. CASE Mirror!ErrorWrite
    <3>1. driver'[0].pc = "finally" /\ driver[0].pc = "mark"
      BY <2>0, <2>3, WentTo DEF Mirror!ErrorWrite, Places, Mirror!At
    <3>2. driver[0].seen.status \notin Mirror!Terminal
      BY <2>3 DEF Mirror!ErrorWrite
    <3> QED BY <2>0, <3>1, <3>2
  <2>4. CASE Mirror!CancelCommit
    <3>1. cancel \in [pc : {"off", "engine", "commit", "done"}, steps : SUBSET Mirror!Steps]
      BY <2>0 DEF MirrorTyped
    <3> QED BY <2>4, <3>1 DEF Mirror!CancelCommit
  <2>5. CASE Mirror!Begin
    <3>1. row' = [row EXCEPT !.known = TRUE]
      BY <2>5 DEF Mirror!Begin
    <3>2. row'.status = row.status
      BY <2>0, <3>1 DEF RunRows
    <3> QED BY <3>2
  <2>6. CASE Mirror!Outcome
    <3>1. Mirror!Counts(0, driver[0].seen.status) \in BOOLEAN
      BY DEF Mirror!Counts
    <3> QED BY <2>0, <2>6, <3>1, RowMark DEF Mirror!Outcome
  <2>7. row' # row
    OBVIOUS
  <2>8. ASSUME NEW d \in Mirror!Drivers, Mirror!Drive(d) \/ Mirror!Raise(d) \/ Mirror!Crash(d)
        PROVE  Mirror!Commit(d) \/ Mirror!ResumeError(d) \/ Mirror!ErrorWrite \/ Mirror!Begin \/ Mirror!Outcome
    BY <2>7, <2>8 DEF Mirror!Drive, Mirror!Sync, Mirror!Pump, Mirror!Exec, Mirror!Resume, Mirror!Load, Mirror!Read,
                      Mirror!Count, Mirror!Finally, Mirror!ErrorRead, Mirror!Raise, Mirror!Crash, Mirror!Rows
  <2>9. ~(\E i \in Approvals, reject \in BOOLEAN : Mirror!Decide(i, reject)) /\ ~Mirror!CancelRead
        /\ ~(\E i \in Waits : Mirror!WaitOver(i)) /\ ~(\E ok \in BOOLEAN : Mirror!CancelEngine(ok)) /\ ~UNCHANGED Mirror!vars
    BY <2>7 DEF Mirror!Decide, Mirror!WaitOver, Mirror!CancelRead, Mirror!CancelEngine, Mirror!vars, Mirror!Rows
  <2> QED BY <1>1, <2>1, <2>2, <2>3, <2>4, <2>5, <2>6, <2>8, <2>9 DEF Mirror!Next
<1>2. Base /\ [Mirror!Next]_(Mirror!vars) => [A]_(Mirror!vars)
  BY <1>1
<1>3. Mirror!Init => Base
  BY BaseInit
<1>4. Base /\ [Mirror!Next]_(Mirror!vars) => Base'
  BY BaseStep
<1>5. Mirror!Spec => [][A]_(Mirror!vars)
  BY <1>2, <1>3, <1>4, PTL DEF Mirror!Spec
<1> QED BY <1>5 DEF Mirror!OnlyRacesReopen

\* A driver that has yet to load the engine's state; one that has the rows.
Fresh(d) == driver[d].pc \in {"begin", "pump", "exec", "resume", "load"}
Session(d) == driver[d].pc \in {"read", "count", "commit"}
Live(d) == Fresh(d) \/ Session(d)

\* One session has the rows, and what it does not find there is not there; a
\* step has one row and one approval.
OneEach ==
    \A i \in Mirror!Steps : items[i].raised <= stepRows[i].n /\ stepRows[i].n <= 1

Apart ==
    /\ \A d, e \in Mirror!Drivers : Session(d) /\ Session(e) => d = e
    /\ OneEach
    /\ \A d \in Mirror!Drivers :
          driver[d].pc \in {"count", "commit"} => driver[d].absent = {i \in Mirror!Steps : stepRows[i].n = 0}

OpenRaised == \A i \in Mirror!Steps : items[i].open <= items[i].raised

ApartInv == OpenRaised /\ (~overlapped => Apart)

\* A driver moves and the rows stay, but for an approval that may be decided.
LEMMA ApartMove ==
    ASSUME MirrorSetup, ApartInv, NEW d \in Mirror!Drivers,
           \A e \in Mirror!Drivers \ {d} : driver'[e] = driver[e],
           Session(d)' => Session(d),
           driver'[d].pc \in {"count", "commit"} =>
               driver[d].pc \in {"count", "commit"} /\ driver'[d].absent = driver[d].absent,
           \A i \in Mirror!Steps : items'[i].raised = items[i].raised /\ items'[i].open <= items'[i].raised,
           stepRows' = stepRows, overlapped' = overlapped
    PROVE  ApartInv'
<1>1. OpenRaised'
  BY DEF OpenRaised
<1>2. ASSUME ~overlapped PROVE Apart'
  <2>1. Apart
    BY <1>2 DEF ApartInv
  <2>2. OneEach'
    BY <2>1 DEF Apart, OneEach
  <2>3. \A e \in Mirror!Drivers : Session(e)' => Session(e)
    BY DEF Session
  <2>4. \A e \in Mirror!Drivers :
          driver'[e].pc \in {"count", "commit"} =>
              driver[e].pc \in {"count", "commit"} /\ driver'[e].absent = driver[e].absent
    OBVIOUS
  <2> QED BY <2>1, <2>2, <2>3, <2>4 DEF Apart
<1> QED BY <1>1, <1>2 DEF ApartInv

\* The same for a driver that goes where it has no session.
LEMMA ApartGoto ==
    ASSUME MirrorSetup, Base, ApartInv, NEW d \in Mirror!Drivers, NEW pc \in Places, Mirror!Goto(d, pc),
           pc \notin {"read", "count", "commit"}, UNCHANGED <<items, stepRows, overlapped>>
    PROVE  ApartInv'
<1>1. driver'[d].pc = pc /\ \A e \in Mirror!Drivers \ {d} : driver'[e] = driver[e]
  BY WentTo DEF Base
<1>2. ~Session(d)'
  BY <1>1 DEF Session
<1>3. \A i \in Mirror!Steps : items'[i].raised = items[i].raised /\ items'[i].open <= items'[i].raised
  BY DEF ApartInv, OpenRaised
<1> QED BY <1>1, <1>2, <1>3, ApartMove

\* A session that commits.
LEMMA ApartCommit ==
    ASSUME MirrorSetup, Base, ApartInv, NEW d \in Mirror!Drivers, Mirror!Commit(d) PROVE ApartInv'
<1>0. MirrorTyped /\ driver[d].pc = "commit" /\ overlapped' = overlapped
  BY DEF Base, Mirror!Commit, Mirror!At
<1>1. \A i \in Mirror!Steps :
        /\ stepRows[i].n \in Nat /\ items[i].raised \in Nat /\ items[i].open \in Nat
        /\ \/ items'[i].raised = items[i].raised /\ items'[i].open = items[i].open
           \/ items'[i].raised = items[i].raised + 1 /\ items'[i].open = items[i].open + 1
        /\ \/ items'[i].raised = items[i].raised /\ stepRows'[i].n = stepRows[i].n
           \/ /\ i \in driver[d].absent
              /\ stepRows'[i].n = stepRows[i].n + 1
              /\ items'[i].raised \in {items[i].raised, items[i].raised + 1}
  <2> SUFFICES ASSUME NEW i \in Mirror!Steps
               PROVE  /\ stepRows[i].n \in Nat /\ items[i].raised \in Nat /\ items[i].open \in Nat
                      /\ \/ items'[i].raised = items[i].raised /\ items'[i].open = items[i].open
                         \/ items'[i].raised = items[i].raised + 1 /\ items'[i].open = items[i].open + 1
                      /\ \/ items'[i].raised = items[i].raised /\ stepRows'[i].n = stepRows[i].n
                         \/ /\ i \in driver[d].absent
                            /\ stepRows'[i].n = stepRows[i].n + 1
                            /\ items'[i].raised \in {items[i].raised, items[i].raised + 1}
    OBVIOUS
  <2>1. stepRows[i].n \in Nat /\ items[i].raised \in Nat /\ items[i].open \in Nat
    BY <1>0 DEF MirrorTyped
  <2> DEFINE result == Mirror!ResultOf(driver[d].st, i)
             new == i \in driver[d].absent /\ result # "none"
             ask == new /\ result = "waiting_hitl"
  <2>2. /\ stepRows'[i].n = IF new THEN stepRows[i].n + 1 ELSE stepRows[i].n
        /\ items'[i].raised = IF ask THEN items[i].raised + 1 ELSE items[i].raised
        /\ items'[i].open = IF ask THEN items[i].open + 1 ELSE items[i].open
    BY <1>0, StepsWritten DEF Mirror!Commit
  <2>3. (new => i \in driver[d].absent) /\ (ask => new)
    OBVIOUS
  <2> HIDE DEF new, ask
  <2> QED BY <2>1, <2>2, <2>3, SMT
<1>2. OpenRaised'
  <2>1. OpenRaised
    BY DEF ApartInv
  <2> QED BY <1>1, <2>1, SMT DEF OpenRaised
<1>3. ASSUME ~overlapped PROVE Apart'
  <2>1. Apart /\ Session(d) /\ \A i \in Mirror!Steps : i \in driver[d].absent => stepRows[i].n = 0
    BY <1>0, <1>3 DEF ApartInv, Apart, Session
  <2>2. OneEach'
    BY <1>1, <2>1, SMT DEF Apart, OneEach
  <2>3. PICK pc \in {"off", "finally", "pump"} : Mirror!Goto(d, pc)
    BY DEF Mirror!Commit
  <2>4. driver'[d].pc = pc /\ \A e \in Mirror!Drivers \ {d} : driver'[e] = driver[e]
    BY <1>0, <2>3, WentTo DEF Places
  <2>5. \A e \in Mirror!Drivers : ~Session(e)'
    BY <2>1, <2>4 DEF Apart, Session
  <2>6. \A e \in Mirror!Drivers : driver'[e].pc \notin {"count", "commit"}
    BY <2>5 DEF Session
  <2> QED BY <2>2, <2>5, <2>6 DEF Apart
<1> QED BY <1>0, <1>2, <1>3 DEF ApartInv

\* What a driver that reads or counts leaves of its record.
LEMMA Noted ==
    ASSUME MirrorSetup, Base, NEW d \in Mirror!Drivers
    PROVE  /\ Mirror!Load(d) => driver'[d].pc = "read" /\ driver'[d].st = engine
           /\ Mirror!Count(d) => /\ driver'[d].pc = "commit" /\ driver'[d].absent = driver[d].absent
                                 /\ driver'[d].st = driver[d].st /\ driver'[d].seen = driver[d].seen
           /\ Mirror!Read(d) /\ (\A i \in Mirror!Steps : ~(stepRows[i].n > 1)) =>
                 /\ driver'[d].pc = IF d = 0 THEN "commit" ELSE "count"
                 /\ driver'[d].st = driver[d].st /\ driver'[d].seen = row
                 /\ driver'[d].absent = {i \in Mirror!Steps : stepRows[i].n = 0}
           /\ Mirror!Load(d) \/ Mirror!Count(d)
              \/ (Mirror!Read(d) /\ (\A i \in Mirror!Steps : ~(stepRows[i].n > 1)))
              => \A e \in Mirror!Drivers \ {d} : driver'[e] = driver[e]
<1>0. driver[d] \in DriverStates /\ driver \in [Mirror!Drivers -> DriverStates]
  BY DriverFields DEF Base, MirrorTyped
<1>1. ASSUME Mirror!Load(d)
      PROVE  /\ driver'[d].pc = "read" /\ driver'[d].st = engine
             /\ \A e \in Mirror!Drivers \ {d} : driver'[e] = driver[e]
  <2>1. driver' = [driver EXCEPT ![d] = [driver[d] EXCEPT !.pc = "read", !.st = engine]]
    BY <1>1 DEF Mirror!Load
  <2> QED BY <1>0, <2>1 DEF DriverStates
<1>2. ASSUME Mirror!Count(d)
      PROVE  /\ driver'[d].pc = "commit" /\ driver'[d].absent = driver[d].absent
             /\ driver'[d].st = driver[d].st /\ driver'[d].seen = driver[d].seen
             /\ \A e \in Mirror!Drivers \ {d} : driver'[e] = driver[e]
  <2>1. driver' = [driver EXCEPT ![d] = [driver[d] EXCEPT !.pc = "commit"]]
    BY <1>2 DEF Mirror!Count
  <2> QED BY <1>0, <2>1 DEF DriverStates
<1>3. ASSUME Mirror!Read(d), \A i \in Mirror!Steps : ~(stepRows[i].n > 1)
      PROVE  /\ driver'[d].pc = IF d = 0 THEN "commit" ELSE "count"
             /\ driver'[d].st = driver[d].st /\ driver'[d].seen = row
             /\ driver'[d].absent = {i \in Mirror!Steps : stepRows[i].n = 0}
             /\ \A e \in Mirror!Drivers \ {d} : driver'[e] = driver[e]
  <2> DEFINE pc == IF d = 0 THEN "commit" ELSE "count"
             absent == {i \in Mirror!Steps : stepRows[i].n = 0}
  <2>1. driver' = [driver EXCEPT ![d] = [driver[d] EXCEPT !.pc = pc, !.seen = row, !.absent = absent]]
    BY <1>3 DEF Mirror!Read
  <2> HIDE DEF pc, absent
  <2>2. /\ driver'[d].pc = pc /\ driver'[d].st = driver[d].st /\ driver'[d].seen = row
        /\ driver'[d].absent = absent
        /\ \A e \in Mirror!Drivers \ {d} : driver'[e] = driver[e]
    BY <1>0, <2>1 DEF DriverStates
  <2> QED BY <2>2 DEF pc, absent
<1> QED BY <1>1, <1>2, <1>3

\* A session that begins has the rows for itself, unless syncs overlap.
LEMMA ApartLoad ==
    ASSUME MirrorSetup, Base, ApartInv, NEW d \in Mirror!Drivers, Mirror!Load(d) PROVE ApartInv'
<1>1. driver'[d].pc = "read" /\ \A e \in Mirror!Drivers \ {d} : driver'[e] = driver[e]
  BY Noted
<1>2. UNCHANGED <<items, stepRows>>
  BY DEF Mirror!Load, Mirror!Rows
<1>3. OpenRaised'
  BY <1>2 DEF ApartInv, OpenRaised
<1>4. ASSUME ~overlapped' PROVE Apart'
  <2>1. ~overlapped /\ \A e \in Mirror!Drivers \ {d} : ~Mirror!Syncing(e)
    BY <1>4 DEF Mirror!Load
  <2>2. Apart
    BY <2>1 DEF ApartInv
  <2>3. \A e \in Mirror!Drivers \ {d} : ~Session(e)'
    BY <1>1, <2>1 DEF Session, Mirror!Syncing
  <2>4. OneEach'
    BY <1>2, <2>2 DEF Apart, OneEach
  <2>5. \A e \in Mirror!Drivers : driver'[e].pc \notin {"count", "commit"}
    BY <1>1, <2>3 DEF Session
  <2> QED BY <2>3, <2>4, <2>5 DEF Apart
<1> QED BY <1>3, <1>4 DEF ApartInv

LEMMA ApartRead ==
    ASSUME MirrorSetup, Base, ApartInv, NEW d \in Mirror!Drivers, Mirror!Read(d) PROVE ApartInv'
<1>1. CASE \E i \in Mirror!Steps : stepRows[i].n > 1
  <2>1. PICK pc \in {"off", "error"} : Mirror!Goto(d, pc)
    BY <1>1 DEF Mirror!Read, Mirror!Handler
  <2>2. pc \in Places /\ pc \notin {"read", "count", "commit"} /\ UNCHANGED <<items, stepRows, overlapped>>
    BY DEF Mirror!Read, Mirror!Rows, Places
  <2> QED BY <2>1, <2>2, ApartGoto
<1>2. CASE ~\E i \in Mirror!Steps : stepRows[i].n > 1
  <2>1. /\ driver'[d].absent = {i \in Mirror!Steps : stepRows[i].n = 0}
        /\ \A e \in Mirror!Drivers \ {d} : driver'[e] = driver[e]
    BY <1>2, Noted
  <2>2. UNCHANGED <<items, stepRows, overlapped>> /\ Session(d)
    BY DEF Mirror!Read, Mirror!Rows, Session, Mirror!At
  <2>3. OpenRaised'
    BY <2>2 DEF ApartInv, OpenRaised
  <2>4. ASSUME ~overlapped PROVE Apart'
    <3>1. Apart
      BY <2>4 DEF ApartInv
    <3>2. OneEach'
      BY <2>2, <3>1 DEF Apart, OneEach
    <3>3. \A e \in Mirror!Drivers \ {d} : ~Session(e)'
      BY <2>1, <2>2, <3>1 DEF Apart, Session
    <3>4. \A e \in Mirror!Drivers \ {d} : driver'[e].pc \notin {"count", "commit"}
      BY <3>3 DEF Session
    <3>5. driver'[d].absent = {i \in Mirror!Steps : stepRows'[i].n = 0}
      BY <2>1, <2>2
    <3> QED BY <3>2, <3>3, <3>4, <3>5 DEF Apart
  <2> QED BY <2>2, <2>3, <2>4 DEF ApartInv
<1> QED BY <1>1, <1>2

LEMMA ApartDecide ==
    ASSUME MirrorSetup, Base, ApartInv, NEW i \in Approvals, NEW reject \in BOOLEAN, Mirror!Decide(i, reject)
    PROVE  ApartInv'
<1>0. MirrorTyped /\ i \in Mirror!Drivers /\ i \in Mirror!Steps
  BY SMT DEF Base, MirrorSetup, Mirror!Drivers, Mirror!Steps
<1>1. driver'[i].pc = "resume" /\ \A e \in Mirror!Drivers \ {i} : driver'[e] = driver[e]
  BY <1>0 DEF Mirror!Decide, MirrorTyped, Mirror!Off
<1>2. \A j \in Mirror!Steps : items'[j].raised = items[j].raised /\ items'[j].open <= items'[j].raised
  <2>1. \A j \in Mirror!Steps : /\ items[j].raised \in Nat /\ items[j].open \in Nat
                                /\ items[j].open <= items[j].raised
    BY <1>0 DEF MirrorTyped, ApartInv, OpenRaised
  <2>2. items'[i].raised = items[i].raised /\ items'[i].open = items[i].open - 1
        /\ \A j \in Mirror!Steps \ {i} : items'[j] = items[j]
    BY <1>0 DEF Mirror!Decide, MirrorTyped
  <2> QED BY <2>1, <2>2, SMT
<1>3. stepRows' = stepRows /\ overlapped' = overlapped /\ ~Session(i)' /\ driver'[i].pc \notin {"count", "commit"}
  BY <1>1 DEF Mirror!Decide, Session
<1> QED BY <1>0, <1>1, <1>2, <1>3, ApartMove

LEMMA ApartStep ==
    ASSUME MirrorSetup, Base, ApartInv, [Mirror!Next]_(Mirror!vars) PROVE ApartInv'
<1> USE DEF Mirror!Rows
<1>0. MirrorTyped /\ 0 \in Mirror!Drivers /\ Waits \subseteq Mirror!Drivers
  BY SMT DEF Base, MirrorSetup, Mirror!Drivers
<1>1. ASSUME NEW d \in Mirror!Drivers, Mirror!Exec(d) \/ Mirror!Resume(d) \/ Mirror!ResumeError(d)
                                       \/ Mirror!Raise(d) \/ Mirror!Crash(d)
      PROVE  ApartInv'
  <2>1. PICK pc \in {"load", "pump", "error", "off"} : Mirror!Goto(d, pc)
    BY <1>1 DEF Mirror!Exec, Mirror!Resume, Mirror!ResumeError, Mirror!Raise, Mirror!Crash, Mirror!Handler
  <2>2. pc \in Places /\ pc \notin {"read", "count", "commit"}
    BY DEF Places
  <2>3. UNCHANGED <<items, stepRows, overlapped>>
    BY <1>1 DEF Mirror!Exec, Mirror!Resume, Mirror!ResumeError, Mirror!Raise, Mirror!Crash
  <2> QED BY <2>1, <2>2, <2>3, ApartGoto
<1>2. ASSUME NEW i \in Waits, Mirror!WaitOver(i) PROVE ApartInv'
  <2>1. Mirror!Goto(i, "pump") /\ "pump" \in Places /\ UNCHANGED <<items, stepRows, overlapped>>
    BY <1>2 DEF Mirror!WaitOver, Places
  <2> QED BY <1>0, <2>1, ApartGoto
<1>3. CASE Mirror!Begin \/ Mirror!Outcome \/ Mirror!ErrorWrite
  <2>1. PICK pc \in {"pump", "off", "finally"} : Mirror!Goto(0, pc)
    BY <1>3 DEF Mirror!Begin, Mirror!Outcome, Mirror!ErrorWrite
  <2>2. pc \in Places /\ pc \notin {"read", "count", "commit"} /\ UNCHANGED <<items, stepRows, overlapped>>
    BY <1>3 DEF Mirror!Begin, Mirror!Outcome, Mirror!ErrorWrite, Places
  <2> QED BY <1>0, <2>1, <2>2, ApartGoto
<1>4. ASSUME NEW d \in Mirror!Drivers, NEW r \in DriverStates, Moves(d, r),
             r.pc \notin {"read", "count", "commit"}, UNCHANGED <<items, stepRows, overlapped>>
      PROVE  ApartInv'
  <2>1. driver'[d] = r /\ \A e \in Mirror!Drivers \ {d} : driver'[e] = driver[e]
    BY <1>0, <1>4, Moved
  <2>2. ~Session(d)' /\ driver'[d].pc \notin {"count", "commit"}
    BY <1>4, <2>1 DEF Session
  <2>3. \A i \in Mirror!Steps : items'[i].raised = items[i].raised /\ items'[i].open <= items'[i].raised
    BY <1>4 DEF ApartInv, OpenRaised
  <2> QED BY <1>4, <2>1, <2>2, <2>3, ApartMove
<1>5. ASSUME NEW d \in Mirror!Drivers, Mirror!Pump(d) PROVE ApartInv'
  <2>1. CASE engine.status = "running"
    <3> DEFINE r == [driver[d] EXCEPT !.pc = "exec", !.st = engine]
    <3>1. r \in DriverStates /\ r.pc = "exec"
      BY <1>0, DriverFields DEF MirrorTyped, DriverStates, Places
    <3>2. Moves(d, r) /\ UNCHANGED <<items, stepRows, overlapped>>
      BY <1>5, <2>1 DEF Mirror!Pump, Moves
    <3> HIDE DEF r
    <3> QED BY <1>4, <3>1, <3>2
  <2>2. CASE engine.status # "running"
    <3>1. Mirror!Goto(d, "load") /\ "load" \in Places /\ UNCHANGED <<items, stepRows, overlapped>>
      BY <1>5, <2>2 DEF Mirror!Pump, Places
    <3> QED BY <3>1, ApartGoto
  <2> QED BY <2>1, <2>2
<1>6. CASE Mirror!Finally \/ Mirror!ErrorRead
  <2>1. PICK pc \in {"outcome", "mark"} : driver' = [driver EXCEPT ![0].pc = pc, ![0].seen = row]
    BY <1>6 DEF Mirror!Finally, Mirror!ErrorRead
  <2> DEFINE r == [driver[0] EXCEPT !.pc = pc, !.seen = row]
  <2>2. r \in DriverStates /\ r.pc = pc
    BY <1>0, DriverFields DEF MirrorTyped, DriverStates, Places
  <2>3. Moves(0, r) /\ UNCHANGED <<items, stepRows, overlapped>>
    BY <1>6, <2>1 DEF Mirror!Finally, Mirror!ErrorRead, Moves
  <2> HIDE DEF r
  <2> QED BY <1>0, <1>4, <2>2, <2>3
<1>7. ASSUME NEW d \in Mirror!Drivers, Mirror!Count(d) PROVE ApartInv'
  <2>1. /\ driver'[d].pc = "commit" /\ driver'[d].absent = driver[d].absent /\ driver[d].pc = "count"
        /\ \A e \in Mirror!Drivers \ {d} : driver'[e] = driver[e]
    BY <1>7, Noted DEF Mirror!Count, Mirror!At
  <2>2. UNCHANGED <<items, stepRows, overlapped>> /\ Session(d)
    BY <1>7, <2>1 DEF Mirror!Count, Session
  <2>3. \A i \in Mirror!Steps : items'[i].raised = items[i].raised /\ items'[i].open <= items'[i].raised
    BY <2>2 DEF ApartInv, OpenRaised
  <2> QED BY <2>1, <2>2, <2>3, ApartMove
<1>8. ASSUME UNCHANGED <<driver, items, overlapped>>, \A i \in Mirror!Steps : stepRows'[i].n = stepRows[i].n
      PROVE  ApartInv'
  <2>1. {i \in Mirror!Steps : stepRows'[i].n = 0} = {i \in Mirror!Steps : stepRows[i].n = 0}
    BY <1>8
  <2> QED BY <1>8, <2>1 DEF ApartInv, OpenRaised, Apart, OneEach, Session
<1>9. CASE Mirror!CancelRead \/ (\E ok \in BOOLEAN : Mirror!CancelEngine(ok)) \/ UNCHANGED Mirror!vars
  BY <1>8, <1>9 DEF Mirror!CancelRead, Mirror!CancelEngine, Mirror!vars
<1>10. CASE Mirror!CancelCommit
  <2>1. ASSUME NEW i \in Mirror!Steps PROVE stepRows'[i].n = stepRows[i].n
    <3>1. stepRows[i] \in [n : Nat, status : Results]
      BY <1>0 DEF MirrorTyped
    <3>2. stepRows'[i] = stepRows[i] \/ stepRows'[i] = [stepRows[i] EXCEPT !.status = "cancelled"]
      BY <1>10 DEF Mirror!CancelCommit
    <3> QED BY <3>1, <3>2
  <2> QED BY <1>8, <1>10, <2>1 DEF Mirror!CancelCommit
<1> QED BY <1>1, <1>2, <1>3, <1>5, <1>6, <1>7, <1>9, <1>10, ApartLoad, ApartRead, ApartCommit, ApartDecide
        DEF Mirror!Next, Mirror!Drive, Mirror!Sync

\* No two syncs overlapped, nothing failed and nobody cancelled.
Calm == ~overlapped /\ faults = 0 /\ cancel.pc = "off"

\* No handler runs, and nobody else syncs while a driver does.
Orderly ==
    /\ \A d \in Mirror!Drivers : driver[d].pc \notin {"error", "mark"}
    /\ \A d, e \in Mirror!Drivers : Mirror!Syncing(d) /\ Mirror!Syncing(e) => d = e
    /\ driver[0].pc # "count"

\* A step without a result has no row.
Empty(i) == stepRows[i].n = 0 /\ stepRows[i].status = "none"
RowsFollow ==
    /\ \A i \in Mirror!Steps : Mirror!ResultOf(engine, i) = "none" => Empty(i)
    /\ \A i \in Mirror!Steps : stepRows[i].n = 0 => stepRows[i].status = "none"
    /\ engine.next = "waiting_hitl" => engine.status = "waiting_hitl"

\* The run waits at step i for a person.
WaitsAt(i) == engine.status = "waiting_hitl" /\ engine.done + 1 = i

\* An approval is open for the step the run waits at and for no other; it is
\* decided before the run goes on, and raised with the row of its step.
Asks ==
    /\ \A d \in Mirror!Drivers : driver[d].pc = "resume" => d # 0 /\ WaitsAt(d) /\ stepRows[d].n = 1 /\ items[d].open = 0
    /\ \A i \in Mirror!Steps : items[i].open > 0 => WaitsAt(i)
    /\ \A i \in Mirror!Steps : WaitsAt(i) => stepRows[i].n = 0 \/ items[i].open = 1 \/ driver[i].pc = "resume"

\* The engine was in state st before it came to be in state en.
Past(st, en) ==
    /\ st.done <= en.done
    /\ st.done = en.done /\ en.next = "none" => st.next = "none"
    /\ st.done = en.done /\ en.next = "waiting_hitl" => st.next \in {"none", "waiting_hitl"}
    /\ st.status \in Mirror!Terminal => st = en

\* What a session holds: a state the engine was in, whose results the rows do
\* not exceed, and the row as it is.  If the engine has gone on, it was not
\* from an approval nobody was asked for, and whoever took it on has yet to load.
Knows(d) ==
    /\ Past(driver[d].st, engine)
    /\ \A i \in Mirror!Steps : Mirror!ResultOf(driver[d].st, i) = "none" => Empty(i)
    /\ driver[d].st.next = "waiting_hitl" /\ stepRows[driver[d].st.done + 1].n = 0 => engine = driver[d].st
    /\ driver[d].st = engine \/ \E e \in Mirror!Drivers : Fresh(e)
    /\ driver[d].pc \in {"count", "commit"} => driver[d].seen.status = row.status /\ driver[d].seen.ab = row.ab

\* When nobody has a sync before them, the rows say what the engine says.
Mirrored ==
    /\ row.status \in Mirror!Terminal => row.status = engine.status
    /\ (\A d \in Mirror!Drivers : ~Live(d)) =>
          row.status = engine.status /\ \A i \in Mirror!Steps : stepRows[i].status = Mirror!ResultOf(engine, i)

\* A terminal row is marked, or the executor is about to.
Marked ==
    /\ row.ab => row.status \in Mirror!Terminal
    /\ driver[0].pc = "outcome" => driver[0].seen.status = row.status /\ driver[0].seen.ab = row.ab
    /\ row.status \in Mirror!Terminal /\ ~row.ab => driver[0].pc \in {"finally", "outcome"}

\* A session has counted and not yet marked.
Unmarked(d) == d # 0 /\ driver[d].pc = "commit" /\ Mirror!Counts(d, Mirror!StatusOf(d))
Tally == counted = IF row.ab \/ (\E d \in Mirror!Drivers : Unmarked(d)) THEN 1 ELSE 0

InStep ==
    /\ Orderly /\ RowsFollow /\ Asks /\ Mirrored /\ Marked /\ Tally
    /\ \A d \in Mirror!Drivers : Session(d) => Knows(d)

CalmInv == Calm => InStep

LEMMA PastStep ==
    ASSUME MirrorSetup, NEW x \in Mirror!States, NEW st \in Mirror!States, NEW to \in Mirror!States,
           Past(x, st), Progress(st, to)
    PROVE  Past(x, to)
<1>1. x.done \in 0..N /\ st.done \in 0..N /\ to.done \in 0..N
  BY StateFields
<1>2. x.status \notin Mirror!Terminal
  BY DEF Past, Progress
<1>3. x.done <= to.done /\ (x.done = to.done => to.done = st.done /\ x.done = st.done)
  BY <1>1, SMT DEF Past, Progress
<1> QED BY <1>2, <1>3 DEF Past, Progress

\* A state the engine was in holds no result that the engine's does not.
LEMMA PastResults ==
    ASSUME MirrorSetup, NEW x \in Mirror!States, NEW st \in Mirror!States, Past(x, st), NEW i \in Mirror!Steps
    PROVE  /\ Mirror!ResultOf(st, i) = "none" => Mirror!ResultOf(x, i) = "none"
           /\ i = st.done + 1 /\ st.next = "waiting_hitl" => Mirror!ResultOf(x, i) \in {"none", "waiting_hitl"}
<1>1. x.done \in 0..N /\ st.done \in 0..N /\ i \in 1..N
  BY StateFields DEF Mirror!Steps
<1> QED BY <1>1, SMT DEF Past, Mirror!ResultOf

\* A driver goes on towards its load, and the engine with it or not.
LEMMA GoesOn ==
    ASSUME MirrorSetup, Base, Base', Apart, InStep, NEW d \in Mirror!Drivers,
           Fresh(d) \/ driver[d].pc = "off", Fresh(d)', driver'[d].pc # "resume",
           \A e \in Mirror!Drivers \ {d} : driver'[e] = driver[e],
           row'.status = row.status, row'.ab = row.ab, UNCHANGED <<stepRows, items, counted>>,
           \/ engine' = engine /\ driver[d].pc # "resume"
           \/ Progress(engine, engine') /\ (engine.status = "waiting_hitl" => driver[d].pc = "resume")
    PROVE  InStep'
<1>0. engine \in Mirror!States /\ engine' \in Mirror!States /\ 0 \in Mirror!Drivers
  BY SMT DEF Base, MirrorTyped, MirrorSetup, Mirror!Drivers
<1>1. /\ ~Mirror!Syncing(d) /\ ~Mirror!Syncing(d)' /\ ~Session(d) /\ ~Session(d)' /\ ~Unmarked(d) /\ ~Unmarked(d)'
      /\ driver'[d].pc \notin {"error", "mark", "count"} /\ Live(d)' /\ driver[d].pc \notin {"finally", "outcome"}
      /\ driver'[d].pc \notin {"finally", "outcome"}
  BY DEF Fresh, Session, Live, Mirror!Syncing, Unmarked
<1>2. Orderly'
  BY <1>0, <1>1 DEF InStep, Orderly, Mirror!Syncing
<1>3. ASSUME Progress(engine, engine'), engine.status = "waiting_hitl" => driver[d].pc = "resume"
      PROVE  /\ \A e \in Mirror!Drivers : driver'[e].pc # "resume"
             /\ \A i \in Mirror!Steps : ~(items[i].open > 0)
             /\ \A i \in Mirror!Steps : WaitsAt(i)' => stepRows[i].n = 0
             /\ \A i \in Mirror!Steps : engine.next = "waiting_hitl" /\ i = engine.done + 1 => stepRows[i].n = 1
  <2>1. Progress(engine, engine') /\ (engine.status = "waiting_hitl" => driver[d].pc = "resume")
    BY <1>3
  <2>2. \A e \in Mirror!Drivers : driver'[e].pc # "resume"
    <3>1. ASSUME NEW e \in Mirror!Drivers, e # d, driver[e].pc = "resume" PROVE FALSE
      <4>1. WaitsAt(e) /\ WaitsAt(d)
        BY <2>1, <3>1 DEF InStep, Asks, WaitsAt
      <4> QED BY <3>1, <4>1 DEF WaitsAt
    <3> QED BY <3>1
  <2>3. \A i \in Mirror!Steps : ~(items[i].open > 0)
    <3>1. ASSUME NEW i \in Mirror!Steps, items[i].open > 0 PROVE FALSE
      <4>1. WaitsAt(i) /\ WaitsAt(d) /\ items[d].open = 0
        BY <2>1, <3>1 DEF InStep, Asks, WaitsAt
      <4>2. i = d
        BY <4>1 DEF WaitsAt
      <4> QED BY <3>1, <4>1, <4>2, SMT
    <3> QED BY <3>1
  <2>4. \A i \in Mirror!Steps : WaitsAt(i)' => stepRows[i].n = 0
    BY <2>1 DEF InStep, RowsFollow, Empty, Progress, WaitsAt
  <2>5. \A i \in Mirror!Steps : engine.next = "waiting_hitl" /\ i = engine.done + 1 => stepRows[i].n = 1
    <3>1. engine.next = "waiting_hitl" => WaitsAt(d) /\ stepRows[d].n = 1
      BY <2>1 DEF InStep, RowsFollow, Asks
    <3> QED BY <3>1 DEF WaitsAt
  <2> QED BY <2>2, <2>3, <2>4, <2>5
<1>4. RowsFollow'
  <2>1. \A i \in Mirror!Steps : Mirror!ResultOf(engine', i) = "none" => Mirror!ResultOf(engine, i) = "none"
    BY DEF Progress
  <2>2. engine'.next = "waiting_hitl" => engine'.status = "waiting_hitl"
    BY DEF Progress, InStep, RowsFollow
  <2>3. \A i \in Mirror!Steps : Mirror!ResultOf(engine, i)' = Mirror!ResultOf(engine', i)
    BY DEF Mirror!ResultOf
  <2> QED BY <2>1, <2>2, <2>3 DEF InStep, RowsFollow, Empty
<1>5. Asks'
  <2>1. CASE engine' = engine /\ driver[d].pc # "resume"
    <3>1. \A i \in Mirror!Drivers : WaitsAt(i)' <=> WaitsAt(i)
      BY <2>1 DEF WaitsAt
    <3>2. Mirror!Steps \subseteq Mirror!Drivers
      BY SMT DEF Mirror!Steps, Mirror!Drivers, MirrorSetup
    <3> QED BY <2>1, <3>1, <3>2 DEF InStep, Asks
  <2>2. CASE Progress(engine, engine') /\ (engine.status = "waiting_hitl" => driver[d].pc = "resume")
    BY <1>3, <2>2 DEF Asks
  <2> QED BY <2>1, <2>2
<1>6. Mirrored'
  <2>1. engine' # engine => engine.status \notin Mirror!Terminal
    BY DEF Progress
  <2> QED BY <1>1, <2>1 DEF InStep, Mirrored
<1>7. Marked'
  BY <1>0, <1>1 DEF InStep, Marked
<1>8. \A e \in Mirror!Drivers : Unmarked(e)' <=> Unmarked(e)
  <2>1. \A e \in Mirror!Drivers \ {d} : Unmarked(e)' <=> Unmarked(e)
    BY DEF Unmarked, Mirror!Counts, Mirror!StatusOf
  <2> QED BY <1>1, <2>1
<1>9. Tally'
  BY <1>8 DEF InStep, Tally
<1>10. ASSUME NEW e \in Mirror!Drivers, Session(e)' PROVE Knows(e)'
  <2>1. e # d /\ driver'[e] = driver[e] /\ Session(e) /\ Knows(e)
    BY <1>1, <1>10 DEF InStep, Session
  <2>2. driver[e].st \in Mirror!States
    BY DriverFields DEF Base
  <2>3. Past(driver[e].st, engine')
    BY <1>0, <2>1, <2>2, PastStep DEF Knows
  <2>4. driver[e].st.next = "waiting_hitl" /\ stepRows[driver[e].st.done + 1].n = 0 => engine' = driver[e].st
    <3>1. ASSUME driver[e].st.next = "waiting_hitl", stepRows[driver[e].st.done + 1].n = 0, engine' # engine PROVE FALSE
      <4>1. engine = driver[e].st /\ engine.status = "waiting_hitl"
        BY <2>1, <3>1 DEF Knows, InStep, RowsFollow
      <4>2. Sane(engine) /\ engine.done \in 0..N
        BY <1>0, StateFields DEF Base, SaneStates
      <4>3. engine.done + 1 \in Mirror!Steps
        BY <4>1, <4>2, SMT DEF Sane, Mirror!Steps, MirrorSetup
      <4>4. stepRows[engine.done + 1].n = 1 /\ stepRows[engine.done + 1].n = 0
        BY <1>3, <3>1, <4>1, <4>3
      <4> QED BY <4>4, SMT
    <3>2. driver[e].st.next = "waiting_hitl" /\ stepRows[driver[e].st.done + 1].n = 0 => engine = driver[e].st
      BY <2>1 DEF Knows
    <3> QED BY <3>1, <3>2
  <2>5. \E f \in Mirror!Drivers : Fresh(f)'
    OBVIOUS
  <2>6. \A i \in Mirror!Steps : Mirror!ResultOf(driver[e].st, i)' = Mirror!ResultOf(driver[e].st, i)
    BY <2>1 DEF Mirror!ResultOf
  <2>7. Past(driver[e].st, engine)'
    BY <2>1, <2>3 DEF Past
  <2> QED BY <2>1, <2>4, <2>5, <2>6, <2>7 DEF Knows, Empty
<1> QED BY <1>2, <1>4, <1>5, <1>6, <1>7, <1>9, <1>10 DEF InStep

\* A driver loads the state and, nobody else syncing, has the rows.
LEMMA Loads ==
    ASSUME MirrorSetup, Base, Apart, InStep, NEW d \in Mirror!Drivers, Mirror!Load(d), ~overlapped'
    PROVE  InStep'
<1>0. engine \in Mirror!States /\ engine.done \in 0..N /\ 0 \in Mirror!Drivers /\ Mirror!Steps \subseteq Mirror!Drivers
  BY StateFields, SMT DEF Base, MirrorTyped, MirrorSetup, Mirror!Drivers, Mirror!Steps
<1>1. /\ driver[d].pc = "load" /\ driver'[d].pc = "read" /\ driver'[d].st = engine
      /\ \A e \in Mirror!Drivers \ {d} : driver'[e] = driver[e]
      /\ UNCHANGED <<engine, row, stepRows, items, counted>>
      /\ \A e \in Mirror!Drivers \ {d} : ~Mirror!Syncing(e)
  BY Noted DEF Mirror!Load, Mirror!Rows, Mirror!At
<1>2. /\ \A e \in Mirror!Drivers \ {d} : ~Mirror!Syncing(e)' /\ ~Session(e)'
      /\ \A e \in Mirror!Drivers : ~Unmarked(e) /\ ~Unmarked(e)'
      /\ Live(d)'
  BY <1>1 DEF Mirror!Syncing, Session, Live, Unmarked
<1>3. \A e \in Mirror!Drivers : driver'[e].pc = "resume" <=> driver[e].pc = "resume"
  BY <1>1
<1>4. Orderly'
  BY <1>0, <1>1, <1>2 DEF InStep, Orderly
<1>5. RowsFollow'
  BY <1>1 DEF InStep, RowsFollow, Empty, Mirror!ResultOf
<1>6. Asks'
  BY <1>0, <1>1, <1>3 DEF InStep, Asks, WaitsAt
<1>7. Mirrored'
  BY <1>1, <1>2 DEF InStep, Mirrored
<1>8. Marked'
  <2>1. driver[0].pc \notin {"finally", "outcome"} /\ driver'[0].pc # "outcome"
    BY <1>0, <1>1 DEF Mirror!Syncing
  <2> QED BY <1>1, <2>1 DEF InStep, Marked
<1>9. Tally'
  BY <1>1, <1>2 DEF InStep, Tally
<1>10. Knows(d)'
  <2>1. Past(engine, engine)
    BY <1>0, SMT DEF Past
  <2>2. Past(driver[d].st, engine)'
    BY <1>1, <2>1 DEF Past
  <2>3. \A i \in Mirror!Steps : Mirror!ResultOf(driver[d].st, i)' = "none" => Empty(i)'
    BY <1>1 DEF InStep, RowsFollow, Empty, Mirror!ResultOf
  <2> QED BY <1>1, <2>2, <2>3 DEF Knows
<1> QED BY <1>2, <1>4, <1>5, <1>6, <1>7, <1>8, <1>9, <1>10 DEF InStep

\* A session reads the rows, or counts the outcome.
LEMMA Reads ==
    ASSUME MirrorSetup, Base, Apart, InStep, NEW d \in Mirror!Drivers, Mirror!Read(d) \/ Mirror!Count(d)
    PROVE  InStep'
<1>0. 0 \in Mirror!Drivers /\ Mirror!Steps \subseteq Mirror!Drivers /\ counted \in Nat
  BY SMT DEF Base, MirrorTyped, MirrorSetup, Mirror!Drivers, Mirror!Steps
<1>1. \A i \in Mirror!Steps : ~(stepRows[i].n > 1)
  <2>1. \A i \in Mirror!Steps : stepRows[i].n \in Nat /\ stepRows[i].n <= 1
    BY DEF Base, MirrorTyped, Apart, OneEach
  <2> QED BY <2>1, SMT
<1>2. /\ driver[d].pc \in {"read", "count"} /\ driver'[d].st = driver[d].st
      /\ driver'[d].pc \in {"count", "commit"} /\ (d = 0 => driver'[d].pc = "commit")
      /\ driver'[d].seen.status = row.status /\ driver'[d].seen.ab = row.ab
      /\ \A e \in Mirror!Drivers \ {d} : driver'[e] = driver[e]
      /\ UNCHANGED <<engine, row, stepRows, items>>
  <2>1. CASE Mirror!Read(d)
    BY <1>1, <2>1, Noted DEF Mirror!Read, Mirror!At, Mirror!Rows
  <2>2. CASE Mirror!Count(d)
    <3>1. driver[d].pc = "count" /\ UNCHANGED <<engine, row, stepRows, items>>
      BY <2>2 DEF Mirror!Count, Mirror!At
    <3>2. Knows(d)
      BY <3>1 DEF InStep, Session
    <3> QED BY <2>2, <3>1, <3>2, Noted DEF Knows
  <2> QED BY <2>1, <2>2
<1>3. /\ Mirror!Syncing(d) /\ Session(d) /\ Session(d)' /\ Live(d)' /\ ~Fresh(d) /\ ~Unmarked(d)
      /\ \A e \in Mirror!Drivers \ {d} :
            /\ ~Mirror!Syncing(e) /\ ~Mirror!Syncing(e)' /\ ~Session(e)' /\ ~Unmarked(e) /\ ~Unmarked(e)'
            /\ (Fresh(e)' <=> Fresh(e))
  <2>1. Mirror!Syncing(d) /\ Session(d) /\ Session(d)' /\ Live(d)' /\ ~Fresh(d) /\ ~Unmarked(d)
    BY <1>2 DEF Mirror!Syncing, Session, Live, Fresh, Unmarked
  <2>2. \A e \in Mirror!Drivers \ {d} : ~Mirror!Syncing(e)
    BY <2>1 DEF InStep, Orderly
  <2> QED BY <1>2, <2>1, <2>2 DEF Mirror!Syncing, Session, Fresh, Unmarked
<1>4. \A e \in Mirror!Drivers : driver'[e].pc = "resume" <=> driver[e].pc = "resume"
  BY <1>2
<1>5. Orderly'
  BY <1>0, <1>2, <1>3 DEF InStep, Orderly
<1>6. RowsFollow'
  BY <1>2 DEF InStep, RowsFollow, Empty, Mirror!ResultOf
<1>7. Asks'
  BY <1>0, <1>2, <1>4 DEF InStep, Asks, WaitsAt
<1>8. Mirrored'
  BY <1>2, <1>3 DEF InStep, Mirrored
<1>9. Marked'
  <2>1. driver[0].pc \notin {"finally", "outcome"} /\ driver'[0].pc # "outcome"
    BY <1>0, <1>2, <1>3 DEF Mirror!Syncing
  <2> QED BY <1>2, <2>1 DEF InStep, Marked
<1>10. Tally'
  <2>1. counted = IF row.ab THEN 1 ELSE 0
    BY <1>3 DEF InStep, Tally
  <2>2. (\E e \in Mirror!Drivers : Unmarked(e))' <=> Unmarked(d)'
    BY <1>3
  <2>3. CASE Mirror!Read(d)
    <3>1. ~Unmarked(d)'
      BY <1>1, <2>3, Noted DEF Unmarked
    <3>2. counted' = counted
      BY <2>3 DEF Mirror!Read, Mirror!Rows
    <3> QED BY <1>2, <2>1, <2>2, <3>1, <3>2 DEF Tally
  <2>4. CASE Mirror!Count(d)
    <3>1. d # 0 /\ driver'[d].pc = "commit" /\ driver'[d].seen = driver[d].seen
      BY <2>4, Noted DEF Mirror!Count, Mirror!At, InStep, Orderly
    <3>2. Unmarked(d)' <=> Mirror!Counts(d, Mirror!StatusOf(d))
      BY <1>2, <3>1 DEF Unmarked, Mirror!Counts, Mirror!StatusOf
    <3>3. Mirror!Counts(d, Mirror!StatusOf(d)) => ~row.ab
      BY <1>2, <3>1 DEF Mirror!Counts
    <3>4. Mirror!Counts(d, Mirror!StatusOf(d)) => counted' = counted + 1
      BY <2>4 DEF Mirror!Count
    <3>5. ~Mirror!Counts(d, Mirror!StatusOf(d)) => counted' = counted
      BY <2>4 DEF Mirror!Count
    <3>6. 0 + 1 = 1
      BY SMT
    <3>7. CASE Mirror!Counts(d, Mirror!StatusOf(d))
      <4>1. counted = 0
        BY <2>1, <3>3, <3>7
      <4>2. counted' = 1
        BY <3>4, <3>6, <3>7, <4>1
      <4> QED BY <2>2, <3>2, <3>7, <4>2 DEF Tally
    <3>8. CASE ~Mirror!Counts(d, Mirror!StatusOf(d))
      BY <1>2, <2>1, <2>2, <3>2, <3>5, <3>8 DEF Tally
    <3> QED BY <3>7, <3>8
  <2> QED BY <2>3, <2>4
<1>11. Knows(d)'
  <2>1. Knows(d)
    BY <1>3 DEF InStep
  <2>2. \A i \in Mirror!Steps : Mirror!ResultOf(driver[d].st, i)' = Mirror!ResultOf(driver[d].st, i)
    BY <1>2 DEF Mirror!ResultOf
  <2>3. Past(driver[d].st, engine)'
    BY <1>2, <2>1 DEF Knows, Past
  <2>4. (\E e \in Mirror!Drivers : Fresh(e)) => (\E e \in Mirror!Drivers : Fresh(e))'
    BY <1>3
  <2> QED BY <1>2, <2>1, <2>2, <2>3, <2>4 DEF Knows, Empty
<1> QED BY <1>3, <1>5, <1>6, <1>7, <1>8, <1>9, <1>10, <1>11 DEF InStep

\* The executor counts the outcome and marks the row.
LEMMA Finishes ==
    ASSUME MirrorSetup, Base, Apart, InStep, Mirror!Finally \/ Mirror!Outcome
    PROVE  InStep'
<1>0. /\ 0 \in Mirror!Drivers /\ Mirror!Steps \subseteq Mirror!Drivers /\ MirrorTyped
      /\ driver[0] \in DriverStates /\ driver \in [Mirror!Drivers -> DriverStates]
  BY DriverFields, SMT DEF Base, MirrorTyped, MirrorSetup, Mirror!Drivers, Mirror!Steps
<1>1. /\ driver[0].pc \in {"finally", "outcome"} /\ driver'[0].pc \in {"outcome", "off"}
      /\ driver'[0].pc = "outcome" => driver'[0].seen = row /\ row' = row
      /\ \A e \in Mirror!Drivers \ {0} : driver'[e] = driver[e]
      /\ UNCHANGED <<engine, stepRows, items>>
  <2>1. CASE Mirror!Finally
    <3>1. driver' = [driver EXCEPT ![0] = [driver[0] EXCEPT !.pc = "outcome", !.seen = row]]
      BY <2>1 DEF Mirror!Finally
    <3>2. driver'[0].pc = "outcome" /\ driver'[0].seen = row /\ \A e \in Mirror!Drivers \ {0} : driver'[e] = driver[e]
      BY <1>0, <3>1 DEF DriverStates
    <3> QED BY <2>1, <3>2 DEF Mirror!Finally, Mirror!At, Mirror!Rows
  <2>2. CASE Mirror!Outcome
    <3>1. driver'[0].pc = "off" /\ \A e \in Mirror!Drivers \ {0} : driver'[e] = driver[e]
      BY <1>0, <2>2, WentTo DEF Mirror!Outcome, Places
    <3> QED BY <2>2, <3>1 DEF Mirror!Outcome, Mirror!At
  <2> QED BY <2>1, <2>2
<1>2. /\ Mirror!Syncing(0) /\ ~Live(0) /\ ~Live(0)' /\ ~Session(0)' /\ ~Unmarked(0) /\ ~Unmarked(0)'
      /\ \A e \in Mirror!Drivers \ {0} :
            ~Mirror!Syncing(e) /\ ~Mirror!Syncing(e)' /\ ~Session(e)' /\ ~Unmarked(e) /\ ~Unmarked(e)'
  <2>1. Mirror!Syncing(0) /\ ~Live(0) /\ ~Live(0)' /\ ~Session(0)' /\ ~Unmarked(0) /\ ~Unmarked(0)'
    BY <1>1 DEF Mirror!Syncing, Session, Live, Fresh, Unmarked
  <2>2. \A e \in Mirror!Drivers \ {0} : ~Mirror!Syncing(e)
    BY <1>0, <2>1 DEF InStep, Orderly
  <2> QED BY <1>1, <2>1, <2>2 DEF Mirror!Syncing, Session, Unmarked
<1>3. \A e \in Mirror!Drivers : /\ driver'[e].pc = "resume" <=> driver[e].pc = "resume"
                                /\ Live(e)' <=> Live(e)
  <2>1. \A e \in Mirror!Drivers \ {0} : Live(e)' <=> Live(e)
    BY <1>1 DEF Live, Fresh, Session
  <2> QED BY <1>1, <1>2, <2>1
<1>4. counted = IF row.ab THEN 1 ELSE 0
  BY <1>2 DEF InStep, Tally
<1>5. /\ row'.status = row.status /\ (row.ab => row'.ab) /\ (row'.ab => row'.status \in Mirror!Terminal)
      /\ driver'[0].pc = "off" => (row.status \in Mirror!Terminal => row'.ab)
      /\ counted' = IF row'.ab THEN 1 ELSE 0
  <2>1. CASE Mirror!Finally
    <3>1. row' = row /\ counted' = counted
      BY <2>1 DEF Mirror!Finally, Mirror!Rows
    <3>2. driver'[0].pc = "outcome"
      <4>1. driver' = [driver EXCEPT ![0] = [driver[0] EXCEPT !.pc = "outcome", !.seen = row]]
        BY <2>1 DEF Mirror!Finally
      <4> QED BY <1>0, <4>1 DEF DriverStates
    <3> QED BY <1>4, <3>1, <3>2 DEF InStep, Marked
  <2>2. CASE Mirror!Outcome
    <3> DEFINE counts == Mirror!Counts(0, driver[0].seen.status)
    <3>1. counts <=> row.status \in Mirror!Terminal /\ ~row.ab
      BY <2>2 DEF Mirror!Outcome, Mirror!At, InStep, Marked, Mirror!Counts
    <3>2. counts \in BOOLEAN
      BY DEF Mirror!Counts
    <3>3. /\ row' = [row EXCEPT !.ab = @ \/ counts]
          /\ counts => counted' = counted + 1
          /\ ~counts => counted' = counted
      BY <2>2 DEF Mirror!Outcome
    <3> HIDE DEF counts
    <3>4. row'.status = row.status /\ (row'.ab <=> row.ab \/ counts)
      BY <1>0, <3>2, <3>3, RowMark
    <3>5. 0 + 1 = 1
      BY SMT
    <3>6. counts => counted' = 1
      BY <1>4, <3>1, <3>3, <3>5
    <3> QED BY <1>4, <3>1, <3>3, <3>4, <3>6 DEF InStep, Marked
  <2> QED BY <2>1, <2>2
<1>6. Orderly'
  BY <1>0, <1>1, <1>2 DEF InStep, Orderly
<1>7. RowsFollow'
  BY <1>1 DEF InStep, RowsFollow, Empty, Mirror!ResultOf
<1>8. Asks'
  BY <1>0, <1>1, <1>3 DEF InStep, Asks, WaitsAt
<1>9. Mirrored'
  BY <1>1, <1>3, <1>5 DEF InStep, Mirrored, Mirror!ResultOf
<1>10. Marked'
  BY <1>1, <1>5 DEF Marked
<1>11. Tally'
  BY <1>2, <1>5 DEF Tally
<1> QED BY <1>2, <1>6, <1>7, <1>8, <1>9, <1>10, <1>11 DEF InStep

\* A session commits, and its driver has nothing more to do or goes on.
LEMMA Commits ==
    ASSUME MirrorSetup, Base, Base', Apart, OpenRaised, InStep, NEW d \in Mirror!Drivers, Mirror!Commit(d)
    PROVE  InStep'
<1> DEFINE st == driver[d].st
           new(i) == stepRows[i].n = 0 /\ Mirror!ResultOf(st, i) # "none"
           asked(i) == new(i) /\ Mirror!ResultOf(st, i) = "waiting_hitl"
<1>0. /\ 0 \in Mirror!Drivers /\ Mirror!Steps \subseteq Mirror!Drivers /\ MirrorTyped /\ Sane(engine) /\ Sane(st)
      /\ engine \in Mirror!States /\ engine.done \in 0..N /\ st \in Mirror!States /\ st.done \in 0..N
  <2>1. 0 \in Mirror!Drivers /\ Mirror!Steps \subseteq Mirror!Drivers
    BY SMT DEF MirrorSetup, Mirror!Drivers, Mirror!Steps
  <2>2. MirrorTyped /\ Sane(engine) /\ Sane(st)
    BY DEF Base, SaneStates
  <2>3. engine \in Mirror!States /\ st \in Mirror!States
    BY <2>2, DriverFields DEF MirrorTyped
  <2> QED BY <2>1, <2>2, <2>3, StateFields
<1>1. /\ driver[d].pc = "commit" /\ Session(d) /\ Mirror!Syncing(d) /\ ~Fresh(d)
      /\ UNCHANGED <<engine, counted>>
  BY DEF Mirror!Commit, Mirror!At, Session, Mirror!Syncing, Fresh
<1>2. Knows(d)
  BY <1>1 DEF InStep
<1> DEFINE stopped == driver[d].seen.status \in Mirror!Terminal \/ st.status \in Mirror!Terminal \cup Mirror!Paused
           pc == IF d # 0 THEN "off" ELSE IF stopped THEN "finally" ELSE "pump"
<1>3. driver'[d].pc = pc /\ \A e \in Mirror!Drivers \ {d} : driver'[e] = driver[e]
  <2>1. Mirror!Goto(d, pc)
    BY DEF Mirror!Commit
  <2>2. pc \in Places
    BY DEF Places
  <2> HIDE DEF pc
  <2> QED BY <1>0, <2>1, <2>2, WentTo
<1>4. /\ driver'[d].pc \in {"off", "finally", "pump"}
      /\ ~Session(d)' /\ ~Unmarked(d)'
      /\ \A e \in Mirror!Drivers \ {d} :
            /\ ~Mirror!Syncing(e) /\ ~Mirror!Syncing(e)' /\ ~Session(e)' /\ ~Unmarked(e) /\ ~Unmarked(e)'
            /\ (Fresh(e) => Live(e)')
  <2>1. \A e \in Mirror!Drivers \ {d} : ~Mirror!Syncing(e)
    BY <1>1 DEF InStep, Orderly
  <2>2. driver'[d].pc \in {"off", "finally", "pump"}
    BY <1>3
  <2> QED BY <1>3, <2>1, <2>2 DEF Mirror!Syncing, Session, Unmarked, Live, Fresh
<1>5. \A i \in Mirror!Steps :
        /\ stepRows'[i].n = IF new(i) THEN stepRows[i].n + 1 ELSE stepRows[i].n
        /\ stepRows'[i].status = IF Mirror!ResultOf(st, i) = "none" THEN stepRows[i].status ELSE Mirror!ResultOf(st, i)
        /\ items'[i].open = IF asked(i) THEN items[i].open + 1 ELSE items[i].open
        /\ stepRows[i].n \in Nat /\ items[i].open \in Nat /\ items[i].open <= stepRows[i].n /\ stepRows[i].n <= 1
  <2>1. \A i \in Mirror!Steps : i \in driver[d].absent <=> stepRows[i].n = 0
    BY <1>1 DEF Apart
  <2>2. \A i \in Mirror!Steps : items[i].open <= stepRows[i].n /\ stepRows[i].n <= 1
    <3>1. \A i \in Mirror!Steps : /\ stepRows[i].n \in Nat /\ items[i].open \in Nat /\ items[i].raised \in Nat
                                  /\ items[i].open <= items[i].raised /\ items[i].raised <= stepRows[i].n
                                  /\ stepRows[i].n <= 1
      BY <1>0 DEF MirrorTyped, OpenRaised, Apart, OneEach
    <3> QED BY <3>1, SMT
  <2>3. \A i \in Mirror!Steps : stepRows[i].n \in Nat /\ items[i].open \in Nat
    BY <1>0 DEF MirrorTyped
  <2> QED BY <1>0, <2>1, <2>2, <2>3, StepsWritten DEF Mirror!Commit
<1>6. /\ row'.status = IF row.status \in Mirror!Terminal THEN row.status ELSE st.status
      /\ row'.ab <=> row.ab \/ Unmarked(d)
      /\ Unmarked(d) <=> d # 0 /\ row'.status \in Mirror!Terminal /\ ~row.ab
      /\ driver[d].seen.status = row.status
  <2>1. driver[d].seen.status = row.status /\ driver[d].seen.ab = row.ab
    BY <1>1, <1>2 DEF Knows
  <2>2. /\ row'.status = IF Mirror!StatusOf(d) = driver[d].seen.status THEN row.status ELSE Mirror!StatusOf(d)
        /\ row'.ab <=> row.ab \/ (d # 0 /\ Mirror!Counts(d, Mirror!StatusOf(d)))
    BY <1>0, RowIsWritten DEF Mirror!Commit
  <2>3. row'.status = Mirror!StatusOf(d)
    BY <2>1, <2>2
  <2> QED BY <1>1, <2>1, <2>2, <2>3 DEF Mirror!StatusOf, Mirror!Counts, Unmarked
<1>7. Orderly'
  BY <1>0, <1>3, <1>4 DEF InStep, Orderly
<1>8. Past(st, engine) /\ RowsFollow /\ Asks
  BY <1>2 DEF Knows, InStep
<1>9. RowsFollow'
  <2>1. \A i \in Mirror!Steps : Mirror!ResultOf(engine, i) = "none" => Mirror!ResultOf(st, i) = "none"
    <3> HIDE DEF st
    <3> QED BY <1>0, <1>8, PastResults
  <2>2. \A i \in Mirror!Steps : Mirror!ResultOf(engine, i)' = Mirror!ResultOf(engine, i)
    BY <1>1 DEF Mirror!ResultOf
  <2>3. ASSUME NEW i \in Mirror!Steps, Mirror!ResultOf(engine, i) = "none" PROVE Empty(i)'
    <3>1. Empty(i) /\ Mirror!ResultOf(st, i) = "none"
      BY <1>8, <2>1, <2>3 DEF RowsFollow
    <3> QED BY <1>5, <3>1 DEF Empty
  <2>4. ASSUME NEW i \in Mirror!Steps, stepRows'[i].n = 0 PROVE stepRows'[i].status = "none"
    <3>1. stepRows[i].n = 0 /\ ~new(i)
      <4>1. /\ new(i) => stepRows'[i].n = stepRows[i].n + 1
            /\ ~new(i) => stepRows'[i].n = stepRows[i].n
            /\ stepRows[i].n \in Nat
        BY <1>5
      <4> HIDE DEF new
      <4> QED BY <2>4, <4>1, SMT
    <3> QED BY <1>5, <1>8, <3>1 DEF RowsFollow
  <2>5. engine'.next = "waiting_hitl" => engine'.status = "waiting_hitl"
    BY <1>1, <1>8 DEF RowsFollow
  <2> QED BY <2>2, <2>3, <2>4, <2>5 DEF RowsFollow
<1>10. Asks'
  <2>1. \A i \in Mirror!Drivers : WaitsAt(i)' <=> WaitsAt(i)
    BY <1>1 DEF WaitsAt
  <2>2. \A e \in Mirror!Drivers : driver'[e].pc = "resume" <=> driver[e].pc = "resume"
    BY <1>1, <1>3, <1>4
  <2>3. ASSUME NEW e \in Mirror!Drivers, driver[e].pc = "resume"
        PROVE  e # 0 /\ WaitsAt(e) /\ stepRows'[e].n = 1 /\ items'[e].open = 0
    <3>1. e # 0 /\ WaitsAt(e) /\ stepRows[e].n = 1 /\ items[e].open = 0
      BY <1>8, <2>3 DEF Asks
    <3>2. e \in Mirror!Steps
      BY <3>1, SMT DEF Mirror!Drivers, Mirror!Steps
    <3>3. stepRows[e].n # 0
      BY <3>1, SMT
    <3> QED BY <1>5, <3>1, <3>2, <3>3
  <2>4. ASSUME NEW i \in Mirror!Steps, asked(i) PROVE WaitsAt(i) /\ items'[i].open = 1
    <3>1. stepRows[i].n = 0 /\ items[i].open = 0
      <4>1. stepRows[i].n = 0
        BY <2>4
      <4> QED BY <1>5, <4>1, SMT
    <3>2. i = st.done + 1 /\ st.next = "waiting_hitl"
      <4>1. Mirror!ResultOf(st, i) = "waiting_hitl" /\ i \in 1..N
        BY <2>4 DEF Mirror!Steps
      <4> HIDE DEF st
      <4> QED BY <1>0, <4>1, SMT DEF Mirror!ResultOf
    <3>3. engine = st
      BY <1>2, <3>1, <3>2 DEF Knows
    <3>4. WaitsAt(i)
      BY <1>8, <3>2, <3>3 DEF WaitsAt, RowsFollow
    <3>5. items'[i].open = items[i].open + 1
      BY <1>5, <2>4
    <3> QED BY <3>1, <3>4, <3>5, SMT
  <2>5. ASSUME NEW i \in Mirror!Steps, items'[i].open > 0 PROVE WaitsAt(i)
    <3>1. CASE asked(i)
      BY <2>4, <3>1
    <3>2. CASE ~asked(i)
      <4>1. items[i].open > 0
        BY <1>5, <2>5, <3>2
      <4> QED BY <1>8, <4>1 DEF Asks
    <3> QED BY <3>1, <3>2
  <2>6. ASSUME NEW i \in Mirror!Steps, WaitsAt(i)
        PROVE  stepRows'[i].n = 0 \/ items'[i].open = 1 \/ driver'[i].pc = "resume"
    <3>1. CASE new(i)
      <4>1. i = engine.done + 1 /\ engine.next = "waiting_hitl"
        BY <1>0, <2>6 DEF WaitsAt, Sane
      <4>2. Mirror!ResultOf(st, i) \in {"none", "waiting_hitl"}
        <5> HIDE DEF st
        <5> QED BY <1>0, <1>8, <4>1, PastResults
      <4>3. asked(i)
        BY <3>1, <4>2
      <4> QED BY <2>4, <4>3
    <3>2. CASE ~new(i)
      <4>1. stepRows'[i].n = stepRows[i].n /\ items'[i].open = items[i].open
        BY <1>5, <3>2
      <4>2. driver'[i].pc = "resume" <=> driver[i].pc = "resume"
        BY <1>0, <2>2
      <4> QED BY <1>8, <2>6, <4>1, <4>2 DEF Asks
    <3> QED BY <3>1, <3>2
  <2> HIDE DEF st
  <2> QED BY <1>0, <2>1, <2>2, <2>3, <2>5, <2>6 DEF Asks
<1>11. Mirrored'
  <2>1. row'.status \in Mirror!Terminal => row'.status = engine'.status
    <3>1. st.status \in Mirror!Terminal => st = engine
      BY <1>8 DEF Past
    <3> QED BY <1>1, <1>6, <3>1 DEF InStep, Mirrored
  <2>2. ASSUME \A e \in Mirror!Drivers : ~Live(e)'
        PROVE  row'.status = engine'.status /\ \A i \in Mirror!Steps : stepRows'[i].status = Mirror!ResultOf(engine, i)'
    <3>1. \A e \in Mirror!Drivers : ~Fresh(e)
      BY <1>1, <1>4, <2>2
    <3>2. st = engine
      BY <1>2, <3>1 DEF Knows
    <3>3. row'.status = engine.status
      BY <1>6, <3>2 DEF InStep, Mirrored
    <3>4. ASSUME NEW i \in Mirror!Steps PROVE stepRows'[i].status = Mirror!ResultOf(engine, i)
      BY <1>5, <1>8, <3>2 DEF RowsFollow, Empty
    <3>5. \A i \in Mirror!Steps : Mirror!ResultOf(engine, i)' = Mirror!ResultOf(engine, i)
      BY <1>1 DEF Mirror!ResultOf
    <3> QED BY <1>1, <3>3, <3>4, <3>5
  <2> QED BY <2>1, <2>2 DEF Mirrored
<1>12. Marked'
  <2>1. row.ab => row.status \in Mirror!Terminal
    BY DEF InStep, Marked
  <2>2. row'.ab => row'.status \in Mirror!Terminal
    BY <1>6, <2>1
  <2>3. driver'[0].pc # "outcome"
    BY <1>0, <1>4 DEF Mirror!Syncing
  <2>4. ASSUME row'.status \in Mirror!Terminal, ~row'.ab PROVE driver'[0].pc = "finally"
    <3>1. d = 0
      BY <1>6, <2>4
    <3>2. stopped
      BY <1>6, <2>4
    <3> QED BY <1>3, <3>1, <3>2
  <2> QED BY <2>2, <2>3, <2>4 DEF Marked
<1>13. Tally'
  <2>1. (\E e \in Mirror!Drivers : Unmarked(e)) <=> Unmarked(d)
    BY <1>4
  <2>2. \A e \in Mirror!Drivers : ~Unmarked(e)'
    BY <1>4
  <2>3. counted = IF row'.ab THEN 1 ELSE 0
    BY <1>6, <2>1 DEF InStep, Tally
  <2> QED BY <1>1, <2>2, <2>3 DEF Tally
<1> QED BY <1>4, <1>7, <1>9, <1>10, <1>11, <1>12, <1>13 DEF InStep

\* A person decides the approval the run waits for.
LEMMA Decides ==
    ASSUME MirrorSetup, Base, Apart, OpenRaised, InStep, NEW i \in Approvals, NEW reject \in BOOLEAN,
           Mirror!Decide(i, reject)
    PROVE  InStep'
<1>0. /\ i \in Mirror!Drivers /\ i \in Mirror!Steps /\ i # 0 /\ 0 \in Mirror!Drivers
      /\ Mirror!Steps \subseteq Mirror!Drivers /\ MirrorTyped
  BY SMT DEF Base, MirrorSetup, Mirror!Drivers, Mirror!Steps
<1>1. /\ driver[i].pc = "off" /\ driver'[i].pc = "resume"
      /\ \A e \in Mirror!Drivers \ {i} : driver'[e] = driver[e]
      /\ UNCHANGED <<engine, row, stepRows, counted>>
  BY <1>0 DEF Mirror!Decide, MirrorTyped, Mirror!Off, Mirror!At
<1>2. stepRows[i].n = 1 /\ items'[i].open = 0 /\ \A j \in Mirror!Steps \ {i} : items'[j] = items[j]
  <2>1. /\ stepRows[i].n \in Nat /\ items[i].open \in Nat /\ items[i].raised \in Nat
        /\ items[i].open <= items[i].raised /\ items[i].raised <= stepRows[i].n /\ stepRows[i].n <= 1
    BY <1>0 DEF MirrorTyped, OpenRaised, Apart, OneEach
  <2>2. items'[i].open = items[i].open - 1 /\ items[i].open > 0 /\ \A j \in Mirror!Steps \ {i} : items'[j] = items[j]
    BY <1>0 DEF Mirror!Decide, MirrorTyped
  <2> QED BY <2>1, <2>2, SMT
<1>3. WaitsAt(i)
  BY <1>0 DEF InStep, Asks, Mirror!Decide
<1>4. /\ ~Mirror!Syncing(i)' /\ ~Session(i)' /\ Live(i)' /\ Fresh(i)' /\ ~Unmarked(i) /\ ~Unmarked(i)'
      /\ \A e \in Mirror!Drivers \ {i} : /\ Mirror!Syncing(e)' <=> Mirror!Syncing(e)
                                         /\ Session(e)' <=> Session(e)
                                         /\ Unmarked(e)' <=> Unmarked(e)
  <2>1. ~Mirror!Syncing(i)' /\ ~Session(i)' /\ Live(i)' /\ Fresh(i)' /\ ~Unmarked(i) /\ ~Unmarked(i)'
    BY <1>1 DEF Mirror!Syncing, Session, Live, Fresh, Unmarked
  <2>2. \A e \in Mirror!Drivers \ {i} : /\ Mirror!Syncing(e)' <=> Mirror!Syncing(e)
                                        /\ Session(e)' <=> Session(e)
    BY <1>1 DEF Mirror!Syncing, Session
  <2>3. \A e \in Mirror!Drivers \ {i} : Unmarked(e)' <=> Unmarked(e)
    BY <1>1 DEF Unmarked, Mirror!Counts, Mirror!StatusOf
  <2> QED BY <2>1, <2>2, <2>3
<1>5. Orderly'
  BY <1>0, <1>1, <1>4 DEF InStep, Orderly
<1>6. RowsFollow'
  BY <1>1 DEF InStep, RowsFollow, Empty, Mirror!ResultOf
<1>7. Asks'
  <2>1. \A j \in Mirror!Drivers : WaitsAt(j)' <=> WaitsAt(j)
    BY <1>1 DEF WaitsAt
  <2>2. ASSUME NEW e \in Mirror!Drivers, driver'[e].pc = "resume"
        PROVE  e # 0 /\ WaitsAt(e) /\ stepRows[e].n = 1 /\ items'[e].open = 0
    <3>1. CASE e = i
      BY <1>0, <1>2, <1>3, <3>1
    <3>2. CASE e # i
      <4>1. WaitsAt(e)
        BY <1>1, <2>2, <3>2 DEF InStep, Asks
      <4> QED BY <1>3, <3>2, <4>1 DEF WaitsAt
    <3> QED BY <3>1, <3>2
  <2>3. ASSUME NEW j \in Mirror!Steps, items'[j].open > 0 PROVE WaitsAt(j)
    <3>1. CASE j = i
      BY <1>3, <3>1
    <3>2. CASE j # i
      BY <1>2, <2>3, <3>2 DEF InStep, Asks
    <3> QED BY <3>1, <3>2
  <2>4. \A j \in Mirror!Steps : WaitsAt(j) => j = i
    BY <1>3 DEF WaitsAt
  <2> QED BY <1>0, <1>1, <2>1, <2>2, <2>3, <2>4 DEF Asks
<1>8. Mirrored'
  BY <1>0, <1>1, <1>4 DEF InStep, Mirrored
<1>9. Marked'
  BY <1>0, <1>1 DEF InStep, Marked
<1>10. Tally'
  <2>1. \A e \in Mirror!Drivers : Unmarked(e)' <=> Unmarked(e)
    BY <1>4
  <2> QED BY <1>1, <2>1 DEF InStep, Tally
<1>11. ASSUME NEW e \in Mirror!Drivers, Session(e)' PROVE Knows(e)'
  <2>1. e # i /\ driver'[e] = driver[e] /\ Knows(e)
    BY <1>1, <1>4, <1>11 DEF InStep
  <2>2. \E f \in Mirror!Drivers : Fresh(f)'
    BY <1>0, <1>4
  <2>3. \A j \in Mirror!Steps : Mirror!ResultOf(driver[e].st, j)' = Mirror!ResultOf(driver[e].st, j)
    BY <2>1 DEF Mirror!ResultOf
  <2>4. Past(driver[e].st, engine)'
    BY <1>1, <2>1 DEF Knows, Past
  <2> QED BY <1>1, <2>1, <2>2, <2>3, <2>4 DEF Knows, Empty
<1> QED BY <1>5, <1>6, <1>7, <1>8, <1>9, <1>10, <1>11 DEF InStep

LEMMA DrivesOn ==
    ASSUME MirrorSetup, Base, Base', Apart, OpenRaised, InStep, ~overlapped', NEW d \in Mirror!Drivers, Mirror!Drive(d)
    PROVE  InStep'
<1> USE DEF Mirror!Rows
<1>0. /\ 0 \in Mirror!Drivers /\ MirrorTyped /\ engine \in Mirror!States /\ Sane(engine)
      /\ driver[d] \in DriverStates /\ driver \in [Mirror!Drivers -> DriverStates]
  BY DriverFields, SMT DEF Base, MirrorTyped, SaneStates, MirrorSetup, Mirror!Drivers
<1>1. CASE d = 0 /\ Mirror!Begin
  <2>1. driver'[0].pc = "pump" /\ \A e \in Mirror!Drivers \ {0} : driver'[e] = driver[e]
    BY <1>0, <1>1, WentTo DEF Mirror!Begin, Places
  <2>2. /\ driver[0].pc = "begin" /\ row' = [row EXCEPT !.known = TRUE]
        /\ UNCHANGED <<engine, stepRows, items, counted>>
    BY <1>1 DEF Mirror!Begin, Mirror!At
  <2>3. row'.status = row.status /\ row'.ab = row.ab
    <3>1. row \in RunRows
      BY <1>0 DEF MirrorTyped
    <3> QED BY <2>2, <3>1 DEF RunRows
  <2>4. Fresh(0) /\ Fresh(0)' /\ driver[0].pc # "resume" /\ driver'[0].pc # "resume"
    BY <2>1, <2>2 DEF Fresh
  <2> QED BY <1>0, <2>1, <2>2, <2>3, <2>4, GoesOn
<1>2. CASE Mirror!Pump(d)
  <2>1. driver'[d].pc \in {"exec", "load"} /\ \A e \in Mirror!Drivers \ {d} : driver'[e] = driver[e]
    <3>1. CASE engine.status = "running"
      <4>1. driver' = [driver EXCEPT ![d] = [driver[d] EXCEPT !.pc = "exec", !.st = engine]]
        BY <1>2, <3>1 DEF Mirror!Pump
      <4> QED BY <1>0, <4>1 DEF DriverStates
    <3>2. CASE engine.status # "running"
      BY <1>0, <1>2, <3>2, WentTo DEF Mirror!Pump, Places
    <3> QED BY <3>1, <3>2
  <2>2. driver[d].pc = "pump" /\ UNCHANGED <<engine, row, stepRows, items, counted>>
    BY <1>2 DEF Mirror!Pump, Mirror!At
  <2>3. Fresh(d) /\ Fresh(d)' /\ driver[d].pc # "resume" /\ driver'[d].pc # "resume"
    BY <2>1, <2>2 DEF Fresh
  <2> QED BY <2>1, <2>2, <2>3, GoesOn
<1>3. CASE Mirror!Exec(d)
  <2>1. PICK pc \in {"load", "pump"} : Mirror!Goto(d, pc)
    BY <1>3 DEF Mirror!Exec
  <2>2. driver'[d].pc = pc /\ \A e \in Mirror!Drivers \ {d} : driver'[e] = driver[e]
    BY <1>0, <2>1, WentTo DEF Places
  <2>3. driver[d].pc = "exec" /\ UNCHANGED <<row, stepRows, items, counted>>
    BY <1>3 DEF Mirror!Exec, Mirror!At
  <2>4. Fresh(d) /\ Fresh(d)' /\ driver[d].pc # "resume" /\ driver'[d].pc # "resume"
    BY <2>2, <2>3 DEF Fresh
  <2>5. engine' = engine \/ (Progress(engine, engine') /\ engine.status = "running")
    <3>1. engine = driver[d].st => engine.status = "running"
      BY <2>3 DEF Base, SaneStates
    <3>2. engine' = engine \/ (engine = driver[d].st /\ engine' \in Mirror!Advanced)
      BY <1>3 DEF Mirror!Exec
    <3> QED BY <1>0, <3>1, <3>2, Advances
  <2> QED BY <2>2, <2>3, <2>4, <2>5, GoesOn
<1>4. CASE Mirror!Resume(d)
  <2>1. driver[d].pc = "resume" /\ engine.status = "waiting_hitl" /\ UNCHANGED <<row, stepRows, items, counted>>
    BY <1>4 DEF Mirror!Resume, Mirror!At, InStep, Asks, WaitsAt
  <2>2. PICK pc \in {"load", "pump"} : Mirror!Goto(d, pc)
    BY <1>4, <2>1 DEF Mirror!Resume
  <2>3. driver'[d].pc = pc /\ \A e \in Mirror!Drivers \ {d} : driver'[e] = driver[e]
    BY <1>0, <2>2, WentTo DEF Places
  <2>4. Fresh(d) /\ Fresh(d)' /\ driver'[d].pc # "resume"
    BY <2>1, <2>3 DEF Fresh
  <2>5. \/ engine' = [engine EXCEPT !.status = "failed", !.next = "rejected"]
        \/ engine' = [status |-> "running", done |-> engine.done + 1, next |-> "none"]
    BY <1>4, <2>1 DEF Mirror!Resume
  <2>6. Progress(engine, engine')
    BY <1>0, <2>1, <2>5, Resumes
  <2> QED BY <2>1, <2>3, <2>4, <2>6, GoesOn
<1>5. CASE Mirror!Load(d)
  BY <1>5, Loads
<1>6. CASE Mirror!Read(d) \/ Mirror!Count(d)
  BY <1>6, Reads
<1>7. CASE Mirror!Commit(d)
  BY <1>7, Commits
<1>8. CASE Mirror!Finally \/ Mirror!Outcome
  BY <1>8, Finishes
<1>9. ~Mirror!ResumeError(d) /\ ~Mirror!ErrorRead /\ ~Mirror!ErrorWrite
  BY <1>0 DEF Mirror!ResumeError, Mirror!ErrorRead, Mirror!ErrorWrite, Mirror!At, InStep, Orderly
<1> QED BY <1>1, <1>2, <1>3, <1>4, <1>5, <1>6, <1>7, <1>8, <1>9 DEF Mirror!Drive, Mirror!Sync

LEMMA CalmStep ==
    ASSUME MirrorSetup, Base, Base', ApartInv, CalmInv, [Mirror!Next]_(Mirror!vars) PROVE CalmInv'
<1> USE DEF Mirror!Rows
<1> SUFFICES ASSUME Calm' PROVE InStep'
  BY DEF CalmInv
<1>0. faults \in Nat /\ faults' = 0 /\ cancel'.pc = "off" /\ ~overlapped' /\ Waits \subseteq Mirror!Drivers
  <2>1. faults \in 0..MaxFaults /\ MaxFaults \in Nat
    BY DEF Base, MirrorTyped, MirrorSetup
  <2>2. faults \in Nat /\ Waits \subseteq Mirror!Drivers
    BY <2>1, SMT DEF MirrorSetup, Mirror!Drivers
  <2> QED BY <2>2 DEF Calm
<1>1. ASSUME NEW d \in Mirror!Drivers PROVE ~Mirror!Raise(d) /\ ~Mirror!Crash(d)
  <2>1. faults' # faults + 1
    BY <1>0, SMT
  <2> QED BY <2>1 DEF Mirror!Raise, Mirror!Crash
<1>2. ~Mirror!CancelRead /\ ~Mirror!CancelCommit /\ ~(\E ok \in BOOLEAN : Mirror!CancelEngine(ok))
  <2>1. cancel \in [pc : {"off", "engine", "commit", "done"}, steps : SUBSET Mirror!Steps]
    BY DEF Base, MirrorTyped
  <2> QED BY <1>0, <2>1, SMT DEF Mirror!CancelRead, Mirror!CancelCommit, Mirror!CancelEngine
<1>3. ASSUME NEW d \in Mirror!Drivers, Mirror!Drive(d) PROVE InStep'
  <2>1. UNCHANGED <<faults, cancel>> /\ ~overlapped
    <3>1. UNCHANGED <<faults, cancel>> /\ (overlapped' = overlapped \/ Mirror!Load(d))
      BY <1>3 DEF Mirror!Drive, Mirror!Sync, Mirror!Pump, Mirror!Exec, Mirror!Resume, Mirror!Load, Mirror!Read,
                  Mirror!Count, Mirror!Commit, Mirror!Begin, Mirror!Finally, Mirror!Outcome, Mirror!ErrorRead,
                  Mirror!ErrorWrite, Mirror!ResumeError
    <3>2. Mirror!Load(d) => ~overlapped
      <4> DEFINE other == \E e \in Mirror!Drivers \ {d} : Mirror!Syncing(e)
      <4>1. Mirror!Load(d) => overlapped' = (overlapped \/ other)
        BY DEF Mirror!Load
      <4> HIDE DEF other
      <4> QED BY <1>0, <4>1
    <3>3. CASE overlapped' = overlapped
      <4>1. ~overlapped
        BY <1>0, <3>3, SMT
      <4> QED BY <3>1, <4>1
    <3> QED BY <3>1, <3>2, <3>3
  <2>2. InStep /\ Apart /\ OpenRaised
    BY <1>0, <2>1 DEF CalmInv, Calm, ApartInv
  <2> QED BY <1>0, <1>3, <2>2, DrivesOn
<1>4. ASSUME NEW i \in Approvals, NEW reject \in BOOLEAN, Mirror!Decide(i, reject) PROVE InStep'
  <2>1. InStep /\ Apart /\ OpenRaised
    BY <1>0, <1>4 DEF CalmInv, Calm, ApartInv, Mirror!Decide
  <2> QED BY <1>4, <2>1, Decides
<1>5. ASSUME NEW i \in Waits, Mirror!WaitOver(i) PROVE InStep'
  <2>1. InStep /\ Apart /\ i \in Mirror!Drivers /\ MirrorTyped
    BY <1>0, <1>5 DEF CalmInv, Calm, ApartInv, Mirror!WaitOver, Base
  <2>2. driver'[i].pc = "pump" /\ \A e \in Mirror!Drivers \ {i} : driver'[e] = driver[e]
    BY <1>5, <2>1, WentTo DEF Mirror!WaitOver, Places
  <2>3. /\ driver[i].pc = "off" /\ Fresh(i)' /\ driver'[i].pc # "resume"
        /\ engine.status = "waiting_delay" /\ UNCHANGED <<row, stepRows, items, counted>>
    BY <1>5, <2>2 DEF Mirror!WaitOver, Mirror!At, Fresh
  <2>4. Progress(engine, engine')
    BY <1>5, <2>1, Waited DEF Mirror!WaitOver, MirrorTyped
  <2> QED BY <2>1, <2>2, <2>3, <2>4, GoesOn
<1>6. CASE UNCHANGED Mirror!vars
  <2>1. InStep
    BY <1>0, <1>6 DEF CalmInv, Calm, Mirror!vars
  <2>2. UNCHANGED <<engine, row, stepRows, items, driver, counted>>
    BY <1>6 DEF Mirror!vars
  <2>3. Orderly' /\ RowsFollow' /\ Asks'
    BY <2>1, <2>2 DEF InStep, Orderly, Mirror!Syncing, RowsFollow, Empty, Mirror!ResultOf, Asks, WaitsAt
  <2>4. Mirrored'
    BY <2>1, <2>2 DEF InStep, Mirrored, Live, Fresh, Session, Mirror!ResultOf
  <2>5. Marked' /\ Tally'
    BY <2>1, <2>2 DEF InStep, Marked, Tally, Unmarked, Mirror!Counts, Mirror!StatusOf
  <2>6. ASSUME NEW e \in Mirror!Drivers, Session(e)' PROVE Knows(e)'
    <3>1. Knows(e)
      BY <2>1, <2>2, <2>6 DEF InStep, Session
    <3>2. (\E f \in Mirror!Drivers : Fresh(f))' <=> \E f \in Mirror!Drivers : Fresh(f)
      BY <2>2 DEF Fresh
    <3>3. Past(driver[e].st, engine)'
      BY <2>2, <3>1 DEF Knows, Past
    <3>4. \A i \in Mirror!Steps : Mirror!ResultOf(driver[e].st, i)' = Mirror!ResultOf(driver[e].st, i)
      BY <2>2 DEF Mirror!ResultOf
    <3> QED BY <2>2, <3>1, <3>2, <3>3, <3>4 DEF Knows, Empty
  <2> QED BY <2>3, <2>4, <2>5, <2>6 DEF InStep
<1> QED BY <1>1, <1>2, <1>3, <1>4, <1>5, <1>6 DEF Mirror!Next

LEMMA MirrorInit == ASSUME MirrorSetup, Mirror!Init PROVE ApartInv /\ CalmInv
<1>1. /\ \A d \in Mirror!Drivers : driver[d].pc = IF d = 0 THEN "begin" ELSE "off"
      /\ 0 \in Mirror!Drivers
  BY SMT DEF Mirror!Init, Mirror!Off, Mirror!Drivers, MirrorSetup
<1>2. \A i \in Mirror!Steps : /\ stepRows[i].n = 0 /\ stepRows[i].status = "none"
                              /\ items[i].open = 0 /\ items[i].raised = 0
  BY DEF Mirror!Init
<1>3. \A d \in Mirror!Drivers : /\ driver[d].pc \in {"begin", "off"}
                                /\ ~Session(d) /\ ~Unmarked(d) /\ ~Mirror!Syncing(d)
  BY <1>1 DEF Session, Unmarked, Mirror!Syncing
<1>4. OpenRaised /\ OneEach
  BY <1>2, SMT DEF OpenRaised, OneEach
<1>5. ApartInv
  BY <1>3, <1>4 DEF ApartInv, Apart
<1>6. row.status = "running" /\ row.ab = FALSE /\ counted = 0
  BY DEF Mirror!Init, Mirror!NoRow
<1>7. engine.status = "running" /\ engine.next = "none"
  BY DEF Mirror!Init, Mirror!NoState
<1>8. Orderly /\ Mirrored /\ Marked /\ Tally
  <2>1. Live(0)
    BY <1>1 DEF Live, Fresh
  <2> QED BY <1>1, <1>3, <1>6, <2>1 DEF Orderly, Mirrored, Marked, Tally, Mirror!Terminal
<1>9. RowsFollow
  BY <1>2, <1>7 DEF RowsFollow, Empty
<1>10. Asks
  <2>1. \A i \in Mirror!Steps : ~(items[i].open > 0)
    BY <1>2, SMT
  <2> QED BY <1>3, <1>7, <2>1 DEF Asks, WaitsAt
<1> QED BY <1>3, <1>5, <1>8, <1>9, <1>10 DEF CalmInv, InStep

\* For any run, approvals, delays and faults: drivers whose syncs do not overlap
\* give a step one approval item and one step row at most, however their steps
\* interleave; and when nobody drives such a run, nothing failed and nobody
\* cancelled, the rows say what the engine says, a paused run has its approval
\* open and a finished one was counted once (sync_engine_state_to_workflow_run,
\* _execute_workflow_bg, resume_workflow_wait).
THEOREM MirrorSettles ==
    ASSUME MirrorSetup
    PROVE  Mirror!Spec => [](Mirror!TypeOK /\ Mirror!Settled)
<1> DEFINE MirrorInv == Base /\ ApartInv /\ CalmInv
<1>1. Mirror!Init => MirrorInv
  BY BaseInit, MirrorInit
<1>2. MirrorInv /\ [Mirror!Next]_(Mirror!vars) => MirrorInv'
  BY BaseStep, ApartStep, CalmStep
<1>3. ASSUME MirrorInv PROVE Mirror!TypeOK
  <2>1. MirrorTyped /\ row.status \in Statuses
    BY <1>3 DEF Base, MirrorTyped, RunRows
  <2>2. \A i \in Mirror!Steps : stepRows[i].n \in Nat /\ items[i].open \in 0..items[i].raised
    <3>1. \A i \in Mirror!Steps : /\ stepRows[i].n \in Nat /\ items[i].open \in Nat /\ items[i].raised \in Nat
                                  /\ items[i].open <= items[i].raised
      BY <1>3, <2>1 DEF MirrorTyped, ApartInv, OpenRaised
    <3> QED BY <3>1, SMT
  <2>3. \A d \in Mirror!Drivers : driver[d].st \in Mirror!States /\ driver[d].absent \subseteq Mirror!Steps
    BY <2>1, DriverFields
  <2>4. cancel.pc \in {"off", "engine", "commit", "done"}
    BY <2>1 DEF MirrorTyped
  <2> QED BY <2>1, <2>2, <2>3, <2>4 DEF MirrorTyped, Statuses, Mirror!TypeOK
<1>4. ASSUME MirrorInv PROVE Mirror!Settled
  <2> SUFFICES ASSUME ~overlapped
               PROVE  /\ \A i \in Mirror!Steps : items[i].raised <= 1 /\ stepRows[i].n <= 1
                      /\ (\A d \in Mirror!Drivers : Mirror!At(d, "off")) /\ faults = 0 /\ cancel.pc = "off" =>
                          /\ row.status = engine.status
                          /\ \A i \in Mirror!Steps : stepRows[i].status = Mirror!ResultOf(engine, i)
                          /\ engine.status = "waiting_hitl" => items[engine.done + 1].open = 1
                          /\ counted = (IF row.status \in Mirror!Terminal THEN 1 ELSE 0)
    BY DEF Mirror!Settled
  <2>1. ASSUME NEW i \in Mirror!Steps PROVE items[i].raised <= 1 /\ stepRows[i].n <= 1
    <3>1. items[i].raised \in Nat /\ stepRows[i].n \in Nat /\ items[i].raised <= stepRows[i].n /\ stepRows[i].n <= 1
      BY <1>4 DEF Base, MirrorTyped, ApartInv, Apart, OneEach
    <3> QED BY <3>1, SMT
  <2>2. ASSUME \A d \in Mirror!Drivers : Mirror!At(d, "off"), faults = 0, cancel.pc = "off"
        PROVE  /\ row.status = engine.status
               /\ \A i \in Mirror!Steps : stepRows[i].status = Mirror!ResultOf(engine, i)
               /\ engine.status = "waiting_hitl" => items[engine.done + 1].open = 1
               /\ counted = (IF row.status \in Mirror!Terminal THEN 1 ELSE 0)
    <3>1. InStep /\ \A d \in Mirror!Drivers : driver[d].pc = "off"
      BY <1>4, <2>2 DEF CalmInv, Calm, Mirror!At
    <3>2. \A d \in Mirror!Drivers : ~Live(d) /\ ~Unmarked(d)
      BY <3>1 DEF Live, Fresh, Session, Unmarked
    <3>3. driver[0].pc = "off"
      BY <3>1, SMT DEF Mirror!Drivers, MirrorSetup
    <3>4. row.ab <=> row.status \in Mirror!Terminal
      BY <3>1, <3>3 DEF InStep, Marked
    <3>5. row.status = engine.status /\ \A i \in Mirror!Steps : stepRows[i].status = Mirror!ResultOf(engine, i)
      BY <3>1, <3>2 DEF InStep, Mirrored
    <3>6. counted = (IF row.status \in Mirror!Terminal THEN 1 ELSE 0)
      BY <3>1, <3>2, <3>4 DEF InStep, Tally
    <3>7. ASSUME engine.status = "waiting_hitl" PROVE items[engine.done + 1].open = 1
      <4> DEFINE k == engine.done + 1
      <4>1. engine.done \in 0..N /\ engine.done < N /\ engine.next = "waiting_hitl"
        BY <1>4, <3>7, StateFields DEF Base, MirrorTyped, SaneStates, Sane
      <4>2. k \in Mirror!Steps /\ k \in Mirror!Drivers /\ Mirror!ResultOf(engine, k) = "waiting_hitl"
        BY <4>1, SMT DEF Mirror!Steps, Mirror!Drivers, Mirror!ResultOf, MirrorSetup
      <4>3. WaitsAt(k)
        BY <3>7 DEF WaitsAt
      <4> HIDE DEF k
      <4>4. stepRows[k].n # 0
        BY <3>1, <3>5, <4>2 DEF InStep, RowsFollow
      <4>5. items[k].open = 1
        BY <3>1, <4>2, <4>3, <4>4 DEF InStep, Asks
      <4> QED BY <4>5 DEF k
    <3> QED BY <3>5, <3>6, <3>7
  <2> QED BY <2>1, <2>2
<1> QED BY <1>1, <1>2, <1>3, <1>4, PTL DEF Mirror!Spec
=============================================================================
