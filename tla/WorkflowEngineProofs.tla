------------------------ MODULE WorkflowEngineProofs ------------------------
(***************************************************************************)
(* What the engine guarantees for every definition, every execution order   *)
(* and any number of processes.                                             *)
(*                                                                          *)
(* The argument: a copy is a row of the past (Copied), a save is taken only *)
(* from a copy that is the row of the present (Fresh), and every state that *)
(* is saved edits its copy within Legal.  So each step of the run moves the *)
(* row along Legal, and what a copy has seen stays true of the row.         *)
(*                                                                          *)
(* What Legal leaves open, the edits themselves settle: a save is a sequence*)
(* of a few kinds of edit (Moves), so what every edit keeps of a row and of a*)
(* copy is kept by every call.                                              *)
(***************************************************************************)
EXTENDS WorkflowEngine, TLAPS

Open == {"none"} \cup Waiting

\* Results that are not open stay, and a step with a result keeps having one.
Advances(old, new) ==
    \A s \in Steps : /\ old[s] \notin Open => new[s] = old[s]
                     /\ old[s] # "none" => new[s] # "none"

\* What a call may make of the state it loaded.
Legal(st, new) ==
    /\ new \in Rows
    /\ new.version = st.version
    /\ Advances(st.results, new.results)
    /\ Answered(new)
    /\ st.status \in Terminal => /\ new.status = "cancelled"
                                 /\ new.results = st.results

\* The status of the run a process at this point of its call has loaded.
LoadedStatus(pc) ==
    CASE pc \in {"loop", "ready", "exec"} -> {"running"}
      [] pc = "hitl" -> {"waiting_hitl"}
      [] pc = "wait" -> {"waiting_delay", "waiting_event"}
      [] OTHER -> Statuses

\* The copy a process holds is the row as it was at some time.
Copied(w) ==
    mem[w].pc # "idle" =>
        /\ mem[w].st.version <= row.version
        /\ mem[w].st.version = row.version => mem[w].st = row
        /\ Advances(mem[w].st.results, row.results)
        /\ Answered(mem[w].st)
        /\ mem[w].st.status \in LoadedStatus(mem[w].pc)

\* The inductive invariant.
Inv ==
    /\ TypeOK
    /\ PausesAreAnswered
    /\ \A w \in Workers : Copied(w)
    /\ DependenciesHonoured

\* The step properties of ResultsAreFinal and FinishedStaysFinished.
FinalStep == \A s \in Steps : row.results[s] \notin Open => row'.results[s] = row.results[s]
FinishedStep == row.status \in Terminal => /\ row'.status \in {row.status, "cancelled"}
                                           /\ row'.results = row.results

(***************************************************************************)
(* Rows                                                                     *)
(***************************************************************************)
\* Record changes one result and nothing else.
LEMMA Recorded ==
    ASSUME NEW st \in Rows, NEW s \in Steps, NEW r \in Results
    PROVE  /\ Record(st, s, r) \in Rows
           /\ Record(st, s, r) = [st EXCEPT !.results = [st.results EXCEPT ![s] = r]]
           /\ Record(st, s, r).results = [st.results EXCEPT ![s] = r]
           /\ Record(st, s, r).status = st.status
           /\ Record(st, s, r).waiting = st.waiting
           /\ Record(st, s, r).version = st.version
           /\ Record(st, s, r).defn = st.defn
BY DEF Record, Rows

\* Giving the run a status changes nothing else.
LEMMA StatusGiven ==
    ASSUME NEW st \in Rows, NEW x \in Statuses
    PROVE  /\ [st EXCEPT !.status = x] \in Rows
           /\ [st EXCEPT !.status = x].status = x
           /\ [st EXCEPT !.status = x].results = st.results
           /\ [st EXCEPT !.status = x].waiting = st.waiting
           /\ [st EXCEPT !.status = x].version = st.version
           /\ [st EXCEPT !.status = x].defn = st.defn
BY DEF Rows

\* Recording a result where there was an open one, nothing being left waiting
\* but what the new status waits for, is a legal edit.
LEMMA RecordingIsLegal ==
    ASSUME NEW st \in Rows, NEW new \in Rows, NEW s \in Steps, NEW r \in Results,
           st.status \notin Terminal, st.results[s] \in Open, r # "none",
           new.version = st.version,
           new.results = [st.results EXCEPT ![s] = r], Answered(new)
    PROVE  Legal(st, new)
BY DEF Legal, Advances, Rows

\* What one state has advanced to, a later one has too.
LEMMA AdvancesTransitive ==
    ASSUME NEW a, NEW b, NEW c, Advances(a, b), Advances(b, c)
    PROVE  Advances(a, c)
BY DEF Advances

(***************************************************************************)
(* Steps                                                                    *)
(***************************************************************************)
\* A step that leaves the row alone and changes one process's copy to one that
\* is still copied keeps the invariant.
LEMMA CopyStep ==
    ASSUME Inv, NEW w \in Workers, NEW r \in Copies,
           mem' = [mem EXCEPT ![w] = r], row' = row,
           begun' \subseteq Steps, expired' \in BOOLEAN, override' \in BOOLEAN,
           DependenciesHonoured',
           r.pc # "idle" =>
               /\ r.st.version <= row.version
               /\ r.st.version = row.version => r.st = row
               /\ Advances(r.st.results, row.results)
               /\ Answered(r.st)
               /\ r.st.status \in LoadedStatus(r.pc)
    PROVE  Inv' /\ FinalStep /\ FinishedStep
<1>1. TypeOK'
  BY DEF Inv, TypeOK
<1>2. PausesAreAnswered'
  BY DEF Inv, PausesAreAnswered, Answered
<1>3. ASSUME NEW v \in Workers PROVE Copied(v)'
  <2>1. CASE v = w
    <3>1. mem'[v] = r
      BY <2>1 DEF Inv, TypeOK
    <3> QED
      BY <3>1 DEF Copied, Answered, Advances, LoadedStatus
  <2>2. CASE v # w
    <3>1. mem'[v] = mem[v]
      BY <2>2 DEF Inv, TypeOK
    <3> QED
      BY <3>1 DEF Inv, Copied, Answered, Advances, LoadedStatus
  <2> QED BY <2>1, <2>2
<1>4. FinalStep /\ FinishedStep
  BY DEF FinalStep, FinishedStep
<1> QED
  BY <1>1, <1>2, <1>3, <1>4 DEF Inv

\* An idle process holds no copy.
LEMMA IdleIsACopy == Idle \in Copies /\ Idle.pc = "idle"
BY EngineAssumption DEF Idle, Copies, Points, Calls, StartRow, Rows, Statuses, Results

\* A save that is legal for its copy keeps the invariant and moves the row along
\* the step properties, whether it is taken or refused.
LEMMA SaveStep ==
    ASSUME Inv, NEW w \in Workers, NEW new, NEW pc \in {"idle", "loop"}, NEW ran \in BOOLEAN,
           mem[w].pc # "idle", Save(w, new, pc, ran),
           Legal(mem[w].st, new), pc = "loop" => new.status = "running"
    PROVE  Inv' /\ FinalStep /\ FinishedStep
<1> DEFINE saved == [new EXCEPT !.version = row.version + 1]
<1> DEFINE held == [pc |-> pc, call |-> mem[w].call, st |-> saved, ran |-> ran,
                    late |-> mem[w].late]
<1>0. mem[w] \in Copies /\ row \in Rows /\ Copied(w)
  BY DEF Inv, TypeOK
<1>1. CASE ~Fresh(w)
  <2>1. row' = row /\ mem' = [mem EXCEPT ![w] = Idle] /\ UNCHANGED <<begun, expired, override>>
    BY <1>1 DEF Save
  <2>2. DependenciesHonoured'
    BY <2>1 DEF Inv, DependenciesHonoured
  <2>3. begun' \subseteq Steps /\ expired' \in BOOLEAN /\ override' \in BOOLEAN
    BY <2>1 DEF Inv, TypeOK
  <2> QED
    BY <2>1, <2>2, <2>3, IdleIsACopy, CopyStep
<1>2. CASE Fresh(w)
  <2>1. mem[w].st = row
    BY <1>0, <1>2 DEF Copied, Fresh
  <2>2. /\ row' = saved
        /\ mem' = [mem EXCEPT ![w] = IF pc = "idle" THEN Idle ELSE held]
        /\ UNCHANGED <<begun, expired, override>>
    BY <1>2 DEF Save
  <2>3. /\ saved \in Rows
        /\ saved.version = row.version + 1
        /\ saved.results = new.results
        /\ saved.status = new.status
        /\ saved.waiting = new.waiting
    BY <1>0 DEF Legal, Rows
  <2>4. Advances(row.results, row'.results)
    BY <2>1, <2>2, <2>3 DEF Legal
  <2>5. Answered(saved)
    BY <2>3 DEF Legal, Answered
  <2>6. FinalStep
    BY <2>4 DEF FinalStep, Advances
  <2>7. FinishedStep
    BY <2>1, <2>2, <2>3 DEF FinishedStep, Legal
  <2>8. held \in Copies
    BY <1>0, <2>3 DEF Copies, Points
  <2>9. TypeOK'
    BY <2>2, <2>3, <2>8, IdleIsACopy DEF Inv, TypeOK
  <2>10. PausesAreAnswered'
    BY <2>2, <2>5 DEF PausesAreAnswered, Answered
  <2>11. ASSUME NEW v \in Workers PROVE Copied(v)'
    <3>1. CASE v = w /\ pc = "idle"
      <4>1. mem'[v].pc = "idle"
        BY <2>2, <3>1, IdleIsACopy DEF Inv, TypeOK
      <4> QED BY <4>1 DEF Copied
    <3>2. CASE v = w /\ pc = "loop"
      <4>1. mem'[v] = held
        BY <2>2, <3>2 DEF Inv, TypeOK
      <4>2. held.st = row' /\ held.pc = "loop" /\ row'.status = "running"
        BY <2>2, <2>3, <3>2
      <4>3. Advances(row'.results, row'.results)
        BY DEF Advances
      <4>4. Answered(row')
        BY <2>2, <2>5
      <4>5. row'.version \in Nat
        BY <2>2, <2>3 DEF Rows
      <4> QED
        BY <4>1, <4>2, <4>3, <4>4, <4>5 DEF Copied, LoadedStatus, Answered, Advances
    <3>3. CASE v # w
      <4>1. mem'[v] = mem[v] /\ mem[v] \in Copies
        BY <2>2, <3>3 DEF Inv, TypeOK
      <4>2. CASE mem[v].pc = "idle"
        BY <4>1, <4>2 DEF Copied
      <4>3. CASE mem[v].pc # "idle"
        <5>1. /\ mem[v].st.version <= row.version
              /\ Advances(mem[v].st.results, row.results)
              /\ Answered(mem[v].st)
              /\ mem[v].st.status \in LoadedStatus(mem[v].pc)
          BY <4>3 DEF Inv, Copied
        <5>2. Advances(mem[v].st.results, row'.results)
          BY <5>1, <2>4, AdvancesTransitive
        <5>3. row.version \in Nat /\ mem[v].st.version \in Nat
          BY <4>1, <1>0 DEF Copies, Rows
        <5>4. mem[v].st.version < row'.version
          BY <5>1, <5>3, <2>2, <2>3
        <5>5. mem[v].st.version <= row'.version /\ mem[v].st.version # row'.version
          BY <5>4, <5>3, <2>2, <2>3
        <5> QED
          BY <4>1, <5>1, <5>2, <5>5 DEF Copied, Answered, Advances, LoadedStatus
      <4> QED BY <4>2, <4>3
    <3> QED BY <3>1, <3>2, <3>3
  <2>12. DependenciesHonoured'
    BY <2>2, <2>4, EngineAssumption DEF Inv, TypeOK, DependenciesHonoured, Advances, Open, Waiting
  <2> QED
    BY <2>6, <2>7, <2>9, <2>10, <2>11, <2>12 DEF Inv
<1> QED BY <1>1, <1>2

\* A process in a call holds a copy that is a row, answered, of the status its
\* call asked for.
LEMMA CopyHeld ==
    ASSUME Inv, NEW w \in Workers, mem[w].pc # "idle"
    PROVE  /\ mem[w] \in Copies
           /\ mem[w].st \in Rows
           /\ Answered(mem[w].st)
           /\ mem[w].st.status \in LoadedStatus(mem[w].pc)
BY DEF Inv, TypeOK, Copied, Copies

\* The shape of a step that only moves a process: begun and the environment stay.
LEMMA QuietStep ==
    ASSUME Inv, NEW w \in Workers, NEW r \in Copies,
           mem' = [mem EXCEPT ![w] = r], UNCHANGED <<row, begun, expired, override>>,
           r.pc # "idle" =>
               /\ r.st.version <= row.version
               /\ r.st.version = row.version => r.st = row
               /\ Advances(r.st.results, row.results)
               /\ Answered(r.st)
               /\ r.st.status \in LoadedStatus(r.pc)
    PROVE  Inv' /\ FinalStep /\ FinishedStep
<1>1. begun' \subseteq Steps /\ expired' \in BOOLEAN /\ override' \in BOOLEAN /\ row' = row
  BY DEF Inv, TypeOK
<1>2. DependenciesHonoured'
  BY DEF Inv, DependenciesHonoured
<1> QED
  BY <1>1, <1>2, CopyStep

\* A call begins: the process copies the row.
LEMMA LoadStep ==
    ASSUME Inv, NEW w \in Workers, NEW pc \in Points, NEW call \in Calls,
           Load(w, pc, call), row.status \in LoadedStatus(pc)
    PROVE  Inv' /\ FinalStep /\ FinishedStep
<1> DEFINE r == [pc |-> pc, call |-> call, st |-> row, ran |-> FALSE, late |-> 0]
<1>1. r \in Copies /\ row \in Rows
  BY DEF Inv, TypeOK, Copies
<1>2. mem' = [mem EXCEPT ![w] = r] /\ UNCHANGED <<row, begun, expired, override>>
  BY DEF Load
<1>3. row.version <= row.version
  BY <1>1 DEF Rows
<1>4. Advances(row.results, row.results) /\ Answered(row)
  BY DEF Advances, Inv, PausesAreAnswered
<1>5. r.st = row /\ r.pc = pc
  OBVIOUS
<1> QED
  BY <1>1, <1>2, <1>3, <1>4, <1>5, QuietStep

\* A call ends without a save.
LEMMA ReturnStep ==
    ASSUME Inv, NEW w \in Workers,
           mem' = [mem EXCEPT ![w] = Idle], UNCHANGED <<row, begun, expired, override>>
    PROVE  Inv' /\ FinalStep /\ FinishedStep
BY IdleIsACopy, QuietStep

\* The status is read again before a further step.
LEMMA RecheckStep ==
    ASSUME Inv, NEW w \in Workers, Recheck(w)
    PROVE  Inv' /\ FinalStep /\ FinishedStep
<1> DEFINE r == [mem[w] EXCEPT !.pc = "ready"]
<1>1. CASE row.status # "running"
  BY <1>1, ReturnStep DEF Recheck
<1>2. CASE row.status = "running"
  <2>1. mem' = [mem EXCEPT ![w] = r] /\ UNCHANGED <<row, begun, expired, override>>
    BY <1>2 DEF Recheck
  <2>2. mem[w] \in Copies /\ Copied(w) /\ mem[w].pc = "loop"
    BY DEF Inv, TypeOK, Recheck
  <2>3. r \in Copies /\ r.st = mem[w].st /\ r.pc = "ready"
    BY <2>2 DEF Copies, Points
  <2>4. r.st.status \in LoadedStatus(r.pc)
    BY <2>2, <2>3 DEF Copied, LoadedStatus
  <2>5. /\ r.st.version <= row.version
        /\ r.st.version = row.version => r.st = row
        /\ Advances(r.st.results, row.results)
        /\ Answered(r.st)
    BY <2>2, <2>3 DEF Copied
  <2> QED
    BY <2>1, <2>3, <2>4, <2>5, QuietStep
<1> QED BY <1>1, <1>2

\* A step is begun on a copy in which its dependencies are met, and what the copy
\* has seen of them is still so.
LEMMA BeginStep ==
    ASSUME Inv, NEW w \in Workers, NEW s \in Steps, Begin(w, s)
    PROVE  Inv' /\ FinalStep /\ FinishedStep
<1> DEFINE late == mem[w].late + IF row.status \in Terminal THEN 1 ELSE 0
<1> DEFINE r == [mem[w] EXCEPT !.pc = "exec", !.late = late]
<1>1. mem' = [mem EXCEPT ![w] = r] /\ begun' = begun \cup {s} /\ UNCHANGED <<row, expired, override>>
  BY DEF Begin
<1>2. mem[w] \in Copies /\ Copied(w) /\ mem[w].pc \in {"loop", "ready"}
  BY DEF Inv, TypeOK, Begin, AtStep
<1>3. late \in Nat
  BY <1>2 DEF Copies
<1>4. r \in Copies /\ r.st = mem[w].st /\ r.pc = "exec"
  BY <1>2, <1>3 DEF Copies, Points
<1>5. r.st.status \in LoadedStatus(r.pc)
  BY <1>2, <1>4 DEF Copied, LoadedStatus
<1>6. /\ r.st.version <= row.version
      /\ r.st.version = row.version => r.st = row
      /\ Advances(r.st.results, row.results)
      /\ Answered(r.st)
  BY <1>2, <1>4 DEF Copied
<1>7. ASSUME NEW d \in DependsOn[s]
      PROVE  row.results[d] = "completed" \/ (Fallback[d] = s /\ row.results[d] # "none")
  <2>1. d \in Steps
    BY EngineAssumption
  <2>2. CASE d \in Sources(s, mem[w].st)
    <3>1. Fallback[d] = s /\ mem[w].st.results[d] # "none"
      BY <2>2 DEF Begin, DependenciesMet, Sources
    <3> QED
      BY <2>1, <3>1, <1>4, <1>6 DEF Advances
  <2>3. CASE d \notin Sources(s, mem[w].st)
    <3>1. mem[w].st.results[d] = "completed"
      BY <2>3 DEF Begin, DependenciesMet
    <3> QED
      BY <2>1, <3>1, <1>4, <1>6 DEF Advances, Open, Waiting
  <2> QED BY <2>2, <2>3
<1>8. DependenciesHonoured'
  BY <1>1, <1>7 DEF Inv, DependenciesHonoured
<1>9. begun' \subseteq Steps /\ expired' \in BOOLEAN /\ override' \in BOOLEAN /\ row' = row
  BY <1>1 DEF Inv, TypeOK
<1> QED
  BY <1>1, <1>4, <1>5, <1>6, <1>8, <1>9, CopyStep

\* A legal save at the end of a call, or at a checkpoint.
LEMMA Returned ==
    ASSUME Inv, NEW w \in Workers, NEW new, mem[w].pc # "idle",
           SaveAndReturn(w, new), Legal(mem[w].st, new)
    PROVE  Inv' /\ FinalStep /\ FinishedStep
BY SaveStep DEF SaveAndReturn

LEMMA Checkpointed ==
    ASSUME Inv, NEW w \in Workers, NEW new, mem[w].pc # "idle",
           Checkpoint(w, new), Legal(mem[w].st, new), new.status = "running"
    PROVE  Inv' /\ FinalStep /\ FinishedStep
<1>1. CASE mem[w].call = "execute"
  BY <1>1, SaveStep DEF Checkpoint
<1>2. CASE mem[w].call # "execute"
  BY <1>2, Returned DEF Checkpoint
<1> QED BY <1>1, <1>2

\* A run that is executed is running and has no step waiting.
LEMMA RunningCopy ==
    ASSUME Inv, NEW w \in Workers, mem[w].pc \in {"loop", "ready", "exec"}
    PROVE  /\ mem[w].pc # "idle"
           /\ mem[w].st \in Rows
           /\ mem[w].ran \in BOOLEAN
           /\ mem[w].st.status = "running"
           /\ \A s \in Steps : mem[w].st.results[s] \notin Waiting
<1>1. mem[w].st \in Rows /\ mem[w].ran \in BOOLEAN /\ Answered(mem[w].st)
  BY CopyHeld DEF Copies
<1>2. mem[w].st.status = "running"
  BY CopyHeld DEF LoadedStatus
<1> QED BY <1>1, <1>2 DEF Answered

\* Ending a running state, or completing one, is legal.
LEMMA EndingIsLegal ==
    ASSUME NEW st \in Rows, st.status = "running", \A s \in Steps : st.results[s] \notin Waiting,
           NEW x \in {"completed", "timed_out"}
    PROVE  Legal(st, [st EXCEPT !.status = x])
<1>1. x \in Statuses
  BY DEF Statuses, Terminal
<1> DEFINE new == [st EXCEPT !.status = x]
<1>2. /\ new \in Rows /\ new.status = x /\ new.results = st.results
      /\ new.version = st.version
  BY <1>1, StatusGiven
<1>3. Answered(new)
  BY <1>2 DEF Answered, Waiting
<1>4. Advances(st.results, new.results)
  BY <1>2 DEF Advances
<1>5. st.status \notin Terminal
  BY DEF Terminal
<1> QED BY <1>2, <1>3, <1>4, <1>5 DEF Legal

\* Recording a final result on a running state that goes on is legal.
LEMMA GoingOnIsLegal ==
    ASSUME NEW st \in Rows, st.status = "running", \A t \in Steps : st.results[t] \notin Waiting,
           NEW s \in Steps, st.results[s] = "none", NEW r \in Results \ Open
    PROVE  /\ Legal(st, Record(st, s, r))
           /\ Record(st, s, r) \in Rows
           /\ Record(st, s, r).status = "running"
           /\ Record(st, s, r).results = [st.results EXCEPT ![s] = r]
           /\ \A t \in Steps : Record(st, s, r).results[t] \notin Waiting
<1> DEFINE new == Record(st, s, r)
<1>1. /\ new \in Rows /\ new.status = "running" /\ new.version = st.version
      /\ new.results = [st.results EXCEPT ![s] = r]
  BY Recorded
<1>2. st.results \in [Steps -> Results]
  BY DEF Rows
<1>3. \A t \in Steps : new.results[t] \notin Waiting
  BY <1>1, <1>2 DEF Open
<1>4. Answered(new)
  BY <1>1, <1>3 DEF Answered, Waiting
<1>5. st.status \notin Terminal /\ st.results[s] \in Open /\ r # "none"
  BY DEF Terminal, Open
<1>6. Legal(st, new)
  BY <1>1, <1>4, <1>5, RecordingIsLegal
<1> QED BY <1>1, <1>3, <1>6

\* Recording a failure that fails the run is legal.
LEMMA FailingIsLegal ==
    ASSUME NEW st \in Rows, st.status = "running", NEW s \in Steps, st.results[s] = "none"
    PROVE  Legal(st, [Record(st, s, "failed") EXCEPT !.status = "failed"])
<1> DEFINE rec == Record(st, s, "failed")
<1> DEFINE new == [rec EXCEPT !.status = "failed"]
<1>1. "failed" \in Results /\ "failed" \in Statuses
  BY DEF Results, Statuses, Terminal
<1>2. rec \in Rows /\ rec.version = st.version /\ rec.results = [st.results EXCEPT ![s] = "failed"]
  BY <1>1, Recorded
<1>3. /\ new \in Rows /\ new.status = "failed" /\ new.version = st.version
      /\ new.results = [st.results EXCEPT ![s] = "failed"]
  BY <1>1, <1>2, StatusGiven
<1>4. Answered(new)
  BY <1>3 DEF Answered, Waiting
<1>5. st.status \notin Terminal /\ st.results[s] \in Open
  BY DEF Terminal, Open
<1> QED BY <1>1, <1>3, <1>4, <1>5, RecordingIsLegal

(***************************************************************************)
(* execute and execute_next                                                 *)
(***************************************************************************)
\* The next step has no result yet.
LEMMA NextIsOpen ==
    ASSUME NEW st \in Rows, NEW s \in Steps, IsNext(s, st)
    PROVE  st.results[s] = "none"
BY DEF IsNext, Pending

LEMMA SearchStep ==
    ASSUME Inv, NEW w \in Workers, Search(w)
    PROVE  Inv' /\ FinalStep /\ FinishedStep
<1>1. CASE Recheck(w)
  BY <1>1, RecheckStep
<1>2. CASE Complete(w)
  <2>1. mem[w].pc \in {"loop", "ready", "exec"}
    BY <1>2 DEF Complete
  <2>2. Legal(mem[w].st, [mem[w].st EXCEPT !.status = "completed"])
    BY <2>1, RunningCopy, EndingIsLegal
  <2> QED BY <1>2, <2>1, <2>2, RunningCopy, Returned DEF Complete
<1>3. ASSUME NEW s \in Steps, Halt(w, s) PROVE Inv' /\ FinalStep /\ FinishedStep
  BY <1>3, ReturnStep DEF Halt
<1>4. ASSUME NEW s \in Steps, TimeOut(w, s) PROVE Inv' /\ FinalStep /\ FinishedStep
  <2>1. mem[w].pc \in {"loop", "ready", "exec"}
    BY <1>4 DEF TimeOut, AtStep
  <2>2. Legal(mem[w].st, [mem[w].st EXCEPT !.status = "timed_out"])
    BY <2>1, RunningCopy, EndingIsLegal
  <2> QED BY <1>4, <2>1, <2>2, RunningCopy, Returned DEF TimeOut
<1>5. ASSUME NEW s \in Steps, Skip(w, s) PROVE Inv' /\ FinalStep /\ FinishedStep
  <2>1. mem[w].pc \in {"loop", "ready", "exec"} /\ IsNext(s, mem[w].st)
    BY <1>5 DEF Skip, AtStep
  <2>2. mem[w].st.results[s] = "none"
    BY <2>1, RunningCopy, NextIsOpen
  <2>3. "skipped" \in Results \ Open
    BY DEF Results, Open, Waiting
  <2>4. /\ Legal(mem[w].st, Record(mem[w].st, s, "skipped"))
        /\ Record(mem[w].st, s, "skipped").status = "running"
    <3>1. /\ mem[w].st \in Rows /\ mem[w].st.status = "running"
          /\ \A t \in Steps : mem[w].st.results[t] \notin Waiting
      BY <2>1, RunningCopy
    <3> QED BY <2>2, <2>3, <3>1, GoingOnIsLegal
  <2> QED BY <1>5, <2>1, <2>4, RunningCopy, SaveStep DEF Skip
<1>6. ASSUME NEW s \in Steps, Begin(w, s) PROVE Inv' /\ FinalStep /\ FinishedStep
  BY <1>6, BeginStep
<1> QED BY <1>1, <1>2, <1>3, <1>4, <1>5, <1>6 DEF Search

\* A step under execution is on a running copy and has no result there.
LEMMA ExecutingCopy ==
    ASSUME Inv, NEW w \in Workers, NEW s \in Steps, Executing(w, s)
    PROVE  /\ mem[w].pc # "idle"
           /\ mem[w].st \in Rows
           /\ mem[w].st.status = "running"
           /\ mem[w].st.results[s] = "none"
           /\ \A t \in Steps : mem[w].st.results[t] \notin Waiting
<1>1. mem[w].pc \in {"loop", "ready", "exec"} /\ IsNext(s, mem[w].st)
  BY DEF Executing
<1> QED BY <1>1, RunningCopy, NextIsOpen

LEMMA StepReturnsStep ==
    ASSUME Inv, NEW w \in Workers, NEW s \in Steps,
           NEW r \in {"completed", "failed", "other"}, StepReturns(w, s, r)
    PROVE  Inv' /\ FinalStep /\ FinishedStep
<1> DEFINE st == mem[w].st
<1>1. /\ mem[w].pc # "idle" /\ st \in Rows /\ st.status = "running" /\ st.results[s] = "none"
      /\ \A t \in Steps : st.results[t] \notin Waiting
  BY ExecutingCopy DEF StepReturns
<1>2. CASE r = "failed" /\ ~AllowsFailure(s)
  <2>1. SaveAndReturn(w, [Record(st, s, "failed") EXCEPT !.status = "failed"])
    BY <1>2 DEF StepReturns
  <2> QED BY <1>1, <2>1, FailingIsLegal, Returned
<1>3. CASE ~(r = "failed" /\ ~AllowsFailure(s))
  <2>1. Checkpoint(w, Record(st, s, r))
    BY <1>3 DEF StepReturns
  <2>2. r \in Results \ Open
    BY DEF Results, Open, Waiting
  <2>3. Legal(st, Record(st, s, r)) /\ Record(st, s, r).status = "running"
    BY <1>1, <2>2, GoingOnIsLegal
  <2> QED BY <1>1, <2>1, <2>3, Checkpointed
<1> QED BY <1>2, <1>3

LEMMA LegalTransitive ==
    ASSUME NEW a, NEW b, NEW c, Legal(a, b), Legal(b, c), a.status \notin Terminal
    PROVE  Legal(a, c)
BY AdvancesTransitive DEF Legal

\* A branch records the condition and skips the other path's step if it is open.
LEMMA BranchStep ==
    ASSUME Inv, NEW w \in Workers, NEW s \in Steps, NEW taken, NEW other,
           Branch(w, s, taken, other)
    PROVE  Inv' /\ FinalStep /\ FinishedStep
<1> DEFINE st == mem[w].st
<1> DEFINE rec == Record(st, s, "completed")
<1>1. /\ mem[w].pc # "idle" /\ st \in Rows /\ st.status = "running" /\ st.results[s] = "none"
      /\ \A t \in Steps : st.results[t] \notin Waiting
  BY ExecutingCopy DEF Branch
<1>2. "completed" \in Results \ Open /\ "skipped" \in Results \ Open
  BY DEF Results, Open, Waiting
<1>3. /\ Legal(st, rec) /\ rec \in Rows /\ rec.status = "running"
      /\ \A t \in Steps : rec.results[t] \notin Waiting
  BY <1>1, <1>2, GoingOnIsLegal
<1>4. CASE other \in Steps /\ other # taken /\ rec.results[other] = "none"
  <2>1. Checkpoint(w, Record(rec, other, "skipped"))
    BY <1>4 DEF Branch
  <2>2. /\ Legal(rec, Record(rec, other, "skipped"))
        /\ Record(rec, other, "skipped").status = "running"
    BY <1>2, <1>3, <1>4, GoingOnIsLegal
  <2>3. st.status \notin Terminal
    BY <1>1 DEF Terminal
  <2>4. Legal(st, Record(rec, other, "skipped"))
    BY <1>3, <2>2, <2>3, LegalTransitive
  <2> QED BY <1>1, <2>1, <2>2, <2>4, Checkpointed
<1>5. CASE ~(other \in Steps /\ other # taken /\ rec.results[other] = "none")
  <2>1. Checkpoint(w, rec)
    BY <1>5 DEF Branch
  <2> QED BY <1>1, <1>3, <2>1, Checkpointed
<1> QED BY <1>4, <1>5

LEMMA PauseStep ==
    ASSUME Inv, NEW w \in Workers, NEW s \in Steps, Pause(w, s)
    PROVE  Inv' /\ FinalStep /\ FinishedStep
<1> DEFINE st == mem[w].st
<1> DEFINE p == PauseOf(Kind[s])
<1> DEFINE rec == Record(st, s, p)
<1> DEFINE new == [rec EXCEPT !.status = p, !.waiting = s]
<1>1. /\ mem[w].pc # "idle" /\ st \in Rows /\ st.status = "running" /\ st.results[s] = "none"
      /\ \A t \in Steps : st.results[t] \notin Waiting
  BY ExecutingCopy DEF Pause
<1>2. p \in Waiting
  BY DEF Pause, PauseOf, Waiting
<1>3. p \in Results /\ p \in Statuses /\ p \notin {"running", "completed", "none"}
  BY <1>2 DEF Results, Statuses, Waiting
<1> HIDE DEF p
<1>4. rec \in Rows /\ rec.version = st.version /\ rec.results = [st.results EXCEPT ![s] = p]
  BY <1>1, <1>3, Recorded
<1> HIDE DEF rec
<1>5. /\ new \in Rows /\ new.status = p /\ new.waiting = s /\ new.version = st.version
      /\ new.results = [st.results EXCEPT ![s] = p]
  <2>1. s \in Steps \cup {None}
    OBVIOUS
  <2>2. p \in Statuses /\ rec \in Rows
    BY <1>3, <1>4
  <2>3. /\ new \in Rows /\ new.status = p /\ new.results = rec.results
        /\ new.waiting = s /\ new.version = rec.version
    BY <2>1, <2>2 DEF Rows
  <2> QED BY <1>4, <2>3
<1>6. st.results \in [Steps -> Results]
  BY <1>1 DEF Rows
<1>7. Answered(new)
  BY <1>1, <1>2, <1>3, <1>5, <1>6 DEF Answered
<1>8. st.status \notin Terminal /\ st.results[s] \in Open /\ p # "none"
  BY <1>1, <1>3 DEF Terminal, Open
<1>9. Legal(st, new)
  BY <1>1, <1>3, <1>5, <1>7, <1>8, RecordingIsLegal
<1>10. SaveAndReturn(w, new)
  BY DEF Pause, p, rec
<1> QED BY <1>1, <1>9, <1>10, Returned

LEMMA ReplanStep ==
    ASSUME Inv, NEW w \in Workers, NEW s \in Steps, NEW fresh \in SUBSET Steps,
           Replan(w, s, fresh)
    PROVE  Inv' /\ FinalStep /\ FinishedStep
<1> DEFINE st == mem[w].st
<1> DEFINE rec == Record(st, s, "replanned")
<1> DEFINE defn == (st.defn \ Pending(st)) \cup {s} \cup fresh
<1>0. PICK broken \in BOOLEAN :
        SaveAndReturn(w, [rec EXCEPT !.replans = st.replans + 1, !.defn = defn, !.broken = broken])
  BY DEF Replan
<1> DEFINE new == [rec EXCEPT !.replans = st.replans + 1, !.defn = defn, !.broken = broken]
<1>1. /\ mem[w].pc # "idle" /\ st \in Rows /\ st.status = "running" /\ st.results[s] = "none"
      /\ \A t \in Steps : st.results[t] \notin Waiting
  BY ExecutingCopy DEF Replan
<1>2. "replanned" \in Results \ Open
  BY DEF Results, Open, Waiting
<1>3. /\ Legal(st, rec) /\ rec \in Rows /\ rec.status = "running"
      /\ \A t \in Steps : rec.results[t] \notin Waiting
  BY <1>1, <1>2, GoingOnIsLegal
<1>4. defn \in SUBSET Steps
  BY <1>1 DEF Rows
<1>5. st.replans + 1 \in 0..MaxReplans
  BY <1>1, EngineAssumption DEF Rows, Replan
<1> HIDE DEF defn, rec
<1>6. /\ new \in Rows /\ new.status = rec.status /\ new.results = rec.results
      /\ new.waiting = rec.waiting /\ new.version = rec.version
  BY <1>3, <1>4, <1>5 DEF Rows
<1>7. Answered(new)
  BY <1>3, <1>6 DEF Answered, Legal
<1>8. Legal(st, new)
  BY <1>1, <1>3, <1>6, <1>7 DEF Legal, Terminal
<1> QED BY <1>0, <1>1, <1>8, Returned

LEMMA ReturnsStep ==
    ASSUME Inv, NEW w \in Workers, Return(w)
    PROVE  Inv' /\ FinalStep /\ FinishedStep
<1> PICK s \in Steps :
        \/ \E r \in {"completed", "failed", "other"} : StepReturns(w, s, r)
        \/ StepBranches(w, s) \/ Pause(w, s) \/ StepRaises(w, s)
        \/ \E fresh \in SUBSET Steps : Replan(w, s, fresh)
  BY DEF Return
<1>1. CASE \E r \in {"completed", "failed", "other"} : StepReturns(w, s, r)
  BY <1>1, StepReturnsStep
<1>2. CASE StepBranches(w, s)
  BY <1>2, BranchStep DEF StepBranches
<1>3. CASE Pause(w, s)
  BY <1>3, PauseStep
<1>4. CASE StepRaises(w, s)
  <2>1. /\ mem[w].pc # "idle" /\ mem[w].st \in Rows /\ mem[w].st.status = "running"
        /\ mem[w].st.results[s] = "none"
    BY <1>4, ExecutingCopy DEF StepRaises
  <2>2. SaveAndReturn(w, [Record(mem[w].st, s, "failed") EXCEPT !.status = "failed"])
    BY <1>4 DEF StepRaises
  <2> QED BY <2>1, <2>2, FailingIsLegal, Returned
<1>5. CASE \E fresh \in SUBSET Steps : Replan(w, s, fresh)
  BY <1>5, ReplanStep
<1> QED BY <1>1, <1>2, <1>3, <1>4, <1>5

(***************************************************************************)
(* Resumes, time-outs and cancel                                            *)
(***************************************************************************)
\* Settling the waiting step of a paused copy is legal.
LEMMA SettleStep ==
    ASSUME Inv, NEW w \in Workers, mem[w].pc \in {"hitl", "wait"},
           NEW r \in Results \ Open, NEW x \in {"running", "failed"},
           SaveAndReturn(w, Settle(mem[w].st, r, x))
    PROVE  Inv' /\ FinalStep /\ FinishedStep
<1> DEFINE st == mem[w].st
<1> DEFINE s == st.waiting
<1> DEFINE rec == Record(st, s, r)
<1> DEFINE new == [rec EXCEPT !.status = x, !.waiting = None]
<1>1. mem[w].pc # "idle" /\ st \in Rows /\ Answered(st)
  BY CopyHeld
<1>2. st.status \in Waiting
  BY CopyHeld DEF LoadedStatus, Waiting
<1>3. /\ s \in Steps /\ st.results[s] \in Waiting
      /\ \A t \in Steps \ {s} : st.results[t] \notin Waiting
  BY <1>1, <1>2 DEF Answered
<1>4. x \in Statuses /\ st.status \notin Terminal /\ st.results[s] \in Open /\ r # "none"
  BY <1>2, <1>3 DEF Statuses, Terminal, Open, Waiting
<1>5. st.results \in [Steps -> Results]
  BY <1>1 DEF Rows
<1> HIDE DEF s
<1>6. rec \in Rows /\ rec.version = st.version /\ rec.results = [st.results EXCEPT ![s] = r]
  BY <1>1, <1>3, Recorded
<1> HIDE DEF rec
<1>7. /\ new \in Rows /\ new.status = x /\ new.waiting = None /\ new.version = st.version
      /\ new.results = [st.results EXCEPT ![s] = r]
  <2>1. None \in Steps \cup {None}
    OBVIOUS
  <2>2. x \in Statuses /\ rec \in Rows
    BY <1>4, <1>6
  <2>3. /\ new \in Rows /\ new.status = x /\ new.results = rec.results
        /\ new.waiting = None /\ new.version = rec.version
    BY <2>1, <2>2 DEF Rows
  <2> QED BY <1>6, <2>3
<1>8. \A t \in Steps : new.results[t] \notin Waiting
  BY <1>3, <1>5, <1>7 DEF Open
<1>9. Answered(new)
  BY <1>7, <1>8 DEF Answered, Waiting
<1>10. Legal(st, new)
  BY <1>1, <1>3, <1>4, <1>7, <1>9, RecordingIsLegal
<1>11. SaveAndReturn(w, new)
  BY DEF Settle, rec, s
<1> QED BY <1>1, <1>10, <1>11, Returned

\* An escalation keeps the run paused at its step.
LEMMA EscalateStep ==
    ASSUME Inv, NEW w \in Workers, Escalate(w)
    PROVE  Inv' /\ FinalStep /\ FinishedStep
<1> DEFINE st == mem[w].st
<1> DEFINE esc == st.escalated \cup {st.waiting}
<1> DEFINE new == [st EXCEPT !.escalated = esc]
<1>1. mem[w].pc = "hitl" /\ mem[w].pc # "idle"
  BY DEF Escalate
<1>2. st \in Rows /\ Answered(st) /\ st.status = "waiting_hitl"
  BY <1>1, CopyHeld DEF LoadedStatus
<1>3. esc \in SUBSET Steps
  BY <1>2 DEF Rows, Answered, Waiting
<1> HIDE DEF esc
<1>4. /\ new \in Rows /\ new.status = st.status /\ new.results = st.results
      /\ new.waiting = st.waiting /\ new.version = st.version
  BY <1>2, <1>3 DEF Rows
<1>5. Answered(new)
  BY <1>2, <1>4 DEF Answered
<1>6. Legal(st, new)
  BY <1>2, <1>4, <1>5 DEF Legal, Advances, Terminal
<1>7. SaveAndReturn(w, new)
  BY DEF Escalate, esc
<1> QED BY <1>1, <1>6, <1>7, Returned

\* Cancel keeps the results, whatever the run's status was.
LEMMA CancelStep ==
    ASSUME Inv, NEW w \in Workers, Cancel(w)
    PROVE  Inv' /\ FinalStep /\ FinishedStep
<1> DEFINE st == mem[w].st
<1> DEFINE new == [st EXCEPT !.status = "cancelled"]
<1>1. mem[w].pc # "idle" /\ "cancelled" \in Statuses
  BY DEF Cancel, Statuses, Terminal
<1>2. st \in Rows
  BY <1>1, CopyHeld
<1>3. /\ new \in Rows /\ new.status = "cancelled" /\ new.results = st.results
      /\ new.version = st.version
  BY <1>1, <1>2, StatusGiven
<1>4. Answered(new)
  BY <1>3 DEF Answered, Waiting
<1>5. Legal(st, new)
  BY <1>3, <1>4 DEF Legal, Advances
<1> QED BY <1>1, <1>5, Returned DEF Cancel

LEMMA ResumeStep ==
    ASSUME Inv, NEW w \in Workers, Resume(w)
    PROVE  Inv' /\ FinalStep /\ FinishedStep
<1>0. /\ {"completed", "rejected", "timed_out"} \subseteq Results \ Open
      /\ {"hitl", "wait"} \subseteq Points /\ "execute" \in Calls
  BY DEF Results, Open, Waiting, Points, Calls
<1>1. CASE LoadForHitl(w)
  <2>1. row.status \in LoadedStatus("hitl")
    BY <1>1 DEF LoadForHitl, LoadedStatus
  <2> QED BY <1>0, <1>1, <2>1, LoadStep DEF LoadForHitl
<1>2. CASE LoadForWait(w)
  <2>1. row.status \in LoadedStatus("wait")
    BY <1>2 DEF LoadForWait, LoadedStatus
  <2> QED BY <1>0, <1>2, <2>1, LoadStep DEF LoadForWait
<1>3. CASE Approve(w)
  BY <1>0, <1>3, SettleStep DEF Approve
<1>4. CASE Reject(w)
  BY <1>0, <1>4, SettleStep DEF Reject
<1>5. CASE Escalate(w)
  BY <1>5, EscalateStep
<1>6. CASE HitlTimesOut(w)
  BY <1>0, <1>6, SettleStep DEF HitlTimesOut
<1>7. CASE ResumeFromWait(w)
  BY <1>0, <1>7, SettleStep DEF ResumeFromWait
<1>8. CASE TimeoutEventWait(w)
  BY <1>0, <1>8, SettleStep DEF TimeoutEventWait
<1> QED BY <1>1, <1>2, <1>3, <1>4, <1>5, <1>6, <1>7, <1>8 DEF Resume

(***************************************************************************)
(* The invariant and the theorems                                           *)
(***************************************************************************)
LEMMA InvInit == Init => Inv
<1> SUFFICES ASSUME Init PROVE Inv
  OBVIOUS
<1>1. StartRow \in Rows
  BY EngineAssumption DEF StartRow, Rows, Statuses, Results
<1>2. TypeOK
  BY <1>1, IdleIsACopy DEF Init, TypeOK
<1>3. PausesAreAnswered
  BY DEF Init, PausesAreAnswered, Answered, StartRow, Waiting
<1>4. \A w \in Workers : Copied(w)
  BY IdleIsACopy DEF Init, Copied
<1>5. DependenciesHonoured
  BY DEF Init, DependenciesHonoured
<1> QED BY <1>2, <1>3, <1>4, <1>5 DEF Inv

\* Every step keeps the invariant and is a step of the action properties.
LEMMA InvNext == Inv /\ [Next]_vars => Inv' /\ FinalStep /\ FinishedStep
<1> SUFFICES ASSUME Inv, [Next]_vars PROVE Inv' /\ FinalStep /\ FinishedStep
  OBVIOUS
<1>1. ASSUME NEW w \in Workers, Act(w) PROVE Inv' /\ FinalStep /\ FinishedStep
  <2>1. ASSUME NEW call \in Calls, Drive(w, call) PROVE Inv' /\ FinalStep /\ FinishedStep
    <3>1. row.status \in LoadedStatus("loop") /\ "loop" \in Points
      BY <2>1 DEF Drive, LoadedStatus, Points
    <3> QED BY <2>1, <3>1, LoadStep DEF Drive
  <2>2. CASE Search(w)
    BY <2>2, SearchStep
  <2>3. CASE Return(w)
    BY <2>3, ReturnsStep
  <2>4. CASE Resume(w)
    BY <2>4, ResumeStep
  <2>5. CASE LoadForCancel(w)
    <3>1. row.status \in LoadedStatus("cancel") /\ "cancel" \in Points /\ "execute" \in Calls
      BY DEF LoadedStatus, Points, Calls, Inv, TypeOK, Rows
    <3> QED BY <2>5, <3>1, LoadStep DEF LoadForCancel
  <2>6. CASE Cancel(w)
    BY <2>6, CancelStep
  <2> QED BY <1>1, <2>1, <2>2, <2>3, <2>4, <2>5, <2>6 DEF Act
<1>2. ASSUME NEW w \in Workers, Crash(w) PROVE Inv' /\ FinalStep /\ FinishedStep
  BY <1>2, ReturnStep DEF Crash
<1>3. ASSUME UNCHANGED <<row, mem, begun>>, expired' \in BOOLEAN, override' \in BOOLEAN
      PROVE  Inv' /\ FinalStep /\ FinishedStep
  BY <1>3 DEF Inv, TypeOK, PausesAreAnswered, Copied, DependenciesHonoured, Answered, Advances,
              LoadedStatus, FinalStep, FinishedStep
<1>4. CASE Expire
  BY <1>3, <1>4 DEF Expire, Inv, TypeOK
<1>5. CASE SetOrRelease
  BY <1>3, <1>5 DEF SetOrRelease, Inv, TypeOK
<1>6. CASE UNCHANGED vars
  BY <1>3, <1>6 DEF vars, Inv, TypeOK
<1> QED BY <1>1, <1>2, <1>4, <1>5, <1>6 DEF Next, NextWithoutCrash

\* The run's state, its copies and what has been begun keep their types, for any
\* definition and any number of processes acting on it.
THEOREM EngineTypes == Spec => []TypeOK
<1>1. Inv => TypeOK
  BY DEF Inv
<1> QED BY <1>1, InvInit, InvNext, PTL DEF Spec

\* A paused run always names the one step that waits, and a run that goes on or
\* has completed has none left waiting, however resumes, time-outs, cancels and
\* crashes interleave.
THEOREM PausesAnswered == Spec => []PausesAreAnswered
<1>1. Inv => PausesAreAnswered
  BY DEF Inv
<1> QED BY <1>1, InvInit, InvNext, PTL DEF Spec

\* No process ever begins a step whose dependencies have not completed for good,
\* although it decides on a copy that may be stale (_check_dependencies).
THEOREM DependenciesRespected == Spec => []DependenciesHonoured
<1>1. Inv => DependenciesHonoured
  BY DEF Inv
<1> QED BY <1>1, InvInit, InvNext, PTL DEF Spec

\* Of all the processes that execute a step, one records its result, for good.
THEOREM ResultsStay == Spec => ResultsAreFinal
<1>1. Inv /\ [Next]_vars =>
        [\A s \in Steps : row.results[s] \notin {"none"} \cup Waiting =>
                              row'.results[s] = row.results[s]]_vars
  BY InvNext DEF FinalStep, Open
<1> QED BY <1>1, InvInit, InvNext, PTL DEF Spec, ResultsAreFinal

\* A run that has ended stays ended with the results it had; only cancel may
\* still rename the end.
THEOREM FinishedStays == Spec => FinishedStaysFinished
<1>1. Inv /\ [Next]_vars =>
        [row.status \in Terminal => /\ row'.status \in {row.status, "cancelled"}
                                    /\ row'.results = row.results]_vars
  BY InvNext DEF FinishedStep
<1> QED BY <1>1, InvInit, InvNext, PTL DEF Spec, FinishedStaysFinished

(***************************************************************************)
(* The run as a sequence of edits                                           *)
(*                                                                          *)
(* Whatever the processes do, and however stale what they hold, the row     *)
(* moves as if one process at a time edited it: a save is taken only from a *)
(* copy that is the row.  Moves says which edits there are.                 *)
(***************************************************************************)
Kept(st, new) == new.results = st.results /\ new.defn = st.defn

\* The status alone, or an escalation.
Renamed(st, new) ==
    /\ Kept(st, new)
    /\ \/ new.status \in {st.status, "timed_out", "cancelled"}
       \/ new.status = "completed" /\ st.status = "running" /\ Pending(st) = {}

\* The next step of a running run gets a result.
Stepped(st, new) ==
    \E s \in Steps, r \in Results \ {"none"} :
        /\ st.status = "running" /\ IsNext(s, st)
        /\ new.results = [st.results EXCEPT ![s] = r]
        /\ new.defn = st.defn
        /\ new.status # "completed"
        /\ r = "skipped" => ~DependenciesMet(s, st)
        /\ r = "failed" => new.status = "failed" \/ AllowsFailure(s)

\* A condition completes and skips a path.
BranchedAt(s, other, st, new) ==
    /\ st.status = "running" /\ IsNext(s, st)
    /\ Kind[s] = "condition" /\ other \in {TruePath[s], FalsePath[s]} /\ other # s
    /\ st.results[other] = "none"
    /\ new.results = [st.results EXCEPT ![s] = "completed", ![other] = "skipped"]
    /\ new.defn = st.defn
    /\ new.status = "running"

Branched(st, new) == \E s, other \in Steps : BranchedAt(s, other, st, new)

Replanned(st, new) ==
    \E s \in Steps :
        /\ ReplanOnFailure
        /\ st.status = "running" /\ IsNext(s, st)
        /\ new.results = [st.results EXCEPT ![s] = "replanned"]
        /\ new.status = "running"

\* The step a run is paused at gets its result.
Settled(st, new) ==
    \E r \in {"completed", "rejected", "timed_out"} :
        /\ st.status \in Waiting
        /\ new.results = [st.results EXCEPT ![st.waiting] = r]
        /\ new.defn = st.defn
        /\ new.status \in {"running", "failed"}

Moves(st, new) ==
    Renamed(st, new) \/ Stepped(st, new) \/ Branched(st, new) \/ Replanned(st, new) \/ Settled(st, new)

\* A save is refused, or it makes the state it was given of the present row.
LEMMA SaveTaken ==
    ASSUME Inv, NEW w \in Workers, NEW new \in Rows, NEW pc, NEW ran,
           mem[w].pc # "idle", Save(w, new, pc, ran)
    PROVE  \/ row' = row
           \/ /\ row = mem[w].st
              /\ row'.status = new.status /\ row'.results = new.results /\ row'.defn = new.defn
<1>1. CASE Fresh(w)
  <2>1. row = mem[w].st
    BY <1>1 DEF Inv, Copied, Fresh
  <2>2. row' = [new EXCEPT !.version = row.version + 1]
    BY <1>1 DEF Save
  <2> QED BY <2>1, <2>2 DEF Rows
<1>2. CASE ~Fresh(w)
  BY <1>2 DEF Save
<1> QED BY <1>1, <1>2

\* So it is enough that what is saved is a move of the copy.
LEMMA SaveMoves ==
    ASSUME Inv, NEW w \in Workers, NEW new \in Rows, NEW pc, NEW ran,
           mem[w].pc # "idle", Save(w, new, pc, ran), Moves(mem[w].st, new)
    PROVE  row' = row \/ Moves(row, row')
<1>1. CASE row' = row
  BY <1>1
<1>2. CASE /\ row = mem[w].st
           /\ row'.status = new.status /\ row'.results = new.results /\ row'.defn = new.defn
  <2>1. CASE Renamed(row, new)
    BY <1>2, <2>1 DEF Moves, Renamed, Kept
  <2>2. CASE Stepped(row, new)
    BY <1>2, <2>2 DEF Moves, Stepped
  <2>3. CASE Branched(row, new)
    <3>1. PICK s, other \in Steps : BranchedAt(s, other, row, new)
      BY <2>3 DEF Branched
    <3>2. BranchedAt(s, other, row, row')
      BY <1>2, <3>1 DEF BranchedAt
    <3> QED BY <3>2 DEF Moves, Branched
  <2>4. CASE Replanned(row, new)
    BY <1>2, <2>4 DEF Moves, Replanned
  <2>5. CASE Settled(row, new)
    BY <1>2, <2>5 DEF Moves, Settled
  <2> QED BY <1>2, <2>1, <2>2, <2>3, <2>4, <2>5 DEF Moves
<1> QED BY <1>1, <1>2, SaveTaken

LEMMA ReturnMoves ==
    ASSUME Inv, NEW w \in Workers, NEW new \in Rows, mem[w].pc # "idle",
           SaveAndReturn(w, new), Moves(mem[w].st, new)
    PROVE  row' = row \/ Moves(row, row')
BY SaveMoves DEF SaveAndReturn

LEMMA CheckpointMoves ==
    ASSUME Inv, NEW w \in Workers, NEW new \in Rows, mem[w].pc # "idle",
           Checkpoint(w, new), Moves(mem[w].st, new)
    PROVE  row' = row \/ Moves(row, row')
BY SaveMoves DEF Checkpoint, SaveAndReturn

\* A step under execution that gets a result, and the run a status.
LEMMA ResultMoves ==
    ASSUME NEW st \in Rows, NEW s \in Steps, NEW r \in Results \ {"none"}, NEW new,
           st.status = "running", IsNext(s, st),
           new.results = [st.results EXCEPT ![s] = r], new.defn = st.defn,
           new.status # "completed", r = "skipped" => ~DependenciesMet(s, st),
           r = "failed" => new.status = "failed" \/ AllowsFailure(s)
    PROVE  Moves(st, new)
BY DEF Moves, Stepped

LEMMA SearchMoves ==
    ASSUME Inv, NEW w \in Workers, Search(w)
    PROVE  row' = row \/ Moves(row, row')
<1> DEFINE st == mem[w].st
<1>1. ASSUME mem[w].pc \in {"loop", "ready"}, NEW x \in {"completed", "timed_out"},
             x = "completed" => Pending(st) = {},
             SaveAndReturn(w, [st EXCEPT !.status = x])
      PROVE  row' = row \/ Moves(row, row')
  <2>1. st \in Rows /\ st.status = "running" /\ mem[w].pc # "idle" /\ x \in Statuses
    BY <1>1, RunningCopy DEF Statuses, Terminal
  <2>2. [st EXCEPT !.status = x] \in Rows /\ Moves(st, [st EXCEPT !.status = x])
    BY <1>1, <2>1, StatusGiven DEF Moves, Renamed, Kept
  <2> QED BY <1>1, <2>1, <2>2, ReturnMoves
<1>2. CASE Complete(w)
  BY <1>1, <1>2 DEF Complete
<1>3. ASSUME NEW s \in Steps, TimeOut(w, s) PROVE row' = row \/ Moves(row, row')
  BY <1>1, <1>3 DEF TimeOut, AtStep
<1>4. ASSUME NEW s \in Steps, Skip(w, s) PROVE row' = row \/ Moves(row, row')
  <2>1. /\ mem[w].pc \in {"loop", "ready"} /\ IsNext(s, st) /\ ~DependenciesMet(s, st)
        /\ Save(w, Record(st, s, "skipped"), "loop", mem[w].ran)
    BY <1>4 DEF Skip, AtStep
  <2>2. st \in Rows /\ st.status = "running" /\ mem[w].pc # "idle"
    BY <2>1, RunningCopy
  <2>3. "skipped" \in Results \ {"none"}
    BY DEF Results
  <2> DEFINE rec == Record(st, s, "skipped")
  <2>4. /\ rec \in Rows /\ rec.results = [st.results EXCEPT ![s] = "skipped"] /\ rec.defn = st.defn
        /\ rec.status = "running"
    BY <2>2, <2>3, Recorded
  <2>5. Moves(st, rec)
    <3> HIDE DEF rec
    <3> QED BY <2>1, <2>2, <2>3, <2>4, ResultMoves
  <2> QED BY <2>1, <2>2, <2>4, <2>5, SaveMoves
<1>5. CASE Recheck(w)
  BY <1>5 DEF Recheck
<1>6. ASSUME NEW s \in Steps, Halt(w, s) \/ Begin(w, s) PROVE row' = row
  BY <1>6 DEF Halt, Begin
<1> QED BY <1>2, <1>3, <1>4, <1>5, <1>6 DEF Search

LEMMA StepReturnsMoves ==
    ASSUME Inv, NEW w \in Workers, NEW s \in Steps,
           NEW r \in {"completed", "failed", "other"}, StepReturns(w, s, r)
    PROVE  row' = row \/ Moves(row, row')
<1> DEFINE st == mem[w].st
           rec == Record(st, s, r)
           fail == [rec EXCEPT !.status = "failed"]
<1>1. /\ mem[w].pc # "idle" /\ st \in Rows /\ st.status = "running" /\ IsNext(s, st)
      /\ r \in Results \ {"none"} /\ "failed" \in Statuses
  BY ExecutingCopy DEF StepReturns, Executing, Results, Statuses, Terminal
<1>2. /\ rec \in Rows /\ rec.results = [st.results EXCEPT ![s] = r] /\ rec.defn = st.defn
      /\ rec.status = "running"
  BY <1>1, Recorded
<1>3. CASE r = "failed" /\ ~AllowsFailure(s)
  <2>1. fail \in Rows /\ fail.results = rec.results /\ fail.defn = rec.defn /\ fail.status = "failed"
    BY <1>1, <1>2, StatusGiven
  <2>2. Moves(st, fail)
    <3> HIDE DEF fail, rec
    <3> QED BY <1>1, <1>2, <1>3, <2>1, ResultMoves
  <2> QED BY <1>1, <1>3, <2>1, <2>2, ReturnMoves DEF StepReturns
<1>4. CASE ~(r = "failed" /\ ~AllowsFailure(s))
  <2>1. Moves(st, rec)
    BY <1>1, <1>2, <1>4, ResultMoves
  <2> QED BY <1>1, <1>2, <1>4, <2>1, CheckpointMoves DEF StepReturns
<1> QED BY <1>3, <1>4

LEMMA BranchMoves ==
    ASSUME Inv, NEW w \in Workers, NEW s \in Steps, NEW taken, NEW other,
           other \in {TruePath[s], FalsePath[s]}, Branch(w, s, taken, other)
    PROVE  row' = row \/ Moves(row, row')
<1> DEFINE st == mem[w].st
           rec == Record(st, s, "completed")
           both == Record(rec, other, "skipped")
<1>1. /\ mem[w].pc # "idle" /\ st \in Rows /\ st.status = "running" /\ IsNext(s, st)
      /\ "completed" \in Results \ {"none"} /\ "skipped" \in Results /\ Kind[s] = "condition"
      /\ st.results[s] = "none"
  BY ExecutingCopy DEF Branch, Executing, Results
<1>2. /\ rec \in Rows /\ rec.results = [st.results EXCEPT ![s] = "completed"] /\ rec.defn = st.defn
      /\ rec.status = "running"
  BY <1>1, Recorded
<1>3. CASE other \in Steps /\ other # taken /\ rec.results[other] = "none"
  <2>1. /\ both \in Rows /\ both.results = [rec.results EXCEPT ![other] = "skipped"]
        /\ both.defn = rec.defn /\ both.status = "running"
    BY <1>1, <1>2, <1>3, Recorded
  <2>2. other # s /\ st.results[other] = "none"
    BY <1>1, <1>2, <1>3 DEF Rows
  <2>3. BranchedAt(s, other, st, both)
    BY <1>1, <1>2, <2>1, <2>2 DEF BranchedAt
  <2>4. Moves(st, both)
    BY <1>3, <2>3 DEF Moves, Branched
  <2> QED BY <1>1, <1>3, <2>1, <2>4, CheckpointMoves DEF Branch
<1>4. CASE ~(other \in Steps /\ other # taken /\ rec.results[other] = "none")
  <2>1. Moves(st, rec)
    BY <1>1, <1>2, ResultMoves
  <2> QED BY <1>1, <1>2, <1>4, <2>1, CheckpointMoves DEF Branch
<1> QED BY <1>3, <1>4

LEMMA PauseMoves ==
    ASSUME Inv, NEW w \in Workers, NEW s \in Steps, Pause(w, s)
    PROVE  row' = row \/ Moves(row, row')
<1> DEFINE st == mem[w].st
           p == PauseOf(Kind[s])
           rec == Record(st, s, p)
           new == [rec EXCEPT !.status = p, !.waiting = s]
<1>1. /\ mem[w].pc # "idle" /\ st \in Rows /\ st.status = "running" /\ IsNext(s, st)
      /\ SaveAndReturn(w, new)
  BY ExecutingCopy DEF Pause, Executing
<1>2. p \in Waiting
  BY DEF Pause, PauseOf, Waiting
<1>3. p \in Results \ {"none"} /\ p \in Statuses /\ p \notin {"completed", "skipped", "failed"}
  BY <1>2 DEF Results, Statuses, Waiting
<1> HIDE DEF p
<1>4. rec \in Rows /\ rec.results = [st.results EXCEPT ![s] = p] /\ rec.defn = st.defn
  BY <1>1, <1>3, Recorded
<1> HIDE DEF rec
<1>5. new \in Rows /\ new.status = p /\ new.results = rec.results /\ new.defn = rec.defn
  <2>1. s \in Steps \cup {None}
    OBVIOUS
  <2>2. p \in Statuses /\ rec \in Rows
    BY <1>3, <1>4
  <2> QED BY <2>1, <2>2 DEF Rows
<1> HIDE DEF new
<1>6. Moves(st, new)
  BY <1>1, <1>3, <1>4, <1>5, ResultMoves
<1> QED BY <1>1, <1>5, <1>6, ReturnMoves

LEMMA ReplanMoves ==
    ASSUME Inv, NEW w \in Workers, NEW s \in Steps, NEW fresh \in SUBSET Steps,
           Replan(w, s, fresh)
    PROVE  row' = row \/ Moves(row, row')
<1> DEFINE st == mem[w].st
           rec == Record(st, s, "replanned")
           defn == (st.defn \ Pending(st)) \cup {s} \cup fresh
<1>0. PICK broken \in BOOLEAN :
        SaveAndReturn(w, [rec EXCEPT !.replans = st.replans + 1, !.defn = defn, !.broken = broken])
  BY DEF Replan
<1> DEFINE new == [rec EXCEPT !.replans = st.replans + 1, !.defn = defn, !.broken = broken]
<1>1. /\ mem[w].pc # "idle" /\ st \in Rows /\ st.status = "running" /\ IsNext(s, st)
      /\ ReplanOnFailure /\ SaveAndReturn(w, new) /\ "replanned" \in Results
  BY <1>0, ExecutingCopy DEF Replan, Executing, Results
<1>2. rec \in Rows /\ rec.results = [st.results EXCEPT ![s] = "replanned"] /\ rec.status = "running"
  BY <1>1, Recorded
<1>3. defn \in SUBSET Steps /\ st.replans + 1 \in 0..MaxReplans
  BY <1>1, EngineAssumption DEF Rows, Replan
<1> HIDE DEF defn, rec
<1>4. new \in Rows /\ new.status = rec.status /\ new.results = rec.results
  BY <1>2, <1>3 DEF Rows
<1> HIDE DEF new
<1>5. Moves(st, new)
  BY <1>1, <1>2, <1>4 DEF Moves, Replanned
<1> QED BY <1>1, <1>4, <1>5, ReturnMoves

LEMMA ReturnsMoves ==
    ASSUME Inv, NEW w \in Workers, Return(w)
    PROVE  row' = row \/ Moves(row, row')
<1> PICK s \in Steps :
        \/ \E r \in {"completed", "failed", "other"} : StepReturns(w, s, r)
        \/ StepBranches(w, s) \/ Pause(w, s) \/ StepRaises(w, s)
        \/ \E fresh \in SUBSET Steps : Replan(w, s, fresh)
  BY DEF Return
<1>1. CASE StepBranches(w, s)
  BY <1>1, BranchMoves DEF StepBranches
<1>2. CASE StepRaises(w, s)
  <2> DEFINE st == mem[w].st
             rec == Record(st, s, "failed")
             fail == [rec EXCEPT !.status = "failed"]
  <2>1. /\ mem[w].pc # "idle" /\ st \in Rows /\ st.status = "running" /\ IsNext(s, st)
        /\ "failed" \in Results \ {"none"} /\ "failed" \in Statuses /\ SaveAndReturn(w, fail)
    BY <1>2, ExecutingCopy DEF StepRaises, Executing, Results, Statuses, Terminal
  <2>2. rec \in Rows /\ rec.results = [st.results EXCEPT ![s] = "failed"] /\ rec.defn = st.defn
    BY <2>1, Recorded
  <2>3. fail \in Rows /\ fail.results = rec.results /\ fail.defn = rec.defn /\ fail.status = "failed"
    BY <2>1, <2>2, StatusGiven
  <2> HIDE DEF fail, rec
  <2>4. Moves(st, fail)
    BY <2>1, <2>2, <2>3, ResultMoves
  <2> QED BY <2>1, <2>3, <2>4, ReturnMoves
<1> QED BY <1>1, <1>2, StepReturnsMoves, PauseMoves, ReplanMoves

LEMMA SettleMoves ==
    ASSUME Inv, NEW w \in Workers, mem[w].pc \in {"hitl", "wait"},
           NEW r \in {"completed", "rejected", "timed_out"}, NEW x \in {"running", "failed"},
           SaveAndReturn(w, Settle(mem[w].st, r, x))
    PROVE  row' = row \/ Moves(row, row')
<1> DEFINE st == mem[w].st
           rec == Record(st, st.waiting, r)
           new == [rec EXCEPT !.status = x, !.waiting = None]
<1>1. /\ mem[w].pc # "idle" /\ st \in Rows /\ st.status \in Waiting /\ st.waiting \in Steps
      /\ r \in Results /\ x \in Statuses
  BY CopyHeld DEF LoadedStatus, Waiting, Answered, Results, Statuses, Terminal
<1>2. rec \in Rows /\ rec.results = [st.results EXCEPT ![st.waiting] = r] /\ rec.defn = st.defn
  BY <1>1, Recorded
<1>3. SaveAndReturn(w, new)
  BY DEF Settle
<1> HIDE DEF rec
<1>4. new \in Rows /\ new.status = x /\ new.results = rec.results /\ new.defn = rec.defn
  <2>1. None \in Steps \cup {None}
    OBVIOUS
  <2>2. x \in Statuses /\ rec \in Rows
    BY <1>1, <1>2
  <2> QED BY <2>1, <2>2 DEF Rows
<1> HIDE DEF new
<1>5. Moves(st, new)
  BY <1>1, <1>2, <1>4 DEF Moves, Settled
<1> QED BY <1>1, <1>3, <1>4, <1>5, ReturnMoves

\* Every step of every process leaves the row alone or moves it.
LEMMA RowMoves ==
    ASSUME Inv, [Next]_vars
    PROVE  row' = row \/ Moves(row, row')
<1>1. ASSUME NEW w \in Workers, Resume(w) PROVE row' = row \/ Moves(row, row')
  <2>1. CASE LoadForHitl(w) \/ LoadForWait(w)
    BY <2>1 DEF LoadForHitl, LoadForWait, Load
  <2>2. CASE Approve(w) \/ Reject(w) \/ HitlTimesOut(w)
    BY <2>2, SettleMoves DEF Approve, Reject, HitlTimesOut
  <2>3. CASE ResumeFromWait(w) \/ TimeoutEventWait(w)
    BY <2>3, SettleMoves DEF ResumeFromWait, TimeoutEventWait
  <2>4. CASE Escalate(w)
    <3> DEFINE st == mem[w].st
               esc == st.escalated \cup {st.waiting}
               new == [st EXCEPT !.escalated = esc]
    <3>1. mem[w].pc # "idle" /\ st \in Rows /\ st.waiting \in Steps
      BY <2>4, CopyHeld DEF Escalate, LoadedStatus, Answered, Waiting
    <3>2. esc \in SUBSET Steps
      BY <3>1 DEF Rows
    <3>3. SaveAndReturn(w, new)
      BY <2>4 DEF Escalate
    <3> HIDE DEF esc
    <3>4. new \in Rows /\ new.status = st.status /\ new.results = st.results /\ new.defn = st.defn
      BY <3>1, <3>2 DEF Rows
    <3> HIDE DEF new
    <3>5. Moves(st, new)
      BY <3>4 DEF Moves, Renamed, Kept
    <3> QED BY <3>1, <3>3, <3>4, <3>5, ReturnMoves
  <2> QED BY <1>1, <2>1, <2>2, <2>3, <2>4 DEF Resume
<1>2. ASSUME NEW w \in Workers, Cancel(w) PROVE row' = row \/ Moves(row, row')
  <2> DEFINE st == mem[w].st
  <2>1. mem[w].pc # "idle" /\ st \in Rows /\ "cancelled" \in Statuses
    BY <1>2, CopyHeld DEF Cancel, Statuses, Terminal
  <2>2. [st EXCEPT !.status = "cancelled"] \in Rows /\ Moves(st, [st EXCEPT !.status = "cancelled"])
    BY <2>1, StatusGiven DEF Moves, Renamed, Kept
  <2> QED BY <1>2, <2>1, <2>2, ReturnMoves DEF Cancel
<1>3. ASSUME NEW w \in Workers, Act(w) PROVE row' = row \/ Moves(row, row')
  BY <1>1, <1>2, <1>3, SearchMoves, ReturnsMoves DEF Act, Drive, LoadForCancel, Load
<1>4. CASE (\E w \in Workers : Crash(w)) \/ Expire \/ SetOrRelease \/ UNCHANGED vars
  BY <1>4 DEF Crash, Expire, SetOrRelease, vars
<1> QED BY <1>3, <1>4 DEF Next, NextWithoutCrash

(***************************************************************************)
(* What a completed run has                                                 *)
(***************************************************************************)
\* A run that has not failed has only failures its steps allow, and one that has
\* completed has no step left.
Sound(st) ==
    /\ st.status \notin {"failed", "timed_out", "cancelled"} =>
         \A s \in Steps : st.results[s] = "failed" => AllowsFailure(s)
    /\ st.status = "completed" => Pending(st) = {}

LEMMA MovesKeepSound ==
    ASSUME NEW st \in Rows, NEW new \in Rows, Sound(st), Moves(st, new)
    PROVE  Sound(new)
<1>0. st.results \in [Steps -> Results]
  BY DEF Rows
<1>1. CASE Renamed(st, new)
  BY <1>1 DEF Renamed, Kept, Sound, Pending
<1>2. CASE Stepped(st, new)
  BY <1>0, <1>2 DEF Stepped, Sound
<1>3. CASE Branched(st, new)
  BY <1>0, <1>3 DEF Branched, BranchedAt, Sound
<1>4. CASE Replanned(st, new)
  BY <1>0, <1>4 DEF Replanned, Sound
<1>5. CASE Settled(st, new)
  BY <1>0, <1>5 DEF Settled, Sound, Waiting
<1> QED BY <1>1, <1>2, <1>3, <1>4, <1>5 DEF Moves

\* A run is completed only when every step of its definition has run or been
\* skipped and every failure in it was one its step allows, whichever process
\* completes it and however often it was re-planned (execute, execute_next).
THEOREM CompletedRunsAreComplete == Spec => []CompletedIsComplete
<1>1. Init => Sound(row)
  BY DEF Init, StartRow, Sound
<1>2. Inv /\ Sound(row) /\ [Next]_vars => Sound(row)'
  <2> SUFFICES ASSUME Inv, Sound(row), [Next]_vars PROVE Sound(row')
    OBVIOUS
  <2>1. row \in Rows /\ row' \in Rows
    BY InvNext DEF Inv, TypeOK
  <2> QED BY <2>1, RowMoves, MovesKeepSound
<1>3. Inv /\ Sound(row) => CompletedIsComplete
  BY DEF Inv, TypeOK, Rows, Sound, Pending, CompletedIsComplete
<1> QED BY <1>1, <1>2, <1>3, InvInit, InvNext, PTL DEF Spec

(***************************************************************************)
(* What becomes of the copies                                               *)
(***************************************************************************)
\* A process keeps its copy, drops it, takes the row, saves it on its way
\* through the steps, or goes on with it to the next step.
CopyMoves(w) ==
    \/ mem'[w] = mem[w]
    \/ mem'[w] = Idle
    \/ mem'[w].st = row' /\ mem'[w].late = 0
    \/ /\ mem[w].pc \in {"loop", "ready", "exec"} /\ mem[w].st = row
       /\ mem'[w].st = row' /\ mem'[w].late = mem[w].late
    \/ /\ mem[w].pc \in {"loop", "ready"} /\ mem'[w].st = mem[w].st
       /\ \/ mem'[w].pc = "ready" /\ mem'[w].late = mem[w].late
          \/ /\ mem'[w].pc = "exec"
             /\ mem'[w].late = mem[w].late + IF row.status \in Terminal THEN 1 ELSE 0

LEMMA SaveCopies ==
    ASSUME Inv, NEW w \in Workers, NEW new, NEW pc \in {"idle", "loop"}, NEW ran,
           mem[w].pc # "idle", pc = "loop" => mem[w].pc \in {"loop", "ready", "exec"},
           Save(w, new, pc, ran), NEW v \in Workers
    PROVE  CopyMoves(v)
<1>1. CASE v # w
  BY <1>1 DEF Save, Inv, TypeOK, CopyMoves
<1>2. CASE v = w /\ ~(Fresh(w) /\ pc = "loop")
  BY <1>2 DEF Save, Inv, TypeOK, CopyMoves
<1>3. CASE v = w /\ Fresh(w) /\ pc = "loop"
  <2>1. mem[w].st = row
    BY <1>3 DEF Inv, Copied, Fresh
  <2>2. mem'[w].st = row' /\ mem'[w].late = mem[w].late
    BY <1>3 DEF Save, Inv, TypeOK
  <2> QED BY <1>3, <2>1, <2>2 DEF CopyMoves
<1> QED BY <1>1, <1>2, <1>3

LEMMA CopiesMove ==
    ASSUME Inv, [Next]_vars, NEW v \in Workers
    PROVE  CopyMoves(v)
<1>0. mem \in [Workers -> Copies]
  BY DEF Inv, TypeOK
<1>1. ASSUME NEW w \in Workers, NEW pc, NEW call, Load(w, pc, call) PROVE CopyMoves(v)
  BY <1>0, <1>1 DEF Load, CopyMoves
<1>2. ASSUME NEW w \in Workers, NEW new, mem[w].pc # "idle", SaveAndReturn(w, new)
      PROVE  CopyMoves(v)
  BY <1>2, SaveCopies DEF SaveAndReturn
<1>3. ASSUME NEW w \in Workers, NEW new, mem[w].pc = "exec", Checkpoint(w, new)
      PROVE  CopyMoves(v)
  BY <1>3, SaveCopies DEF Checkpoint, SaveAndReturn
<1>4. ASSUME NEW w \in Workers, Search(w) PROVE CopyMoves(v)
  <2>1. CASE Recheck(w)
    BY <1>0, <2>1 DEF Recheck, CopyMoves, Copies
  <2>2. CASE Complete(w) \/ \E s \in Steps : TimeOut(w, s)
    BY <1>2, <2>2 DEF Complete, TimeOut, AtStep
  <2>3. ASSUME NEW s \in Steps, Halt(w, s) PROVE CopyMoves(v)
    BY <1>0, <2>3 DEF Halt, CopyMoves
  <2>4. ASSUME NEW s \in Steps, Skip(w, s) PROVE CopyMoves(v)
    BY <2>4, SaveCopies DEF Skip, AtStep
  <2>5. ASSUME NEW s \in Steps, Begin(w, s) PROVE CopyMoves(v)
    BY <1>0, <2>5 DEF Begin, AtStep, CopyMoves, Copies
  <2> QED BY <1>4, <2>1, <2>2, <2>3, <2>4, <2>5 DEF Search
<1>5. ASSUME NEW w \in Workers, Return(w) PROVE CopyMoves(v)
  BY <1>2, <1>3, <1>5 DEF Return, StepReturns, StepBranches, Branch, Pause, StepRaises, Replan, Executing
<1>6. ASSUME NEW w \in Workers, Resume(w) PROVE CopyMoves(v)
  BY <1>1, <1>2, <1>6 DEF Resume, LoadForHitl, LoadForWait, Approve, Reject, Escalate, HitlTimesOut,
                          ResumeFromWait, TimeoutEventWait
<1>7. ASSUME NEW w \in Workers, Act(w) PROVE CopyMoves(v)
  BY <1>1, <1>2, <1>4, <1>5, <1>6, <1>7 DEF Act, Drive, LoadForCancel, Cancel
<1>8. ASSUME NEW w \in Workers, Crash(w) PROVE CopyMoves(v)
  BY <1>0, <1>8 DEF Crash, CopyMoves
<1>9. CASE Expire \/ SetOrRelease \/ UNCHANGED vars
  BY <1>9 DEF Expire, SetOrRelease, vars, CopyMoves
<1> QED BY <1>7, <1>8, <1>9 DEF Next, NextWithoutCrash

(***************************************************************************)
(* What a process does after the end                                        *)
(***************************************************************************)
\* A process that has begun a step of a run that was over is executing it, and
\* the run is over still.
LateOnce ==
    \A w \in Workers :
        \/ mem[w].late = 0
        \/ mem[w].late = 1 /\ mem[w].pc = "exec" /\ row.status \in Terminal

\* A process that is still in a call when the run ends begins at most one more
\* step: the save that would take it to the next is stale, and the status it
\* reads again before that step is no longer running (execute).
THEOREM OneStepLate == Spec => []OneStepAfterTheEnd
<1>1. Init => LateOnce
  BY DEF Init, Idle, LateOnce
<1>2. Inv /\ LateOnce /\ [Next]_vars => LateOnce'
  <2> SUFFICES ASSUME Inv, LateOnce, [Next]_vars, NEW w \in Workers
               PROVE  \/ mem'[w].late = 0
                      \/ mem'[w].late = 1 /\ mem'[w].pc = "exec" /\ row'.status \in Terminal
    BY DEF LateOnce
  <2>1. row.status \in Terminal => row'.status \in Terminal
    BY InvNext DEF FinishedStep, Terminal
  <2>2. ASSUME mem[w].pc \in {"loop", "ready", "exec"}, mem[w].st = row
        PROVE  mem[w].late = 0
    BY <2>2 DEF Inv, Copied, LoadedStatus, LateOnce, Terminal
  <2>3. CopyMoves(w)
    BY CopiesMove
  <2> QED BY <2>1, <2>2, <2>3 DEF CopyMoves, LateOnce, Idle
<1>3. LateOnce => OneStepAfterTheEnd
  BY DEF LateOnce, OneStepAfterTheEnd
<1> QED BY <1>1, <1>2, <1>3, InvInit, InvNext, PTL DEF Spec

(***************************************************************************)
(* Runs that are not re-planned                                             *)
(*                                                                          *)
(* A re-plan may name, as the fallback or the dependency of a step that has *)
(* begun or been skipped, a step the definition did not have then.  Without *)
(* re-planning the definition never changes, and neither does what made a   *)
(* step begin or be skipped.                                                *)
(***************************************************************************)
DefinitionFixed ==
    /\ row.defn = Definition
    /\ \A w \in Workers : mem[w].pc # "idle" => mem[w].st.defn = Definition

LEMMA DefinitionStays ==
    ASSUME ~ReplanOnFailure, Inv, DefinitionFixed, [Next]_vars
    PROVE  DefinitionFixed'
<1>1. row'.defn = Definition
  BY RowMoves DEF Moves, Renamed, Kept, Stepped, Branched, BranchedAt, Replanned, Settled, DefinitionFixed
<1>2. ASSUME NEW w \in Workers, mem'[w].pc # "idle" PROVE mem'[w].st.defn = Definition
  <2>1. CopyMoves(w)
    BY CopiesMove
  <2>2. CASE mem'[w].st = row'
    BY <1>1, <2>2
  <2>3. CASE mem'[w] = Idle
    BY <1>2, <2>3 DEF Idle
  <2>4. CASE mem'[w] = mem[w] \/ (mem[w].pc \in {"loop", "ready"} /\ mem'[w].st = mem[w].st)
    BY <1>2, <2>4 DEF DefinitionFixed
  <2> QED BY <2>1, <2>2, <2>3, <2>4 DEF CopyMoves
<1> QED BY <1>1, <1>2 DEF DefinitionFixed

LEMMA DefinitionStarts == Init => DefinitionFixed
BY DEF Init, StartRow, Idle, DefinitionFixed

\* The history of begun steps grows only by Begin.
LEMMA BegunMoves ==
    ASSUME [Next]_vars
    PROVE  begun' = begun \/ \E w \in Workers, s \in Steps : Begin(w, s)
<1>1. ASSUME NEW w \in Workers, Act(w)
      PROVE  begun' = begun \/ \E s \in Steps : Begin(w, s)
  <2>1. CASE Search(w)
    <3>1. CASE Recheck(w) \/ Complete(w)
      BY <3>1 DEF Recheck, Complete, SaveAndReturn, Save
    <3>2. ASSUME NEW s \in Steps, Halt(w, s) \/ TimeOut(w, s) \/ Skip(w, s) PROVE begun' = begun
      BY <3>2 DEF Halt, TimeOut, Skip, SaveAndReturn, Save
    <3> QED BY <2>1, <3>1, <3>2 DEF Search
  <2>2. CASE Return(w)
    BY <2>2 DEF Return, StepReturns, StepBranches, Branch, Pause, StepRaises, Replan, Checkpoint,
                SaveAndReturn, Save
  <2>3. CASE Resume(w)
    BY <2>3 DEF Resume, LoadForHitl, LoadForWait, Approve, Reject, Escalate, HitlTimesOut,
                ResumeFromWait, TimeoutEventWait, Load, SaveAndReturn, Save
  <2> QED BY <1>1, <2>1, <2>2, <2>3 DEF Act, Drive, LoadForCancel, Cancel, Load, SaveAndReturn, Save
<1> QED BY <1>1 DEF Next, NextWithoutCrash, Crash, Expire, SetOrRelease, vars

\* In a run that is not re-planned a fallback is begun only when a step it stands
\* in for has failed, however stale the state is that the process which begins it
\* has loaded (_check_dependencies).
THEOREM FallbacksFollowFailures ==
    ASSUME ~ReplanOnFailure
    PROVE  Spec => []FallbackOnlyAfterFailure
<1>1. Init => FallbackOnlyAfterFailure
  BY DEF Init, FallbackOnlyAfterFailure
<1>2. Inv /\ DefinitionFixed /\ FallbackOnlyAfterFailure /\ [Next]_vars
        => FallbackOnlyAfterFailure' /\ DefinitionFixed'
  <2> SUFFICES ASSUME Inv, DefinitionFixed, FallbackOnlyAfterFailure, [Next]_vars
               PROVE  FallbackOnlyAfterFailure' /\ DefinitionFixed'
    OBVIOUS
  <2>1. DefinitionFixed' /\ FinalStep
    BY DefinitionStays, InvNext
  <2>2. SUFFICES ASSUME NEW s \in begun', Sources(s, row') # {}
                 PROVE  \E d \in Sources(s, row') : row'.results[d] = "failed"
    BY <2>1 DEF FallbackOnlyAfterFailure
  <2>3. Sources(s, row') = Sources(s, row)
    BY <2>1 DEF DefinitionFixed, Sources
  <2>4. \E d \in Sources(s, row) : row.results[d] = "failed"
    <3>1. CASE s \in begun
      BY <2>2, <2>3, <3>1 DEF FallbackOnlyAfterFailure
    <3>2. CASE s \notin begun
      <4>1. PICK w \in Workers : Begin(w, s)
        BY <2>2, <3>2, BegunMoves DEF Begin
      <4>2. mem[w].pc # "idle" /\ DependenciesMet(s, mem[w].st)
        BY <4>1 DEF Begin, AtStep
      <4>3. Sources(s, mem[w].st) = Sources(s, row)
        BY <4>2 DEF DefinitionFixed, Sources
      <4>4. PICK d \in Sources(s, row) : mem[w].st.results[d] = "failed"
        BY <2>2, <2>3, <4>2, <4>3 DEF DependenciesMet
      <4>5. d \in Steps
        BY <4>4 DEF Sources, Inv, TypeOK, Rows
      <4>6. row.results[d] = "failed"
        BY <4>2, <4>4, <4>5 DEF Inv, Copied, Advances, Open, Waiting
      <4> QED BY <4>6
    <3> QED BY <3>1, <3>2
  <2>5. PICK d \in Sources(s, row) : row.results[d] = "failed"
    BY <2>4
  <2>6. d \in Steps
    BY DEF Sources, Inv, TypeOK, Rows
  <2>7. row'.results[d] = "failed"
    BY <2>1, <2>5, <2>6 DEF FinalStep, Open, Waiting
  <2> QED BY <2>3, <2>7
<1> QED BY <1>1, <1>2, DefinitionStarts, InvInit, InvNext, PTL DEF Spec

\* The causes for which a step is skipped, each told by results that are final.
PathNotTaken(s, st) ==
    \E c \in Steps : Kind[c] = "condition" /\ st.results[c] = "completed"
                    /\ s \in {TruePath[c], FalsePath[c]}
NotCompleted(s, st) ==
    \E d \in DependsOn[s] : st.results[d] \notin Open \cup {"completed"} \/ d \notin st.defn
NotNeeded(s, st) ==
    /\ Sources(s, st) # {}
    /\ \A d \in Sources(s, st) : st.results[d] \notin Open \cup {"failed"}
Cause(s, st) == PathNotTaken(s, st) \/ NotCompleted(s, st) \/ NotNeeded(s, st)

LEMMA CausesLast ==
    ASSUME Inv, FinalStep, row'.defn = row.defn, NEW s \in Steps, Cause(s, row)
    PROVE  Cause(s, row')
<1>0. DependsOn[s] \subseteq Steps /\ row.defn \subseteq Steps
  BY EngineAssumption DEF Inv, TypeOK, Rows
<1>1. CASE PathNotTaken(s, row)
  BY <1>1 DEF PathNotTaken, FinalStep, Open, Waiting, Cause
<1>2. CASE NotCompleted(s, row)
  BY <1>0, <1>2 DEF NotCompleted, FinalStep, Cause
<1>3. CASE NotNeeded(s, row)
  <2>1. Sources(s, row') = Sources(s, row) /\ Sources(s, row) \subseteq Steps
    BY <1>0 DEF Sources
  <2> QED BY <1>3, <2>1 DEF NotNeeded, FinalStep, Cause
<1> QED BY <1>1, <1>2, <1>3 DEF Cause

\* What comes before the next step in the order has a result, so a step whose
\* dependencies are not met when its turn comes will never have them met.
LEMMA UnmetForCause ==
    ASSUME NEW st \in Rows, Answered(st), st.status = "running",
           NEW s \in Steps, IsNext(s, st), ~DependenciesMet(s, st)
    PROVE  Cause(s, st)
<1>0. /\ DependsOn[s] \subseteq Steps /\ st.defn \subseteq Steps
      /\ st.results \in [Steps -> Results]
      /\ Pos \in [Steps -> Nat] /\ Fallback \in [Steps -> Steps \cup {None}]
  BY EngineAssumption DEF Rows
<1>1. ASSUME NEW d \in st.defn, Pos[d] < Pos[s] PROVE st.results[d] \notin Open
  <2>1. st.results[d] \notin Waiting
    BY <1>0 DEF Answered
  <2>2. st.results[d] # "none"
    BY <1>0, <1>1 DEF IsNext, Pending
  <2> QED BY <2>1, <2>2 DEF Open
<1>2. ASSUME NEW d \in Sources(s, st) PROVE st.results[d] \notin Open
  <2>1. d \in st.defn /\ d \in Steps /\ d # s /\ Fallback[d] = s
    BY <1>0 DEF Sources
  <2>2. Pos[d] < Pos[s]
    BY <2>1, OrderAssumption
  <2> QED BY <1>1, <2>1, <2>2
<1>3. CASE \E d \in DependsOn[s] \ Sources(s, st) : st.results[d] # "completed"
  <2>1. PICK d \in DependsOn[s] : st.results[d] # "completed"
    BY <1>3
  <2>2. d \in st.defn => st.results[d] \notin Open
    BY <1>1, OrderAssumption
  <2> QED BY <2>1, <2>2 DEF Cause, NotCompleted
<1>4. CASE /\ Sources(s, st) # {}
           /\ ~ \E d \in Sources(s, st) : st.results[d] = "failed"
  BY <1>2, <1>4 DEF Cause, NotNeeded
<1> QED BY <1>2, <1>3, <1>4 DEF DependenciesMet, Open

\* In a run that is not re-planned a step is skipped only for a cause that never
\* goes away: never because what it depends on had not been reached yet, by any
\* process, from any copy (execute, execute_next, _check_dependencies).
THEOREM SkipsHaveCauses ==
    ASSUME ~ReplanOnFailure
    PROVE  Spec => []SkippedForCause
<1> DEFINE Caused == \A s \in Steps : row.results[s] = "skipped" => Cause(s, row)
<1>1. Init => Caused
  BY DEF Init, StartRow
<1>2. Inv /\ DefinitionFixed /\ Caused /\ [Next]_vars => Caused' /\ DefinitionFixed'
  <2> SUFFICES ASSUME Inv, DefinitionFixed, Caused, [Next]_vars
               PROVE  Caused' /\ DefinitionFixed'
    OBVIOUS
  <2>1. DefinitionFixed' /\ FinalStep
    BY DefinitionStays, InvNext
  <2>2. row'.defn = row.defn /\ row \in Rows /\ Answered(row) /\ row.results \in [Steps -> Results]
    BY <2>1 DEF DefinitionFixed, Inv, TypeOK, PausesAreAnswered, Rows
  <2>3. SUFFICES ASSUME NEW s \in Steps, row'.results[s] = "skipped" PROVE Cause(s, row')
    BY <2>1
  <2>4. CASE row.results[s] = "skipped"
    BY <2>1, <2>2, <2>4, CausesLast
  <2>5. CASE row.results[s] # "skipped" /\ Stepped(row, row')
    <3>1. row.status = "running" /\ IsNext(s, row) /\ ~DependenciesMet(s, row)
      BY <2>2, <2>3, <2>5 DEF Stepped
    <3>2. Cause(s, row)
      BY <2>2, <3>1, UnmetForCause
    <3> QED BY <2>1, <2>2, <3>2, CausesLast
  <2>6. CASE row.results[s] # "skipped" /\ Branched(row, row')
    <3>1. PICK c, other \in Steps : BranchedAt(c, other, row, row')
      BY <2>6 DEF Branched
    <3>2. other = s /\ row'.results[c] = "completed"
      BY <2>2, <2>3, <2>6, <3>1 DEF BranchedAt
    <3> QED BY <3>1, <3>2 DEF BranchedAt, Cause, PathNotTaken
  <2>7. CASE row.results[s] # "skipped" /\ (Renamed(row, row') \/ Settled(row, row') \/ row' = row)
    BY <2>2, <2>3, <2>7 DEF Renamed, Kept, Settled
  <2> QED BY <2>4, <2>5, <2>6, <2>7, RowMoves DEF Moves, Replanned
<1>3. Caused => SkippedForCause
  BY DEF Cause, PathNotTaken, NotCompleted, NotNeeded, SkippedForCause, Open
<1> HIDE DEF Caused
<1> QED BY <1>1, <1>2, <1>3, DefinitionStarts, InvInit, InvNext, PTL DEF Spec
=============================================================================
