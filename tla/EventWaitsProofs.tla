-------------------------- MODULE EventWaitsProofs --------------------------
(***************************************************************************)
(* A claimed event is never lost silently, for any number of deliveries and *)
(* deaths.  The invariant is inductive once it is known that the executor   *)
(* is at work only before the checkpoint, and that a resume that has loaded *)
(* a waiting run never sees it running without the checkpoint again.  A     *)
(* listener is claimed once: a claim is counted against the registration it *)
(* takes the listener from.                                                 *)
(*                                                                          *)
(* The second half is about the events that leave: the outbox from which    *)
(* case events are pushed to a receiver (CasePush).                         *)
(***************************************************************************)
EXTENDS EventWaits, FiniteSetTheorems, TLAPS

\* A leaf that names no prover is Zenon's; those with arithmetic are for SMT.
USE Zenon

\* The executor is at work only while the step has no result.
ExecutorBeforePause == exec # "off" => run \in {"running", "cancelled"}

\* The checkpoint, once loaded by a resume, has been written.
LoadedAfterPause ==
    \A d \in Deliveries : resume[d] \in {"loaded", "direct_loaded"} => run # "running"

\* Only a delivery that claimed the listener has anything to hand over.
OnlyClaimsCarry ==
    \A d \in Deliveries : hook[d] = "claimed" \/ resume[d] # "off" => d \in claims

Inv ==
    /\ TypeOK
    /\ ExecutorBeforePause
    /\ LoadedAfterPause
    /\ OnlyClaimsCarry
    /\ ClaimedIsCarried
    /\ ResumedByAnEvent

LEMMA InvInit == Init => Inv
<1> SUFFICES ASSUME Init PROVE Inv
  OBVIOUS
<1>1. TypeOK
  <2>1. timers \subseteq Nat /\ marked \subseteq timers /\ claims \subseteq Deliveries
    BY DEF Init
  <2>2. dropped \in BOOLEAN
    BY DEF Init
  <2>3. attempts \in Nat /\ due \in 0..attempts /\ rows \in Nat /\ faults \in 0..MaxFaults
    BY WaitAssumption, SMT DEF Init
  <2>4. /\ hook \in [Deliveries -> {"new", "listed", "claimed", "done"}]
        /\ resume \in [Deliveries -> {"off", "queued", "loaded", "direct", "direct_loaded"}]
    BY DEF Init
  <2> QED BY <2>1, <2>2, <2>3, <2>4 DEF Init, TypeOK, Runs
<1>2. ExecutorBeforePause /\ LoadedAfterPause /\ OnlyClaimsCarry
  BY DEF Init, ExecutorBeforePause, LoadedAfterPause, OnlyClaimsCarry
<1>3. ClaimedIsCarried /\ ResumedByAnEvent
  BY DEF Init, ClaimedIsCarried, ResumedByAnEvent
<1> QED BY <1>1, <1>2, <1>3 DEF Inv

\* What the invariant says beside the types.
Facts == ExecutorBeforePause /\ LoadedAfterPause /\ OnlyClaimsCarry /\ ClaimedIsCarried
         /\ ResumedByAnEvent

\* The executor of the step goes on, dies or is driven again.
LEMMA ExecutorStep ==
    ASSUME Inv, Executor \/ ExecutorDies \/ Redrive
    PROVE  Inv'
<1> USE WaitAssumption DEF Inv
<1>1. CASE Register
  <2>1. TypeOK'
    BY <1>1, SMT DEF TypeOK, Register, Runs
  <2>2. Facts'
    BY <1>1 DEF Register, TypeOK, Facts, ExecutorBeforePause, LoadedAfterPause, OnlyClaimsCarry,
                ClaimedIsCarried, ResumedByAnEvent, Unresolved
  <2> QED BY <2>1, <2>2 DEF Facts
<1>2. CASE ScheduleTimeout
  <2>1. TypeOK'
    BY <1>2 DEF TypeOK, ScheduleTimeout, Runs
  <2>2. Facts'
    BY <1>2 DEF ScheduleTimeout, TypeOK, Facts, ExecutorBeforePause, LoadedAfterPause, OnlyClaimsCarry,
                ClaimedIsCarried, ResumedByAnEvent, Unresolved
  <2> QED BY <2>1, <2>2 DEF Facts
<1>3. CASE Checkpoint
  <2>1. TypeOK'
    BY <1>3 DEF TypeOK, Checkpoint, Runs
  <2>2. Facts'
    BY <1>3 DEF Checkpoint, TypeOK, Facts, ExecutorBeforePause, LoadedAfterPause, OnlyClaimsCarry,
                ClaimedIsCarried, ResumedByAnEvent, Unresolved
  <2> QED BY <2>1, <2>2 DEF Facts
<1>4. CASE Redrive
  <2>1. TypeOK'
    BY <1>4 DEF TypeOK, Redrive, Runs
  <2>2. Facts'
    BY <1>4 DEF Redrive, TypeOK, Facts, ExecutorBeforePause, LoadedAfterPause, OnlyClaimsCarry,
                ClaimedIsCarried, ResumedByAnEvent, Unresolved
  <2> QED BY <2>1, <2>2 DEF Facts
<1>5. CASE ExecutorDies
  <2>1. TypeOK'
    BY <1>5, SMT DEF TypeOK, ExecutorDies, Runs
  <2>2. Facts'
    BY <1>5 DEF ExecutorDies, TypeOK, Facts, ExecutorBeforePause, LoadedAfterPause, OnlyClaimsCarry,
                ClaimedIsCarried, ResumedByAnEvent, Unresolved
  <2> QED BY <2>1, <2>2 DEF Facts
<1> QED BY <1>1, <1>2, <1>3, <1>4, <1>5 DEF Executor

\* A delivery lists, claims, hands over, or its process dies.
LEMMA WebhookStep ==
    ASSUME Inv, NEW d \in Deliveries, Webhook(d) \/ HookDies(d)
    PROVE  Inv'
<1> USE WaitAssumption DEF Inv
<1>1. CASE ListWaiting(d)
  <2>1. TypeOK'
    BY <1>1 DEF TypeOK, ListWaiting, Runs
  <2>2. Facts'
    BY <1>1 DEF ListWaiting, TypeOK, Facts, ExecutorBeforePause, LoadedAfterPause, OnlyClaimsCarry,
                ClaimedIsCarried, ResumedByAnEvent, Unresolved
  <2> QED BY <2>1, <2>2 DEF Facts
<1>2. CASE ClaimMatched(d)
  <2>1. TypeOK'
    BY <1>2 DEF TypeOK, ClaimMatched, Runs
  <2>2. Facts'
    BY <1>2 DEF ClaimMatched, TypeOK, Facts, ExecutorBeforePause, LoadedAfterPause, OnlyClaimsCarry,
                ClaimedIsCarried, ResumedByAnEvent, Unresolved
  <2> QED BY <2>1, <2>2 DEF Facts
<1>3. CASE HandOver(d)
  <2>1. TypeOK'
    BY <1>3 DEF TypeOK, HandOver, Runs
  <2>2. Facts'
    BY <1>3 DEF HandOver, TypeOK, Facts, ExecutorBeforePause, LoadedAfterPause, OnlyClaimsCarry,
                ClaimedIsCarried, ResumedByAnEvent, Unresolved
  <2> QED BY <2>1, <2>2 DEF Facts
<1>4. CASE HookDies(d)
  <2>1. TypeOK'
    BY <1>4, SMT DEF TypeOK, HookDies, Runs
  <2>2. Facts'
    BY <1>4 DEF HookDies, TypeOK, Facts, ExecutorBeforePause, LoadedAfterPause, OnlyClaimsCarry,
                ClaimedIsCarried, ResumedByAnEvent, Unresolved
  <2> QED BY <2>1, <2>2 DEF Facts
<1> QED BY <1>1, <1>2, <1>3, <1>4 DEF Webhook

\* A resume loads, saves, gives up, or its worker dies.
LEMMA ResumerStep ==
    ASSUME Inv, NEW d \in Deliveries,
           Resumer(d) \/ ResumeExhausted(d) \/ WorkerDies(d)
    PROVE  Inv'
<1> USE WaitAssumption DEF Inv
<1>1. CASE ResumeLoad(d)
  <2>1. TypeOK'
    BY <1>1 DEF TypeOK, ResumeLoad, ResumeGoes, Runs
  <2>2. Facts'
    BY <1>1 DEF ResumeLoad, ResumeGoes, TypeOK, Facts, ExecutorBeforePause, LoadedAfterPause, OnlyClaimsCarry,
                ClaimedIsCarried, ResumedByAnEvent, Unresolved
  <2> QED BY <2>1, <2>2 DEF Facts
<1>2. CASE ResumeSave(d)
  <2>1. TypeOK'
    BY <1>2 DEF TypeOK, ResumeSave, ResumeGoes, Runs
  <2>2. Facts'
    BY <1>2 DEF ResumeSave, ResumeGoes, TypeOK, Facts, ExecutorBeforePause, LoadedAfterPause, OnlyClaimsCarry,
                ClaimedIsCarried, ResumedByAnEvent, Unresolved
  <2> QED BY <2>1, <2>2 DEF Facts
<1>3. CASE DirectLoad(d)
  <2>1. TypeOK'
    BY <1>3 DEF TypeOK, DirectLoad, ResumeGoes, Runs
  <2>2. Facts'
    BY <1>3 DEF DirectLoad, ResumeGoes, TypeOK, Facts, ExecutorBeforePause, LoadedAfterPause, OnlyClaimsCarry,
                ClaimedIsCarried, ResumedByAnEvent, Unresolved
  <2> QED BY <2>1, <2>2 DEF Facts
<1>4. CASE DirectSave(d)
  <2>1. TypeOK'
    BY <1>4 DEF TypeOK, DirectSave, ResumeGoes, Runs
  <2>2. Facts'
    BY <1>4 DEF DirectSave, ResumeGoes, TypeOK, Facts, ExecutorBeforePause, LoadedAfterPause, OnlyClaimsCarry,
                ClaimedIsCarried, ResumedByAnEvent, Unresolved
  <2> QED BY <2>1, <2>2 DEF Facts
<1>5. CASE ResumeExhausted(d)
  <2>1. TypeOK'
    BY <1>5 DEF TypeOK, ResumeExhausted, ResumeGoes, Runs
  <2>2. Facts'
    BY <1>5 DEF ResumeExhausted, ResumeGoes, TypeOK, Facts, ExecutorBeforePause, LoadedAfterPause,
                OnlyClaimsCarry, ClaimedIsCarried, ResumedByAnEvent, Unresolved
  <2> QED BY <2>1, <2>2 DEF Facts
<1>6. CASE WorkerDies(d)
  <2>1. TypeOK'
    BY <1>6, SMT DEF TypeOK, WorkerDies, ResumeGoes, Runs
  <2>2. Facts'
    BY <1>6 DEF WorkerDies, ResumeGoes, TypeOK, Facts, ExecutorBeforePause, LoadedAfterPause, OnlyClaimsCarry,
                ClaimedIsCarried, ResumedByAnEvent, Unresolved
  <2> QED BY <2>1, <2>2 DEF Facts
<1> QED BY <1>1, <1>2, <1>3, <1>4, <1>5, <1>6 DEF Resumer

\* A time-out marks the listener and looks at the step; time passes; a cancel.
LEMMA TimerStep ==
    ASSUME Inv, NEW n,
           Timer(n) \/ TimePasses \/ Cancel
    PROVE  Inv'
<1> USE WaitAssumption DEF Inv
<1>1. CASE MarkTimedOut(n)
  <2>1. TypeOK'
    <3>1. timers' \subseteq Nat /\ marked' \subseteq timers'
      <4>1. CASE listener = "matched"
        <5>1. timers' = timers \ {n} /\ marked' = marked /\ n \notin marked
          BY <1>1, <4>1 DEF MarkTimedOut
        <5> QED BY <5>1 DEF TypeOK
      <4>2. CASE listener # "matched"
        <5>1. timers' = timers /\ marked' = marked \cup {n} /\ n \in timers
          BY <1>1, <4>2 DEF MarkTimedOut
        <5> QED BY <5>1 DEF TypeOK
      <4> QED BY <4>1, <4>2
    <3>2. listener' \in {"none", "waiting", "matched", "timed_out"}
      BY <1>1 DEF TypeOK, MarkTimedOut
    <3> QED BY <1>1, <3>1, <3>2 DEF TypeOK, MarkTimedOut, TimerUnchanged
  <2>2. Facts'
    BY <1>1 DEF MarkTimedOut, TimerUnchanged, TypeOK, Facts, ExecutorBeforePause, LoadedAfterPause,
                OnlyClaimsCarry, ClaimedIsCarried, ResumedByAnEvent, Unresolved
  <2> QED BY <2>1, <2>2 DEF Facts
<1>2. CASE TimeOutStep(n)
  <2>1. TypeOK'
    BY <1>2 DEF TypeOK, TimeOutStep, TimerUnchanged, StepRecorded, Runs
  <2>2. Facts'
    BY <1>2 DEF TimeOutStep, TimerUnchanged, StepRecorded, TypeOK, Facts, ExecutorBeforePause, LoadedAfterPause,
                OnlyClaimsCarry, ClaimedIsCarried, ResumedByAnEvent, Unresolved
  <2> QED BY <2>1, <2>2 DEF Facts
<1>3. CASE TimePasses
  <2>1. TypeOK'
    BY <1>3, SMT DEF TypeOK, TimePasses, Runs
  <2>2. Facts'
    BY <1>3 DEF TimePasses, TypeOK, Facts, ExecutorBeforePause, LoadedAfterPause, OnlyClaimsCarry,
                ClaimedIsCarried, ResumedByAnEvent, Unresolved
  <2> QED BY <2>1, <2>2 DEF Facts
<1>4. CASE Cancel
  <2>1. TypeOK'
    BY <1>4 DEF TypeOK, Cancel, Runs
  <2>2. Facts'
    BY <1>4 DEF Cancel, TypeOK, Facts, ExecutorBeforePause, LoadedAfterPause, OnlyClaimsCarry, ClaimedIsCarried,
                ResumedByAnEvent, Unresolved
  <2> QED BY <2>1, <2>2 DEF Facts
<1> QED BY <1>1, <1>2, <1>3, <1>4 DEF Timer

LEMMA InvNext == Inv /\ [Next]_vars => Inv'
<1> SUFFICES ASSUME Inv, [Next]_vars PROVE Inv'
  OBVIOUS
<1>1. CASE UNCHANGED vars
  BY <1>1 DEF vars, Inv, TypeOK, ExecutorBeforePause, LoadedAfterPause, OnlyClaimsCarry, ClaimedIsCarried,
              ResumedByAnEvent, Unresolved, Runs
<1>2. CASE Next
  BY <1>2, ExecutorStep, WebhookStep, ResumerStep, TimerStep DEF Next
<1> QED BY <1>1, <1>2

\* The listener, the deliveries and the tasks keep their types, for any number
\* of deliveries and deaths.
THEOREM WaitTypes == Spec => []TypeOK
<1>1. Inv => TypeOK
  BY DEF Inv
<1> QED BY <1>1, InvInit, InvNext, PTL DEF Spec

\* An event that has claimed the listener (claim_matched) is on its way to the
\* run until the run has moved on or the step listens again; otherwise it was
\* dropped in one of the three ways the module names.
THEOREM ClaimsAreCarried == Spec => []ClaimedIsCarried
<1>1. Inv => ClaimedIsCarried
  BY DEF Inv
<1> QED BY <1>1, InvInit, InvNext, PTL DEF Spec

\* No run is resumed from an event wait without an event (resume_workflow_wait).
THEOREM NoEventNoResume == Spec => []ResumedByAnEvent
<1>1. Inv => ResumedByAnEvent
  BY DEF Inv
<1> QED BY <1>1, InvInit, InvNext, PTL DEF Spec

(***************************************************************************)
(* One claim for a listener                                                 *)
(***************************************************************************)
Open == IF listener = "waiting" THEN 1 ELSE 0

\* A row that still waits is one that nobody has claimed.
ClaimsCounted == IsFiniteSet(claims) /\ Cardinality(claims) + Open <= rows

\* Only registering, claiming and marking touch the listener or the claims.
LEMMA OthersLeaveListener ==
    ASSUME [Next]_vars, ~Register, \A d \in Deliveries : ~ClaimMatched(d),
           \A n \in 1..attempts : ~MarkTimedOut(n)
    PROVE  UNCHANGED <<listener, claims, rows>>
BY DEF Next, vars, Executor, ScheduleTimeout, Checkpoint, Redrive, ExecutorDies, Webhook, ListWaiting, HandOver,
       HookDies, Resumer, ResumeGoes, ResumeLoad, ResumeSave, DirectLoad, DirectSave, ResumeExhausted,
       WorkerDies, Timer, TimeOutStep, TimerUnchanged, TimePasses, Cancel

LEMMA ClaimsStayCounted ==
    ASSUME TypeOK, ClaimsCounted, [Next]_vars
    PROVE  ClaimsCounted'
<1>0. rows \in Nat /\ Cardinality(claims) \in Nat /\ Open \in {0, 1}
  BY FS_CardinalityType DEF TypeOK, ClaimsCounted, Open
<1>1. CASE Register
  BY <1>0, <1>1, SMT DEF Register, ClaimsCounted, Open
<1>2. ASSUME NEW d \in Deliveries, ClaimMatched(d) PROVE ClaimsCounted'
  <2>1. CASE listener = "waiting"
    <3>1. claims' = claims \cup {d} /\ rows' = rows /\ Open = 1 /\ Open' = 0
      BY <1>2, <2>1 DEF ClaimMatched, Open
    <3>2. /\ IsFiniteSet(claims \cup {d})
          /\ Cardinality(claims \cup {d}) \in {Cardinality(claims), Cardinality(claims) + 1}
      BY FS_AddElement DEF ClaimsCounted
    <3> QED BY <1>0, <3>1, <3>2, SMT DEF ClaimsCounted
  <2>2. CASE listener # "waiting"
    BY <1>2, <2>2 DEF ClaimMatched, ClaimsCounted, Open
  <2> QED BY <2>1, <2>2
<1>3. ASSUME NEW n, MarkTimedOut(n) PROVE ClaimsCounted'
  BY <1>0, <1>3, SMT DEF MarkTimedOut, TimerUnchanged, ClaimsCounted, Open
<1>4. CASE UNCHANGED <<listener, claims, rows>>
  BY <1>4 DEF ClaimsCounted, Open
<1> QED BY <1>1, <1>2, <1>3, <1>4, OthersLeaveListener

\* However many deliveries have listed a listener, one claims it: claim_matched
\* looks at its status again under the row's lock.  A further claim is of a
\* listener that the step registered anew.
THEOREM ListenersClaimedOnce == Spec => []OneClaimPerListener
<1>1. Init => ClaimsCounted
  BY FS_EmptySet, SMT DEF Init, ClaimsCounted, Open
<1>2. TypeOK /\ ClaimsCounted => OneClaimPerListener
  BY FS_CardinalityType, SMT DEF TypeOK, ClaimsCounted, OneClaimPerListener, Open
<1>3. TypeOK /\ ClaimsCounted /\ [Next]_vars => ClaimsCounted'
  BY ClaimsStayCounted
<1> QED BY <1>1, <1>2, <1>3, WaitTypes, PTL DEF Spec

(***************************************************************************)
(* The case push outbox                                                    *)
(*                                                                         *)
(* A lease that has not run out is the only one on its row, and the row is *)
(* as it was leased (LeaseHolds): what the dispatcher writes at the end is *)
(* about the row it read.                                                  *)
(***************************************************************************)
CONSTANTS Events, Workers, Batch, MaxAttempts, MaxReplays, MaxFlips, MaxCrashes
VARIABLES enabled, trouble, row, worker, received, overrun, replays, flips, crashes

Push == INSTANCE CasePush

PushRows ==
    [status : {"absent", "pending", "delivered", "dead_lettered"}, attempts : Nat, due : BOOLEAN,
     error : {"none", "again", "payload_invalid", "max_attempts_exceeded", "endpoint_rejected"}]

PushAnswers == {"none", "ok", "again", "refused"}

PushTyped ==
    /\ row \in [Events -> PushRows]
    /\ worker \in [Workers -> [attempt : [Events -> Nat], answer : [Events -> PushAnswers]]]

\* Only what is leased is answered, and an event that was taken was received.
Answered ==
    \A w \in Workers, e \in Events :
        /\ worker[w].answer[e] # "none" => Push!Holds(w, e)
        /\ worker[w].answer[e] = "ok" => e \in received

\* A lease that has not run out is the only one, and its row is as it was leased.
LeaseHolds ==
    \A w \in Workers, e \in Events :
        Push!Holds(w, e) /\ e \notin overrun =>
            /\ row[e].status = "pending" /\ ~row[e].due /\ row[e].attempts = worker[w].attempt[e]
            /\ \A v \in Workers \ {w} : ~Push!Holds(v, e)

PushInv == PushTyped /\ Answered /\ LeaseHolds

LEMMA PushInit == Push!Init => PushInv
BY SMT DEF Push!Init, Push!Absent, Push!Idle, Push!Holds, PushInv, PushTyped, PushRows, PushAnswers, Answered,
           LeaseHolds

\* Steps that leave every dispatcher alone and no row that is leased.
LEMMA RowMoves ==
    ASSUME PushInv, NEW e \in Events, NEW r \in PushRows,
           row' = [row EXCEPT ![e] = r], UNCHANGED <<worker, received>>,
           \/ UNCHANGED overrun /\ row[e].status # "pending"
           \/ overrun' = overrun \cup {e}
           \/ UNCHANGED overrun /\ \A w \in Workers : ~Push!Holds(w, e)
    PROVE  PushInv'
<1>1. PushTyped'
  BY DEF PushInv, PushTyped
<1>2. \A w \in Workers, f \in Events : Push!Holds(w, f)' <=> Push!Holds(w, f)
  BY DEF Push!Holds
<1>3. Answered'
  BY <1>2 DEF PushInv, Answered
<1>4. LeaseHolds'
  <2> SUFFICES ASSUME NEW w \in Workers, NEW f \in Events, Push!Holds(w, f), f \notin overrun'
               PROVE  /\ row'[f].status = "pending" /\ ~row'[f].due
                      /\ row'[f].attempts = worker[w].attempt[f]
                      /\ \A v \in Workers \ {w} : ~Push!Holds(v, f)
    BY <1>2 DEF LeaseHolds
  <2>1. f \notin overrun /\ f # e
    BY DEF PushInv, LeaseHolds
  <2> QED BY <2>1 DEF PushInv, PushTyped, LeaseHolds
<1> QED BY <1>1, <1>3, <1>4 DEF PushInv

LEMMA OutboxStep ==
    ASSUME PushInv, NEW e \in Events, Push!Enqueue(e) \/ Push!Replay(e) \/ Push!ComesDue(e)
    PROVE  PushInv' /\ Push!Earned
<1>1. CASE Push!Enqueue(e)
  <2>1. PICK r \in PushRows : row' = [row EXCEPT ![e] = r]
    BY <1>1 DEF Push!Enqueue, Push!Absent, PushRows
  <2>2. row[e].status = "absent"
    BY <1>1, SMT DEF Push!Enqueue, Push!Absent
  <2> QED BY <1>1, <2>1, <2>2, RowMoves DEF Push!Enqueue, Push!Earned, PushInv, PushTyped
<1>2. CASE Push!Replay(e)
  <2>1. PICK r \in PushRows : row' = [row EXCEPT ![e] = r]
    BY <1>2 DEF Push!Replay, Push!Absent, PushRows
  <2> QED BY <1>2, <2>1, RowMoves DEF Push!Replay, Push!Earned, PushInv, PushTyped
<1>3. CASE Push!ComesDue(e)
  <2> DEFINE r == [row[e] EXCEPT !.due = TRUE]
  <2>1. row' = [row EXCEPT ![e] = r] /\ r \in PushRows /\ r.status = row[e].status
    BY <1>3 DEF Push!ComesDue, PushInv, PushTyped, PushRows
  <2> HIDE DEF r
  <2> QED BY <1>3, <2>1, RowMoves DEF Push!ComesDue, Push!Earned, PushInv, PushTyped
<1> QED BY <1>1, <1>2, <1>3

\* The dispatcher w leases the events S.
LeasedBy(w, S) ==
    /\ \A e \in S : row[e].status = "pending" /\ row[e].due
    /\ \A e \in Events :
          /\ e \in S => /\ row'[e].status = "pending" /\ ~row'[e].due
                        /\ row'[e].attempts = row[e].attempts + 1
          /\ e \notin S => row'[e] = row[e]
          /\ ~Push!Holds(w, e) /\ (Push!Holds(w, e)' <=> e \in S) /\ worker'[w].answer[e] = "none"
          /\ e \in S => worker'[w].attempt[e] = row[e].attempts + 1
    /\ \A v \in Workers \ {w} : worker'[v] = worker[v]

LEMMA LeaseMoves ==
    ASSUME PushInv, NEW w \in Workers, Push!Lease(w)
    PROVE  PushTyped' /\ \E S \in SUBSET Events : LeasedBy(w, S)
<1>1. PICK S \in SUBSET Push!Due :
        /\ row' = [e \in Events |-> IF e \in S THEN Push!Leased(e) ELSE row[e]]
        /\ worker' = [worker EXCEPT ![w].attempt =
              [e \in Events |-> IF e \in S THEN row[e].attempts + 1 ELSE 0]]
  BY DEF Push!Lease
<1>2. S \subseteq Events /\ \A e \in S : row[e].status = "pending" /\ row[e].due
  BY DEF Push!Due
<1>3. worker[w] = Push!Idle /\ UNCHANGED <<received, overrun>>
  BY DEF Push!Lease
<1>4. \A e \in Events : /\ e \in S => /\ row'[e] \in PushRows /\ row'[e].status = "pending" /\ ~row'[e].due
                                      /\ row'[e].attempts = row[e].attempts + 1
                        /\ e \notin S => row'[e] = row[e]
  <2>1. ASSUME NEW r \in PushRows
        PROVE  LET new == [r EXCEPT !.attempts = @ + 1, !.due = FALSE]
               IN  new \in PushRows /\ new.status = r.status /\ ~new.due /\ new.attempts = r.attempts + 1
    <3> DEFINE new == [r EXCEPT !.attempts = @ + 1, !.due = FALSE]
    <3>1. new \in PushRows
      <4>1. r.attempts + 1 \in Nat
        BY SMT DEF PushRows
      <4> QED BY <4>1 DEF PushRows
    <3>2. new.status = r.status /\ new.attempts = r.attempts + 1
      BY DEF PushRows
    <3>3. new.due = FALSE
      BY DEF PushRows
    <3> QED BY <3>1, <3>2, <3>3
  <2>2. \A e \in Events : row[e] \in PushRows
    BY DEF PushInv, PushTyped
  <2> QED BY <1>1, <1>2, <2>1, <2>2 DEF Push!Leased
<1>5. /\ \A v \in Workers \ {w} : worker'[v] = worker[v]
      /\ worker'[w].answer = [e \in Events |-> "none"]
      /\ worker'[w].attempt = [e \in Events |-> IF e \in S THEN row[e].attempts + 1 ELSE 0]
      /\ worker'[w] \in [attempt : [Events -> Nat], answer : [Events -> PushAnswers]]
  <2> DEFINE leased == [e \in Events |-> IF e \in S THEN row[e].attempts + 1 ELSE 0]
  <2>1. leased \in [Events -> Nat]
    BY SMT DEF PushInv, PushTyped, PushRows
  <2>2. worker' = [worker EXCEPT ![w].attempt = leased]
    BY <1>1
  <2> HIDE DEF leased
  <2>3. \A v \in Workers \ {w} : worker'[v] = worker[v]
    BY <2>2 DEF PushInv, PushTyped
  <2>4. worker'[w].attempt = leased /\ worker'[w].answer = [e \in Events |-> "none"]
    BY <1>3, <2>2, SMT DEF PushInv, PushTyped, Push!Idle
  <2>5. worker'[w] \in [attempt : [Events -> Nat], answer : [Events -> PushAnswers]]
    BY <2>1, <2>2 DEF PushInv, PushTyped
  <2> QED BY <2>3, <2>4, <2>5 DEF leased
<1>6. PushTyped'
  BY <1>1, <1>4, <1>5 DEF PushInv, PushTyped
<1>7. \A e \in Events : ~Push!Holds(w, e) /\ (Push!Holds(w, e)' <=> e \in S)
  BY <1>3, <1>5, SMT DEF Push!Holds, Push!Idle, PushInv, PushTyped, PushRows
<1>8. LeasedBy(w, S)
  BY <1>2, <1>4, <1>5, <1>7, SMT DEF LeasedBy
<1> QED BY <1>2, <1>6, <1>8

LEMMA LeaseStep ==
    ASSUME PushInv, NEW w \in Workers, Push!Lease(w)
    PROVE  PushInv' /\ Push!Earned
<1>1. PICK S \in SUBSET Events : LeasedBy(w, S)
  BY LeaseMoves
<1>2. UNCHANGED <<received, overrun>>
  BY DEF Push!Lease
<1>3. \A v \in Workers \ {w}, e \in Events : Push!Holds(v, e)' <=> Push!Holds(v, e)
  BY <1>1 DEF LeasedBy, Push!Holds
<1>4. Answered'
  BY <1>1, <1>2, <1>3, SMT DEF PushInv, Answered, LeasedBy
<1>5. LeaseHolds'
  <2>1. ASSUME NEW e \in S, e \notin overrun PROVE \A v \in Workers : ~Push!Holds(v, e)
    BY <1>1, <2>1 DEF PushInv, LeaseHolds, LeasedBy
  <2> SUFFICES ASSUME NEW v \in Workers, NEW e \in Events, Push!Holds(v, e)', e \notin overrun
               PROVE  /\ row'[e].status = "pending" /\ ~row'[e].due
                      /\ row'[e].attempts = worker'[v].attempt[e]
                      /\ \A u \in Workers \ {v} : ~Push!Holds(u, e)'
    BY <1>2 DEF LeaseHolds
  <2>2. CASE v = w
    BY <1>1, <1>3, <2>1, <2>2 DEF LeasedBy
  <2>3. CASE v # w
    <3>1. Push!Holds(v, e) /\ e \notin S
      BY <1>3, <2>1, <2>3
    <3> QED BY <1>1, <1>3, <2>3, <3>1, SMT DEF PushInv, LeaseHolds, LeasedBy
  <2> QED BY <2>2, <2>3
<1>6. Push!Earned
  BY <1>1, SMT DEF Push!Earned, LeasedBy
<1> QED BY <1>4, <1>5, <1>6, LeaseMoves DEF PushInv

LEMMA PostStep ==
    ASSUME PushInv, NEW w \in Workers, NEW e \in Events, Push!Post(w, e)
    PROVE  PushInv' /\ Push!Earned
<1>1. PICK answer \in {"ok", "again", "refused"} :
        /\ worker' = [worker EXCEPT ![w].answer[e] = answer]
        /\ \/ answer # "refused" /\ received' = received \cup {e}
           \/ answer # "ok" /\ UNCHANGED received
  BY DEF Push!Post
<1>2. Push!Holds(w, e) /\ UNCHANGED <<row, overrun>>
  BY DEF Push!Post, Push!Unposted
<1>3. /\ \A v \in Workers : worker'[v].attempt = worker[v].attempt
      /\ \A v \in Workers, f \in Events :
            worker'[v].answer[f] = IF v = w /\ f = e THEN answer ELSE worker[v].answer[f]
      /\ PushTyped'
  BY <1>1, <1>2 DEF PushInv, PushTyped, PushAnswers
<1>4. \A v \in Workers, f \in Events : Push!Holds(v, f)' <=> Push!Holds(v, f)
  BY <1>3 DEF Push!Holds
<1>5. Answered'
  BY <1>1, <1>2, <1>3, <1>4, SMT DEF PushInv, Answered
<1>6. LeaseHolds'
  BY <1>2, <1>3, <1>4, SMT DEF PushInv, LeaseHolds
<1> QED BY <1>2, <1>3, <1>5, <1>6 DEF PushInv, Push!Earned

\* A dispatcher that is done holds nothing, and an event is overrun as long as
\* another holds it.
LEMMA DoneStep ==
    ASSUME PushInv, NEW w \in Workers, Push!Done(w), row' \in [Events -> PushRows], UNCHANGED received,
           \A e \in Events : worker[w].answer[e] = "none" => row'[e] = row[e]
    PROVE  PushInv'
<1>1. /\ \A v \in Workers \ {w} : worker'[v] = worker[v]
      /\ worker'[w] = Push!Idle /\ worker' \in [Workers -> [attempt : [Events -> Nat], answer : [Events -> PushAnswers]]]
      /\ overrun' = {e \in overrun : \E v \in Workers \ {w} : Push!Holds(v, e)}
  BY DEF Push!Done, Push!Idle, PushInv, PushTyped, PushAnswers
<1>2. \A e \in Events : /\ ~Push!Holds(w, e)'
                        /\ \A v \in Workers \ {w} : Push!Holds(v, e)' <=> Push!Holds(v, e)
  BY <1>1, SMT DEF Push!Holds, Push!Idle
<1>3. Answered'
  BY <1>1, <1>2, SMT DEF PushInv, Answered, Push!Idle
<1>4. LeaseHolds'
  <2> SUFFICES ASSUME NEW v \in Workers, NEW e \in Events, Push!Holds(v, e)', e \notin overrun'
               PROVE  /\ row'[e].status = "pending" /\ ~row'[e].due
                      /\ row'[e].attempts = worker'[v].attempt[e]
                      /\ \A u \in Workers \ {v} : ~Push!Holds(u, e)'
    BY DEF LeaseHolds
  <2>1. v # w /\ Push!Holds(v, e) /\ e \notin overrun
    BY <1>1, <1>2
  <2>2. ~Push!Holds(w, e)
    BY <2>1 DEF PushInv, LeaseHolds
  <2>3. row'[e] = row[e]
    BY <2>2 DEF PushInv, Answered
  <2> QED BY <1>1, <1>2, <2>1, <2>3, SMT DEF PushInv, LeaseHolds
<1> QED BY <1>1, <1>3, <1>4 DEF PushInv, PushTyped

LEMMA OutcomeOf ==
    ASSUME MaxAttempts \in Nat, NEW old \in PushRows, NEW attempt \in Nat, NEW answer \in PushAnswers
    PROVE  LET new == Push!Outcome(old, attempt, answer)
           IN  /\ new \in PushRows /\ new.attempts = old.attempts
               /\ answer = "none" => new = old
               /\ answer = "ok" => new.status = "delivered" /\ new.error = "none"
               /\ answer = "refused" => new.status = "dead_lettered" /\ new.error = "endpoint_rejected"
               /\ answer = "again" /\ attempt < MaxAttempts => new.status = old.status
               /\ answer = "again" /\ attempt >= MaxAttempts =>
                    new.status = "dead_lettered" /\ new.error = "max_attempts_exceeded"
<1>1. CASE answer = "none"
  BY <1>1 DEF Push!Outcome
<1>2. CASE answer = "ok"
  BY <1>2 DEF Push!Outcome, PushRows
<1>3. CASE answer = "refused"
  BY <1>3 DEF Push!Outcome, PushRows
<1>4. CASE answer = "again" /\ attempt < MaxAttempts
  <2>1. Push!Outcome(old, attempt, answer) = [old EXCEPT !.due = FALSE, !.error = "again"]
    BY <1>4, SMT DEF Push!Outcome
  <2>2. Push!Outcome(old, attempt, answer) \in PushRows
    BY <2>1 DEF PushRows
  <2>3. Push!Outcome(old, attempt, answer).attempts = old.attempts
    BY <2>1 DEF PushRows
  <2>4. Push!Outcome(old, attempt, answer).status = old.status
    BY <2>1 DEF PushRows
  <2> QED BY <1>4, <2>2, <2>3, <2>4, SMT
<1>5. CASE answer = "again" /\ attempt >= MaxAttempts
  <2>1. Push!Outcome(old, attempt, answer) =
            [old EXCEPT !.status = "dead_lettered", !.error = "max_attempts_exceeded"]
    BY <1>5, SMT DEF Push!Outcome
  <2>2. Push!Outcome(old, attempt, answer) \in PushRows
    BY <2>1 DEF PushRows
  <2>3. Push!Outcome(old, attempt, answer).attempts = old.attempts
    BY <2>1 DEF PushRows
  <2>4. /\ Push!Outcome(old, attempt, answer).status = "dead_lettered"
        /\ Push!Outcome(old, attempt, answer).error = "max_attempts_exceeded"
    BY <2>1 DEF PushRows
  <2> QED BY <1>5, <2>2, <2>3, <2>4, SMT
<1> QED BY <1>1, <1>2, <1>3, <1>4, <1>5, SMT DEF PushAnswers

LEMMA FinishStep ==
    ASSUME MaxAttempts \in Nat, PushInv, NEW w \in Workers, Push!Finish(w)
    PROVE  PushInv' /\ Push!Earned
<1>1. /\ row' = [e \in Events |-> Push!Outcome(row[e], worker[w].attempt[e], worker[w].answer[e])]
      /\ Push!Done(w) /\ UNCHANGED received
  BY DEF Push!Finish
<1>2. \A e \in Events : /\ row[e] \in PushRows /\ worker[w].attempt[e] \in Nat /\ worker[w].answer[e] \in PushAnswers
                        /\ row'[e] = Push!Outcome(row[e], worker[w].attempt[e], worker[w].answer[e])
  BY <1>1 DEF PushInv, PushTyped
<1>3. PushInv'
  BY OutcomeOf, <1>1, <1>2, DoneStep, SMT
<1>4. Push!Earned
  <2> SUFFICES ASSUME NEW e \in Events, row'[e].status # row[e].status, e \notin overrun
               PROVE  /\ row[e].status = "pending"
                      /\ CASE row'[e].status = "delivered" -> e \in received
                           [] row'[e].error = "endpoint_rejected" -> TRUE
                           [] OTHER -> row[e].attempts >= MaxAttempts
    BY DEF Push!Earned
  <2>1. worker[w].answer[e] # "none"
    BY OutcomeOf, <1>2, SMT
  <2>2. row[e].status = "pending" /\ row[e].attempts = worker[w].attempt[e]
    BY <2>1, SMT DEF PushInv, Answered, LeaseHolds
  <2>3. CASE worker[w].answer[e] = "ok"
    BY OutcomeOf, <1>2, <2>2, <2>3, SMT DEF PushInv, Answered
  <2>4. CASE worker[w].answer[e] = "refused"
    BY OutcomeOf, <1>2, <2>2, <2>4, SMT
  <2>5. CASE worker[w].answer[e] = "again"
    BY OutcomeOf, <1>2, <2>2, <2>5, SMT
  <2> QED BY <1>2, <2>1, <2>3, <2>4, <2>5 DEF PushAnswers
<1> QED BY <1>3, <1>4

LEMMA PushStep ==
    ASSUME MaxAttempts \in Nat, PushInv, [Push!Next]_(Push!vars)
    PROVE  PushInv' /\ [Push!Earned]_(Push!vars)
<1>1. ASSUME NEW w \in Workers, Push!Crash(w) \/ Push!Refuse(w) PROVE PushInv' /\ Push!Earned
  BY <1>1, DoneStep DEF Push!Crash, Push!Refuse, Push!BatchLost, Push!Earned, PushInv, PushTyped
<1>2. CASE Push!Configure \/ Push!Environment
  <2>1. UNCHANGED <<row, worker, received, overrun>>
    BY <1>2 DEF Push!Configure, Push!Environment
  <2> QED BY <2>1 DEF Push!Earned, Push!Holds, PushInv, PushTyped, Answered, LeaseHolds
<1>3. CASE UNCHANGED Push!vars
  BY <1>3 DEF Push!vars, Push!Holds, PushInv, PushTyped, Answered, LeaseHolds
<1> QED BY <1>1, <1>2, <1>3, OutboxStep, LeaseStep, PostStep, FinishStep DEF Push!Next, Push!Dispatch

\* For any events, dispatchers, batch and number of attempts: unless a lease ran
\* out under a dispatcher, a row becomes delivered only if the receiver took the
\* event, a dead letter only if the receiver refused it or the attempts were used
\* up, and neither is overwritten by another batch (_dispatch_tenant).
THEOREM OutcomesAreEarned ==
    ASSUME MaxAttempts \in Nat
    PROVE  Push!Spec => Push!OutcomeIsEarned
<1>1. PushInv /\ [Push!Next]_(Push!vars) => PushInv' /\ [Push!Earned]_(Push!vars)
  BY PushStep
<1> QED BY <1>1, PushInit, PTL DEF Push!Spec, Push!OutcomeIsEarned

-----------------------------------------------------------------------------
(* Attempts beyond the last                                                *)

PushSetup == IsFiniteSet(Workers) /\ MaxAttempts \in Nat /\ MaxCrashes \in Nat

\* The dispatchers whose attempt at an event is the last one or a later one.
LastTries(e) == {w \in Workers : Push!Holds(w, e) /\ worker[w].attempt[e] >= MaxAttempts}

\* Every attempt after the last belongs to a dispatcher at work or to a lost batch.
Tried ==
    \A e \in Events :
        /\ row[e].attempts =< MaxAttempts + MaxCrashes + Cardinality(Workers)
        /\ row[e].status = "pending" => row[e].attempts =< MaxAttempts + crashes + Cardinality(LastTries(e))

TriedInv ==
    /\ PushInv /\ Tried /\ crashes \in 0..MaxCrashes
    /\ enabled \in BOOLEAN /\ trouble \in {"none", "keys", "address"} /\ received \subseteq Events
    /\ overrun \subseteq {e \in Events : \E w \in Workers : Push!Holds(w, e)}

LEMMA TriedInit == ASSUME PushSetup, Push!Init PROVE TriedInv
<1>1. \A e \in Events : LastTries(e) = {}
  BY SMT DEF Push!Init, Push!Idle, Push!Holds, LastTries
<1>2. Cardinality(Workers) \in Nat /\ Cardinality({}) = 0
  BY FS_CardinalityType, FS_EmptySet DEF PushSetup
<1>3. Tried
  BY <1>1, <1>2, SMT DEF Push!Init, Push!Absent, Tried, PushSetup
<1> QED BY <1>3, PushInit, SMT DEF Push!Init, TriedInv, PushSetup

\* Tries are finitely many, and at most one for each dispatcher.
LEMMA TriesBounded ==
    ASSUME PushSetup, NEW S \in SUBSET Workers
    PROVE  IsFiniteSet(S) /\ Cardinality(S) \in Nat /\ Cardinality(Workers) \in Nat
           /\ Cardinality(S) =< Cardinality(Workers)
BY FS_Subset, FS_CardinalityType DEF PushSetup

LEMMA CardinalitySame == ASSUME NEW S PROVE Push!Cardinality(S) = Cardinality(S)
BY DEF Push!Cardinality, Cardinality, Push!IsFiniteSet, IsFiniteSet

\* Overrun events are held.
Overrun ==
    /\ enabled \in BOOLEAN /\ trouble \in {"none", "keys", "address"} /\ received \subseteq Events
    /\ overrun \subseteq {e \in Events : \E w \in Workers : Push!Holds(w, e)}

LEMMA OverrunHeld ==
    ASSUME TriedInv, [Push!Next]_(Push!vars)
    PROVE  Overrun'
<1> USE DEF TriedInv, Overrun
<1>1. ASSUME NEW e \in Events, Push!Enqueue(e) \/ Push!Replay(e) \/ Push!ComesDue(e) PROVE Overrun'
  BY <1>1 DEF Push!Enqueue, Push!Replay, Push!ComesDue, Push!Holds
<1>2. ASSUME NEW w \in Workers, Push!Lease(w) PROVE Overrun'
  <2>1. PICK S \in SUBSET Events : LeasedBy(w, S)
    BY <1>2, LeaseMoves
  <2>2. \A v \in Workers, e \in Events : Push!Holds(v, e) => Push!Holds(v, e)'
    BY <2>1 DEF LeasedBy, Push!Holds
  <2> QED BY <1>2, <2>2 DEF Push!Lease
<1>3. ASSUME NEW w \in Workers, NEW e \in Events, Push!Post(w, e) PROVE Overrun'
  <2>1. \A v \in Workers : worker'[v].attempt = worker[v].attempt
    BY <1>3, SMT DEF Push!Post, PushInv, PushTyped
  <2> QED BY <1>3, <2>1 DEF Push!Post, Push!Holds
<1>4. ASSUME NEW w \in Workers, Push!Finish(w) \/ Push!Crash(w) \/ Push!Refuse(w) PROVE Overrun'
  <2>1. Push!Done(w) /\ UNCHANGED <<enabled, trouble, received>>
    BY <1>4 DEF Push!Finish, Push!Crash, Push!Refuse, Push!BatchLost
  <2>2. \A v \in Workers \ {w} : worker'[v] = worker[v]
    BY <2>1 DEF Push!Done, PushInv, PushTyped
  <2> QED BY <2>1, <2>2 DEF Push!Done, Push!Holds
<1>5. CASE Push!Configure \/ UNCHANGED Push!vars
  BY <1>5 DEF Push!Configure, Push!vars, Push!Holds
<1>6. CASE Push!Environment
  BY <1>6 DEF Push!Environment, Push!Holds
<1> QED BY <1>1, <1>2, <1>3, <1>4, <1>5, <1>6 DEF Push!Next, Push!Dispatch

\* Steps that leave the attempts of the dispatchers alone.
LEMMA TriedAlone ==
    ASSUME TriedInv, \A w \in Workers : worker'[w].attempt = worker[w].attempt, UNCHANGED crashes,
           \A e \in Events : \/ row'[e].attempts = row[e].attempts /\ row'[e].status = row[e].status
                             \/ row'[e].attempts = 0,
           PushSetup
    PROVE  Tried'
<1>1. \A e \in Events : LastTries(e)' = LastTries(e)
  BY DEF LastTries, Push!Holds
<1>2. \A e \in Events : Cardinality(LastTries(e)) \in Nat /\ Cardinality(Workers) \in Nat
  BY TriesBounded DEF LastTries
<1> QED BY <1>1, <1>2, SMT DEF TriedInv, Tried, PushSetup

LEMMA TriedLease ==
    ASSUME PushSetup, TriedInv, NEW w \in Workers, Push!Lease(w)
    PROVE  Tried'
<1>1. PICK S \in SUBSET Events : LeasedBy(w, S)
  BY LeaseMoves DEF TriedInv
<1>2. UNCHANGED crashes /\ crashes \in 0..MaxCrashes
  BY DEF Push!Lease, Push!Bounds, TriedInv
<1> SUFFICES ASSUME NEW e \in Events
             PROVE  /\ row'[e].attempts =< MaxAttempts + MaxCrashes + Cardinality(Workers)
                    /\ row'[e].status = "pending" =>
                          row'[e].attempts =< MaxAttempts + crashes + Cardinality(LastTries(e)')
  BY <1>2 DEF Tried
<1>3. w \notin LastTries(e) /\ LastTries(e) \subseteq Workers /\ row[e].attempts \in Nat
  BY <1>1 DEF LeasedBy, LastTries, TriedInv, PushInv, PushTyped, PushRows
<1>4. CASE e \notin S
  <2>1. LastTries(e)' = LastTries(e)
    BY <1>1, <1>3, <1>4, SMT DEF LeasedBy, LastTries, Push!Holds
  <2> QED BY <1>1, <1>4, <2>1 DEF LeasedBy, TriedInv, Tried
<1>5. CASE e \in S /\ row[e].attempts + 1 < MaxAttempts
  BY <1>1, <1>2, <1>3, <1>5, TriesBounded, SMT DEF LeasedBy, PushSetup, LastTries
<1>6. CASE e \in S /\ row[e].attempts + 1 >= MaxAttempts
  <2>1. LastTries(e)' = LastTries(e) \cup {w}
    BY <1>1, <1>3, <1>6, SMT DEF LeasedBy, LastTries, Push!Holds
  <2>2. Cardinality(LastTries(e)') = Cardinality(LastTries(e)) + 1 /\ LastTries(e)' \subseteq Workers
    BY <1>3, <2>1, FS_AddElement, TriesBounded
  <2>3. row[e].attempts =< MaxAttempts + crashes + Cardinality(LastTries(e))
    BY <1>1, <1>6 DEF LeasedBy, TriedInv, Tried
  <2>4. /\ Cardinality(LastTries(e)) \in Nat /\ Cardinality(Workers) \in Nat
        /\ Cardinality(LastTries(e)') =< Cardinality(Workers)
    BY <1>3, <2>2, TriesBounded
  <2>5. row'[e].attempts = row[e].attempts + 1
    BY <1>1, <1>6 DEF LeasedBy
  <2> QED BY <1>2, <1>3, <2>2, <2>3, <2>4, <2>5, SMT DEF PushSetup
<1> QED BY <1>3, <1>4, <1>5, <1>6, SMT DEF PushSetup

\* What is left of the last tries when a dispatcher is done.
LEMMA TriedDone ==
    ASSUME PushSetup, TriedInv, NEW w \in Workers, Push!Done(w), NEW e \in Events
    PROVE  /\ LastTries(e)' = LastTries(e) \ {w}
           /\ Cardinality(LastTries(e)) \in Nat /\ Cardinality(LastTries(e)') \in Nat
           /\ Cardinality(Workers) \in Nat
           /\ Cardinality(LastTries(e)') >= Cardinality(LastTries(e)) - 1
<1>1. (\A v \in Workers \ {w} : worker'[v] = worker[v]) /\ worker'[w] = Push!Idle
  BY DEF Push!Done, TriedInv, PushInv, PushTyped
<1>2. LastTries(e)' = LastTries(e) \ {w}
  BY <1>1, SMT DEF LastTries, Push!Holds, Push!Idle
<1>3. LastTries(e) \subseteq Workers
  BY DEF LastTries
<1>4. IsFiniteSet(LastTries(e)) /\ Cardinality(LastTries(e)) \in Nat /\ Cardinality(Workers) \in Nat
  BY <1>3, TriesBounded
<1>5. LastTries(e) \ {w} \subseteq Workers
  BY <1>3
<1> QED BY <1>2, <1>4, <1>5, TriesBounded, FS_RemoveElement, SMT

LEMMA TriedFinish ==
    ASSUME PushSetup, TriedInv, NEW w \in Workers, Push!Finish(w)
    PROVE  Tried'
<1>1. /\ Push!Done(w) /\ UNCHANGED crashes
      /\ row' = [e \in Events |-> Push!Outcome(row[e], worker[w].attempt[e], worker[w].answer[e])]
      /\ \A e \in Events : Push!Holds(w, e) => worker[w].answer[e] # "none"
  BY DEF Push!Finish, Push!Unposted, Push!Bounds
<1> SUFFICES ASSUME NEW e \in Events
             PROVE  /\ row'[e].attempts =< MaxAttempts + MaxCrashes + Cardinality(Workers)
                    /\ row'[e].status = "pending" =>
                          row'[e].attempts =< MaxAttempts + crashes + Cardinality(LastTries(e)')
  BY <1>1 DEF Tried
<1>2. /\ row[e] \in PushRows /\ worker[w].attempt[e] \in Nat /\ worker[w].answer[e] \in PushAnswers
      /\ row'[e] = Push!Outcome(row[e], worker[w].attempt[e], worker[w].answer[e])
  BY <1>1 DEF TriedInv, PushInv, PushTyped
<1>3. row'[e].attempts = row[e].attempts
  BY <1>2, OutcomeOf, SMT DEF PushSetup
<1>4. ASSUME row'[e].status = "pending" PROVE row[e].status = "pending" /\ w \notin LastTries(e)
  <2>1. CASE worker[w].answer[e] = "none"
    BY <1>1, <1>2, <1>4, <2>1, OutcomeOf, SMT DEF PushSetup, LastTries
  <2>2. CASE worker[w].answer[e] \in {"ok", "refused"}
    BY <1>2, <1>4, <2>2, OutcomeOf, SMT DEF PushSetup
  <2>3. CASE worker[w].answer[e] = "again" /\ worker[w].attempt[e] < MaxAttempts
    BY <1>2, <1>4, <2>3, OutcomeOf, SMT DEF PushSetup, LastTries
  <2>4. CASE worker[w].answer[e] = "again" /\ worker[w].attempt[e] >= MaxAttempts
    BY <1>2, <1>4, <2>4, OutcomeOf, SMT DEF PushSetup
  <2> QED BY <1>2, <2>1, <2>2, <2>3, <2>4, SMT DEF PushSetup, PushAnswers
<1>5. LastTries(e)' = LastTries(e) \ {w}
  BY <1>1, TriedDone
<1>6. w \notin LastTries(e) => LastTries(e)' = LastTries(e)
  BY <1>5
<1> QED BY <1>3, <1>4, <1>6 DEF TriedInv, Tried

LEMMA TriedCrash ==
    ASSUME PushSetup, TriedInv, NEW w \in Workers, Push!BatchLost(w)
    PROVE  Tried' /\ crashes' \in 0..MaxCrashes
<1>1. Push!Done(w) /\ UNCHANGED row /\ crashes' = crashes + 1 /\ crashes' \in 0..MaxCrashes
  BY SMT DEF Push!BatchLost, TriedInv, PushSetup
<1> SUFFICES ASSUME NEW e \in Events
             PROVE  /\ row[e].attempts =< MaxAttempts + MaxCrashes + Cardinality(Workers)
                    /\ row[e].status = "pending" =>
                          row[e].attempts =< MaxAttempts + crashes' + Cardinality(LastTries(e)')
  BY <1>1 DEF Tried
<1>2. row[e].attempts \in Nat
  BY DEF TriedInv, PushInv, PushTyped, PushRows
<1> QED BY <1>1, <1>2, TriedDone, SMT DEF TriedInv, Tried, PushSetup

LEMMA TriedStep ==
    ASSUME PushSetup, TriedInv, [Push!Next]_(Push!vars)
    PROVE  TriedInv'
<1>1. ASSUME NEW e \in Events, Push!Enqueue(e) \/ Push!Replay(e) \/ Push!ComesDue(e)
      PROVE  Tried' /\ crashes' \in 0..MaxCrashes
  <2>1. /\ UNCHANGED <<worker, crashes>>
        /\ \A f \in Events \ {e} : row'[f] = row[f]
        /\ \/ row'[e].attempts = row[e].attempts /\ row'[e].status = row[e].status
           \/ row'[e].attempts = 0
    <3>1. row \in [Events -> PushRows]
      BY DEF TriedInv, PushInv, PushTyped
    <3>2. CASE Push!Enqueue(e)
      BY <3>1, <3>2 DEF Push!Enqueue, Push!Absent, Push!Bounds
    <3>3. CASE Push!Replay(e)
      BY <3>1, <3>3 DEF Push!Replay, Push!Absent
    <3>4. CASE Push!ComesDue(e)
      BY <3>1, <3>4 DEF Push!ComesDue, Push!Bounds, PushRows
    <3> QED BY <1>1, <3>2, <3>3, <3>4
  <2> QED BY <2>1, TriedAlone DEF TriedInv
<1>2. ASSUME NEW w \in Workers, NEW e \in Events, Push!Post(w, e)
      PROVE  Tried' /\ crashes' \in 0..MaxCrashes
  <2>1. UNCHANGED <<row, crashes>> /\ \A v \in Workers : worker'[v].attempt = worker[v].attempt
    BY <1>2, SMT DEF Push!Post, Push!Bounds, TriedInv, PushInv, PushTyped
  <2> QED BY <2>1, TriedAlone DEF TriedInv
<1>3. ASSUME Push!Configure \/ Push!Environment \/ UNCHANGED Push!vars
      PROVE  Tried' /\ crashes' \in 0..MaxCrashes
  BY <1>3, TriedAlone DEF Push!Configure, Push!Environment, Push!vars, TriedInv
<1>4. ASSUME NEW w \in Workers, Push!Lease(w) \/ Push!Finish(w)
      PROVE  Tried' /\ crashes' \in 0..MaxCrashes
  BY <1>4, TriedLease, TriedFinish DEF Push!Lease, Push!Finish, Push!Bounds, TriedInv
<1>5. Tried' /\ crashes' \in 0..MaxCrashes
  BY <1>1, <1>2, <1>3, <1>4, TriedCrash DEF Push!Next, Push!Dispatch, Push!Crash, Push!Refuse
<1> QED BY <1>5, PushStep, OverrunHeld DEF TriedInv, Overrun, PushSetup

LEMMA TriedTypes == ASSUME PushSetup, TriedInv PROVE Push!TypeOK
<1>1. \A e \in Events : row[e] \in PushRows
                       /\ row[e].attempts =< MaxAttempts + MaxCrashes + Push!Cardinality(Workers)
  BY CardinalitySame DEF TriedInv, PushInv, PushTyped, Tried
<1> QED BY <1>1, SMT DEF Push!TypeOK, TriedInv, PushInv, PushTyped, PushRows

\* However often leases run out, a row is attempted at most MaxAttempts times,
\* and once more for each batch that was lost to a death or an exception and for
\* each dispatcher there is (_dispatch_tenant counts the attempt when it leases the
\* row).
THEOREM AttemptsAreBounded ==
    ASSUME PushSetup
    PROVE  Push!Spec => []Push!TypeOK
<1>1. Push!Init => TriedInv
  BY TriedInit
<1>2. TriedInv /\ [Push!Next]_(Push!vars) => TriedInv'
  BY TriedStep
<1>3. TriedInv => Push!TypeOK
  BY TriedTypes
<1> QED BY <1>1, <1>2, <1>3, PTL DEF Push!Spec
=============================================================================
