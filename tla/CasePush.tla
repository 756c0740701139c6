------------------------------- MODULE CasePush -------------------------------
(***************************************************************************)
(* The outbox that hands cases to a tenant's receiver                      *)
(* (core/cases/push.py).  Events are written with the change of their      *)
(* case; dispatchers lease the due ones, post them one by one and write    *)
(* the outcomes in one transaction at the end.  A lease is a time, not a   *)
(* lock: nothing but that time keeps two dispatchers off one event, and a  *)
(* batch of slow posts outlasts it.                                        *)
(*                                                                         *)
(* Times are abstract: next_attempt_at is due or not, and a row comes to   *)
(* be due at some time, its lease over or its delay.  Payloads, signatures *)
(* and the order of a batch are left out; a receiver that cannot verify a  *)
(* signature is one that refuses.                                          *)
(***************************************************************************)
EXTENDS Integers, FiniteSets

CONSTANTS
    Events,         \* event ids: case, version and event type
    Workers,        \* dispatchers running at once
    Batch,          \* rows leased together
    MaxAttempts,    \* settings.max_attempts
    MaxReplays,     \* bound: dead letters queued again
    MaxFlips,       \* bound: changes of the endpoint and of its trouble
    MaxCrashes      \* bound: batches lost, to a death or to an exception

VARIABLES
    enabled,    \* the endpoint
    trouble,    \* what dispatching to it raises: nothing, at its keys, at its address
    row,        \* event -> its row of the outbox
    worker,     \* dispatcher -> its batch: attempts leased, answers
    received,   \* events the receiver has taken
    overrun,    \* history: events whose lease ran out under a dispatcher at work
    replays, flips, crashes

vars == <<enabled, trouble, row, worker, received, overrun, replays, flips, crashes>>

Absent == [status |-> "absent", attempts |-> 0, due |-> FALSE, error |-> "none"]
Idle == [attempt |-> [e \in Events |-> 0], answer |-> [e \in Events |-> "none"]]

Init ==
    /\ enabled = TRUE /\ trouble = "none"
    /\ row = [e \in Events |-> Absent]
    /\ worker = [w \in Workers |-> Idle]
    /\ received = {} /\ overrun = {}
    /\ replays = 0 /\ flips = 0 /\ crashes = 0

Bounds == <<replays, flips, crashes>>

-----------------------------------------------------------------------------
(* The outbox                                                              *)

\* enqueue: pending and due, or a dead letter if the payload does not
\* validate.  With the endpoint off, or the event there, nothing is written.
Enqueue(e) ==
    /\ enabled /\ row[e] = Absent
    /\ \E new \in {[Absent EXCEPT !.status = "pending", !.due = TRUE],
                   [Absent EXCEPT !.status = "dead_lettered", !.due = TRUE, !.error = "payload_invalid"]} :
          row' = [row EXCEPT ![e] = new]
    /\ UNCHANGED <<enabled, trouble, worker, received, overrun, Bounds>>

\* configure_endpoint.
Configure ==
    /\ flips < MaxFlips
    /\ flips' = flips + 1
    /\ enabled' = ~enabled
    /\ UNCHANGED <<trouble, row, worker, received, overrun, replays, crashes>>

\* The keys can or cannot be decrypted (decrypt_keys); the address has come to
\* be one the egress check refuses, or is right again.
Environment ==
    /\ flips < MaxFlips
    /\ flips' = flips + 1
    /\ trouble' \in {"none", "keys", "address"} \ {trouble}
    /\ UNCHANGED <<enabled, row, worker, received, overrun, replays, crashes>>

\* replay_dead_letter: pending, due, with its attempts back; a payload that
\* still does not validate leaves it where it is.
Replay(e) ==
    /\ row[e].status = "dead_lettered" /\ replays < MaxReplays
    /\ replays' = replays + 1
    /\ row' = [row EXCEPT ![e] = [Absent EXCEPT !.status = "pending", !.due = TRUE]]
    /\ UNCHANGED <<enabled, trouble, worker, received, overrun, flips, crashes>>

Holds(w, e) == worker[w].attempt[e] > 0


\* next_attempt_at passes, whoever holds the row.
ComesDue(e) ==
    /\ row[e].status = "pending" /\ ~row[e].due
    /\ row' = [row EXCEPT ![e].due = TRUE]
    /\ overrun' = IF \E w \in Workers : Holds(w, e) THEN overrun \cup {e} ELSE overrun
    /\ UNCHANGED <<enabled, trouble, worker, received, Bounds>>

-----------------------------------------------------------------------------
(* _dispatch_tenant                                                        *)

\* The rows a dispatcher may lease.
Due == {e \in Events : row[e].status = "pending" /\ row[e].due}

\* Mutation: the lease does not move next_attempt_at.
LeasedStillDue(e) == [row[e] EXCEPT !.attempts = @ + 1]

\* One more attempt, not due until the lease is over.
Leased(e) == [row[e] EXCEPT !.attempts = @ + 1, !.due = FALSE]

\* The first transaction: lease the rows that are due, as many as a batch.
\* Without the keys it is rolled back.
Lease(w) ==
    /\ enabled /\ trouble # "keys" /\ worker[w] = Idle
    /\ \E S \in SUBSET Due :
          /\ S # {} /\ (Cardinality(S) = Batch \/ (S = Due /\ Cardinality(S) < Batch))
          /\ row' = [e \in Events |-> IF e \in S THEN Leased(e) ELSE row[e]]
          /\ worker' = [worker EXCEPT ![w].attempt =
                [e \in Events |-> IF e \in S THEN row[e].attempts + 1 ELSE 0]]
    /\ UNCHANGED <<enabled, trouble, received, overrun, Bounds>>

Unposted(w) == {e \in Events : Holds(w, e) /\ worker[w].answer[e] = "none"}

\* A post: 2xx; an answer to try again or none at all, whether or not the
\* receiver took the event; or another 4xx.
Post(w, e) ==
    /\ e \in Unposted(w) /\ trouble # "address"
    /\ \E answer \in {"ok", "again", "refused"} :
          /\ worker' = [worker EXCEPT ![w].answer[e] = answer]
          /\ \/ answer # "refused" /\ received' = received \cup {e}
             \/ answer # "ok" /\ UNCHANGED received
    /\ UNCHANGED <<enabled, trouble, row, overrun, Bounds>>

\* What an answer makes of the row, by the attempt that was leased and not
\* the row's own.
Outcome(old, attempt, answer) ==
    CASE answer = "none" -> old
      [] answer = "ok" -> [old EXCEPT !.status = "delivered", !.error = "none"]
      [] answer = "again" /\ attempt < MaxAttempts -> [old EXCEPT !.due = FALSE, !.error = "again"]
      [] answer = "again" /\ attempt >= MaxAttempts ->
            [old EXCEPT !.status = "dead_lettered", !.error = "max_attempts_exceeded"]
      [] answer = "refused" -> [old EXCEPT !.status = "dead_lettered", !.error = "endpoint_rejected"]

\* The dispatcher's batch is over.
Done(w) ==
    /\ worker' = [worker EXCEPT ![w] = Idle]
    /\ overrun' = {e \in overrun : \E v \in Workers \ {w} : Holds(v, e)}

\* The last transaction: every outcome of the batch, over what the rows say
\* by now.  A retry leaves the status alone and sets the time again.
Finish(w) ==
    /\ worker[w] # Idle /\ Unposted(w) = {}
    /\ row' = [e \in Events |-> Outcome(row[e], worker[w].attempt[e], worker[w].answer[e])]
    /\ Done(w)
    /\ UNCHANGED <<enabled, trouble, received, Bounds>>

\* The batch ends without its last transaction: its answers are lost, its
\* leases run out and its attempts are spent.
BatchLost(w) ==
    /\ crashes < MaxCrashes
    /\ crashes' = crashes + 1
    /\ Done(w)
    /\ UNCHANGED <<enabled, trouble, row, received, replays, flips>>

\* A dispatcher dies.
Crash(w) == worker[w] # Idle /\ BatchLost(w)

\* The egress check raises EgressValidationError, which is no HTTPError: it
\* leaves the loop, and the answers of the rows posted before are lost too.
Refuse(w) == trouble = "address" /\ Unposted(w) # {} /\ BatchLost(w)

Dispatch(w) == Lease(w) \/ (\E e \in Events : Post(w, e)) \/ Finish(w)

Next ==
    \/ \E e \in Events : Enqueue(e) \/ Replay(e) \/ ComesDue(e)
    \/ \E w \in Workers : Dispatch(w) \/ Crash(w) \/ Refuse(w)
    \/ Configure \/ Environment

Spec == Init /\ [][Next]_vars

Step == (\E w \in Workers : Dispatch(w)) \/ (\E e \in Events : ComesDue(e))

\* Where the sweep is enabled, the beat runs dispatchers again and again, posts
\* time out and time passes: something of it goes on as long as it can.
FairSpec == Spec /\ WF_vars(Step)

-----------------------------------------------------------------------------
(* Properties                                                              *)

\* Rows and batches are what the code makes them, and lost batches and leases
\* that run out cost attempts, one for each dispatcher that holds the row at most.
TypeOK ==
    /\ enabled \in BOOLEAN /\ trouble \in {"none", "keys", "address"} /\ received \subseteq Events
    /\ row \in [Events -> [status : {"absent", "pending", "delivered", "dead_lettered"},
                           attempts : 0..(MaxAttempts + MaxCrashes + Cardinality(Workers)), due : BOOLEAN,
                           error : {"none", "again", "payload_invalid", "max_attempts_exceeded",
                                    "endpoint_rejected"}]]
    /\ overrun \subseteq {e \in Events : \E w \in Workers : Holds(w, e)}

\* What a step may make of a row, unless its lease ran out.
Earned ==
    \A e \in Events :
        \/ row'[e].status = row[e].status
        \/ e \in overrun
        \/ row[e].status \in {"absent", "dead_lettered"}
        \/ /\ row[e].status = "pending"
           /\ CASE row'[e].status = "delivered" -> e \in received
                [] row'[e].error = "endpoint_rejected" -> TRUE
                [] OTHER -> row[e].attempts >= MaxAttempts

\* Unless a lease ran out while a dispatcher was at work, an event is delivered
\* or a dead letter for good reason: the receiver took it, the receiver
\* refused it, or all attempts since it was queued were made; and one that
\* was delivered stays delivered (_dispatch_tenant writes outcomes without
\* looking at the row, and replay_dead_letter gives the attempts back).
OutcomeIsEarned == [][Earned]_vars

Waits(e) == enabled /\ row[e].status = "pending"

=============================================================================
