---------------------------- MODULE HostedRefunds ----------------------------
(***************************************************************************)
(* Refunds of one payment on Plural's hosted page                          *)
(* (core/commerce/hosted_refunds.py, order_refunds.py).  The payment may   *)
(* have an order, which administrators refund in parts; or a row among     *)
(* the payments that need the merchant, with an order that was short of    *)
(* stock or without one, which is refunded by a click.  Requests overlap   *)
(* at every transaction, Plural's answer may be lost, and a sweep reads    *)
(* from Plural what the journal does not know.                             *)
(*                                                                         *)
(* A refund is known by its reference: an administrator's request id or    *)
(* the attempt of a click.  Audit events, decisions and revisions carry no *)
(* control and are left out; a decision or a credential that is refused    *)
(* ends the request.                                                       *)
(***************************************************************************)
EXTENDS Integers, FiniteSets

CONSTANTS
    Kinds,          \* "order", "stock_short" (row and order), "unmatched" (row)
    Callers,        \* requests served at once
    Amount,         \* request id -> the amount asked for, at least 1
    Total,          \* what was captured
    MaxAttempts,    \* bound: attempts of a click
    MaxByHand,      \* bound: refunds recorded by hand, of one unit each
    MaxCrashes,     \* bound: requests and sweeps that die
    None

VARIABLES
    kind,
    journal,    \* reference -> phases recorded, and the amount requested
    plural,     \* reference -> what Plural made of it
    adj,        \* reference -> status of its adjustment on the order
    byHand,     \* refunds on the order that no journalled call accounts for
    pay,        \* the payment's row: status, attempts, reference
    caller,     \* caller -> where its request is
    check,      \* the sweep
    crashes,
    disturbed   \* history: references not settled in one piece

vars == <<kind, journal, plural, adj, byHand, pay, caller, check, crashes, disturbed>>

Requests == {<<"request", r>> : r \in DOMAIN Amount}
Payment(n) == <<"payment", n>>
References == Requests \cup {Payment(n) : n \in 0..MaxAttempts}

HasOrder == kind # "unmatched"

Idle == [pc |-> "idle", ref |-> None, amount |-> 0, phase |-> None,
         click |-> FALSE, began |-> FALSE]

Init ==
    /\ kind \in Kinds
    /\ journal = [f \in References |-> [phases |-> {}, amount |-> 0]]
    /\ plural = [f \in References |-> "none"]
    /\ adj = [f \in References |-> "none"]
    /\ byHand = 0
    /\ pay = [status |-> "none", attempts |-> 0, ref |-> None]
    /\ caller = [c \in Callers |-> Idle]
    /\ check = [pc |-> "idle", ref |-> None, phase |-> None]
    /\ crashes = 0
    /\ disturbed = {}

At(c, pc) == caller[c].pc = pc
Goto(c, pc) == caller' = [caller EXCEPT ![c].pc = pc]
Carry(c, pc, phase) == caller' = [caller EXCEPT ![c].pc = pc, ![c].phase = phase]
Return(c) == caller' = [caller EXCEPT ![c] = Idle]

\* Steps of a request that leave Plural, the sweep and the rest alone.
Local == UNCHANGED <<kind, plural, byHand, check, crashes>>

Refundable == pay.status \in {"none", "failed"}
Phases(f) == journal[f].phases

\* What the calls in S ask for, counted unit by unit.
Sum(S) == Cardinality(UNION {{f} \X (1..journal[f].amount) : f \in S})

\* hosted_refunded: journalled calls that did not fail, and what the order
\* records besides.
HostedRefunded == byHand + Sum({f \in References : "failed" \notin Phases(f)})

-----------------------------------------------------------------------------
(* A request arrives                                                       *)

\* A reference the sweep is just settling is asked for again.
Meets(f) == disturbed' = IF check.ref = f THEN disturbed \cup {f} ELSE disturbed

\* refund_order with the request id r.
Ask(c, r) ==
    /\ HasOrder /\ At(c, "idle")
    /\ caller' = [caller EXCEPT ![c] =
          [Idle EXCEPT !.pc = "earlier", !.ref = <<"request", r>>, !.amount = Amount[r]]]
    /\ Meets(<<"request", r>>)
    /\ Local /\ UNCHANGED <<journal, adj, pay>>

\* refund_unmatched_payment reads the row without a lock: through the order if
\* there is one, else all of it, once a decision was made and consumed.
Click(c) ==
    /\ kind # "order" /\ At(c, "idle")
    /\ Refundable /\ pay.attempts < MaxAttempts
    /\ caller' = [caller EXCEPT ![c] =
          IF HasOrder
          THEN [Idle EXCEPT !.pc = "remaining", !.ref = Payment(pay.attempts), !.click = TRUE]
          ELSE [Idle EXCEPT !.pc = "begin", !.amount = Total, !.click = TRUE]]
    /\ Local /\ UNCHANGED <<journal, adj, pay, disturbed>>

\* _refund_through_order asks for what is left of the order.
Remaining(c) ==
    /\ At(c, "remaining")
    /\ IF Total - HostedRefunded < 1
       THEN Return(c) /\ UNCHANGED disturbed
       ELSE /\ caller' = [caller EXCEPT ![c].pc = "earlier", ![c].amount = Total - HostedRefunded]
            /\ Meets(caller[c].ref)
    /\ Local /\ UNCHANGED <<journal, adj, pay>>

\* A request that is over writes the row if it came from a click.
Answer(c, phase) == IF caller[c].click THEN Carry(c, "row", phase) ELSE Return(c)

\* _earlier_refund: a journalled reference is answered from the journal, and
\* its adjustment recorded if Plural may have taken the refund.
EarlierRefund(c) ==
    LET phases == Phases(caller[c].ref) IN
    /\ At(c, "earlier")
    /\ CASE phases = {} -> Goto(c, "decide")
         [] "failed" \in phases -> Answer(c, "failed")
         [] "failed" \notin phases /\ "succeeded" \in phases -> Carry(c, "adjust", "succeeded")
         [] phases = {"requested", "unknown"} -> Carry(c, "adjust", "unknown")
         [] phases = {"requested"} -> Answer(c, "unknown")
    /\ Local /\ UNCHANGED <<journal, adj, pay, disturbed>>

\* The arbiter's refund_within_captured, on what the order says now.  Other
\* rules, the grant or consume_decision may refuse as well.
Decide(c) ==
    /\ At(c, "decide")
    /\ \/ HostedRefunded + caller[c].amount =< Total /\ Goto(c, "begin")
       \/ Return(c)
    /\ Local /\ UNCHANGED <<journal, adj, pay, disturbed>>

-----------------------------------------------------------------------------
(* The refund call                                                         *)

Requested(f, amount) ==
    journal' = [journal EXCEPT ![f] = [phases |-> {"requested"}, amount |-> amount]]
Begun(c, f) == caller' = [caller EXCEPT ![c].pc = "send", ![c].ref = f, ![c].began = TRUE]

\* Mutation: what the decision saw is not read again under the lock.
BeginHostedUnchecked(c) ==
    LET f == caller[c].ref IN
    /\ HasOrder /\ At(c, "begin")
    /\ IF Phases(f) # {}
       THEN Goto(c, "earlier") /\ UNCHANGED journal
       ELSE Requested(f, caller[c].amount) /\ Begun(c, f)
    /\ Local /\ UNCHANGED <<adj, pay, disturbed>>

\* refund_hosted_order up to its commit, under the order's row lock.  The same
\* request may have come first: answer with that refund.
BeginHosted(c) ==
    LET f == caller[c].ref IN
    /\ HasOrder /\ At(c, "begin")
    /\ \/ Phases(f) # {} /\ Goto(c, "earlier") /\ UNCHANGED journal
       \/ /\ Phases(f) = {} /\ HostedRefunded + caller[c].amount =< Total
          /\ Requested(f, caller[c].amount) /\ Begun(c, f)
       \/ Phases(f) = {} /\ Return(c) /\ UNCHANGED journal
    /\ Local /\ UNCHANGED <<adj, pay, disturbed>>

\* refund_unmatched_payment under the row's lock: the next attempt.
BeginUnmatched(c) ==
    LET f == Payment(pay.attempts + 1) IN
    /\ ~HasOrder /\ At(c, "begin")
    /\ \/ /\ Refundable /\ pay.attempts < MaxAttempts /\ Phases(f) = {}
          /\ Requested(f, Total)
          /\ pay' = [status |-> "requested", attempts |-> pay.attempts + 1, ref |-> f]
          /\ Begun(c, f)
       \/ Return(c) /\ UNCHANGED <<journal, pay>>
    /\ Local /\ UNCHANGED <<adj, disturbed>>

\* The POST leaves, or never does.
Send(c) ==
    /\ At(c, "send")
    /\ plural' \in {plural, [plural EXCEPT ![caller[c].ref] = "sent"]}
    /\ Goto(c, "wait")
    /\ UNCHANGED <<kind, journal, adj, byHand, pay, check, crashes, disturbed>>

\* Plural takes the refund or refuses it, at any time after it was sent.
PluralDecides(f) ==
    /\ plural[f] = "sent"
    /\ \E outcome \in {"refunded", "failed"} : plural' = [plural EXCEPT ![f] = outcome]
    /\ UNCHANGED <<kind, journal, adj, byHand, pay, caller, check, crashes, disturbed>>

\* What a caller makes of Plural's answer: a final state if it heard it, and
\* unknown for a 5xx, a conflict, a timeout or a pending state (refund_phase,
\* refused_phase).
Outcomes(f) ==
    {"unknown"} \cup CASE plural[f] = "refunded" -> {"succeeded"}
                       [] plural[f] = "failed" -> {"failed"}
                       [] OTHER -> {}

\* _call_plural: the answer is journalled as it comes.  finish adds a row of
\* its own; only the request that began the refund gets here.
CallPlural(c) ==
    LET f == caller[c].ref IN
    /\ At(c, "wait")
    /\ \E phase \in Outcomes(f) :
          /\ journal' = [journal EXCEPT ![f].phases = @ \cup {phase}]
          /\ IF HasOrder /\ phase # "failed" THEN Carry(c, "adjust", phase) ELSE Answer(c, phase)
    /\ Local /\ UNCHANGED <<adj, pay, disturbed>>

-----------------------------------------------------------------------------
(* What the order and the row say of it                                    *)

AdjustmentOf(phase) == IF phase = "succeeded" THEN "completed" ELSE "pending"

\* apply_order_change with the reference's own adjustment id: once.
Recorded(f, status) == adj' = IF adj[f] = "none" THEN [adj EXCEPT ![f] = status] ELSE adj

\* What the journal knows of a refund.
Told(f) ==
    CASE "succeeded" \in Phases(f) -> "succeeded"
      [] "failed" \in Phases(f) -> "failed"
      [] OTHER -> "unknown"

\* The request records it.  That makes up for a crash if the journal has not
\* moved on.
Adjust(c) ==
    LET f == caller[c].ref IN
    /\ At(c, "adjust")
    /\ Recorded(f, AdjustmentOf(caller[c].phase))
    /\ disturbed' = IF adj[f] = "none" /\ check.ref # f /\ caller[c].phase = Told(f)
                     THEN disturbed \ {f} ELSE disturbed
    /\ Answer(c, caller[c].phase)
    /\ Local /\ UNCHANGED <<journal, pay>>

RowOf(phase) ==
    CASE phase = "succeeded" -> "refunded" [] phase = "unknown" -> "pending" [] phase = "failed" -> "failed"

\* The click's last write, over whatever the row says by now.
WriteRow(c) ==
    LET k == caller[c] IN
    /\ At(c, "row")
    /\ pay' = [pay EXCEPT !.status = RowOf(k.phase),
                          !.ref = IF HasOrder THEN k.ref ELSE @,
                          !.attempts = IF HasOrder /\ k.phase = "failed" THEN k.ref[2] + 1 ELSE @]
    /\ Return(c)
    /\ Local /\ UNCHANGED <<journal, adj, disturbed>>

\* A merchant records a refund through the order-update route.
RecordByHand ==
    /\ HasOrder /\ byHand < MaxByHand
    /\ byHand' = byHand + 1
    /\ UNCHANGED <<kind, journal, plural, adj, pay, caller, check, crashes, disturbed>>

-----------------------------------------------------------------------------
(* The sweep                                                               *)

SweepOnly == UNCHANGED <<kind, plural, byHand, caller, crashes>>

\* outstanding_refunds: requested and not final.  RECONCILE_AFTER is minutes,
\* the time limits of a call are seconds: the request that began it is over.
Outstanding(f) ==
    /\ "requested" \in Phases(f)
    /\ Phases(f) \cap {"succeeded", "failed"} = {}
    /\ \A c \in Callers : ~(caller[c].ref = f /\ caller[c].began)

\* check_refunds lists it.  A payment without an order is found by the
\* reference on its row.
SweepBegin(f) ==
    /\ check.pc = "idle"
    /\ Outstanding(f)
    /\ HasOrder \/ pay.ref = f
    /\ check' = [pc |-> "read", ref |-> f, phase |-> None]
    /\ disturbed' = IF \E c \in Callers : caller[c].ref = f THEN disturbed \cup {f} ELSE disturbed
    /\ SweepOnly /\ UNCHANGED <<journal, adj, pay>>

\* refund_state_from_order: the entry with our reference, or a whole order
\* refunded when we asked for all of it.
Read(f) ==
    LET whole == Sum({g \in References : plural[g] = "refunded"}) = Total IN
    {None} \cup (IF plural[f] = "refunded" \/ (whole /\ journal[f].amount = Total)
                 THEN {"succeeded"} ELSE {})
           \cup (IF plural[f] = "failed" THEN {"failed"} ELSE {})

\* The order read fails, does not say, or says: journalled once (record_once).
SweepRecord ==
    LET f == check.ref IN
    /\ check.pc = "read"
    /\ \E phase \in Read(f) :
          IF phase = None
          THEN check' = [pc |-> "idle", ref |-> None, phase |-> None] /\ UNCHANGED journal
          ELSE /\ journal' = [journal EXCEPT ![f].phases = @ \cup {phase}]
               /\ check' = [check EXCEPT !.pc = IF HasOrder THEN "status" ELSE "row", !.phase = phase]
    /\ SweepOnly /\ UNCHANGED <<adj, pay, disturbed>>

\* set_order_adjustment_status: moves an adjustment that is there.
SweepStatus ==
    LET f == check.ref
        status == IF check.phase = "succeeded" THEN "completed" ELSE "failed"
        changed == adj[f] \notin {"none", status}
    IN  /\ check.pc = "status"
        /\ adj' = IF changed THEN [adj EXCEPT ![f] = status] ELSE adj
        /\ check' = [check EXCEPT !.pc = IF ~changed /\ check.phase = "succeeded" THEN "missing" ELSE "row"]
        /\ SweepOnly /\ UNCHANGED <<journal, pay, disturbed>>

\* Mutation: a missing adjustment is left missing.
SweepMissingNot ==
    /\ check.pc = "missing"
    /\ check' = [check EXCEPT !.pc = "row"]
    /\ SweepOnly /\ UNCHANGED <<journal, adj, pay, disturbed>>

\* Else apply_order_change records the one a crash left out.
SweepMissing ==
    /\ check.pc = "missing"
    /\ Recorded(check.ref, "completed")
    /\ check' = [check EXCEPT !.pc = "row"]
    /\ SweepOnly /\ UNCHANGED <<journal, pay, disturbed>>

\* The row that names the reference, unless it is settled.
SweepRow ==
    /\ check.pc = "row"
    /\ pay' = IF pay.ref = check.ref /\ pay.status \in {"requested", "pending"}
              THEN [pay EXCEPT !.status = RowOf(check.phase),
                               !.attempts = IF HasOrder /\ check.phase = "failed" THEN @ + 1 ELSE @]
              ELSE pay
    /\ check' = [pc |-> "idle", ref |-> None, phase |-> None]
    /\ SweepOnly /\ UNCHANGED <<journal, adj, disturbed>>

-----------------------------------------------------------------------------
(* Crashes                                                                 *)

\* A request dies.  One that had journalled an outcome leaves it untold.
Crash(c) ==
    /\ ~At(c, "idle") /\ crashes < MaxCrashes
    /\ crashes' = crashes + 1
    /\ disturbed' = IF caller[c].pc \in {"adjust", "row"} THEN disturbed \cup {caller[c].ref} ELSE disturbed
    /\ Return(c)
    /\ UNCHANGED <<kind, journal, plural, adj, byHand, pay, check>>

\* The sweep dies.
CrashSweep ==
    /\ check.pc # "idle" /\ crashes < MaxCrashes
    /\ crashes' = crashes + 1
    /\ disturbed' = IF check.pc = "read" THEN disturbed ELSE disturbed \cup {check.ref}
    /\ check' = [pc |-> "idle", ref |-> None, phase |-> None]
    /\ UNCHANGED <<kind, journal, plural, adj, byHand, pay, caller>>

Next ==
    \/ \E c \in Callers :
          \/ \E r \in DOMAIN Amount : Ask(c, r)
          \/ Click(c) \/ Remaining(c) \/ EarlierRefund(c) \/ Decide(c)
          \/ BeginHosted(c) \/ BeginUnmatched(c) \/ Send(c) \/ CallPlural(c)
          \/ Adjust(c) \/ WriteRow(c) \/ Crash(c)
    \/ \E f \in References : PluralDecides(f) \/ SweepBegin(f)
    \/ SweepRecord \/ SweepStatus \/ SweepMissing \/ SweepRow \/ CrashSweep
    \/ RecordByHand

Spec == Init /\ [][Next]_vars

-----------------------------------------------------------------------------
(* Properties                                                              *)

\* The journal, Plural, the order, the row and every request are in one of
\* the states the code gives them, and an outcome has a request before it.
TypeOK ==
    /\ kind \in Kinds
    /\ \A f \in References :
          /\ Phases(f) \subseteq {"requested", "unknown", "succeeded", "failed"}
          /\ Phases(f) # {} => "requested" \in Phases(f) /\ journal[f].amount \in 1..Total
    /\ plural \in [References -> {"none", "sent", "refunded", "failed"}]
    /\ adj \in [References -> {"none", "pending", "completed", "failed"}]
    /\ byHand \in 0..MaxByHand /\ crashes \in 0..MaxCrashes
    /\ pay \in [status : {"none", "requested", "pending", "refunded", "failed"},
                attempts : Nat, ref : References \cup {None}]
    /\ \A c \in Callers :
          /\ caller[c].pc \in {"idle", "remaining", "earlier", "decide", "begin", "send",
                               "wait", "adjust", "row"}
          /\ caller[c].ref \in References \cup {None}
    /\ check.pc \in {"idle", "read", "status", "missing", "row"}
    /\ check.ref \in References \cup {None} /\ disturbed \subseteq References

\* However requests, clicks and the sweep overlap and die, Plural never gives
\* back more than was captured, an unmatched payment at most once; and what
\* the journal calls succeeded or failed is what Plural did, for good
\* (refund_hosted_order's bound under the row lock, refused_phase,
\* refund_state_from_order).
RefundsWithinCaptured ==
    /\ Sum({f \in References : plural[f] = "refunded"}) =< Total
    /\ \A f \in References :
          /\ "succeeded" \in Phases(f) => plural[f] = "refunded"
          /\ "failed" \in Phases(f) => plural[f] = "failed"

Quiet == check.pc = "idle" /\ \A c \in Callers : At(c, "idle")

\* When nobody is at work, the order shows every refund the journal holds, as
\* the journal holds it, and so does the row of a payment without an order;
\* a request that died in the middle of the call is made up for by the sweep.
\* Exempt are refunds whose request or sweep died after it had journalled the
\* outcome, until the request is repeated, and those asked for again while
\* the sweep settled them (apply_order_change, reconcile_refund,
\* refund_unmatched_payment).
RefundsAreShown ==
    Quiet => \A f \in References \ disturbed :
        /\ HasOrder /\ Phases(f) \ {"requested"} # {} =>
              adj[f] \in CASE Told(f) = "succeeded" -> {"completed"}
                           [] Told(f) = "failed" -> {"none", "failed"}
                           [] Told(f) = "unknown" -> {"pending"}
        /\ ~HasOrder /\ pay.ref = f =>
              pay.status = IF Phases(f) = {"requested"} THEN "requested" ELSE RowOf(Told(f))
=============================================================================
