----------------------------- MODULE RunRecord ------------------------------
(***************************************************************************)
(* What the workflow state store promises: the record of one run is created *)
(* once and then only grows.  Every update builds on the current record,    *)
(* takes the next version, and uses up its idempotency key if it has one.   *)
(***************************************************************************)
EXTENDS Naturals

CONSTANTS Keys, NoKey, MaxEdits

VARIABLES record, version, used

vars == <<record, version, used>>

Init == record = {} /\ version = 0 /\ used = {}

Create ==
    /\ version = 0
    /\ version' = 1
    /\ UNCHANGED <<record, used>>

Update(k) ==
    /\ version > 0
    /\ k \notin used
    /\ record' \in SUBSET (1..MaxEdits)
    /\ record \subseteq record' /\ record # record'
    /\ version' = version + 1
    /\ used' = used \cup ({k} \ {NoKey})

Next == Create \/ \E k \in Keys \cup {NoKey} : Update(k)

Spec == Init /\ [][Next]_vars
=============================================================================
