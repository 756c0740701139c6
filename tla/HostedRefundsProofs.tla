------------------------- MODULE HostedRefundsProofs -------------------------
(***************************************************************************)
(* No more is paid back than was captured, for any requests, amounts,      *)
(* callers and crashes.                                                    *)
(*                                                                         *)
(* The bound is kept under the lock against the calls that may have moved  *)
(* money (Standing): a call is journalled before it is sent, so what Plural*)
(* took is among them.  A refund is begun by one request (OneBegins), the  *)
(* sweep takes it only when that request is over (Sweeps), and the row of a*)
(* payment without an order names the one attempt that stands (Unmatched). *)
(***************************************************************************)
EXTENDS HostedRefunds, FiniteSetTheorems, TLAPS

\* A leaf that names no prover is Zenon's; those with arithmetic are for SMT.
USE Zenon

\* Something was captured, every request is for something, and there are
\* finitely many of them; None is neither a reference nor a phase.
RefundSetup ==
    /\ Total \in Nat \ {0} /\ MaxAttempts \in Nat /\ MaxByHand \in Nat /\ MaxCrashes \in Nat
    /\ IsFiniteSet(DOMAIN Amount) /\ \A r \in DOMAIN Amount : Amount[r] \in Nat \ {0}
    /\ None \notin References \cup {"requested", "unknown", "succeeded", "failed"}

PhaseNames == {"requested", "unknown", "succeeded", "failed"}
Final == {"succeeded", "failed"}
Places == {"idle", "remaining", "earlier", "decide", "begin", "send", "wait", "adjust", "row"}
Calls == [phases : SUBSET PhaseNames, amount : 0..Total]
CallerStates ==
    [pc : Places, ref : References \cup {None}, amount : Nat, phase : PhaseNames \cup {None},
     click : BOOLEAN, began : BOOLEAN]
Checks == [pc : {"idle", "read", "status", "missing", "row"}, ref : References \cup {None}, phase : Final \cup {None}]
PayRows == [status : {"none", "requested", "pending", "refunded", "failed"}, attempts : Nat, ref : References \cup {None}]

RefundTyped ==
    /\ kind \in Kinds
    /\ journal \in [References -> Calls]
    /\ plural \in [References -> {"none", "sent", "refunded", "failed"}]
    /\ adj \in [References -> {"none", "pending", "completed", "failed"}]
    /\ byHand \in 0..MaxByHand /\ crashes \in 0..MaxCrashes
    /\ pay \in PayRows
    /\ caller \in [Callers -> CallerStates]
    /\ check \in Checks
    /\ disturbed \subseteq References

-----------------------------------------------------------------------------
(* Sums                                                                    *)

Units(S) == UNION {{f} \X (1..journal[f].amount) : f \in S}

LEMMA ReferencesFinite == ASSUME RefundSetup PROVE IsFiniteSet(References)
<1> DEFINE D == DOMAIN Amount
           A == {"request"} \X D
           B == {"payment"} \X (0..MaxAttempts)
<1>1. IsFiniteSet({"request"}) /\ IsFiniteSet({"payment"}) /\ IsFiniteSet(0..MaxAttempts) /\ IsFiniteSet(D)
  <2>1. IsFiniteSet({"request"}) /\ IsFiniteSet({"payment"})
    BY FS_Singleton
  <2>2. IsFiniteSet(0..MaxAttempts)
    BY FS_Interval, SMT DEF RefundSetup
  <2> QED BY <2>1, <2>2 DEF RefundSetup
<1>2. IsFiniteSet(A) /\ IsFiniteSet(B)
  BY <1>1, FS_Product
<1>3. References = A \cup B
  BY SMT DEF References, Requests, Payment
<1> HIDE DEF A, B
<1> QED BY <1>2, <1>3, FS_Union

LEMMA UnitsFinite ==
    ASSUME RefundSetup, journal \in [References -> Calls], NEW S \in SUBSET References
    PROVE  /\ IsFiniteSet(Units(S)) /\ Sum(S) = Cardinality(Units(S)) /\ Sum(S) \in Nat
           /\ \A u : u \in Units(S) <=> \E f \in S : u \in {f} \X (1..journal[f].amount)
<1>1. Sum(S) = Cardinality(Units(S))
  BY DEF Sum, Units
<1>2. \A u : u \in Units(S) <=> \E f \in S : u \in {f} \X (1..journal[f].amount)
  BY DEF Units
<1>3. IsFiniteSet(References \X (1..Total))
  <2>1. IsFiniteSet(1..Total)
    BY FS_Interval, SMT DEF RefundSetup
  <2> QED BY <2>1, ReferencesFinite, FS_Product
<1>4. Units(S) \subseteq References \X (1..Total)
  <2> SUFFICES ASSUME NEW u \in Units(S) PROVE u \in References \X (1..Total)
    OBVIOUS
  <2>1. PICK f \in S : u \in {f} \X (1..journal[f].amount)
    BY <1>2
  <2>2. f \in References /\ journal[f].amount \in 0..Total
    BY DEF Calls
  <2>3. 1..journal[f].amount \subseteq 1..Total
    BY <2>2, SMT DEF RefundSetup
  <2> QED BY <2>1, <2>2, <2>3
<1>5. IsFiniteSet(Units(S))
  BY <1>3, <1>4, FS_Subset
<1> QED BY <1>1, <1>2, <1>5, FS_CardinalityType

\* Fewer calls ask for no more.
LEMMA SumMonotone ==
    ASSUME RefundSetup, journal \in [References -> Calls],
           NEW S \in SUBSET References, NEW T \in SUBSET References, S \subseteq T
    PROVE  Sum(S) <= Sum(T)
<1>1. Units(S) \subseteq Units(T)
  BY UnitsFinite
<1> QED BY <1>1, UnitsFinite, FS_Subset

LEMMA OneCall ==
    ASSUME NEW f, NEW a \in Nat
    PROVE  IsFiniteSet({f} \X (1..a)) /\ Cardinality({f} \X (1..a)) = a
<1>1. IsFiniteSet({f}) /\ Cardinality({f}) = 1 /\ IsFiniteSet(1..a) /\ Cardinality(1..a) = a
  <2>1. IsFiniteSet({f}) /\ Cardinality({f}) = 1
    BY FS_Singleton
  <2>2. IsFiniteSet(1..a) /\ Cardinality(1..a) = a
    BY FS_Interval, SMT
  <2> QED BY <2>1, <2>2
<1> DEFINE A == {f}
           B == 1..a
<1> HIDE DEF A, B
<1>2. IsFiniteSet(A \X B) /\ Cardinality(A \X B) = Cardinality(A) * Cardinality(B)
  BY <1>1, FS_Product DEF A, B
<1>3. Cardinality(A) = 1 /\ Cardinality(B) = a
  BY <1>1 DEF A, B
<1>4. IsFiniteSet(A \X B) /\ Cardinality(A \X B) = a
  BY <1>2, <1>3, SMT
<1> QED BY <1>4 DEF A, B

\* A call that comes in adds what it asks for.
LEMMA SumGrows ==
    ASSUME RefundSetup, journal \in [References -> Calls], journal' \in [References -> Calls],
           NEW S \in SUBSET References, NEW f \in S, journal[f].amount = 0,
           \A g \in References \ {f} : journal'[g].amount = journal[g].amount
    PROVE  Sum(S)' = Sum(S) + journal'[f].amount
<1> DEFINE a == journal'[f].amount
           U == Units(S)
           V == {f} \X (1..a)
<1>1. a \in Nat /\ IsFiniteSet(V) /\ Cardinality(V) = a
  <2>1. a \in Nat
    BY SMT DEF Calls, RefundSetup
  <2> HIDE DEF a
  <2> QED BY <2>1, OneCall
<1>2. Units(S)' = U \cup V
  <2>1. \A u : u \in Units(S)' <=> \E g \in S : u \in {g} \X (1..journal'[g].amount)
    BY DEF Units
  <2>2. \A u : u \in U <=> \E g \in S : u \in {g} \X (1..journal[g].amount)
    BY UnitsFinite
  <2>3. {f} \X (1..journal[f].amount) = {}
    BY SMT DEF Calls
  <2> QED BY <2>1, <2>2, <2>3
<1>3. U \cap V = {}
  <2> SUFFICES ASSUME NEW u \in U, u \in V PROVE FALSE
    OBVIOUS
  <2>1. PICK g \in S : u \in {g} \X (1..journal[g].amount)
    BY UnitsFinite
  <2>2. g = f
    BY <2>1
  <2> QED BY <2>1, <2>2, SMT
<1>4. IsFiniteSet(U) /\ Sum(S) = Cardinality(U) /\ Sum(S) \in Nat
  BY UnitsFinite
<1>5. Sum(S)' = Cardinality(U \cup V)
  <2>1. Sum(S)' = Cardinality(Units(S)')
    BY DEF Sum, Units
  <2> QED BY <1>2, <2>1
<1>6. Cardinality({}) = 0
  BY FS_EmptySet
<1> HIDE DEF U, V, a
<1>7. Cardinality(U \cup V) = Cardinality(U) + Cardinality(V) - Cardinality(U \cap V)
  BY <1>1, <1>4, FS_Union
<1>8. Cardinality(U \cap V) = 0
  BY <1>3, <1>6
<1>9. Sum(S)' = Sum(S) + a
  BY <1>1, <1>4, <1>5, <1>7, <1>8, SMT
<1> QED BY <1>9 DEF a

-----------------------------------------------------------------------------
(* What holds of the journal, the requests and the sweep                   *)

\* Calls that may have moved money.
Standing == {f \in References : "failed" \notin Phases(f)}
Bounded == Sum(Standing) <= Total

\* The journal begins with the request, and its outcomes are Plural's.
Journalled ==
    \A f \in References :
        /\ Phases(f) = {} => journal[f].amount = 0 /\ plural[f] = "none"
        /\ Phases(f) # {} => "requested" \in Phases(f) /\ journal[f].amount >= 1
        /\ "succeeded" \in Phases(f) => plural[f] = "refunded"
        /\ "failed" \in Phases(f) => plural[f] = "failed"

\* What a request has done by the time it is where it is.
Fits(k) ==
    /\ k.began => k.pc \in {"send", "wait", "adjust", "row"} /\ k.ref \in References /\ Phases(k.ref) # {}
    /\ k.pc \in {"send", "wait"} => k.began /\ Phases(k.ref) = {"requested"}
    /\ k.pc = "send" => plural[k.ref] = "none"
    /\ k.pc # "idle" /\ HasOrder => k.ref \in References
    /\ k.pc # "idle" /\ ~HasOrder => k.pc \in {"begin", "send", "wait", "row"} /\ k.click
    /\ k.pc \in {"earlier", "decide", "begin"} => k.amount >= 1
    /\ k.pc = "adjust" => k.phase \in {"succeeded", "unknown"} /\ k.phase \in Phases(k.ref)
    /\ k.pc = "row" => k.phase \in {"succeeded", "failed", "unknown"} /\ (k.phase = "failed" => "failed" \in Phases(k.ref))
    /\ k.pc = "row" => k.click
    /\ k.pc = "row" /\ ~HasOrder => k.began /\ Phases(k.ref) = {"requested", k.phase}
    /\ k.click /\ HasOrder => \E n \in 0..MaxAttempts : k.ref = Payment(n)

\* A refund is begun by one request.
OneBegins ==
    \A c, d \in Callers : caller[c].began /\ caller[d].began /\ caller[c].ref = caller[d].ref => c = d

\* The sweep is at a refund whose request is over.
Sweeps ==
    check.pc # "idle" =>
        /\ check.ref \in References /\ Phases(check.ref) # {}
        /\ \A c \in Callers : caller[c].began => caller[c].ref # check.ref
        /\ check.pc = "read" => Phases(check.ref) \cap Final = {}
        /\ check.pc # "read" => check.phase \in Final /\ check.phase \in Phases(check.ref)

\* The row of a payment without an order names the one attempt that may have
\* moved money, and is not refundable before that is known to have failed.
Unmatched ==
    ~HasOrder =>
        /\ \A c \in Callers : caller[c].began => caller[c].ref = pay.ref /\ pay.status = "requested"
        /\ check.pc # "idle" => check.pc \in {"read", "row"} /\ check.ref = pay.ref /\ pay.status \in {"requested", "pending"}
        /\ \A f \in References : Phases(f) # {} /\ "failed" \notin Phases(f) =>
              pay.ref = f /\ pay.status \notin {"none", "failed"}
        /\ pay.status = "refunded" => pay.ref \in References /\ "succeeded" \in Phases(pay.ref)

RefundInv ==
    /\ RefundTyped /\ Journalled /\ Bounded /\ OneBegins /\ Sweeps /\ Unmatched
    /\ \A c \in Callers : Fits(caller[c])

Moves(c, r) == caller' = [caller EXCEPT ![c] = r]

LEMMA Moved ==
    ASSUME RefundTyped, NEW c \in Callers, NEW r \in CallerStates, Moves(c, r)
    PROVE  /\ caller' \in [Callers -> CallerStates]
           /\ caller'[c] = r
           /\ \A d \in Callers \ {c} : caller'[d] = caller[d]
BY DEF RefundTyped, Moves

LEMMA CallerFields ==
    ASSUME RefundTyped, NEW c \in Callers
    PROVE  /\ caller[c] \in CallerStates /\ caller[c].pc \in Places /\ caller[c].ref \in References \cup {None}
           /\ caller[c].amount \in Nat /\ caller[c].phase \in PhaseNames \cup {None}
           /\ caller[c].click \in BOOLEAN /\ caller[c].began \in BOOLEAN
<1>1. caller[c] \in CallerStates
  BY DEF RefundTyped
<1> QED BY <1>1 DEF CallerStates

\* Goto and Carry.
LEMMA Carried ==
    ASSUME RefundTyped, NEW c \in Callers, NEW pc \in Places, NEW phase \in PhaseNames \cup {None},
           \/ Carry(c, pc, phase)
           \/ Goto(c, pc) /\ phase = caller[c].phase
    PROVE  \E r \in CallerStates :
               /\ Moves(c, r) /\ r.pc = pc /\ r.phase = phase /\ r.ref = caller[c].ref
               /\ r.amount = caller[c].amount /\ r.click = caller[c].click /\ r.began = caller[c].began
<1>1. caller[c] \in CallerStates
  BY DEF RefundTyped
<1>2. CASE Carry(c, pc, phase)
  <2> DEFINE r == [caller[c] EXCEPT !.pc = pc, !.phase = phase]
  <2>1. /\ r \in CallerStates /\ r.pc = pc /\ r.phase = phase /\ r.ref = caller[c].ref
        /\ r.amount = caller[c].amount /\ r.click = caller[c].click /\ r.began = caller[c].began
    BY <1>1 DEF CallerStates
  <2>2. Moves(c, r)
    BY <1>2 DEF Carry, Moves
  <2> HIDE DEF r
  <2> QED BY <2>1, <2>2
<1>3. CASE Goto(c, pc) /\ phase = caller[c].phase
  <2> DEFINE r == [caller[c] EXCEPT !.pc = pc]
  <2>1. /\ r \in CallerStates /\ r.pc = pc /\ r.phase = phase /\ r.ref = caller[c].ref
        /\ r.amount = caller[c].amount /\ r.click = caller[c].click /\ r.began = caller[c].began
    BY <1>1, <1>3 DEF CallerStates
  <2>2. Moves(c, r)
    BY <1>3 DEF Goto, Moves
  <2> HIDE DEF r
  <2> QED BY <2>1, <2>2
<1> QED BY <1>2, <1>3

LEMMA GoneTo ==
    ASSUME RefundInv, NEW c \in Callers, NEW pc \in Places, Goto(c, pc)
    PROVE  \E r \in CallerStates :
               /\ Moves(c, r) /\ r.pc = pc /\ r.phase = caller[c].phase /\ r.ref = caller[c].ref
               /\ r.amount = caller[c].amount /\ r.click = caller[c].click /\ r.began = caller[c].began
<1>1. RefundTyped /\ caller[c].phase \in PhaseNames \cup {None}
  BY CallerFields DEF RefundInv
<1> QED BY <1>1, Carried, SMT

LEMMA CarriedTo ==
    ASSUME RefundInv, NEW c \in Callers, NEW pc \in Places, NEW phase \in PhaseNames, Carry(c, pc, phase)
    PROVE  \E r \in CallerStates :
               /\ Moves(c, r) /\ r.pc = pc /\ r.phase = phase /\ r.ref = caller[c].ref
               /\ r.amount = caller[c].amount /\ r.click = caller[c].click /\ r.began = caller[c].began
<1>1. RefundTyped /\ phase \in PhaseNames \cup {None}
  BY DEF RefundInv
<1> QED BY <1>1, Carried, SMT

LEMMA IdleFits ==
    /\ Idle \in CallerStates /\ Fits(Idle)
    /\ Idle.pc = "idle" /\ Idle.began = FALSE /\ Idle.ref = None /\ Idle.click = FALSE
    /\ \A c : Return(c) <=> Moves(c, Idle)
<1>1. /\ Idle.pc = "idle" /\ Idle.ref = None /\ Idle.amount = 0 /\ Idle.phase = None
      /\ Idle.click = FALSE /\ Idle.began = FALSE
  BY DEF Idle
<1>2. Idle \in CallerStates
  BY DEF Idle, CallerStates, Places
<1>3. Fits(Idle)
  BY <1>1 DEF Fits
<1> QED BY <1>1, <1>2, <1>3 DEF Return, Moves

\* A request moves and leaves the journal, Plural and the sweep alone.
LEMMA CallerOnly ==
    ASSUME RefundSetup, RefundInv, NEW c \in Callers, NEW r \in CallerStates, Moves(c, r), Fits(r),
           r.began => caller[c].began /\ r.ref = caller[c].ref,
           UNCHANGED <<kind, journal, plural, byHand, check>>,
           adj' \in [References -> {"none", "pending", "completed", "failed"}],
           crashes' \in 0..MaxCrashes, disturbed' \subseteq References,
           pay' \in PayRows, HasOrder \/ pay' = pay
    PROVE  RefundInv'
<1>1. RefundTyped /\ caller' \in [Callers -> CallerStates] /\ caller'[c] = r
      /\ \A d \in Callers \ {c} : caller'[d] = caller[d]
  BY Moved DEF RefundInv
<1>2. RefundTyped'
  BY <1>1 DEF RefundTyped
<1>3. Journalled' /\ Bounded'
  BY DEF RefundInv, Journalled, Bounded, Standing, Phases, Sum
<1>4. \A d \in Callers : caller'[d].began => caller[d].began /\ caller'[d].ref = caller[d].ref
  BY <1>1
<1>5. OneBegins'
  BY <1>4 DEF RefundInv, OneBegins
<1>6. Sweeps'
  BY <1>4 DEF RefundInv, Sweeps, Phases
<1>7. Unmatched'
  BY <1>4 DEF RefundInv, Unmatched, Phases, HasOrder
<1>8. ASSUME NEW d \in Callers PROVE Fits(caller[d])'
  <2>1. Fits(caller[d]) /\ caller'[d] = IF d = c THEN r ELSE caller[d]
    BY <1>1 DEF RefundInv
  <2> QED BY <2>1, SMT DEF Fits, Phases, HasOrder
<1>9. \A d \in Callers : Fits(caller[d])'
  BY <1>8
<1> QED BY <1>2, <1>3, <1>5, <1>6, <1>7, <1>9 DEF RefundInv

\* A phase is added to the journal.
LEMMA JournalAdds ==
    ASSUME RefundSetup, RefundInv, NEW f \in References, NEW phase \in {"unknown", "succeeded", "failed"},
           "requested" \in Phases(f),
           phase = "succeeded" => plural[f] = "refunded", phase = "failed" => plural[f] = "failed",
           journal' = [journal EXCEPT ![f].phases = @ \cup {phase}], UNCHANGED <<kind, plural>>
    PROVE  /\ journal' \in [References -> Calls] /\ Journalled' /\ Bounded'
           /\ Phases(f)' = Phases(f) \cup {phase} /\ journal'[f].amount = journal[f].amount
           /\ \A g \in References \ {f} : journal'[g] = journal[g]
<1>1. journal \in [References -> Calls] /\ journal[f] \in Calls
  BY DEF RefundInv, RefundTyped
<1> DEFINE j == [journal[f] EXCEPT !.phases = @ \cup {phase}]
<1>2. j \in Calls /\ j.phases = Phases(f) \cup {phase} /\ j.amount = journal[f].amount
  BY <1>1 DEF Calls, PhaseNames, Phases
<1>3. journal' = [journal EXCEPT ![f] = j]
  OBVIOUS
<1> HIDE DEF j
<1>4. /\ journal' \in [References -> Calls] /\ journal'[f] = j
      /\ \A g \in References \ {f} : journal'[g] = journal[g]
  BY <1>1, <1>2, <1>3
<1>5. Phases(f)' = Phases(f) \cup {phase} /\ \A g \in References \ {f} : Phases(g)' = Phases(g)
  BY <1>2, <1>4 DEF Phases
<1>6. \A g \in References : journal'[g].amount = journal[g].amount
  BY <1>2, <1>4
<1>7. Journalled'
  <2> SUFFICES ASSUME NEW g \in References
               PROVE  /\ Phases(g)' = {} => journal'[g].amount = 0 /\ plural'[g] = "none"
                      /\ Phases(g)' # {} => "requested" \in Phases(g)' /\ journal'[g].amount >= 1
                      /\ "succeeded" \in Phases(g)' => plural'[g] = "refunded"
                      /\ "failed" \in Phases(g)' => plural'[g] = "failed"
    BY DEF Journalled
  <2> QED BY <1>5, <1>6 DEF RefundInv, Journalled
<1>8. Bounded'
  <2>1. Standing' \subseteq Standing
    BY <1>5 DEF Standing
  <2> DEFINE S == Standing'
  <2>2. S \in SUBSET References /\ Standing \in SUBSET References
    BY DEF Standing
  <2> HIDE DEF S
  <2>3. Sum(Standing)' = Cardinality(UNION {{g} \X (1..journal'[g].amount) : g \in S})
    BY DEF Sum, S
  <2>4. Sum(S) = Cardinality(UNION {{g} \X (1..journal[g].amount) : g \in S})
    BY DEF Sum
  <2>5. (UNION {{g} \X (1..journal'[g].amount) : g \in S}) = UNION {{g} \X (1..journal[g].amount) : g \in S}
    BY <1>6, <2>2
  <2>6. Sum(S) <= Sum(Standing)
    BY <1>1, <2>1, <2>2, SumMonotone DEF S
  <2>7. Sum(S) \in Nat /\ Sum(Standing) \in Nat
    BY <1>1, <2>2, UnitsFinite
  <2>8. Sum(Standing) <= Total /\ Total \in Nat
    BY DEF RefundInv, Bounded, RefundSetup
  <2>9. Sum(Standing)' = Sum(S)
    BY <2>3, <2>4, <2>5
  <2>10. Sum(Standing)' <= Total
    BY <2>6, <2>7, <2>8, <2>9, SMT
  <2> QED BY <2>10 DEF Bounded
<1> QED BY <1>2, <1>4, <1>5, <1>7, <1>8

\* A request that is not at f does not notice.
LEMMA FitsStays ==
    ASSUME NEW d \in Callers, Fits(caller[d]), caller[d] \in CallerStates, NEW f \in References,
           caller'[d] = caller[d], kind' = kind,
           \A g \in References \ {f} : Phases(g)' = Phases(g), Phases(f) \subseteq Phases(f)',
           caller[d].began => caller[d].ref # f,
           caller[d].pc = "send" => plural'[caller[d].ref] = "none"
    PROVE  Fits(caller[d])'
<1> DEFINE k == caller[d]
<1>1. k.pc \in Places /\ k.ref \in References \cup {None}
  BY DEF CallerStates
<1>2. HasOrder' <=> HasOrder
  BY DEF HasOrder
<1>3. k.began => k.ref \in References \ {f} /\ Phases(k.ref)' = Phases(k.ref)
  BY DEF Fits
<1>4. k.ref \in References => Phases(k.ref) \subseteq Phases(k.ref)'
  BY DEF Fits
<1>5. k.pc \in {"adjust", "row"} => k.ref \in References
  BY DEF Fits
<1>6. Fits(caller[d])' <=>
    /\ k.began => k.pc \in {"send", "wait", "adjust", "row"} /\ k.ref \in References /\ Phases(k.ref)' # {}
    /\ k.pc \in {"send", "wait"} => k.began /\ Phases(k.ref)' = {"requested"}
    /\ k.pc = "send" => plural'[k.ref] = "none"
    /\ k.pc # "idle" /\ HasOrder => k.ref \in References
    /\ k.pc # "idle" /\ ~HasOrder => k.pc \in {"begin", "send", "wait", "row"} /\ k.click
    /\ k.pc \in {"earlier", "decide", "begin"} => k.amount >= 1
    /\ k.pc = "adjust" => k.phase \in {"succeeded", "unknown"} /\ k.phase \in Phases(k.ref)'
    /\ k.pc = "row" => k.phase \in {"succeeded", "failed", "unknown"} /\ (k.phase = "failed" => "failed" \in Phases(k.ref)')
    /\ k.pc = "row" => k.click
    /\ k.pc = "row" /\ ~HasOrder => k.began /\ Phases(k.ref)' = {"requested", k.phase}
    /\ k.click /\ HasOrder => \E n \in 0..MaxAttempts : k.ref = Payment(n)
  BY <1>2, SMT DEF Fits, Phases
<1> HIDE DEF k
<1>7. Fits(k)
  BY DEF k
<1>8. (k.began => k.ref # f) /\ (k.pc = "send" => plural'[k.ref] = "none")
  BY DEF k
<1> QED BY <1>3, <1>4, <1>5, <1>6, <1>7, <1>8 DEF Fits

LEMMA HostedSum ==
    ASSUME RefundSetup, RefundTyped
    PROVE  /\ HostedRefunded = byHand + Sum(Standing) /\ HostedRefunded \in Nat
           /\ byHand \in Nat /\ Sum(Standing) \in Nat
<1>1. byHand \in Nat /\ journal \in [References -> Calls]
  BY SMT DEF RefundTyped, RefundSetup
<1>2. Standing \in SUBSET References
  BY DEF Standing
<1>3. Sum(Standing) \in Nat
  BY <1>1, <1>2, UnitsFinite
<1>4. HostedRefunded = byHand + Sum(Standing)
  BY DEF HostedRefunded, Phases, Standing
<1> QED BY <1>1, <1>3, <1>4, SMT

\* The steps of a request that only move it on.
LEMMA AskStep ==
    ASSUME RefundSetup, RefundInv, NEW c \in Callers, NEW q \in DOMAIN Amount, Ask(c, q)
    PROVE  RefundInv'
<1> DEFINE f == <<"request", q>>
           r == [Idle EXCEPT !.pc = "earlier", !.ref = f, !.amount = Amount[q]]
<1>1. f \in References /\ Amount[q] \in Nat \ {0} /\ HasOrder
  BY DEF References, Requests, RefundSetup, Ask, HasOrder
<1>2. /\ r \in CallerStates /\ r.pc = "earlier" /\ r.ref = f /\ r.amount = Amount[q] /\ r.click = FALSE /\ r.began = FALSE
  <2>1. Idle \in CallerStates /\ Idle.click = FALSE /\ Idle.began = FALSE
    BY IdleFits DEF Idle
  <2> QED BY <1>1, <2>1 DEF CallerStates, Places
<1>3. Moves(c, r) /\ disturbed' \subseteq References
  BY <1>1 DEF Ask, Moves, Meets, RefundInv, RefundTyped
<1>4. Fits(r)
  <2> HIDE DEF r
  <2> QED BY <1>1, <1>2, SMT DEF Fits
<1>5. /\ UNCHANGED <<kind, journal, plural, byHand, check, adj, crashes, pay>>
      /\ adj' \in [References -> {"none", "pending", "completed", "failed"}]
      /\ crashes' \in 0..MaxCrashes /\ pay' \in PayRows
  BY DEF Ask, Local, RefundInv, RefundTyped
<1> HIDE DEF r
<1> QED BY <1>2, <1>3, <1>4, <1>5, CallerOnly

LEMMA ClickStep ==
    ASSUME RefundSetup, RefundInv, NEW c \in Callers, Click(c)
    PROVE  RefundInv'
<1> DEFINE f == Payment(pay.attempts)
           r == IF HasOrder THEN [Idle EXCEPT !.pc = "remaining", !.ref = f, !.click = TRUE]
                            ELSE [Idle EXCEPT !.pc = "begin", !.amount = Total, !.click = TRUE]
<1>1. pay.attempts \in 0..MaxAttempts /\ f \in References /\ Total \in Nat \ {0}
  BY SMT DEF References, RefundInv, RefundTyped, PayRows, RefundSetup, Click
<1>2. /\ r \in CallerStates /\ r.pc = IF HasOrder THEN "remaining" ELSE "begin"
      /\ HasOrder => r.ref = f
      /\ ~HasOrder => r.amount = Total
      /\ r.click = TRUE /\ r.began = FALSE
  <2>1. Idle \in CallerStates /\ Idle.began = FALSE
    BY IdleFits
  <2> HIDE DEF f
  <2>2. CASE HasOrder
    BY <1>1, <2>1, <2>2 DEF CallerStates, Places
  <2>3. CASE ~HasOrder
    BY <1>1, <2>1, <2>3 DEF CallerStates, Places
  <2> QED BY <2>2, <2>3
<1>3. Moves(c, r)
  BY DEF Click, Moves, HasOrder
<1>4. Fits(r)
  <2> HIDE DEF r
  <2> QED BY <1>1, <1>2, SMT DEF Fits
<1>5. /\ UNCHANGED <<kind, journal, plural, byHand, check, adj, crashes, pay, disturbed>>
      /\ adj' \in [References -> {"none", "pending", "completed", "failed"}]
      /\ crashes' \in 0..MaxCrashes /\ pay' \in PayRows /\ disturbed' \subseteq References
  BY DEF Click, Local, RefundInv, RefundTyped
<1> HIDE DEF r
<1> QED BY <1>2, <1>3, <1>4, <1>5, CallerOnly

LEMMA RemainingStep ==
    ASSUME RefundSetup, RefundInv, NEW c \in Callers, Remaining(c)
    PROVE  RefundInv'
<1> DEFINE k == caller[c]
           a == Total - HostedRefunded
<1>1. k \in CallerStates /\ k.pc = "remaining" /\ Fits(k) /\ HasOrder /\ k.ref \in References /\ ~k.began
  <2>1. k.pc = "remaining" /\ Fits(k)
    BY DEF Remaining, At, RefundInv
  <2> QED BY <2>1, CallerFields DEF Fits, RefundInv
<1>2. a \in Int
  BY HostedSum, SMT DEF RefundInv, RefundSetup
<1>3. /\ UNCHANGED <<kind, journal, plural, byHand, check, adj, crashes, pay>>
      /\ adj' \in [References -> {"none", "pending", "completed", "failed"}]
      /\ crashes' \in 0..MaxCrashes /\ pay' \in PayRows /\ disturbed' \subseteq References
  BY <1>1 DEF Remaining, Local, RefundInv, RefundTyped, Meets
<1>4. CASE Return(c)
  BY <1>3, <1>4, IdleFits, CallerOnly
<1>5. CASE caller' = [caller EXCEPT ![c].pc = "earlier", ![c].amount = a] /\ ~(a < 1)
  <2> DEFINE r == [k EXCEPT !.pc = "earlier", !.amount = a]
  <2>1. Moves(c, r)
    BY <1>5 DEF Moves
  <2>2. a \in Nat /\ a >= 1
    BY <1>2, <1>5, SMT
  <2> HIDE DEF a, k
  <2>3. r \in CallerStates /\ r.pc = "earlier" /\ r.ref = k.ref /\ r.amount = a /\ r.click = k.click /\ r.began = k.began
    BY <1>1, <2>2 DEF CallerStates, Places
  <2> HIDE DEF r
  <2>4. Fits(r)
    BY <1>1, <2>2, <2>3 DEF Fits
  <2> QED BY <1>1, <1>3, <2>1, <2>3, <2>4, CallerOnly DEF k
<1> QED BY <1>4, <1>5 DEF Remaining

\* A request is over, or on its way to the row.
LEMMA Answers ==
    ASSUME RefundTyped, NEW c \in Callers, NEW phase \in PhaseNames, Answer(c, phase)
    PROVE  \E r \in CallerStates :
               /\ Moves(c, r)
               /\ \/ r = Idle /\ ~caller[c].click
                  \/ /\ r.pc = "row" /\ r.phase = phase /\ r.ref = caller[c].ref
                     /\ r.click = caller[c].click /\ r.began = caller[c].began /\ r.click
<1>1. CASE caller[c].click
  <2>1. Carry(c, "row", phase)
    BY <1>1 DEF Answer
  <2>2. PICK r \in CallerStates : /\ Moves(c, r) /\ r.pc = "row" /\ r.phase = phase /\ r.ref = caller[c].ref
                                  /\ r.click = caller[c].click /\ r.began = caller[c].began
    BY <2>1, Carried, SMT DEF Places
  <2> QED BY <1>1, <2>2
<1>2. CASE ~caller[c].click
  BY <1>2, IdleFits DEF Answer
<1> QED BY <1>1, <1>2

\* The journal answers a request that comes again.
LEMMA EarlierCases ==
    ASSUME RefundSetup, RefundInv, NEW c \in Callers, EarlierRefund(c)
    PROVE  LET k == caller[c]
               p == Phases(k.ref)
           IN  /\ k.pc = "earlier" /\ HasOrder /\ k.ref \in References /\ ~k.began /\ k.amount >= 1
               /\ \/ p = {} /\ Goto(c, "decide")
                  \/ "failed" \in p /\ Answer(c, "failed")
                  \/ "failed" \notin p /\ "succeeded" \in p /\ Carry(c, "adjust", "succeeded")
                  \/ p = {"requested", "unknown"} /\ Carry(c, "adjust", "unknown")
                  \/ p = {"requested"} /\ Answer(c, "unknown")
<1> DEFINE k == caller[c]
           p == Phases(k.ref)
<1>1. k.pc = "earlier" /\ Fits(k) /\ HasOrder /\ k.ref \in References /\ ~k.began /\ k.amount >= 1
  <2>1. k.pc = "earlier" /\ Fits(k)
    BY DEF EarlierRefund, At, RefundInv
  <2> QED BY <2>1, CallerFields DEF Fits, RefundInv
<1>2. p \in SUBSET PhaseNames /\ (p # {} => "requested" \in p)
  BY <1>1 DEF RefundInv, RefundTyped, Journalled, Phases, Calls
<1>3. \/ p = {} \/ "failed" \in p \/ ("failed" \notin p /\ "succeeded" \in p)
      \/ p = {"requested", "unknown"} \/ p = {"requested"}
  BY <1>2 DEF PhaseNames
<1>4. CASE p = {}
  BY <1>1, <1>4 DEF EarlierRefund, Phases
<1>5. CASE "failed" \in p
  BY <1>1, <1>5 DEF EarlierRefund, Phases
<1>6. CASE "failed" \notin p /\ "succeeded" \in p
  BY <1>1, <1>6 DEF EarlierRefund, Phases
<1>7. CASE p = {"requested", "unknown"}
  BY <1>1, <1>7 DEF EarlierRefund, Phases
<1>8. CASE p = {"requested"}
  BY <1>1, <1>8 DEF EarlierRefund, Phases
<1> QED BY <1>3, <1>4, <1>5, <1>6, <1>7, <1>8

LEMMA EarlierStep ==
    ASSUME RefundSetup, RefundInv, NEW c \in Callers, EarlierRefund(c)
    PROVE  RefundInv'
<1> DEFINE k == caller[c]
           p == Phases(k.ref)
<1>1. k.pc = "earlier" /\ Fits(k) /\ HasOrder /\ k.ref \in References /\ ~k.began /\ k.amount >= 1
  BY EarlierCases DEF RefundInv
<1>2. /\ UNCHANGED <<kind, journal, plural, byHand, check, adj, crashes, pay, disturbed>>
      /\ adj' \in [References -> {"none", "pending", "completed", "failed"}]
      /\ crashes' \in 0..MaxCrashes /\ pay' \in PayRows /\ disturbed' \subseteq References
  BY DEF EarlierRefund, Local, RefundInv, RefundTyped
<1>3. CASE Goto(c, "decide")
  <2>1. PICK r \in CallerStates : /\ Moves(c, r) /\ r.pc = "decide" /\ r.ref = k.ref
                                  /\ r.amount = k.amount /\ r.click = k.click /\ r.began = k.began
    BY <1>3, GoneTo, SMT DEF Places
  <2>2. Fits(r)
    BY <1>1, <2>1 DEF Fits
  <2> QED BY <1>1, <1>2, <2>1, <2>2, CallerOnly
<1>4. ASSUME NEW phase \in {"succeeded", "unknown"}, phase \in p, Carry(c, "adjust", phase)
      PROVE  RefundInv'
  <2>1. PICK r \in CallerStates : /\ Moves(c, r) /\ r.pc = "adjust" /\ r.phase = phase /\ r.ref = k.ref
                                  /\ r.amount = k.amount /\ r.click = k.click /\ r.began = k.began
    BY <1>4, CarriedTo, SMT DEF Places, PhaseNames
  <2>2. Fits(r)
    BY <1>1, <1>4, <2>1 DEF Fits
  <2> QED BY <1>1, <1>2, <2>1, <2>2, CallerOnly
<1>5. ASSUME NEW phase \in {"failed", "unknown"}, phase = "failed" => "failed" \in p, Answer(c, phase)
      PROVE  RefundInv'
  <2>1. PICK r \in CallerStates :
               /\ Moves(c, r)
               /\ \/ r = Idle /\ ~k.click
                  \/ /\ r.pc = "row" /\ r.phase = phase /\ r.ref = k.ref /\ r.click = k.click /\ r.began = k.began /\ r.click
    BY <1>5, Answers, SMT DEF PhaseNames, RefundInv
  <2>2. Fits(r)
    BY <1>1, <1>5, <2>1, IdleFits DEF Fits
  <2>3. ~r.began
    BY <1>1, <2>1, IdleFits
  <2> QED BY <1>2, <2>1, <2>2, <2>3, CallerOnly
<1> QED BY <1>3, <1>4, <1>5, EarlierCases

LEMMA DecideStep ==
    ASSUME RefundSetup, RefundInv, NEW c \in Callers, Decide(c)
    PROVE  RefundInv'
<1> DEFINE k == caller[c]
<1>1. k \in CallerStates /\ k.pc = "decide" /\ Fits(k) /\ HasOrder /\ ~k.began /\ k.amount >= 1
  <2>1. k.pc = "decide" /\ Fits(k)
    BY DEF Decide, At, RefundInv
  <2> QED BY <2>1, CallerFields DEF Fits, RefundInv
<1>2. /\ UNCHANGED <<kind, journal, plural, byHand, check, adj, crashes, pay, disturbed>>
      /\ adj' \in [References -> {"none", "pending", "completed", "failed"}]
      /\ crashes' \in 0..MaxCrashes /\ pay' \in PayRows /\ disturbed' \subseteq References
  BY DEF Decide, Local, RefundInv, RefundTyped
<1>3. CASE Goto(c, "begin")
  <2>1. PICK r \in CallerStates : /\ Moves(c, r) /\ r.pc = "begin" /\ r.ref = k.ref
                                  /\ r.amount = k.amount /\ r.click = k.click /\ r.began = k.began
    BY <1>3, GoneTo, SMT DEF Places
  <2>2. Fits(r)
    BY <1>1, <2>1 DEF Fits
  <2> QED BY <1>1, <1>2, <2>1, <2>2, CallerOnly
<1>4. CASE Return(c)
  BY <1>2, <1>4, IdleFits, CallerOnly
<1> QED BY <1>3, <1>4 DEF Decide

LEMMA AdjustStep ==
    ASSUME RefundSetup, RefundInv, NEW c \in Callers, Adjust(c)
    PROVE  RefundInv'
<1> DEFINE k == caller[c]
<1>1. /\ k.pc = "adjust" /\ Fits(k) /\ HasOrder /\ k.ref \in References
      /\ k.phase \in {"succeeded", "unknown"} /\ k.phase \in Phases(k.ref)
  BY DEF Adjust, At, RefundInv, Fits
<1>2. adj' \in [References -> {"none", "pending", "completed", "failed"}]
  <2>1. adj \in [References -> {"none", "pending", "completed", "failed"}]
    BY DEF RefundInv, RefundTyped
  <2>2. AdjustmentOf(k.phase) \in {"pending", "completed"}
    BY DEF AdjustmentOf
  <2> QED BY <1>1, <2>1, <2>2 DEF Adjust, Recorded
<1>3. /\ UNCHANGED <<kind, journal, plural, byHand, check, crashes, pay>>
      /\ crashes' \in 0..MaxCrashes /\ pay' \in PayRows /\ disturbed' \subseteq References
  BY DEF Adjust, Local, RefundInv, RefundTyped
<1>4. PICK r \in CallerStates :
               /\ Moves(c, r)
               /\ \/ r = Idle /\ ~k.click
                  \/ /\ r.pc = "row" /\ r.phase = k.phase /\ r.ref = k.ref /\ r.click = k.click /\ r.began = k.began /\ r.click
  BY <1>1, Answers, SMT DEF PhaseNames, RefundInv, Adjust
<1>5. Fits(r)
  BY <1>1, <1>4, IdleFits DEF Fits
<1>6. r.began => k.began /\ r.ref = k.ref
  BY <1>4, IdleFits
<1> QED BY <1>1, <1>2, <1>3, <1>4, <1>5, <1>6, CallerOnly

LEMMA CrashStep ==
    ASSUME RefundSetup, RefundInv, NEW c \in Callers, Crash(c)
    PROVE  RefundInv'
<1>1. caller[c].pc \in {"adjust", "row"} => caller[c].ref \in References
  BY DEF RefundInv, Fits
<1>2. /\ UNCHANGED <<kind, journal, plural, byHand, check, adj, pay>>
      /\ adj' \in [References -> {"none", "pending", "completed", "failed"}]
      /\ crashes' \in 0..MaxCrashes /\ pay' \in PayRows /\ disturbed' \subseteq References
  BY <1>1, SMT DEF Crash, RefundInv, RefundTyped, RefundSetup
<1>3. Moves(c, Idle)
  BY IdleFits DEF Crash
<1> QED BY <1>2, <1>3, IdleFits, CallerOnly

\* The sweep moves, or what the order and the row say, and no request does.
LEMMA CheckOnly ==
    ASSUME RefundSetup, RefundInv, UNCHANGED <<kind, journal, plural, caller>>, RefundTyped', Sweeps', Unmatched'
    PROVE  RefundInv'
<1>1. Journalled' /\ Bounded' /\ OneBegins'
  BY DEF RefundInv, Journalled, Bounded, Standing, Phases, Sum, OneBegins
<1>2. ASSUME NEW d \in Callers PROVE Fits(caller[d])'
  BY DEF RefundInv, Fits, Phases, HasOrder
<1> QED BY <1>1, <1>2 DEF RefundInv

LEMMA RowValues ==
    \A phase \in {"succeeded", "unknown", "failed"} :
        /\ RowOf(phase) \in {"refunded", "pending", "failed"}
        /\ RowOf(phase) = "failed" <=> phase = "failed"
        /\ RowOf(phase) = "refunded" <=> phase = "succeeded"
BY DEF RowOf

LEMMA RowStep ==
    ASSUME RefundSetup, RefundInv, NEW c \in Callers, WriteRow(c)
    PROVE  RefundInv'
<1> DEFINE k == caller[c]
<1>1. k \in CallerStates /\ k.pc = "row" /\ Fits(k) /\ k.click /\ k.phase \in {"succeeded", "failed", "unknown"}
  <2>1. k.pc = "row" /\ Fits(k)
    BY DEF WriteRow, At, RefundInv
  <2> QED BY <2>1, CallerFields DEF Fits, RefundInv
<1>2. Moves(c, Idle) /\ UNCHANGED <<kind, journal, plural, byHand, check, adj, crashes, disturbed>>
  BY IdleFits DEF WriteRow, Local
<1>3. /\ adj' \in [References -> {"none", "pending", "completed", "failed"}]
      /\ crashes' \in 0..MaxCrashes /\ disturbed' \subseteq References /\ pay \in PayRows
  BY <1>2 DEF RefundInv, RefundTyped
<1>4. CASE HasOrder
  <2>1. PICK n \in 0..MaxAttempts : k.ref = Payment(n)
    BY <1>1, <1>4 DEF Fits
  <2>2. k.ref \in References /\ k.ref[2] = n /\ n + 1 \in Nat
    BY <2>1, SMT DEF References, Payment, RefundSetup
  <2> DEFINE a == IF HasOrder /\ k.phase = "failed" THEN k.ref[2] + 1 ELSE pay.attempts
  <2>3. pay' = [pay EXCEPT !.status = RowOf(k.phase), !.ref = k.ref, !.attempts = a]
    BY <1>4 DEF WriteRow, HasOrder
  <2>4. a \in Nat
    BY <1>3, <2>2 DEF PayRows
  <2> HIDE DEF a
  <2>5. pay' \in PayRows
    BY <1>1, <1>3, <2>2, <2>3, <2>4, RowValues DEF PayRows
  <2> QED BY <1>2, <1>3, <1>4, <2>5, IdleFits, CallerOnly
<1>5. CASE ~HasOrder
  <2>1. k.began /\ k.ref \in References /\ k.ref = pay.ref /\ Phases(k.ref) = {"requested", k.phase}
    BY <1>1, <1>5 DEF Fits, RefundInv, Unmatched
  <2>2. check.pc = "idle"
    BY <1>5, <2>1 DEF RefundInv, Unmatched, Sweeps
  <2>3. \A d \in Callers \ {c} : ~caller[d].began
    BY <1>5, <2>1 DEF RefundInv, Unmatched, OneBegins
  <2>4. pay' \in PayRows /\ pay'.status = RowOf(k.phase) /\ pay'.ref = pay.ref
    <3>1. pay' = [pay EXCEPT !.status = RowOf(k.phase), !.ref = pay.ref, !.attempts = pay.attempts]
      BY <1>5 DEF WriteRow, HasOrder
    <3> QED BY <1>1, <1>3, <3>1, RowValues DEF PayRows
  <2>5. caller' \in [Callers -> CallerStates] /\ caller'[c] = Idle /\ \A d \in Callers \ {c} : caller'[d] = caller[d]
    BY <1>2, Moved, IdleFits DEF RefundInv
  <2>6. \A d \in Callers : ~caller'[d].began
    BY <2>3, <2>5, IdleFits
  <2>7. RefundTyped'
    BY <1>2, <1>3, <2>4, <2>5 DEF RefundInv, RefundTyped
  <2>8. Journalled' /\ Bounded'
    BY <1>2 DEF RefundInv, Journalled, Bounded, Standing, Phases, Sum
  <2>9. OneBegins' /\ Sweeps'
    BY <1>2, <2>2, <2>6 DEF OneBegins, Sweeps
  <2>10. Unmatched'
    <3>0. pay'.status = "refunded" => pay'.ref \in References /\ "succeeded" \in Phases(pay.ref)'
      BY <1>1, <1>2, <2>1, <2>4, RowValues DEF Phases
    <3> SUFFICES ASSUME NEW f \in References, Phases(f)' # {}, "failed" \notin Phases(f)'
                 PROVE  pay'.ref = f /\ pay'.status \notin {"none", "failed"}
      BY <1>2, <2>2, <2>6, <3>0 DEF Unmatched
    <3>1. Phases(f)' = Phases(f)
      BY <1>2 DEF Phases
    <3>2. pay.ref = f
      BY <1>5, <3>1 DEF RefundInv, Unmatched
    <3>3. k.phase # "failed"
      BY <2>1, <3>1, <3>2
    <3> QED BY <1>1, <2>4, <3>2, <3>3, RowValues
  <2>11. ASSUME NEW d \in Callers PROVE Fits(caller[d])'
    <3>1. Fits(caller[d]) /\ caller'[d] = IF d = c THEN Idle ELSE caller[d]
      BY <2>5 DEF RefundInv
    <3> QED BY <1>2, <3>1, IdleFits DEF Fits, Phases, HasOrder
  <2> QED BY <2>7, <2>8, <2>9, <2>10, <2>11 DEF RefundInv
<1> QED BY <1>4, <1>5

LEMMA SweepBeginStep ==
    ASSUME RefundSetup, RefundInv, NEW f \in References, SweepBegin(f)
    PROVE  RefundInv'
<1>1. /\ UNCHANGED <<kind, journal, plural, caller, adj, byHand, crashes, pay>> /\ check.pc = "idle"
      /\ check' = [pc |-> "read", ref |-> f, phase |-> None]
  BY DEF SweepBegin, SweepOnly
<1>2. "requested" \in Phases(f) /\ Phases(f) \cap Final = {} /\ \A c \in Callers : caller[c].began => caller[c].ref # f
  BY DEF SweepBegin, Outstanding, Phases, Final
<1>3. disturbed' \subseteq References /\ (HasOrder \/ pay.ref = f)
  BY DEF RefundInv, RefundTyped, SweepBegin, HasOrder
<1>4. check' \in Checks /\ check'.pc = "read" /\ check'.ref = f
  BY <1>1 DEF Checks
<1>5. RefundTyped'
  BY <1>1, <1>3, <1>4 DEF RefundInv, RefundTyped
<1>6. Sweeps'
  BY <1>1, <1>2, <1>4 DEF Sweeps, Phases
<1>7. Unmatched'
  <2>1. ~HasOrder => pay.ref = f /\ pay.status \in {"requested", "pending"}
    <3> SUFFICES ASSUME ~HasOrder PROVE pay.status \in {"requested", "pending"}
      BY <1>3
    <3>1. pay.status \notin {"none", "failed"}
      BY <1>2 DEF RefundInv, Unmatched, Final
    <3>2. pay.status # "refunded"
      BY <1>2, <1>3 DEF RefundInv, Unmatched, Final
    <3> QED BY <3>1, <3>2 DEF RefundInv, RefundTyped, PayRows
  <2> QED BY <1>1, <1>4, <2>1 DEF RefundInv, Unmatched, HasOrder, Phases
<1> QED BY <1>1, <1>5, <1>6, <1>7, CheckOnly

LEMMA SweepStatusStep ==
    ASSUME RefundSetup, RefundInv, SweepStatus
    PROVE  RefundInv'
<1> DEFINE pc == IF ~(adj[check.ref] \notin {"none", IF check.phase = "succeeded" THEN "completed" ELSE "failed"})
                    /\ check.phase = "succeeded" THEN "missing" ELSE "row"
<1>1. /\ UNCHANGED <<kind, journal, plural, caller, byHand, crashes, pay, disturbed>> /\ check.pc = "status"
      /\ check' = [check EXCEPT !.pc = pc] /\ check \in Checks /\ pc \in {"missing", "row"}
  BY DEF SweepStatus, SweepOnly, RefundInv, RefundTyped
<1>2. check' \in Checks /\ check'.ref = check.ref /\ check'.phase = check.phase /\ check'.pc \in {"missing", "row"}
  <2> HIDE DEF pc
  <2> QED BY <1>1 DEF Checks
<1>3. HasOrder /\ check.ref \in References
  BY <1>1 DEF RefundInv, Unmatched, Sweeps
<1>4. adj' \in [References -> {"none", "pending", "completed", "failed"}]
  BY <1>3 DEF SweepStatus, RefundInv, RefundTyped
<1>5. RefundTyped'
  BY <1>1, <1>2, <1>4 DEF RefundInv, RefundTyped
<1>6. Sweeps'
  BY <1>1, <1>2 DEF RefundInv, Sweeps, Phases
<1>7. Unmatched'
  BY <1>1, <1>3 DEF Unmatched, HasOrder
<1> QED BY <1>1, <1>5, <1>6, <1>7, CheckOnly

LEMMA SweepMissingStep ==
    ASSUME RefundSetup, RefundInv, SweepMissing
    PROVE  RefundInv'
<1>1. /\ UNCHANGED <<kind, journal, plural, caller, byHand, crashes, pay, disturbed>> /\ check.pc = "missing"
      /\ check' = [check EXCEPT !.pc = "row"] /\ check \in Checks
  BY DEF SweepMissing, SweepOnly, RefundInv, RefundTyped
<1>2. check' \in Checks /\ check'.ref = check.ref /\ check'.phase = check.phase /\ check'.pc = "row"
  BY <1>1 DEF Checks
<1>3. HasOrder /\ check.ref \in References
  BY <1>1 DEF RefundInv, Unmatched, Sweeps
<1>4. adj' \in [References -> {"none", "pending", "completed", "failed"}]
  BY <1>3 DEF SweepMissing, Recorded, RefundInv, RefundTyped
<1>5. RefundTyped'
  BY <1>1, <1>2, <1>4 DEF RefundInv, RefundTyped
<1>6. Sweeps'
  BY <1>1, <1>2 DEF RefundInv, Sweeps, Phases
<1>7. Unmatched'
  BY <1>1, <1>3 DEF Unmatched, HasOrder
<1> QED BY <1>1, <1>5, <1>6, <1>7, CheckOnly

\* The sweep is over.
LEMMA NoCheck ==
    ASSUME check' = [pc |-> "idle", ref |-> None, phase |-> None]
    PROVE  check' \in Checks /\ check'.pc = "idle" /\ Sweeps'
BY DEF Checks, Sweeps

LEMMA SweepRowStep ==
    ASSUME RefundSetup, RefundInv, SweepRow
    PROVE  RefundInv'
<1>1. /\ UNCHANGED <<kind, journal, plural, caller, byHand, crashes, adj, disturbed>> /\ check.pc = "row"
      /\ check' \in Checks /\ check'.pc = "idle" /\ Sweeps' /\ pay \in PayRows
  BY NoCheck DEF SweepRow, SweepOnly, RefundInv, RefundTyped
<1>2. /\ check.ref \in References /\ check.phase \in Final /\ check.phase \in Phases(check.ref)
      /\ \A c \in Callers : caller[c].began => caller[c].ref # check.ref
  BY <1>1 DEF RefundInv, Sweeps
<1>3. \/ pay' = pay /\ ~(pay.ref = check.ref /\ pay.status \in {"requested", "pending"})
      \/ pay' \in PayRows /\ pay'.status = RowOf(check.phase) /\ pay'.ref = pay.ref /\ pay.ref = check.ref
  <2> DEFINE a == IF HasOrder /\ check.phase = "failed" THEN pay.attempts + 1 ELSE pay.attempts
  <2>1. a \in Nat
    BY <1>1, SMT DEF PayRows
  <2>2. CASE pay.ref = check.ref /\ pay.status \in {"requested", "pending"}
    <3>1. pay' = [pay EXCEPT !.status = RowOf(check.phase), !.attempts = a]
      BY <2>2 DEF SweepRow, HasOrder
    <3> HIDE DEF a
    <3> QED BY <1>1, <1>2, <2>1, <2>2, <3>1, RowValues DEF PayRows, Final
  <2>3. CASE ~(pay.ref = check.ref /\ pay.status \in {"requested", "pending"})
    BY <2>3 DEF SweepRow
  <2> QED BY <2>2, <2>3
<1>4. RefundTyped'
  BY <1>1, <1>3 DEF RefundInv, RefundTyped
<1>5. Unmatched'
  <2> SUFFICES ASSUME ~HasOrder PROVE Unmatched'
    BY <1>1 DEF Unmatched, HasOrder
  <2>1. pay.ref = check.ref /\ \A c \in Callers : ~caller[c].began
    BY <1>1, <1>2 DEF RefundInv, Unmatched
  <2>2. pay'.ref = check.ref /\ pay'.status = RowOf(check.phase)
    BY <1>1, <1>3, <2>1 DEF RefundInv, Unmatched
  <2>3. ASSUME NEW f \in References, Phases(f)' # {}, "failed" \notin Phases(f)'
        PROVE  pay'.ref = f /\ pay'.status \notin {"none", "failed"}
    <3>1. Phases(f)' = Phases(f)
      BY <1>1 DEF Phases
    <3>2. pay.ref = f
      BY <2>3, <3>1 DEF RefundInv, Unmatched
    <3>3. check.phase # "failed"
      BY <1>2, <2>1, <2>3, <3>1, <3>2
    <3> QED BY <1>2, <2>1, <2>2, <3>2, <3>3, RowValues DEF Final
  <2>4. pay'.status = "refunded" => pay'.ref \in References /\ "succeeded" \in Phases(pay.ref)'
    BY <1>1, <1>2, <2>2, RowValues DEF Phases, Final
  <2> QED BY <1>1, <2>1, <2>3, <2>4 DEF Unmatched
<1> QED BY <1>1, <1>4, <1>5, CheckOnly

LEMMA CrashSweepStep ==
    ASSUME RefundSetup, RefundInv, CrashSweep
    PROVE  RefundInv'
<1>1. /\ UNCHANGED <<kind, journal, plural, caller, byHand, adj, pay>>
      /\ check' \in Checks /\ check'.pc = "idle" /\ Sweeps'
  BY NoCheck DEF CrashSweep
<1>2. crashes' \in 0..MaxCrashes /\ disturbed' \subseteq References
  BY SMT DEF CrashSweep, RefundInv, RefundTyped, Sweeps, RefundSetup
<1>3. RefundTyped'
  BY <1>1, <1>2 DEF RefundInv, RefundTyped
<1>4. Unmatched'
  BY <1>1 DEF RefundInv, Unmatched, Phases, HasOrder
<1> QED BY <1>1, <1>3, <1>4, CheckOnly

LEMMA ByHandStep ==
    ASSUME RefundSetup, RefundInv, RecordByHand
    PROVE  RefundInv'
<1>1. /\ UNCHANGED <<kind, journal, plural, caller, check, crashes, disturbed, adj, pay>> /\ byHand' \in 0..MaxByHand
  BY SMT DEF RecordByHand, RefundInv, RefundTyped, RefundSetup
<1>2. RefundTyped'
  BY <1>1 DEF RefundInv, RefundTyped
<1>3. Sweeps' /\ Unmatched'
  BY <1>1 DEF RefundInv, Sweeps, Unmatched, Phases, HasOrder
<1> QED BY <1>1, <1>2, <1>3, CheckOnly

\* Plural hears of a refund, or settles it: nobody notices.
LEMMA PluralMoves ==
    ASSUME RefundSetup, RefundInv, UNCHANGED <<kind, journal, adj, byHand, pay, check, crashes, disturbed>>,
           NEW f \in References, NEW s \in {"none", "sent", "refunded", "failed"},
           Phases(f) # {}, plural[f] \in {"none", "sent"}, plural' = [plural EXCEPT ![f] = s]
    PROVE  /\ plural' \in [References -> {"none", "sent", "refunded", "failed"}]
           /\ \A g \in References \ {f} : plural'[g] = plural[g]
           /\ Journalled' /\ Bounded'
<1>1. plural' \in [References -> {"none", "sent", "refunded", "failed"}] /\ plural'[f] = s
      /\ \A g \in References \ {f} : plural'[g] = plural[g]
  BY DEF RefundInv, RefundTyped
<1>2. Journalled'
  BY <1>1 DEF RefundInv, Journalled, Phases
<1>3. Bounded'
  BY DEF RefundInv, Bounded, Standing, Phases, Sum
<1> QED BY <1>1, <1>2, <1>3

LEMMA SendStep ==
    ASSUME RefundSetup, RefundInv, NEW c \in Callers, Send(c)
    PROVE  RefundInv'
<1> DEFINE k == caller[c]
           f == k.ref
<1>1. k \in CallerStates /\ k.pc = "send" /\ Fits(k) /\ k.began /\ f \in References /\ Phases(f) = {"requested"} /\ plural[f] = "none"
  <2>1. k.pc = "send" /\ Fits(k)
    BY DEF Send, At, RefundInv
  <2> QED BY <2>1, CallerFields DEF Fits, RefundInv
<1>2. UNCHANGED <<kind, journal, adj, byHand, pay, check, crashes, disturbed>>
  BY DEF Send
<1>3. PICK s \in {"none", "sent"} : plural' = [plural EXCEPT ![f] = s]
  BY <1>1 DEF Send, RefundInv, RefundTyped
<1>4. /\ plural' \in [References -> {"none", "sent", "refunded", "failed"}]
      /\ \A g \in References \ {f} : plural'[g] = plural[g]
      /\ Journalled' /\ Bounded'
  BY <1>1, <1>2, <1>3, PluralMoves
<1>5. PICK r \in CallerStates : /\ Moves(c, r) /\ r.pc = "wait" /\ r.ref = f /\ r.amount = k.amount
                                /\ r.click = k.click /\ r.began = k.began
  <2>1. Goto(c, "wait") /\ "wait" \in Places
    BY DEF Send, Places
  <2> QED BY <2>1, GoneTo
<1>6. caller' \in [Callers -> CallerStates] /\ caller'[c] = r /\ \A d \in Callers \ {c} : caller'[d] = caller[d]
  BY <1>5, Moved DEF RefundInv
<1>7. RefundTyped'
  BY <1>2, <1>4, <1>6 DEF RefundInv, RefundTyped
<1>8. \A d \in Callers : caller'[d].began = caller[d].began /\ caller'[d].ref = caller[d].ref
  BY <1>5, <1>6
<1>9. OneBegins' /\ Sweeps' /\ Unmatched'
  <2>1. HasOrder' = HasOrder /\ \A g \in References : Phases(g)' = Phases(g)
    BY <1>2 DEF HasOrder, Phases
  <2>2. OneBegins' /\ Sweeps'
    BY <1>2, <1>8, <2>1 DEF RefundInv, OneBegins, Sweeps
  <2>3. Unmatched'
    BY <1>2, <1>8, <2>1 DEF RefundInv, Unmatched
  <2> QED BY <2>2, <2>3
<1>10. ASSUME NEW d \in Callers \ {c} PROVE Fits(caller[d])'
  <2>1. caller'[d] = caller[d] /\ Fits(caller[d])
    BY <1>6 DEF RefundInv
  <2>2. caller[d].pc = "send" => caller[d].ref \in References \ {f} /\ plural'[caller[d].ref] = "none"
    BY <1>1, <1>4, <2>1 DEF RefundInv, OneBegins, Fits
  <2> QED BY <1>2, <2>1, <2>2 DEF Fits, Phases, HasOrder
<1>11. Fits(caller[c])'
  BY <1>1, <1>2, <1>5, <1>6 DEF Fits, Phases, HasOrder
<1> QED BY <1>4, <1>7, <1>9, <1>10, <1>11 DEF RefundInv

LEMMA DecidedStep ==
    ASSUME RefundSetup, RefundInv, NEW f \in References, PluralDecides(f)
    PROVE  RefundInv'
<1>1. UNCHANGED <<kind, journal, adj, byHand, pay, caller, check, crashes, disturbed>> /\ plural[f] = "sent" /\ Phases(f) # {}
  BY DEF PluralDecides, RefundInv, Journalled
<1>2. PICK s \in {"refunded", "failed"} : plural' = [plural EXCEPT ![f] = s]
  BY DEF PluralDecides
<1>3. /\ plural' \in [References -> {"none", "sent", "refunded", "failed"}]
      /\ \A g \in References \ {f} : plural'[g] = plural[g]
      /\ Journalled' /\ Bounded'
  BY <1>1, <1>2, PluralMoves
<1>4. RefundTyped' /\ OneBegins' /\ Sweeps' /\ Unmatched'
  BY <1>1, <1>3 DEF RefundInv, RefundTyped, OneBegins, Sweeps, Unmatched, Phases, HasOrder
<1>5. ASSUME NEW d \in Callers PROVE Fits(caller[d])'
  <2>1. Fits(caller[d]) /\ caller'[d] = caller[d]
    BY <1>1 DEF RefundInv
  <2>2. caller[d].pc = "send" => caller[d].ref \in References \ {f} /\ plural'[caller[d].ref] = "none"
    BY <1>1, <1>3, <2>1 DEF Fits
  <2> QED BY <1>1, <2>1, <2>2 DEF Fits, Phases, HasOrder
<1> QED BY <1>3, <1>4, <1>5 DEF RefundInv

\* A call is journalled, and its request sends it.
LEMMA Begins ==
    ASSUME RefundSetup, RefundInv, NEW c \in Callers, NEW f \in References, NEW a \in 1..Total,
           caller[c].pc = "begin", Phases(f) = {}, Sum(Standing) + a <= Total,
           Requested(f, a), Begun(c, f), Local, UNCHANGED <<adj, disturbed>>,
           HasOrder => pay' = pay /\ f = caller[c].ref,
           ~HasOrder => /\ pay' \in PayRows /\ pay'.status = "requested" /\ pay'.ref = f
                        /\ check.pc = "idle" /\ \A d \in Callers : ~caller[d].began
                        /\ \A g \in References : Phases(g) # {} => "failed" \in Phases(g)
    PROVE  RefundInv'
<1> DEFINE k == caller[c]
           r == [k EXCEPT !.pc = "send", !.ref = f, !.began = TRUE]
           j == [phases |-> {"requested"}, amount |-> a]
<1>1. k \in CallerStates /\ Fits(k) /\ plural[f] = "none" /\ journal[f].amount = 0
  BY CallerFields DEF RefundInv, Journalled
<1>2. Moves(c, r)
  BY DEF Begun, Moves
<1>3. r \in CallerStates /\ r.pc = "send" /\ r.ref = f /\ r.click = k.click /\ r.began = TRUE
  <2> HIDE DEF k
  <2>1. r \in CallerStates
    BY <1>1 DEF CallerStates, Places
  <2>2. r.pc = "send" /\ r.ref = f /\ r.click = k.click /\ r.began = TRUE
    BY <1>1 DEF CallerStates
  <2> QED BY <2>1, <2>2
<1> HIDE DEF r
<1>4. caller' \in [Callers -> CallerStates] /\ caller'[c] = r /\ \A d \in Callers \ {c} : caller'[d] = caller[d]
  BY <1>2, <1>3, Moved DEF RefundInv
<1>5. j \in Calls /\ j.phases = {"requested"} /\ j.amount = a
  BY SMT DEF Calls, PhaseNames, RefundSetup
<1>6. journal' = [journal EXCEPT ![f] = j] /\ journal \in [References -> Calls]
  BY DEF Requested, RefundInv, RefundTyped
<1> HIDE DEF j
<1>7. /\ journal' \in [References -> Calls] /\ journal'[f] = j
      /\ \A g \in References \ {f} : journal'[g] = journal[g]
  BY <1>5, <1>6
<1>8. Phases(f)' = {"requested"} /\ \A g \in References \ {f} : Phases(g)' = Phases(g)
  BY <1>5, <1>7 DEF Phases
<1>9. UNCHANGED <<kind, plural, byHand, check, crashes, adj, disturbed>> /\ pay' \in PayRows
  BY DEF Local, RefundInv, RefundTyped
<1>10. RefundTyped'
  BY <1>4, <1>7, <1>9 DEF RefundInv, RefundTyped
<1>11. Journalled'
  <2> SUFFICES ASSUME NEW g \in References
               PROVE  /\ Phases(g)' = {} => journal'[g].amount = 0 /\ plural'[g] = "none"
                      /\ Phases(g)' # {} => "requested" \in Phases(g)' /\ journal'[g].amount >= 1
                      /\ "succeeded" \in Phases(g)' => plural'[g] = "refunded"
                      /\ "failed" \in Phases(g)' => plural'[g] = "failed"
    BY DEF Journalled
  <2>1. CASE g = f
    BY <1>5, <1>7, <1>8, <2>1, SMT DEF RefundSetup
  <2>2. CASE g # f
    BY <1>7, <1>8, <1>9, <2>2, SMT DEF RefundInv, Journalled
  <2> QED BY <2>1, <2>2
<1>12. Bounded'
  <2>1. Standing' = Standing /\ f \in Standing
    BY <1>8 DEF Standing
  <2> DEFINE S == Standing
  <2>2. S \in SUBSET References
    BY DEF Standing
  <2>3. \A g \in References \ {f} : journal'[g].amount = journal[g].amount
    BY <1>7
  <2>4. ASSUME NEW T \in SUBSET References, f \in T
        PROVE  Sum(T)' = Sum(T) + a
    BY <1>1, <1>5, <1>6, <1>7, <2>3, <2>4, SumGrows
  <2>5. PICK T \in SUBSET References : T = Standing
    BY <2>2
  <2>6. Sum(T)' = Sum(Standing) + a
    BY <2>1, <2>4, <2>5
  <2>7. Sum(Standing)' = Sum(T)'
    BY <2>1, <2>5 DEF Sum
  <2> QED BY <2>6, <2>7 DEF Bounded
<1>13. \A d \in Callers : caller[d].began => caller[d].ref # f
  BY DEF RefundInv, Fits
<1>14. OneBegins'
  BY <1>3, <1>4, <1>13, SMT DEF RefundInv, OneBegins
<1>15. Sweeps'
  <2>1. check.pc # "idle" => check.ref \in References \ {f}
    BY DEF RefundInv, Sweeps
  <2> QED BY <1>3, <1>4, <1>8, <1>9, <2>1 DEF RefundInv, Sweeps
<1>16. Unmatched'
  <2> SUFFICES ASSUME ~HasOrder PROVE Unmatched'
    BY <1>9 DEF Unmatched, HasOrder
  <2>1. \A d \in Callers : caller'[d].began => caller'[d].ref = f
    BY <1>3, <1>4
  <2> QED BY <1>8, <1>9, <2>1 DEF Unmatched
<1>17. ASSUME NEW d \in Callers \ {c} PROVE Fits(caller[d])'
  <2>1. Fits(caller[d]) /\ caller[d] \in CallerStates
    BY CallerFields DEF RefundInv
  <2>2. caller[d].pc = "send" => plural'[caller[d].ref] = "none"
    BY <1>9, <2>1 DEF Fits
  <2> QED BY <1>4, <1>8, <1>9, <1>13, <2>1, <2>2, FitsStays
<1>18. Fits(caller[c])'
  <2>1. HasOrder' <=> HasOrder
    BY <1>9 DEF HasOrder
  <2>2. ~HasOrder => k.click
    BY <1>1 DEF Fits
  <2>3. k.click /\ HasOrder => \E n \in 0..MaxAttempts : f = Payment(n)
    BY <1>1 DEF Fits
  <2> QED BY <1>1, <1>3, <1>4, <1>8, <1>9, <2>1, <2>2, <2>3 DEF Fits
<1> QED BY <1>10, <1>11, <1>12, <1>14, <1>15, <1>16, <1>17, <1>18 DEF RefundInv

LEMMA BeginHostedStep ==
    ASSUME RefundSetup, RefundInv, NEW c \in Callers, BeginHosted(c)
    PROVE  RefundInv'
<1> DEFINE k == caller[c]
           f == k.ref
<1>1. k.pc = "begin" /\ Fits(k) /\ HasOrder /\ f \in References /\ ~k.began /\ k.amount \in Nat /\ k.amount >= 1
  <2>1. k.pc = "begin" /\ Fits(k) /\ HasOrder
    BY DEF BeginHosted, At, RefundInv, HasOrder
  <2> QED BY <2>1, CallerFields DEF Fits, RefundInv
<1>2. /\ UNCHANGED <<kind, plural, byHand, check, adj, crashes, pay, disturbed>> /\ Local
      /\ adj' \in [References -> {"none", "pending", "completed", "failed"}]
      /\ crashes' \in 0..MaxCrashes /\ pay' \in PayRows /\ disturbed' \subseteq References
  BY DEF BeginHosted, Local, RefundInv, RefundTyped
<1>3. CASE Goto(c, "earlier") /\ UNCHANGED journal
  <2>1. PICK r \in CallerStates : /\ Moves(c, r) /\ r.pc = "earlier" /\ r.ref = k.ref
                                  /\ r.amount = k.amount /\ r.click = k.click /\ r.began = k.began
    BY <1>3, GoneTo, SMT DEF Places
  <2>2. Fits(r)
    BY <1>1, <2>1 DEF Fits
  <2> QED BY <1>1, <1>2, <1>3, <2>1, <2>2, CallerOnly
<1>4. CASE Return(c) /\ UNCHANGED journal
  BY <1>2, <1>4, IdleFits, CallerOnly
<1>5. CASE Phases(f) = {} /\ HostedRefunded + k.amount <= Total /\ Requested(f, k.amount) /\ Begun(c, f)
  <2>1. /\ HostedRefunded = byHand + Sum(Standing) /\ byHand \in Nat /\ Sum(Standing) \in Nat
        /\ Total \in Nat
    BY HostedSum DEF RefundInv, RefundSetup
  <2>2. HostedRefunded + k.amount <= Total
    BY <1>5
  <2>3. k.amount \in 1..Total /\ Sum(Standing) + k.amount <= Total
    <3> HIDE DEF k
    <3> QED BY <1>1, <2>1, <2>2, SMT
  <2> QED BY <1>1, <1>2, <1>5, <2>3, Begins
<1> QED BY <1>3, <1>4, <1>5 DEF BeginHosted, Phases

LEMMA BeginUnmatchedStep ==
    ASSUME RefundSetup, RefundInv, NEW c \in Callers, BeginUnmatched(c)
    PROVE  RefundInv'
<1> DEFINE f == Payment(pay.attempts + 1)
<1>1. ~HasOrder /\ caller[c].pc = "begin" /\ pay \in PayRows /\ Total \in 1..Total
  BY SMT DEF BeginUnmatched, At, HasOrder, RefundInv, RefundTyped, RefundSetup
<1>2. /\ UNCHANGED <<kind, plural, byHand, check, adj, crashes, disturbed>> /\ Local
      /\ adj' \in [References -> {"none", "pending", "completed", "failed"}]
      /\ crashes' \in 0..MaxCrashes /\ disturbed' \subseteq References
  BY DEF BeginUnmatched, Local, RefundInv, RefundTyped
<1>3. CASE Return(c) /\ UNCHANGED <<journal, pay>>
  BY <1>1, <1>2, <1>3, IdleFits, CallerOnly
<1>4. CASE /\ pay.status \in {"none", "failed"} /\ pay.attempts < MaxAttempts /\ Phases(f) = {}
           /\ Requested(f, Total) /\ Begun(c, f)
           /\ pay' = [status |-> "requested", attempts |-> pay.attempts + 1, ref |-> f]
  <2>1. pay.attempts + 1 \in 0..MaxAttempts /\ pay.attempts + 1 \in Nat /\ f \in References
    <3>1. pay.attempts + 1 \in 0..MaxAttempts
      BY <1>1, <1>4, SMT DEF PayRows, RefundSetup
    <3> QED BY <3>1, SMT DEF References, RefundSetup
  <2> HIDE DEF f
  <2>2. pay' \in PayRows /\ pay'.status = "requested" /\ pay'.ref = f
    BY <1>4, <2>1 DEF PayRows
  <2>3. /\ check.pc = "idle" /\ \A d \in Callers : ~caller[d].began
        /\ \A g \in References : Phases(g) # {} => "failed" \in Phases(g)
    BY <1>1, <1>4 DEF RefundInv, Unmatched
  <2>4. Sum(Standing) = 0
    <3>1. journal \in [References -> Calls] /\ Standing \in SUBSET References
      BY DEF RefundInv, RefundTyped, Standing
    <3>2. \A g \in Standing : {g} \X (1..journal[g].amount) = {}
      BY <2>3, SMT DEF Standing, RefundInv, Journalled
    <3>3. Units(Standing) = {}
      BY <3>1, <3>2, UnitsFinite, SMT
    <3> QED BY <3>1, <3>3, UnitsFinite, FS_EmptySet
  <2>5. Sum(Standing) + Total <= Total
    BY <2>4, SMT DEF RefundSetup
  <2> QED BY <1>1, <1>2, <1>4, <2>1, <2>2, <2>3, <2>5, Begins DEF BeginUnmatched
<1> QED BY <1>3, <1>4 DEF BeginUnmatched, Refundable, Phases

LEMMA CallStep ==
    ASSUME RefundSetup, RefundInv, NEW c \in Callers, CallPlural(c)
    PROVE  RefundInv'
<1> DEFINE k == caller[c]
<1>0. PICK f : f = k.ref
  OBVIOUS
<1>1. /\ k \in CallerStates /\ k.pc = "wait" /\ Fits(k) /\ k.began /\ f \in References /\ Phases(f) = {"requested"}
      /\ (HasOrder \/ k.click)
  <2>1. k.pc = "wait" /\ Fits(k)
    BY DEF CallPlural, At, RefundInv
  <2> QED BY <1>0, <2>1, CallerFields DEF Fits, RefundInv
<1>2. PICK phase \in Outcomes(f) :
          /\ journal' = [journal EXCEPT ![f].phases = @ \cup {phase}]
          /\ IF HasOrder /\ phase # "failed" THEN Carry(c, "adjust", phase) ELSE Answer(c, phase)
  BY <1>0 DEF CallPlural, HasOrder
<1>3. /\ phase \in {"unknown", "succeeded", "failed"}
      /\ phase = "succeeded" => plural[f] = "refunded"
      /\ phase = "failed" => plural[f] = "failed"
  BY <1>2 DEF Outcomes
<1>4. UNCHANGED <<kind, plural, byHand, check, crashes, adj, pay, disturbed>>
  BY DEF CallPlural, Local
<1>5. /\ journal' \in [References -> Calls] /\ Journalled' /\ Bounded'
      /\ Phases(f)' = Phases(f) \cup {phase}
      /\ \A g \in References \ {f} : journal'[g] = journal[g]
  BY <1>1, <1>2, <1>3, <1>4, JournalAdds
<1>6. PICK r \in CallerStates :
          /\ Moves(c, r)
          /\ \/ r = Idle
             \/ /\ r.pc = "adjust" /\ r.phase = phase /\ r.ref = f /\ r.click = k.click /\ r.began = k.began
                /\ HasOrder /\ phase # "failed"
             \/ /\ r.pc = "row" /\ r.phase = phase /\ r.ref = f /\ r.click = k.click /\ r.began = k.began /\ r.click
  <2>1. CASE HasOrder /\ phase # "failed"
    BY <1>0, <1>2, <1>3, <2>1, Carried, SMT DEF RefundInv, PhaseNames, Places
  <2>2. CASE ~(HasOrder /\ phase # "failed")
    BY <1>0, <1>2, <1>3, <2>2, Answers, SMT DEF RefundInv, PhaseNames
  <2> QED BY <2>1, <2>2
<1>7. caller' \in [Callers -> CallerStates] /\ caller'[c] = r /\ \A d \in Callers \ {c} : caller'[d] = caller[d]
  BY <1>6, Moved DEF RefundInv
<1>8. \A d \in Callers : caller'[d].began => caller[d].began /\ caller'[d].ref = caller[d].ref
  BY <1>0, <1>6, <1>7, IdleFits
<1>9. RefundTyped'
  BY <1>4, <1>5, <1>7 DEF RefundInv, RefundTyped
<1>10. OneBegins'
  BY <1>8 DEF RefundInv, OneBegins
<1>11. \A g \in References \ {f} : Phases(g)' = Phases(g)
  BY <1>5 DEF Phases
<1>12. Sweeps'
  <2>1. check.pc # "idle" => check.ref \in References \ {f}
    BY <1>0, <1>1 DEF RefundInv, Sweeps
  <2> QED BY <1>4, <1>8, <1>11, <2>1 DEF RefundInv, Sweeps
<1>13. Unmatched'
  <2>1. \A g \in References : Phases(g) \subseteq Phases(g)' /\ (Phases(g)' # {} => Phases(g) # {})
    BY <1>1, <1>5, <1>11
  <2>2. \A g \in References : Phases(g)' # {} /\ "failed" \notin Phases(g)' => Phases(g) # {} /\ "failed" \notin Phases(g)
    BY <2>1
  <2>3. UNCHANGED <<check, pay, kind>>
    BY <1>4
  <2>4. pay.ref \in References => Phases(pay.ref)' = IF pay.ref = f THEN Phases(f)' ELSE Phases(pay.ref)
    BY <1>4, <1>11
  <2>5. "succeeded" \in Phases(pay.ref) /\ pay.ref \in References => "succeeded" \in Phases(pay.ref)'
    BY <1>5, <2>4
  <2>6. HasOrder' <=> HasOrder
    BY <2>3 DEF HasOrder
  <2> QED BY <1>8, <2>2, <2>3, <2>5, <2>6 DEF RefundInv, Unmatched
<1>14. ASSUME NEW d \in Callers \ {c} PROVE Fits(caller[d])'
  <2>1. Fits(caller[d]) /\ caller[d] \in CallerStates
    BY CallerFields DEF RefundInv
  <2>2. caller[d].pc = "send" => plural'[caller[d].ref] = "none"
    BY <1>4, <2>1 DEF Fits
  <2>3. caller[d].began => caller[d].ref # f
    BY <1>0, <1>1 DEF RefundInv, OneBegins
  <2> QED BY <1>1, <1>4, <1>5, <1>7, <1>11, <2>1, <2>2, <2>3, FitsStays
<1>15. Fits(caller[c])'
  <2>1. HasOrder' <=> HasOrder
    BY <1>4 DEF HasOrder
  <2>2. Phases(f)' = {"requested", phase}
    BY <1>1, <1>5
  <2>3. k.click /\ HasOrder => \E n \in 0..MaxAttempts : f = Payment(n)
    BY <1>0, <1>1 DEF Fits
  <2>4. CASE r = Idle
    <3>1. caller'[c].pc = "idle" /\ caller'[c].began = FALSE /\ caller'[c].click = FALSE /\ caller'[c].ref = None
      <4>1. caller'[c] = Idle
        BY <1>7, <2>4
      <4> QED BY <4>1, IdleFits
    <3> QED BY <3>1 DEF Fits
  <2>5. CASE r.ref = f /\ r.phase = phase /\ r.click = k.click /\ r.began = k.began
    BY <1>1, <1>3, <1>6, <1>7, <2>1, <2>2, <2>3, <2>5, IdleFits DEF Fits
  <2> QED BY <1>6, <2>4, <2>5
<1> QED BY <1>5, <1>9, <1>10, <1>12, <1>13, <1>14, <1>15 DEF RefundInv

\* A whole order refunded, when the sweep's call asked for all of it, was
\* refunded by that call.
LEMMA WholeIsOurs ==
    ASSUME RefundSetup, RefundInv, NEW f \in Standing, journal[f].amount = Total,
           Sum({g \in References : plural[g] = "refunded"}) = Total
    PROVE  plural[f] = "refunded"
<1> DEFINE R == {g \in References : plural[g] = "refunded"}
           V == {f} \X (1..Total)
<1>1. SUFFICES ASSUME f \notin R PROVE FALSE
  BY DEF Standing
<1>2. journal \in [References -> Calls] /\ R \in SUBSET References /\ Standing \in SUBSET References /\ R \subseteq Standing
  BY DEF RefundInv, RefundTyped, Standing, Journalled
<1> HIDE DEF R
<1>3. /\ IsFiniteSet(Units(R)) /\ Cardinality(Units(R)) = Total
      /\ IsFiniteSet(Units(Standing)) /\ Cardinality(Units(Standing)) <= Total /\ Cardinality(Units(Standing)) \in Nat
  BY <1>2, UnitsFinite DEF RefundInv, Bounded, R
<1>4. IsFiniteSet(V) /\ Cardinality(V) = Total
  BY OneCall DEF RefundSetup
<1>5. Units(R) \cap V = {}
  <2> SUFFICES ASSUME NEW u \in Units(R), u \in V PROVE FALSE
    OBVIOUS
  <2>1. PICK g \in R : u \in {g} \X (1..journal[g].amount)
    BY <1>2, UnitsFinite
  <2>2. g = f
    BY <2>1
  <2> QED BY <1>1, <2>2
<1>6. Units(R) \cup V \subseteq Units(Standing)
  <2>1. \A u \in Units(R) : u \in Units(Standing)
    BY <1>2, UnitsFinite
  <2>2. \A u \in V : u \in Units(Standing)
    BY <1>2, UnitsFinite
  <2> QED BY <2>1, <2>2
<1> HIDE DEF V
<1>7. Cardinality(Units(R) \cup V) = Total + Total
  <2>1. Cardinality(Units(R) \cup V) = Cardinality(Units(R)) + Cardinality(V) - Cardinality(Units(R) \cap V)
    BY <1>3, <1>4, FS_Union
  <2>2. Cardinality(Units(R) \cap V) = 0
    BY <1>5, FS_EmptySet
  <2> QED BY <1>3, <1>4, <2>1, <2>2, SMT DEF RefundSetup
<1>8. Cardinality(Units(R) \cup V) <= Cardinality(Units(Standing))
  BY <1>3, <1>6, FS_Subset
<1> QED BY <1>3, <1>7, <1>8, SMT DEF RefundSetup

LEMMA SweepRecordStep ==
    ASSUME RefundSetup, RefundInv, SweepRecord
    PROVE  RefundInv'
<1>0. PICK f : f = check.ref
  OBVIOUS
<1>1. /\ check.pc = "read" /\ check \in Checks
      /\ f \in References /\ Phases(f) # {} /\ Phases(f) \cap Final = {}
      /\ \A c \in Callers : caller[c].began => caller[c].ref # f
      /\ ~HasOrder => f = pay.ref /\ pay.status \in {"requested", "pending"}
  BY <1>0 DEF SweepRecord, RefundInv, RefundTyped, Sweeps, Unmatched
<1>2. UNCHANGED <<kind, plural, byHand, caller, crashes, adj, pay, disturbed>>
  BY DEF SweepRecord, SweepOnly
<1>3. PICK phase \in Read(f) :
          IF phase = None
          THEN check' = [pc |-> "idle", ref |-> None, phase |-> None] /\ UNCHANGED journal
          ELSE /\ journal' = [journal EXCEPT ![f].phases = @ \cup {phase}]
               /\ check' = [check EXCEPT !.pc = IF HasOrder THEN "status" ELSE "row", !.phase = phase]
  BY <1>0 DEF SweepRecord, HasOrder
<1>4. CASE phase = None
  <2>1. check' \in Checks /\ check'.pc = "idle" /\ Sweeps' /\ UNCHANGED journal
    BY <1>3, <1>4, NoCheck
  <2>2. RefundTyped' /\ Unmatched'
    BY <1>2, <2>1 DEF RefundInv, RefundTyped, Unmatched, HasOrder, Phases
  <2> QED BY <1>2, <2>1, <2>2, CheckOnly
<1>5. CASE phase # None
  <2>1. phase \in {"succeeded", "failed"} /\ (phase = "failed" => plural[f] = "failed")
    BY <1>3, <1>5 DEF Read
  <2>2. phase = "succeeded" => plural[f] = "refunded"
    <3>1. f \in Standing
      BY <1>1 DEF Standing, Final
    <3>2. ASSUME phase = "succeeded", plural[f] # "refunded"
          PROVE  Sum({g \in References : plural[g] = "refunded"}) = Total /\ journal[f].amount = Total
      BY <1>3, <1>5, <3>2 DEF Read
    <3> QED BY <3>1, <3>2, WholeIsOurs
  <2>3. "requested" \in Phases(f)
    BY <1>1 DEF RefundInv, Journalled
  <2>4. journal' = [journal EXCEPT ![f].phases = @ \cup {phase}]
    BY <1>3, <1>5
  <2>5. /\ journal' \in [References -> Calls] /\ Journalled' /\ Bounded'
        /\ Phases(f)' = Phases(f) \cup {phase}
        /\ \A g \in References \ {f} : journal'[g] = journal[g]
    BY <1>1, <1>2, <2>1, <2>2, <2>3, <2>4, JournalAdds
  <2>6. \A g \in References \ {f} : Phases(g)' = Phases(g)
    BY <2>5 DEF Phases
  <2> DEFINE pc == IF HasOrder THEN "status" ELSE "row"
  <2>7. check' \in Checks /\ check'.pc = pc /\ check'.ref = f /\ check'.phase = phase
    <3>1. check' = [check EXCEPT !.pc = pc, !.phase = phase] /\ pc \in {"status", "row"}
      BY <1>3, <1>5
    <3> HIDE DEF pc
    <3> QED BY <1>0, <1>1, <2>1, <3>1 DEF Checks, Final
  <2>8. RefundTyped'
    BY <1>2, <2>5, <2>7 DEF RefundInv, RefundTyped
  <2>9. OneBegins'
    BY <1>2 DEF RefundInv, OneBegins
  <2>10. Sweeps'
    BY <1>1, <1>2, <2>1, <2>5, <2>7 DEF Sweeps, Final
  <2>11. Unmatched'
    <3> SUFFICES ASSUME ~HasOrder PROVE Unmatched'
      BY <1>2 DEF Unmatched, HasOrder
    <3>1. \A g \in References : Phases(g)' # {} /\ "failed" \notin Phases(g)' => Phases(g) # {} /\ "failed" \notin Phases(g)
      BY <1>1, <2>5, <2>6
    <3>2. UNCHANGED <<pay, caller>> /\ check'.pc = "row" /\ pay.status # "refunded"
      BY <1>1, <1>2, <2>7
    <3> QED BY <1>1, <2>7, <3>1, <3>2 DEF RefundInv, Unmatched
  <2>12. ASSUME NEW d \in Callers PROVE Fits(caller[d])'
    <3>1. Fits(caller[d]) /\ caller[d] \in CallerStates /\ caller'[d] = caller[d]
      BY <1>2, CallerFields DEF RefundInv
    <3>2. caller[d].pc = "send" => plural'[caller[d].ref] = "none"
      BY <1>2, <3>1 DEF Fits
    <3> QED BY <1>1, <1>2, <2>5, <2>6, <3>1, <3>2, FitsStays
  <2> QED BY <2>5, <2>8, <2>9, <2>10, <2>11, <2>12 DEF RefundInv
<1> QED BY <1>4, <1>5

LEMMA RefundInit == ASSUME RefundSetup, Init PROVE RefundInv
<1>1. RefundTyped
  <2>1. [phases |-> {}, amount |-> 0] \in Calls
    <3>1. 0 \in 0..Total
      BY SMT DEF RefundSetup
    <3> QED BY <3>1 DEF Calls
  <2>2. check \in Checks /\ pay \in PayRows
    BY DEF Init, Checks, PayRows
  <2>3. byHand \in 0..MaxByHand /\ crashes \in 0..MaxCrashes
    BY SMT DEF Init, RefundSetup
  <2>4. Idle \in CallerStates
    BY IdleFits
  <2> QED BY <2>1, <2>2, <2>3, <2>4 DEF Init, RefundTyped
<1>2. \A f \in References : Phases(f) = {} /\ journal[f].amount = 0 /\ plural[f] = "none"
  BY DEF Init, Phases
<1>3. \A c \in Callers : caller[c] = Idle
  BY DEF Init
<1>4. Journalled
  BY <1>2 DEF Journalled
<1>5. Bounded
  <2>1. journal \in [References -> Calls] /\ Standing \in SUBSET References
    BY <1>1 DEF RefundTyped, Standing
  <2>2. \A g \in Standing : {g} \X (1..journal[g].amount) = {}
    BY <1>2, <2>1, SMT
  <2>3. Units(Standing) = {}
    BY <2>1, <2>2, UnitsFinite, SMT
  <2>4. Sum(Standing) = 0
    BY <2>1, <2>3, UnitsFinite, FS_EmptySet
  <2> QED BY <2>4, SMT DEF Bounded, RefundSetup
<1>6. OneBegins /\ Sweeps /\ Unmatched
  BY <1>2, <1>3, IdleFits DEF OneBegins, Sweeps, Unmatched, Init
<1>7. \A c \in Callers : Fits(caller[c])
  BY <1>3, IdleFits
<1> QED BY <1>1, <1>4, <1>5, <1>6, <1>7 DEF RefundInv

LEMMA RefundStep == ASSUME RefundSetup, RefundInv, [Next]_vars PROVE RefundInv'
<1>1. CASE UNCHANGED vars
  <2>1. UNCHANGED <<kind, journal, plural, adj, byHand, pay, caller, check, crashes, disturbed>>
    BY <1>1 DEF vars
  <2>2. RefundTyped'
    BY <2>1 DEF RefundInv, RefundTyped
  <2>3. HasOrder' = HasOrder /\ \A f \in References : Phases(f)' = Phases(f)
    BY <2>1 DEF HasOrder, Phases
  <2>4. Sweeps'
    BY <2>1, <2>3 DEF RefundInv, Sweeps
  <2>5. Unmatched'
    BY <2>1, <2>3 DEF RefundInv, Unmatched
  <2> QED BY <2>1, <2>2, <2>4, <2>5, CheckOnly
<1>2. ASSUME NEW c \in Callers,
             \/ \E q \in DOMAIN Amount : Ask(c, q)
             \/ Click(c) \/ Remaining(c) \/ EarlierRefund(c) \/ Decide(c)
             \/ BeginHosted(c) \/ BeginUnmatched(c) \/ Send(c) \/ CallPlural(c)
             \/ Adjust(c) \/ WriteRow(c) \/ Crash(c)
      PROVE  RefundInv'
  BY <1>2, AskStep, ClickStep, RemainingStep, EarlierStep, DecideStep, BeginHostedStep, BeginUnmatchedStep,
     SendStep, CallStep, AdjustStep, RowStep, CrashStep
<1>3. ASSUME NEW f \in References, PluralDecides(f) \/ SweepBegin(f) PROVE RefundInv'
  BY <1>3, DecidedStep, SweepBeginStep
<1>4. CASE SweepRecord \/ SweepStatus \/ SweepMissing \/ SweepRow \/ CrashSweep \/ RecordByHand
  BY <1>4, SweepRecordStep, SweepStatusStep, SweepMissingStep, SweepRowStep, CrashSweepStep, ByHandStep
<1> QED BY <1>1, <1>2, <1>3, <1>4 DEF Next

\* For any requests, amounts, callers and crashes: Plural never gives back more
\* than was captured, an unmatched payment once at most; and an outcome in the
\* journal is what Plural did (refund_hosted_order and refund_unmatched_payment
\* under their row locks, refund_state_from_order in the sweep).
THEOREM RefundsStayWithinCaptured ==
    ASSUME RefundSetup PROVE Spec => [](TypeOK /\ RefundsWithinCaptured)
<1>1. Init => RefundInv
  BY RefundInit
<1>2. RefundInv /\ [Next]_vars => RefundInv'
  BY RefundStep
<1>3. ASSUME RefundInv PROVE RefundsWithinCaptured
  <2> DEFINE R == {f \in References : plural[f] = "refunded"}
  <2>1. journal \in [References -> Calls] /\ R \in SUBSET References /\ Standing \in SUBSET References /\ R \subseteq Standing
    BY <1>3 DEF RefundInv, RefundTyped, Standing, Journalled
  <2>2. Sum(R) <= Sum(Standing) /\ Sum(R) \in Nat /\ Sum(Standing) \in Nat
    BY <2>1, SumMonotone, UnitsFinite
  <2>3. Sum(R) <= Total
    BY <1>3, <2>2, SMT DEF RefundInv, Bounded, RefundSetup
  <2> QED BY <1>3, <2>3 DEF RefundInv, Journalled, RefundsWithinCaptured, Phases
<1>4. ASSUME RefundInv PROVE TypeOK
  <2>1. \A f \in References :
          /\ Phases(f) \subseteq {"requested", "unknown", "succeeded", "failed"}
          /\ Phases(f) # {} => "requested" \in Phases(f) /\ journal[f].amount \in 1..Total
    BY <1>4, SMT DEF RefundInv, RefundTyped, Journalled, Calls, PhaseNames, Phases, RefundSetup
  <2>2. \A c \in Callers : caller[c].pc \in Places /\ caller[c].ref \in References \cup {None}
    BY <1>4, CallerFields DEF RefundInv
  <2>3. check.pc \in {"idle", "read", "status", "missing", "row"} /\ check.ref \in References \cup {None}
    BY <1>4 DEF RefundInv, RefundTyped, Checks
  <2> QED BY <1>4, <2>1, <2>2, <2>3 DEF RefundInv, RefundTyped, PayRows, Places, Phases, TypeOK
<1> QED BY <1>1, <1>2, <1>3, <1>4, PTL DEF Spec

(***************************************************************************)
(* What the order and the row show                                         *)
(*                                                                         *)
(* The adjustment follows the journal (Tracks), or a request is about to   *)
(* write it, or the refund is one a crash or a repeated request disturbed; *)
(* the row of a payment without an order says what the journal says of the *)
(* attempt it names (RowAt).                                               *)
(***************************************************************************)
\* What the journal knows of a refund, and the status of its adjustment.
KnownAs(f) == IF "succeeded" \in Phases(f) THEN "succeeded" ELSE IF "failed" \in Phases(f) THEN "failed" ELSE "unknown"
Match(f) == IF "succeeded" \in Phases(f) THEN "completed" ELSE IF "failed" \in Phases(f) THEN "failed" ELSE "pending"

\* The adjustment follows the journal: it is there, or was never needed, or a
\* request is about to write it; and the sweep, while it settles the refund,
\* has it to itself.
Tracks(f) ==
    /\ check.pc # "idle" /\ check.ref = f => \A c \in Callers : caller[c].ref = f => caller[c].pc = "remaining"
    /\ \A c \in Callers : caller[c].pc = "adjust" /\ caller[c].ref = f /\ adj[f] = "none" => caller[c].phase = KnownAs(f)
    /\ check.pc = "status" /\ check.ref = f => adj[f] \in {"none", "pending"}
    /\ check.pc = "missing" /\ check.ref = f => adj[f] \in {"none", "completed"} /\ check.phase = "succeeded"
    /\ \/ check.pc \in {"status", "missing"} /\ check.ref = f
       \/ adj[f] = Match(f)
       \/ adj[f] = "none" /\ (Phases(f) \subseteq {"requested"} \/ KnownAs(f) = "failed")
       \/ adj[f] = "none" /\ \E c \in Callers : caller[c].pc = "adjust" /\ caller[c].ref = f

ShownAt(f) ==
    /\ Phases(f) \subseteq {"requested"} => adj[f] = "none"
    /\ f \notin disturbed => Tracks(f)

Shown == HasOrder => \A f \in References : ShownAt(f)

\* The journal does not hold both outcomes.
LEMMA ToldIs ==
    ASSUME RefundInv, NEW f \in References
    PROVE  Told(f) = KnownAs(f) /\ ~("succeeded" \in Phases(f) /\ "failed" \in Phases(f))
<1>1. ~("succeeded" \in Phases(f) /\ "failed" \in Phases(f))
  BY DEF RefundInv, Journalled
<1>2. CASE "succeeded" \in Phases(f)
  BY <1>1, <1>2 DEF Told, KnownAs, Phases
<1>3. CASE "failed" \in Phases(f)
  BY <1>1, <1>3 DEF Told, KnownAs, Phases
<1>4. CASE "succeeded" \notin Phases(f) /\ "failed" \notin Phases(f)
  BY <1>4 DEF Told, KnownAs, Phases
<1> QED BY <1>1, <1>2, <1>3, <1>4

\* A request moves, and what is known of f stays.
LEMMA ShownMoves ==
    ASSUME RefundInv, NEW f \in References, ShownAt(f), NEW c \in Callers, NEW r \in CallerStates, Moves(c, r),
           journal'[f] = journal[f], adj'[f] = adj[f], check' = check, f \in disturbed => f \in disturbed',
           check.pc # "idle" /\ check.ref = f /\ r.ref = f => r.pc = "remaining" \/ f \in disturbed',
           r.pc = "adjust" /\ r.ref = f => r.phase = KnownAs(f),
           caller[c].pc = "adjust" /\ caller[c].ref = f => f \in disturbed'
    PROVE  ShownAt(f)'
<1>1. caller'[c] = r /\ \A d \in Callers \ {c} : caller'[d] = caller[d]
  BY Moved DEF RefundInv
<1>2. Phases(f)' = Phases(f) /\ KnownAs(f)' = KnownAs(f) /\ Match(f)' = Match(f)
  BY DEF Phases, KnownAs, Match
<1>3. Phases(f)' \subseteq {"requested"} => adj'[f] = "none"
  BY <1>2 DEF ShownAt
<1>4. ASSUME f \notin disturbed' PROVE Tracks(f)'
  <2>1. Tracks(f)
    BY <1>4 DEF ShownAt
  <2>2. (check.pc # "idle" /\ check.ref = f => \A d \in Callers : caller[d].ref = f => caller[d].pc = "remaining")'
    BY <1>1, <1>4, <2>1 DEF Tracks
  <2>3. (\A d \in Callers : caller[d].pc = "adjust" /\ caller[d].ref = f /\ adj[f] = "none" => caller[d].phase = KnownAs(f))'
    BY <1>1, <1>2, <2>1 DEF Tracks
  <2>4. (\E d \in Callers : caller[d].pc = "adjust" /\ caller[d].ref = f)
        => (\E d \in Callers : caller[d].pc = "adjust" /\ caller[d].ref = f)'
    BY <1>1, <1>4
  <2> QED BY <1>2, <2>1, <2>2, <2>3, <2>4 DEF Tracks
<1> QED BY <1>3, <1>4 DEF ShownAt

LEMMA NoneIsNone == ASSUME RefundSetup PROVE None \notin References
BY DEF RefundSetup

LEMMA ShownAsk ==
    ASSUME RefundSetup, RefundInv, NEW f \in References, ShownAt(f), NEW c \in Callers,
           (\E q \in DOMAIN Amount : Ask(c, q)) \/ (HasOrder /\ Click(c))
    PROVE  ShownAt(f)'
<1>1. CASE \E q \in DOMAIN Amount : Ask(c, q)
  <2>1. PICK q \in DOMAIN Amount : Ask(c, q)
    BY <1>1
  <2> DEFINE g == <<"request", q>>
             r == [Idle EXCEPT !.pc = "earlier", !.ref = g, !.amount = Amount[q]]
  <2>2. g \in References /\ Amount[q] \in Nat \ {0}
    BY DEF References, Requests, RefundSetup
  <2>3. r \in CallerStates /\ r.pc = "earlier" /\ r.ref = g
    BY <2>2, IdleFits DEF CallerStates, Places
  <2>4. Moves(c, r) /\ UNCHANGED <<journal, adj, check>> /\ caller[c].pc = "idle"
    BY <2>1 DEF Ask, Moves, Local, At
  <2>5. disturbed' = IF check.ref = g THEN disturbed \cup {g} ELSE disturbed
    BY <2>1 DEF Ask, Meets
  <2> HIDE DEF r, g
  <2> QED BY <2>3, <2>4, <2>5, ShownMoves
<1>2. CASE HasOrder /\ Click(c)
  <2> DEFINE g == Payment(pay.attempts)
             r == [Idle EXCEPT !.pc = "remaining", !.ref = g, !.click = TRUE]
  <2>1. g \in References
    BY <1>2, SMT DEF References, RefundInv, RefundTyped, PayRows, RefundSetup, Click
  <2>2. Moves(c, r) /\ UNCHANGED <<journal, adj, check, disturbed>> /\ caller[c].pc = "idle"
    BY <1>2 DEF Click, Moves, Local, At, HasOrder
  <2> HIDE DEF g
  <2>3. r \in CallerStates /\ r.pc = "remaining" /\ r.ref = g
    BY <2>1, IdleFits DEF CallerStates, Places
  <2> HIDE DEF r
  <2> QED BY <2>2, <2>3, ShownMoves
<1> QED BY <1>1, <1>2

\* A request that is over is at no refund.
LEMMA ShownReturns ==
    ASSUME RefundSetup, RefundInv, NEW f \in References, ShownAt(f), NEW c \in Callers, Return(c),
           journal'[f] = journal[f], adj'[f] = adj[f], check' = check, f \in disturbed => f \in disturbed',
           caller[c].pc = "adjust" /\ caller[c].ref = f => f \in disturbed'
    PROVE  ShownAt(f)'
BY ShownMoves, IdleFits, NoneIsNone

\* A request goes on to where it neither records an adjustment nor did.
LEMMA ShownGoes ==
    ASSUME RefundSetup, RefundInv, NEW f \in References, ShownAt(f), NEW c \in Callers, NEW r \in CallerStates, Moves(c, r),
           caller[c].pc \notin {"adjust", "remaining"}, r.ref = caller[c].ref, r.pc # "adjust",
           journal'[f] = journal[f], adj'[f] = adj[f], check' = check, f \in disturbed => f \in disturbed'
    PROVE  ShownAt(f)'
<1>1. check.pc # "idle" /\ check.ref = f /\ r.ref = f => f \in disturbed
  BY DEF ShownAt, Tracks
<1> QED BY <1>1, ShownMoves

LEMMA ShownRemaining ==
    ASSUME RefundSetup, RefundInv, HasOrder, NEW f \in References, ShownAt(f), NEW c \in Callers, Remaining(c)
    PROVE  ShownAt(f)'
<1> DEFINE k == caller[c]
           a == Total - HostedRefunded
<1>1. k \in CallerStates /\ k.pc = "remaining" /\ UNCHANGED <<journal, adj, check>>
  BY CallerFields DEF Remaining, At, RefundInv, Local
<1>2. CASE Return(c) /\ UNCHANGED disturbed
  BY <1>1, <1>2, ShownReturns
<1>3. CASE caller' = [caller EXCEPT ![c].pc = "earlier", ![c].amount = a] /\ ~(a < 1) /\ Meets(k.ref)
  <2> DEFINE r == [k EXCEPT !.pc = "earlier", !.amount = a]
  <2>1. Moves(c, r)
    BY <1>3 DEF Moves
  <2>2. a \in Nat
    BY <1>3, HostedSum, SMT DEF RefundInv, RefundSetup
  <2> HIDE DEF a, k
  <2>3. r \in CallerStates /\ r.pc = "earlier" /\ r.ref = k.ref
    BY <1>1, <2>2 DEF CallerStates, Places
  <2>4. disturbed' = IF check.ref = k.ref THEN disturbed \cup {k.ref} ELSE disturbed
    BY <1>3 DEF Meets
  <2> HIDE DEF r
  <2> QED BY <1>1, <2>1, <2>3, <2>4, ShownMoves DEF k
<1> QED BY <1>2, <1>3 DEF Remaining

LEMMA ShownAnswers ==
    ASSUME RefundSetup, RefundInv, NEW f \in References, ShownAt(f), NEW c \in Callers, NEW phase \in PhaseNames, Answer(c, phase),
           caller[c].pc \notin {"adjust", "remaining"},
           journal'[f] = journal[f], adj'[f] = adj[f], check' = check, f \in disturbed => f \in disturbed'
    PROVE  ShownAt(f)'
<1>1. CASE Return(c)
  BY <1>1, ShownReturns
<1>2. CASE Carry(c, "row", phase)
  <2>1. PICK r \in CallerStates : Moves(c, r) /\ r.pc = "row" /\ r.ref = caller[c].ref
    BY <1>2, CarriedTo, SMT DEF Places
  <2> QED BY <2>1, ShownGoes
<1> QED BY <1>1, <1>2 DEF Answer

LEMMA ShownEarlier ==
    ASSUME RefundSetup, RefundInv, NEW f \in References, ShownAt(f), NEW c \in Callers, EarlierRefund(c)
    PROVE  ShownAt(f)'
<1> DEFINE k == caller[c]
           p == Phases(k.ref)
<1>1. k.pc = "earlier" /\ UNCHANGED <<journal, adj, check, disturbed>>
  BY DEF EarlierRefund, At, Local
<1>2. CASE Goto(c, "decide")
  <2>1. PICK r \in CallerStates : Moves(c, r) /\ r.pc = "decide" /\ r.ref = k.ref
    BY <1>2, GoneTo, SMT DEF Places
  <2> QED BY <1>1, <2>1, ShownGoes
<1>3. CASE Answer(c, "failed") \/ Answer(c, "unknown")
  BY <1>1, <1>3, ShownAnswers DEF PhaseNames
<1>4. ASSUME NEW phase \in {"succeeded", "unknown"}, phase = KnownAs(k.ref), Carry(c, "adjust", phase)
      PROVE  ShownAt(f)'
  <2>1. PICK r \in CallerStates : Moves(c, r) /\ r.pc = "adjust" /\ r.phase = phase /\ r.ref = k.ref
    BY <1>4, CarriedTo, SMT DEF Places, PhaseNames
  <2>2. check.pc # "idle" /\ check.ref = f /\ r.ref = f => f \in disturbed
    BY <1>1, <2>1 DEF ShownAt, Tracks
  <2> QED BY <1>1, <1>4, <2>1, <2>2, ShownMoves
<1>5. "failed" \notin p /\ "succeeded" \in p => KnownAs(k.ref) = "succeeded"
  BY DEF KnownAs
<1>6. p = {"requested", "unknown"} => KnownAs(k.ref) = "unknown"
  BY DEF KnownAs
<1> QED BY <1>2, <1>3, <1>4, <1>5, <1>6, EarlierCases

LEMMA ShownDecide ==
    ASSUME RefundSetup, RefundInv, NEW f \in References, ShownAt(f), NEW c \in Callers,
           Decide(c) \/ Send(c)
    PROVE  ShownAt(f)'
<1>1. caller[c].pc \in {"decide", "send"} /\ UNCHANGED <<journal, adj, check, disturbed>>
  BY DEF Decide, Send, At, Local
<1>2. CASE Return(c)
  BY <1>1, <1>2, ShownReturns
<1>3. ASSUME NEW pc \in {"begin", "wait"}, Goto(c, pc) PROVE ShownAt(f)'
  <2>1. PICK r \in CallerStates : Moves(c, r) /\ r.pc = pc /\ r.ref = caller[c].ref
    BY <1>3, GoneTo, SMT DEF Places
  <2> QED BY <1>1, <1>3, <2>1, ShownGoes
<1> QED BY <1>2, <1>3 DEF Decide, Send

LEMMA ShownRow ==
    ASSUME RefundSetup, RefundInv, NEW f \in References, ShownAt(f), NEW c \in Callers,
           WriteRow(c) \/ Crash(c)
    PROVE  ShownAt(f)'
<1>1. CASE WriteRow(c)
  <2>1. caller[c].pc = "row" /\ Return(c) /\ UNCHANGED <<journal, adj, check, disturbed>>
    BY <1>1 DEF WriteRow, At, Local
  <2> QED BY <2>1, ShownReturns
<1>2. CASE Crash(c)
  <2>1. /\ Return(c) /\ UNCHANGED <<journal, adj, check>>
        /\ disturbed' = IF caller[c].pc \in {"adjust", "row"} THEN disturbed \cup {caller[c].ref} ELSE disturbed
    BY <1>2 DEF Crash
  <2> QED BY <2>1, ShownReturns
<1> QED BY <1>1, <1>2

LEMMA ShownBegin ==
    ASSUME RefundSetup, RefundInv, NEW f \in References, ShownAt(f), NEW c \in Callers, BeginHosted(c)
    PROVE  ShownAt(f)'
<1> DEFINE k == caller[c]
<1>1. k \in CallerStates /\ k.pc = "begin" /\ UNCHANGED <<adj, check, disturbed>>
  BY CallerFields DEF BeginHosted, At, Local, RefundInv
<1>2. CASE Return(c) /\ UNCHANGED journal
  BY <1>1, <1>2, ShownReturns
<1>3. CASE Goto(c, "earlier") /\ UNCHANGED journal
  <2>1. PICK r \in CallerStates : Moves(c, r) /\ r.pc = "earlier" /\ r.ref = k.ref
    BY <1>3, GoneTo, SMT DEF Places
  <2> QED BY <1>1, <1>3, <2>1, ShownGoes
<1>4. ASSUME Phases(k.ref) = {}, Requested(k.ref, k.amount), Begun(c, k.ref) PROVE ShownAt(f)'
  <2> DEFINE r == [k EXCEPT !.pc = "send", !.ref = k.ref, !.began = TRUE]
  <2>1. Moves(c, r)
    BY <1>4 DEF Begun, Moves
  <2>2. r \in CallerStates /\ r.pc = "send" /\ r.ref = k.ref
    <3> HIDE DEF k
    <3> QED BY <1>1 DEF CallerStates, Places
  <2> HIDE DEF r
  <2>3. CASE f # k.ref
    <3>1. journal'[f] = journal[f]
      BY <1>4, <2>3 DEF Requested, RefundInv, RefundTyped
    <3> QED BY <1>1, <2>1, <2>2, <3>1, ShownGoes
  <2>4. CASE f = k.ref
    <3>1. Phases(f) = {} /\ adj[f] = "none"
      BY <1>4, <2>4 DEF ShownAt
    <3>2. Phases(f)' = {"requested"}
      BY <1>4, <2>4 DEF Requested, RefundInv, RefundTyped, Phases
    <3>3. caller'[c] = r /\ \A d \in Callers \ {c} : caller'[d] = caller[d]
      BY <2>1, <2>2, Moved DEF RefundInv
    <3>4. ~(check.pc # "idle" /\ check.ref = f)
      BY <3>1 DEF RefundInv, Sweeps
    <3>5. \A d \in Callers : ~(caller'[d].pc = "adjust" /\ caller'[d].ref = f)
      BY <2>2, <3>1, <3>3 DEF RefundInv, Fits
    <3> QED BY <1>1, <3>1, <3>2, <3>4, <3>5 DEF ShownAt, Tracks
  <2> QED BY <2>3, <2>4
<1> QED BY <1>2, <1>3, <1>4 DEF BeginHosted, Phases

LEMMA ShownCall ==
    ASSUME RefundSetup, RefundInv, HasOrder, NEW f \in References, ShownAt(f), NEW c \in Callers, CallPlural(c)
    PROVE  ShownAt(f)'
<1> DEFINE k == caller[c]
<1>0. PICK g : g = k.ref
  OBVIOUS
<1>1. k.pc = "wait" /\ k.began /\ g \in References /\ Phases(g) = {"requested"} /\ UNCHANGED <<adj, check, disturbed>>
  BY <1>0 DEF CallPlural, At, RefundInv, Fits, Local
<1>2. PICK phase \in Outcomes(g) :
          /\ journal' = [journal EXCEPT ![g].phases = @ \cup {phase}]
          /\ IF phase # "failed" THEN Carry(c, "adjust", phase) ELSE Answer(c, phase)
  BY <1>0 DEF CallPlural, HasOrder
<1>3. phase \in {"unknown", "succeeded", "failed"}
  BY <1>2 DEF Outcomes
<1>4. PICK r \in CallerStates :
          /\ Moves(c, r)
          /\ \/ r = Idle /\ phase = "failed"
             \/ r.pc = "adjust" /\ r.phase = phase /\ r.ref = g /\ phase # "failed"
             \/ r.pc = "row" /\ r.ref = g /\ phase = "failed"
  <2>0. phase \in PhaseNames /\ RefundTyped
    BY <1>3 DEF PhaseNames, RefundInv
  <2>1. CASE phase # "failed"
    <3>1. Carry(c, "adjust", phase) /\ "adjust" \in Places
      BY <1>2, <2>1 DEF Places
    <3> QED BY <1>0, <2>0, <2>1, <3>1, CarriedTo, SMT
  <2>2. CASE phase = "failed"
    <3>1. Answer(c, phase)
      BY <1>2, <2>2
    <3> QED BY <1>0, <2>0, <2>2, <3>1, Answers, SMT
  <2> QED BY <2>1, <2>2
<1>5. CASE f # g
  <2>1. journal'[f] = journal[f]
    BY <1>1, <1>2, <1>5 DEF RefundInv, RefundTyped
  <2>2. r.ref # f
    BY <1>4, <1>5, IdleFits, NoneIsNone
  <2> QED BY <1>0, <1>1, <1>4, <1>5, <2>1, <2>2, ShownMoves
<1>6. CASE f = g
  <2>1. Phases(f)' = {"requested", phase} /\ adj[f] = "none"
    BY <1>1, <1>2, <1>6 DEF RefundInv, RefundTyped, Phases, ShownAt, Calls
  <2>2. caller'[c] = r /\ \A d \in Callers \ {c} : caller'[d] = caller[d]
    BY <1>4, Moved DEF RefundInv
  <2>3. ~(check.pc # "idle" /\ check.ref = f)
    BY <1>0, <1>1, <1>6 DEF RefundInv, Sweeps
  <2>4. ASSUME NEW d \in Callers \ {c} PROVE ~(caller'[d].pc = "adjust" /\ caller'[d].ref = f)
    <3>1. caller'[d] = caller[d] /\ Fits(caller[d])
      BY <2>2 DEF RefundInv
    <3> QED BY <1>1, <1>6, <3>1 DEF Fits
  <2>5. KnownAs(f)' = phase
    BY <1>3, <2>1 DEF KnownAs
  <2>6. \A d \in Callers : caller'[d].pc = "adjust" /\ caller'[d].ref = f => caller'[d].phase = phase
    BY <1>4, <2>2, <2>4, IdleFits
  <2>7. phase # "failed" => caller'[c].pc = "adjust" /\ caller'[c].ref = f
    BY <1>4, <1>6, <2>2
  <2> QED BY <1>1, <1>3, <2>1, <2>3, <2>5, <2>6, <2>7 DEF ShownAt, Tracks
<1> QED BY <1>5, <1>6

LEMMA ShownAdjust ==
    ASSUME RefundSetup, RefundInv, NEW f \in References, ShownAt(f), NEW c \in Callers, Adjust(c)
    PROVE  ShownAt(f)'
<1> DEFINE k == caller[c]
<1>0. PICK g : g = k.ref
  OBVIOUS
<1>1. /\ k.pc = "adjust" /\ g \in References /\ k.phase \in {"succeeded", "unknown"} /\ k.phase \in Phases(g)
      /\ UNCHANGED <<journal, check>>
  BY <1>0 DEF Adjust, At, RefundInv, Fits, Local
<1>2. PICK r \in CallerStates : Moves(c, r) /\ (r = Idle \/ (r.pc = "row" /\ r.ref = g))
  <2>1. Answer(c, k.phase) /\ k.phase \in PhaseNames /\ RefundTyped
    BY <1>1 DEF Adjust, PhaseNames, RefundInv
  <2> QED BY <1>0, <2>1, Answers
<1>3. Told(g) = KnownAs(g)
  BY <1>1, ToldIs
<1>4. /\ adj' = IF adj[g] = "none" THEN [adj EXCEPT ![g] = IF k.phase = "succeeded" THEN "completed" ELSE "pending"] ELSE adj
      /\ disturbed' = IF adj[g] = "none" /\ check.ref # g /\ k.phase = KnownAs(g) THEN disturbed \ {g} ELSE disturbed
      /\ adj \in [References -> {"none", "pending", "completed", "failed"}]
  BY <1>0, <1>3 DEF Adjust, Recorded, AdjustmentOf, RefundInv, RefundTyped
<1>5. CASE f # g
  <2>1. adj'[f] = adj[f] /\ (f \in disturbed => f \in disturbed')
    BY <1>1, <1>4, <1>5
  <2>2. r.ref # f /\ r.pc # "adjust"
    BY <1>2, <1>5, IdleFits, NoneIsNone
  <2> QED BY <1>0, <1>1, <1>2, <1>5, <2>1, <2>2, ShownMoves
<1>6. CASE f = g
  <2>1. Phases(f)' = Phases(f) /\ KnownAs(f)' = KnownAs(f) /\ Match(f)' = Match(f)
    BY <1>1 DEF Phases, KnownAs, Match
  <2>2. ~(Phases(f) \subseteq {"requested"})
    BY <1>1, <1>6
  <2> SUFFICES ASSUME f \notin disturbed' PROVE Tracks(f)'
    BY <2>1, <2>2 DEF ShownAt
  <2>3. ~(check.pc # "idle" /\ check.ref = f)
    <3>1. CASE f \notin disturbed
      BY <1>0, <1>1, <1>6, <3>1 DEF ShownAt, Tracks
    <3>2. CASE f \in disturbed
      BY <1>4, <1>6, <3>2
    <3> QED BY <3>1, <3>2
  <2>4. adj'[f] = Match(f)
    <3>1. CASE adj[f] = "none"
      <4>1. k.phase = KnownAs(f)
        <5>1. CASE f \notin disturbed
          BY <1>0, <1>1, <1>6, <3>1, <5>1 DEF ShownAt, Tracks
        <5>2. CASE f \in disturbed
          BY <1>4, <1>6, <5>2
        <5> QED BY <5>1, <5>2
      <4>2. Match(f) = IF k.phase = "succeeded" THEN "completed" ELSE "pending"
        BY <1>1, <4>1 DEF Match, KnownAs
      <4> QED BY <1>4, <1>6, <3>1, <4>2
    <3>2. CASE adj[f] # "none"
      <4>1. f \notin disturbed /\ adj'[f] = adj[f]
        BY <1>4, <1>6, <3>2
      <4>2. Tracks(f)
        BY <4>1 DEF ShownAt
      <4> QED BY <2>3, <3>2, <4>1, <4>2 DEF Tracks
    <3> QED BY <3>1, <3>2
  <2>5. adj'[f] # "none"
    BY <2>4 DEF Match
  <2> QED BY <1>1, <2>1, <2>3, <2>4, <2>5 DEF Tracks
<1> QED BY <1>5, <1>6

\* The sweep is about another refund, or begins or ends with this one.
LEMMA ShownSweeps ==
    ASSUME NEW f \in References, ShownAt(f), caller' = caller, journal'[f] = journal[f], adj'[f] = adj[f],
           f \in disturbed => f \in disturbed',
           check.ref = f => check.pc \notin {"status", "missing"} \/ f \in disturbed',
           check'.pc # "idle" /\ check'.ref = f =>
               check'.pc \notin {"status", "missing"} /\ ((\A c \in Callers : caller[c].ref # f) \/ f \in disturbed')
    PROVE  ShownAt(f)'
<1>1. Phases(f)' = Phases(f) /\ KnownAs(f)' = KnownAs(f) /\ Match(f)' = Match(f)
  BY DEF Phases, KnownAs, Match
<1>2. Phases(f)' \subseteq {"requested"} => adj'[f] = "none"
  BY <1>1 DEF ShownAt
<1>3. ASSUME f \notin disturbed' PROVE Tracks(f)'
  <2>1. Tracks(f)
    BY <1>3 DEF ShownAt
  <2> QED BY <1>1, <1>3, <2>1 DEF Tracks
<1> QED BY <1>2, <1>3 DEF ShownAt

LEMMA ShownSweepBegin ==
    ASSUME RefundSetup, RefundInv, NEW f \in References, ShownAt(f), NEW g \in References, SweepBegin(g)
    PROVE  ShownAt(f)'
<1>1. /\ check.pc = "idle" /\ check' = [pc |-> "read", ref |-> g, phase |-> None] /\ UNCHANGED <<caller, journal, adj>>
      /\ disturbed' = IF \E c \in Callers : caller[c].ref = g THEN disturbed \cup {g} ELSE disturbed
  BY DEF SweepBegin, SweepOnly
<1>2. check'.pc = "read" /\ check'.ref = g
  BY <1>1
<1> QED BY <1>1, <1>2, ShownSweeps

LEMMA ShownSweepRecord ==
    ASSUME RefundSetup, RefundInv, HasOrder, NEW f \in References, ShownAt(f), SweepRecord
    PROVE  ShownAt(f)'
<1>0. PICK g : g = check.ref
  OBVIOUS
<1>1. /\ check.pc = "read" /\ check \in Checks /\ UNCHANGED <<caller, adj, disturbed>>
      /\ g \in References /\ Phases(g) # {} /\ Phases(g) \cap Final = {}
  BY <1>0 DEF SweepRecord, SweepOnly, RefundInv, RefundTyped, Sweeps
<1>2. PICK phase \in Read(g) :
          IF phase = None
          THEN check' = [pc |-> "idle", ref |-> None, phase |-> None] /\ UNCHANGED journal
          ELSE /\ journal' = [journal EXCEPT ![g].phases = @ \cup {phase}]
               /\ check' = [check EXCEPT !.pc = "status", !.phase = phase]
  BY <1>0 DEF SweepRecord, HasOrder
<1>3. CASE phase = None
  <2>1. check'.pc = "idle" /\ UNCHANGED journal
    BY <1>2, <1>3, SMT
  <2> QED BY <1>1, <2>1, ShownSweeps
<1>4. CASE phase # None
  <2>1. phase \in Final
    BY <1>2, <1>4 DEF Read, Final
  <2>2. check'.pc = "status" /\ check'.ref = g
    BY <1>0, <1>1, <1>2, <1>4 DEF Checks
  <2>3. CASE f # g
    <3>1. journal'[f] = journal[f]
      BY <1>1, <1>2, <1>4, <2>3 DEF RefundInv, RefundTyped
    <3> QED BY <1>0, <1>1, <2>2, <2>3, <3>1, ShownSweeps
  <2>4. CASE f = g
    <3>1. Phases(f)' = Phases(f) \cup {phase}
      BY <1>1, <1>2, <1>4, <2>4, SMT DEF RefundInv, RefundTyped, Phases, Calls
    <3>2. ~(Phases(f)' \subseteq {"requested"})
      BY <2>1, <3>1 DEF Final
    <3>3. ASSUME f \notin disturbed' PROVE Tracks(f)'
      <4>1. Tracks(f)
        BY <1>1, <3>3 DEF ShownAt
      <4>2. \A c \in Callers : caller[c].ref = f => caller[c].pc = "remaining"
        BY <1>0, <1>1, <2>4, <4>1 DEF Tracks
      <4>3. Match(f) = "pending" /\ KnownAs(f) = "unknown"
        BY <1>1, <2>4 DEF Match, KnownAs, Final
      <4>4. adj[f] \in {"none", "pending"}
        BY <1>1, <4>1, <4>3 DEF Tracks
      <4> QED BY <1>1, <2>2, <2>4, <4>2, <4>4 DEF Tracks
    <3> QED BY <3>2, <3>3 DEF ShownAt
  <2> QED BY <2>3, <2>4
<1> QED BY <1>3, <1>4

\* What the sweep found is what the journal says.
LEMMA FoundIsTold ==
    ASSUME RefundInv, check.pc \in {"status", "missing", "row"}
    PROVE  /\ check.ref \in References /\ check.phase \in Final
           /\ KnownAs(check.ref) = check.phase /\ ~(Phases(check.ref) \subseteq {"requested"})
           /\ Match(check.ref) = IF check.phase = "succeeded" THEN "completed" ELSE "failed"
<1>1. check.ref \in References /\ check.phase \in Final /\ check.phase \in Phases(check.ref)
  BY DEF RefundInv, Sweeps
<1>2. ~("succeeded" \in Phases(check.ref) /\ "failed" \in Phases(check.ref))
  BY <1>1, ToldIs
<1> QED BY <1>1, <1>2 DEF KnownAs, Match, Final

LEMMA ShownSweepStatus ==
    ASSUME RefundSetup, RefundInv, NEW f \in References, ShownAt(f), SweepStatus
    PROVE  ShownAt(f)'
<1>0. PICK g, ph : g = check.ref /\ ph = check.phase
  OBVIOUS
<1> DEFINE status == IF ph = "succeeded" THEN "completed" ELSE "failed"
           changed == adj[g] \notin {"none", status}
           pc == IF ~changed /\ ph = "succeeded" THEN "missing" ELSE "row"
<1>1. /\ check.pc = "status" /\ UNCHANGED <<caller, journal, disturbed>>
      /\ adj' = IF changed THEN [adj EXCEPT ![g] = status] ELSE adj
      /\ check' = [check EXCEPT !.pc = pc] /\ pc \in {"missing", "row"} /\ check \in Checks
      /\ adj \in [References -> {"none", "pending", "completed", "failed"}]
  BY <1>0 DEF SweepStatus, SweepOnly, RefundInv, RefundTyped
<1>2. check'.pc = pc /\ check'.ref = g /\ check'.phase = ph
  <2> HIDE DEF pc
  <2> QED BY <1>0, <1>1 DEF Checks
<1>3. g \in References /\ ph \in Final /\ KnownAs(g) = ph /\ ~(Phases(g) \subseteq {"requested"}) /\ Match(g) = status
  BY <1>0, <1>1, FoundIsTold
<1>4. Phases(f)' = Phases(f) /\ KnownAs(f)' = KnownAs(f) /\ Match(f)' = Match(f)
  BY <1>1 DEF Phases, KnownAs, Match
<1>5. CASE f # g
  BY <1>0, <1>1, <1>2, <1>3, <1>5, ShownSweeps
<1>6. CASE f = g
  <2>1. ASSUME f \notin disturbed' PROVE Tracks(f)'
    <3>1. Tracks(f)
      BY <1>1, <2>1 DEF ShownAt
    <3>2. \A c \in Callers : caller[c].ref = f => caller[c].pc = "remaining"
      BY <1>0, <1>1, <1>6, <3>1 DEF Tracks
    <3>3. adj[f] \in {"none", "pending"}
      BY <1>0, <1>1, <1>6, <3>1 DEF Tracks
    <3>4. CASE adj[f] = "pending"
      <4>1. adj'[f] = Match(f) /\ check'.pc = "row"
        BY <1>1, <1>2, <1>3, <1>6, <3>4
      <4> QED BY <1>1, <1>4, <3>2, <4>1 DEF Tracks
    <3>5. CASE adj[f] = "none"
      <4>1. adj'[f] = "none" /\ check'.pc = IF ph = "succeeded" THEN "missing" ELSE "row"
        BY <1>1, <1>2, <1>6, <3>5
      <4>2. ph # "succeeded" => KnownAs(f) = "failed"
        BY <1>3, <1>6 DEF Final
      <4> QED BY <1>1, <1>2, <1>4, <1>6, <3>2, <4>1, <4>2 DEF Tracks
    <3> QED BY <3>3, <3>4, <3>5
  <2> QED BY <1>3, <1>4, <1>6, <2>1 DEF ShownAt
<1> QED BY <1>5, <1>6

LEMMA ShownSweepMissing ==
    ASSUME RefundSetup, RefundInv, NEW f \in References, ShownAt(f), SweepMissing
    PROVE  ShownAt(f)'
<1>0. PICK g, ph : g = check.ref /\ ph = check.phase
  OBVIOUS
<1>1. /\ check.pc = "missing" /\ UNCHANGED <<caller, journal, disturbed>>
      /\ adj' = IF adj[g] = "none" THEN [adj EXCEPT ![g] = "completed"] ELSE adj
      /\ check' = [check EXCEPT !.pc = "row"] /\ check \in Checks
      /\ adj \in [References -> {"none", "pending", "completed", "failed"}]
  BY <1>0 DEF SweepMissing, Recorded, SweepOnly, RefundInv, RefundTyped
<1>2. check'.pc = "row" /\ check'.ref = g
  BY <1>0, <1>1 DEF Checks
<1>3. /\ g \in References /\ ~(Phases(g) \subseteq {"requested"})
      /\ Match(g) = IF ph = "succeeded" THEN "completed" ELSE "failed"
  BY <1>0, <1>1, FoundIsTold
<1>4. Phases(f)' = Phases(f) /\ KnownAs(f)' = KnownAs(f) /\ Match(f)' = Match(f)
  BY <1>1 DEF Phases, KnownAs, Match
<1>5. CASE f # g
  BY <1>0, <1>1, <1>2, <1>3, <1>5, ShownSweeps
<1>6. CASE f = g
  <2>1. ASSUME f \notin disturbed' PROVE Tracks(f)'
    <3>1. Tracks(f)
      BY <1>1, <2>1 DEF ShownAt
    <3>2. \A c \in Callers : caller[c].ref = f => caller[c].pc = "remaining"
      BY <1>0, <1>1, <1>6, <3>1 DEF Tracks
    <3>3. adj[f] \in {"none", "completed"} /\ ph = "succeeded"
      BY <1>0, <1>1, <1>6, <3>1 DEF Tracks
    <3>4. adj'[f] = Match(f)
      BY <1>1, <1>3, <1>6, <3>3
    <3> QED BY <1>1, <1>2, <1>4, <3>2, <3>4 DEF Tracks
  <2> QED BY <1>3, <1>4, <1>6, <2>1 DEF ShownAt
<1> QED BY <1>5, <1>6

LEMMA ShownSweepEnds ==
    ASSUME NEW f \in References, ShownAt(f), SweepRow \/ CrashSweep
    PROVE  ShownAt(f)'
<1>1. UNCHANGED <<caller, journal, adj>> /\ check'.pc = "idle"
  BY SMT DEF SweepRow, CrashSweep, SweepOnly
<1>2. CASE SweepRow
  <2>1. check.pc = "row" /\ UNCHANGED disturbed
    BY <1>2 DEF SweepRow
  <2> QED BY <1>1, <2>1, ShownSweeps
<1>3. CASE CrashSweep
  <2>1. disturbed' = IF check.pc = "read" THEN disturbed ELSE disturbed \cup {check.ref}
    BY <1>3 DEF CrashSweep
  <2> QED BY <1>1, <2>1, ShownSweeps
<1> QED BY <1>2, <1>3

LEMMA ShownStep ==
    ASSUME RefundSetup, RefundInv, HasOrder, NEW f \in References, ShownAt(f), [Next]_vars
    PROVE  ShownAt(f)'
<1>1. CASE UNCHANGED <<journal, adj, caller, check, disturbed>>
  BY <1>1 DEF ShownAt, Tracks, KnownAs, Match, Phases
<1>2. ASSUME NEW c \in Callers,
             \/ \E q \in DOMAIN Amount : Ask(c, q)
             \/ Click(c) \/ Remaining(c) \/ EarlierRefund(c) \/ Decide(c)
             \/ BeginHosted(c) \/ BeginUnmatched(c) \/ Send(c) \/ CallPlural(c)
             \/ Adjust(c) \/ WriteRow(c) \/ Crash(c)
      PROVE  ShownAt(f)'
  <2>1. ~BeginUnmatched(c)
    BY DEF BeginUnmatched, HasOrder
  <2> QED BY <1>2, <2>1, ShownAsk, ShownRemaining, ShownEarlier, ShownDecide, ShownBegin, ShownCall,
             ShownAdjust, ShownRow
<1>3. ASSUME NEW g \in References, PluralDecides(g) \/ SweepBegin(g) PROVE ShownAt(f)'
  <2>1. CASE PluralDecides(g)
    BY <1>1, <2>1 DEF PluralDecides
  <2> QED BY <1>3, <2>1, ShownSweepBegin
<1>4. CASE SweepRecord \/ SweepStatus \/ SweepMissing \/ SweepRow \/ CrashSweep
  BY <1>4, ShownSweepRecord, ShownSweepStatus, ShownSweepMissing, ShownSweepEnds
<1>5. CASE RecordByHand
  BY <1>1, <1>5 DEF RecordByHand
<1>6. CASE UNCHANGED vars
  BY <1>1, <1>6 DEF vars
<1> QED BY <1>2, <1>3, <1>4, <1>5, <1>6 DEF Next

\* The row of a payment without an order says what the journal says of the
\* attempt it names, when neither that attempt's request nor the sweep is
\* about to write it.
Says(f) == IF Phases(f) = {"requested"} THEN "requested" ELSE RowOf(KnownAs(f))
RowAt(f) ==
    (/\ f \notin disturbed /\ pay.ref = f
     /\ \A c \in Callers : caller[c].began => caller[c].ref # f
     /\ check.pc = "row" => check.ref # f)
    => pay.status = Says(f)

\* Nothing of it moves.
LEMMA RowStays ==
    ASSUME NEW f \in References, RowAt(f), pay' = pay, journal'[f] = journal[f], f \in disturbed => f \in disturbed',
           check.pc = "row" /\ check.ref = f => f \in disturbed' \/ (check'.pc = "row" /\ check'.ref = f),
           \A d \in Callers : caller[d].began /\ caller[d].ref = f =>
               f \in disturbed' \/ (caller'[d].began /\ caller'[d].ref = f)
    PROVE  RowAt(f)'
<1>1. Says(f)' = Says(f)
  BY DEF Says, Phases, KnownAs, RowOf
<1> QED BY <1>1 DEF RowAt

\* Without an order there are only clicks.
LEMMA OnlyClicks ==
    ASSUME RefundInv, ~HasOrder, NEW c \in Callers
    PROVE  /\ caller[c].pc \in {"idle", "begin", "send", "wait", "row"}
           /\ ~(\E q \in DOMAIN Amount : Ask(c, q)) /\ ~Remaining(c) /\ ~EarlierRefund(c) /\ ~Decide(c)
           /\ ~BeginHosted(c) /\ ~Adjust(c)
<1>1. caller[c].pc \in {"idle", "begin", "send", "wait", "row"}
  BY DEF RefundInv, Fits
<1> QED BY <1>1 DEF HasOrder, At, Ask, Remaining, EarlierRefund, Decide, BeginHosted, Adjust

LEMMA RowCaller ==
    ASSUME RefundSetup, RefundInv, ~HasOrder, NEW f \in References, RowAt(f), NEW c \in Callers,
           Click(c) \/ BeginUnmatched(c) \/ Send(c) \/ CallPlural(c) \/ WriteRow(c) \/ Crash(c)
    PROVE  RowAt(f)'
<1> DEFINE k == caller[c]
<1>1. Fits(k) /\ caller \in [Callers -> CallerStates] /\ (k.pc \in {"idle", "begin"} => ~k.began)
  BY DEF RefundInv, RefundTyped, Fits
<1>2. ASSUME NEW r, caller' = [caller EXCEPT ![c] = r] PROVE caller'[c] = r /\ \A d \in Callers \ {c} : caller'[d] = caller[d]
  BY <1>1, <1>2
<1>3. CASE Click(c)
  <2>1. k.pc = "idle" /\ UNCHANGED <<journal, pay, check, disturbed>>
    BY <1>3 DEF Click, At, Local
  <2>2. \A d \in Callers \ {c} : caller'[d] = caller[d]
    BY <1>1, <1>3 DEF Click
  <2> QED BY <1>1, <2>1, <2>2, RowStays
<1>4. CASE BeginUnmatched(c)
  <2>1. k.pc = "begin" /\ UNCHANGED <<check, disturbed>>
    BY <1>4 DEF BeginUnmatched, At, Local
  <2>2. CASE Return(c) /\ UNCHANGED <<journal, pay>>
    <3>1. \A d \in Callers \ {c} : caller'[d] = caller[d]
      BY <1>1, <2>2 DEF Return
    <3> QED BY <1>1, <2>1, <2>2, <3>1, RowStays
  <2>3. ASSUME NEW g, pay' = [status |-> "requested", attempts |-> pay.attempts + 1, ref |-> g], Begun(c, g)
        PROVE  RowAt(f)'
    <3>1. pay'.ref = g /\ caller'[c].ref = g /\ caller'[c].began
      BY <1>1, <2>3 DEF Begun, CallerStates
    <3> QED BY <3>1 DEF RowAt
  <2> QED BY <1>4, <2>2, <2>3 DEF BeginUnmatched
<1>5. CASE Send(c)
  <2>1. PICK r \in CallerStates : Moves(c, r) /\ r.ref = k.ref /\ r.began = k.began
    <3>1. Goto(c, "wait") /\ "wait" \in Places
      BY <1>5 DEF Send, Places
    <3> QED BY <3>1, GoneTo
  <2>2. \A d \in Callers : caller'[d].began = caller[d].began /\ caller'[d].ref = caller[d].ref
    BY <2>1, Moved DEF RefundInv
  <2>3. UNCHANGED <<journal, pay, check, disturbed>>
    BY <1>5 DEF Send
  <2> QED BY <2>2, <2>3, RowStays
<1>6. CASE CallPlural(c)
  <2>1. k.began /\ k.click /\ k.ref = pay.ref /\ pay' = pay
    BY <1>1, <1>6 DEF CallPlural, At, Fits, RefundInv, Unmatched
  <2>2. PICK phase \in Outcomes(k.ref) : Answer(c, phase)
    BY <1>6 DEF CallPlural, HasOrder
  <2>3. phase \in PhaseNames
    BY <2>2 DEF Outcomes, PhaseNames
  <2>4. PICK r \in CallerStates : Moves(c, r) /\ r.ref = k.ref /\ r.began = k.began
    BY <2>1, <2>2, <2>3, Answers DEF RefundInv
  <2>5. caller'[c].ref = pay'.ref /\ caller'[c].began
    BY <2>1, <2>4, Moved DEF RefundInv
  <2> QED BY <2>5 DEF RowAt
<1>7. CASE WriteRow(c)
  <2>1. /\ k.pc = "row" /\ k.ref = pay.ref /\ k.ref \in References /\ Phases(k.ref) = {"requested", k.phase}
        /\ k.phase \in {"succeeded", "failed", "unknown"} /\ UNCHANGED journal
    BY <1>1, <1>7 DEF WriteRow, At, Fits, RefundInv, Unmatched
  <2>2. pay'.status = RowOf(k.phase) /\ pay'.ref = pay.ref
    <3>1. pay' = [pay EXCEPT !.status = RowOf(k.phase), !.ref = pay.ref, !.attempts = pay.attempts]
      BY <1>7 DEF WriteRow, HasOrder
    <3> QED BY <3>1 DEF RefundInv, RefundTyped, PayRows
  <2>3. PICK g, ph : g = k.ref /\ ph = k.phase
    OBVIOUS
  <2>4. Phases(g)' = {"requested", ph} /\ ph \in {"succeeded", "failed", "unknown"}
    BY <2>1, <2>3 DEF Phases
  <2>5. Says(g)' = RowOf(ph)
    BY <2>4 DEF Says, KnownAs, RowOf
  <2> QED BY <2>1, <2>2, <2>3, <2>5 DEF RowAt
<1>8. CASE Crash(c)
  <2>1. /\ UNCHANGED <<journal, pay, check>>
        /\ disturbed' = IF k.pc \in {"adjust", "row"} THEN disturbed \cup {k.ref} ELSE disturbed
    BY <1>8 DEF Crash
  <2>2. \A d \in Callers \ {c} : caller'[d] = caller[d]
    BY <1>1, <1>8 DEF Crash, Return
  <2>3. CASE k.began /\ k.pc # "row" /\ k.ref = f
    <3>1. Phases(f) = {"requested"} /\ pay.status = "requested"
      BY <1>1, <2>3, OnlyClicks DEF Fits, RefundInv, Unmatched
    <3>2. Says(f)' = "requested"
      BY <2>1, <3>1 DEF Says, Phases
    <3> QED BY <2>1, <3>1, <3>2 DEF RowAt
  <2>4. CASE ~(k.began /\ k.pc # "row" /\ k.ref = f)
    <3>1. k.began /\ k.ref = f => f \in disturbed'
      BY <2>1, <2>4
    <3> QED BY <2>1, <2>2, <3>1, RowStays
  <2> QED BY <2>3, <2>4
<1> QED BY <1>3, <1>4, <1>5, <1>6, <1>7, <1>8

LEMMA RowSweep ==
    ASSUME RefundSetup, RefundInv, ~HasOrder, NEW f \in References, RowAt(f),
           SweepRecord \/ SweepStatus \/ SweepMissing \/ SweepRow \/ CrashSweep
    PROVE  RowAt(f)'
<1>1. check.pc \in {"idle", "read", "row"} /\ (check.pc # "idle" => check.ref = pay.ref)
  BY DEF RefundInv, Unmatched
<1>2. ~SweepStatus /\ ~SweepMissing
  BY <1>1 DEF SweepStatus, SweepMissing
<1>3. CASE CrashSweep
  <2>1. /\ UNCHANGED <<journal, pay, caller>>
        /\ disturbed' = IF check.pc = "read" THEN disturbed ELSE disturbed \cup {check.ref}
    BY <1>3 DEF CrashSweep
  <2> QED BY <2>1, RowStays
<1>4. CASE SweepRow
  <2>1. PICK g, ph : g = check.ref /\ ph = check.phase
    OBVIOUS
  <2>2. check.pc = "row" /\ UNCHANGED journal
    BY <1>4 DEF SweepRow
  <2>3. g \in References /\ ph \in Final /\ KnownAs(g) = ph /\ ~(Phases(g) \subseteq {"requested"})
    BY <2>1, <2>2, FoundIsTold
  <2>4. pay.ref = g /\ pay.status \in {"requested", "pending"}
    BY <2>1, <2>2 DEF RefundInv, Unmatched
  <2>5. pay'.status = RowOf(ph) /\ pay'.ref = g
    <3> DEFINE a == IF HasOrder /\ ph = "failed" THEN pay.attempts + 1 ELSE pay.attempts
    <3>1. pay' = [pay EXCEPT !.status = RowOf(ph), !.attempts = a]
      BY <1>4, <2>1, <2>4 DEF SweepRow, HasOrder
    <3> HIDE DEF a
    <3> QED BY <2>4, <3>1 DEF RefundInv, RefundTyped, PayRows
  <2>6. Says(g)' = RowOf(ph)
    <3>1. Phases(g)' = Phases(g) /\ KnownAs(g)' = KnownAs(g)
      BY <2>2 DEF Phases, KnownAs
    <3> QED BY <2>3, <3>1 DEF Says, RowOf
  <2> QED BY <2>5, <2>6 DEF RowAt
<1>5. CASE SweepRecord
  <2>1. check.pc = "read" /\ UNCHANGED <<pay, caller, disturbed>> /\ check \in Checks
    BY <1>5 DEF SweepRecord, SweepOnly, RefundInv, RefundTyped
  <2>2. CASE UNCHANGED journal
    BY <2>1, <2>2, RowStays
  <2>3. ASSUME NEW phase, check' = [check EXCEPT !.pc = "row", !.phase = phase] PROVE RowAt(f)'
    <3>1. check'.pc = "row" /\ check'.ref = pay'.ref
      BY <1>1, <2>1, <2>3 DEF Checks
    <3> QED BY <3>1 DEF RowAt
  <2> QED BY <1>5, <2>2, <2>3 DEF SweepRecord, HasOrder
<1> QED BY <1>2, <1>3, <1>4, <1>5

LEMMA RowAtStep ==
    ASSUME RefundSetup, RefundInv, ~HasOrder, NEW f \in References, RowAt(f), [Next]_vars
    PROVE  RowAt(f)'
<1>1. CASE UNCHANGED <<journal, pay, caller, check, disturbed>>
  BY <1>1, RowStays
<1>2. ASSUME NEW c \in Callers,
             \/ \E q \in DOMAIN Amount : Ask(c, q)
             \/ Click(c) \/ Remaining(c) \/ EarlierRefund(c) \/ Decide(c)
             \/ BeginHosted(c) \/ BeginUnmatched(c) \/ Send(c) \/ CallPlural(c)
             \/ Adjust(c) \/ WriteRow(c) \/ Crash(c)
      PROVE  RowAt(f)'
  BY <1>2, OnlyClicks, RowCaller
<1>3. ASSUME NEW g \in References, PluralDecides(g) \/ SweepBegin(g) PROVE RowAt(f)'
  <2>1. CASE PluralDecides(g)
    BY <1>1, <2>1 DEF PluralDecides
  <2>2. CASE SweepBegin(g)
    <3>1. check.pc = "idle" /\ UNCHANGED <<journal, pay, caller>> /\ disturbed \subseteq disturbed'
      BY <2>2 DEF SweepBegin, SweepOnly
    <3> QED BY <3>1, RowStays
  <2> QED BY <1>3, <2>1, <2>2
<1>4. CASE RecordByHand
  BY <1>1, <1>4 DEF RecordByHand
<1>5. CASE UNCHANGED vars
  BY <1>1, <1>5 DEF vars
<1> QED BY <1>2, <1>3, <1>4, <1>5, RowSweep DEF Next

ShownInv == RefundInv /\ Shown /\ (~HasOrder => \A f \in References : RowAt(f))

LEMMA ShownFromInv == ASSUME RefundSetup, ShownInv PROVE RefundsAreShown
<1> SUFFICES ASSUME check.pc = "idle", \A c \in Callers : caller[c].pc = "idle", NEW f \in References \ disturbed
             PROVE  /\ HasOrder /\ Phases(f) \ {"requested"} # {} =>
                          adj[f] \in CASE KnownAs(f) = "succeeded" -> {"completed"}
                                       [] KnownAs(f) = "failed" -> {"none", "failed"}
                                       [] KnownAs(f) = "unknown" -> {"pending"}
                    /\ ~HasOrder /\ pay.ref = f =>
                          pay.status = IF Phases(f) = {"requested"} THEN "requested" ELSE RowOf(KnownAs(f))
  BY ToldIs DEF RefundsAreShown, Quiet, At, HasOrder, Phases, ShownInv
<1>1. ASSUME HasOrder, Phases(f) \ {"requested"} # {}
      PROVE  adj[f] \in CASE KnownAs(f) = "succeeded" -> {"completed"}
                          [] KnownAs(f) = "failed" -> {"none", "failed"}
                          [] KnownAs(f) = "unknown" -> {"pending"}
  <2>1. Tracks(f) /\ ~(Phases(f) \subseteq {"requested"})
    BY <1>1 DEF ShownInv, Shown, ShownAt
  <2>2. adj[f] = Match(f) \/ (adj[f] = "none" /\ KnownAs(f) = "failed")
    BY <2>1 DEF Tracks
  <2> QED BY <2>2 DEF Match, KnownAs
<1>2. ASSUME ~HasOrder, pay.ref = f PROVE pay.status = Says(f)
  <2>1. \A c \in Callers : ~caller[c].began
    BY DEF ShownInv, RefundInv, Fits
  <2> QED BY <1>2, <2>1 DEF ShownInv, RowAt
<1> QED BY <1>1, <1>2 DEF Says

\* For any requests, amounts, callers and crashes: when nobody is at work, the
\* order's adjustments, and the row of a payment without an order, say of every
\* refund what the journal says, but for those left by a crash after the outcome
\* was journalled or asked for again while the sweep settled them
\* (apply_order_change, set_order_adjustment_status, reconcile_refund).
THEOREM RefundsShown ==
    ASSUME RefundSetup PROVE Spec => []RefundsAreShown
<1>1. ASSUME Init PROVE ShownInv
  <2>1. RefundInv
    BY <1>1, RefundInit
  <2>2. /\ check.pc = "idle" /\ pay.ref = None /\ \A c \in Callers : caller[c].pc = "idle"
        /\ \A f \in References : Phases(f) = {} /\ adj[f] = "none"
    BY <1>1, IdleFits DEF Init, Phases
  <2>3. \A f \in References : ShownAt(f)
    BY <2>2 DEF ShownAt, Tracks
  <2>4. \A f \in References : RowAt(f)
    BY <2>2, NoneIsNone DEF RowAt
  <2> QED BY <2>1, <2>3, <2>4 DEF ShownInv, Shown
<1>2. ASSUME ShownInv, [Next]_vars PROVE ShownInv'
  <2>1. RefundInv'
    BY <1>2, RefundStep DEF ShownInv
  <2>2. HasOrder' <=> HasOrder
    BY <1>2 DEF HasOrder, Next, vars, Ask, Click, Remaining, EarlierRefund, Decide, BeginHosted, BeginUnmatched,
                Send, CallPlural, Adjust, WriteRow, Crash, PluralDecides, SweepBegin, SweepRecord, SweepStatus,
                SweepMissing, SweepRow, CrashSweep, RecordByHand, Local, SweepOnly
  <2>3. HasOrder => \A f \in References : ShownAt(f)'
    BY <1>2, ShownStep DEF ShownInv, Shown
  <2>4. ~HasOrder => \A f \in References : RowAt(f)'
    BY <1>2, RowAtStep DEF ShownInv
  <2> QED BY <2>1, <2>2, <2>3, <2>4 DEF ShownInv, Shown
<1>3. ShownInv => RefundsAreShown
  BY ShownFromInv
<1> QED BY <1>1, <1>2, <1>3, PTL DEF Spec
==============================================================================
