----------------------------- MODULE AuditChain -----------------------------
(***************************************************************************)
(* The hash chain over one tenant's audit rows (core/governance/           *)
(* audit_chain.py, core/tasks/audit_chain_tasks.py, audit_witness.py).     *)
(*                                                                         *)
(* Writers insert audit rows.  The sealing task, which two workers may run *)
(* at once, links the unsealed rows onto the chain and stores the new head *)
(* as the anchor in the same transaction; after the commit it logs the     *)
(* head and posts it to Grantex, which countersigns it.  A verification    *)
(* reads the head, then the anchor, then the rows page by page, each in a  *)
(* snapshot of its own (PostgreSQL READ COMMITTED).  Sealers and rows may  *)
(* be lost at any point.                                                   *)
(*                                                                         *)
(* A link hash is the sequence of the rows it commits to: SHA-256 over the *)
(* previous hash and the row, taken as collision free.  The signature of a *)
(* row is left out: nothing here edits a row's fields.                     *)
(***************************************************************************)
EXTENDS Integers, Sequences, FiniteSets, FiniteSetsExt, SequencesExt

CONSTANTS
    Rows,       \* 1..n: the audit rows, ordered by (created_at, id)
    Sealers,    \* workers that may run seal_audit_chains
    Batch,      \* audit_chain_seal_batch
    MaxRounds,  \* MAX_ROUNDS: batches per tenant in one run of the task
    Page,       \* PAGE: rows a verification reads at once
    Asked,      \* the <<from_seq, limit>> of the verifications; limit -1 is None
    MaxFails,   \* bound: sealer failures and crashes
    MaxGone     \* bound: sealed rows lost from the table

VARIABLES
    log,        \* audit_log: row -> is it there, and its chain columns
    anchor,     \* audit_chain_anchors: the stored head; sequence 0 when none
    lock,       \* holder of the tenant's advisory lock, or NoOne
    sealer,     \* sealer -> its place in _seal_audit_chains_async
    heads,      \* heads logged as audit_chain_sealed
    witness,    \* audit_chain_witness_checkpoints
    check,      \* the verification in progress, or the last one's verdict
    gone,       \* links of the sealed rows that were lost
    fails       \* sealer failures so far

vars == <<log, anchor, lock, sealer, heads, witness, check, gone, fails>>

NoOne == 0

GENESIS == << >>

link_hash(prev, r) == Append(prev, r)

HeadAt(seq, hash) == [seq |-> seq, hash |-> hash]

NoHead == HeadAt(0, GENESIS)

Heads == {HeadAt(Len(h), h) : h \in UNION {[1..n -> Rows] : n \in 0..Cardinality(Rows)}}

Unwritten == [there |-> FALSE, seq |-> 0, prev |-> GENESIS, hash |-> GENESIS]

Unsealed == {r \in Rows : log[r].there /\ log[r].seq = 0}

Sealed == {r \in Rows : log[r].there /\ log[r].seq > 0}

\* _head_of(_head_row()): the sealed row with the highest sequence number.
HeadRow == CHOOSE r \in Sealed : \A q \in Sealed : log[q].seq =< log[r].seq

CurrentHead ==
    IF Sealed = {} THEN NoHead ELSE HeadAt(log[HeadRow].seq, log[HeadRow].hash)

\* The n oldest of a set of rows, each in the place the older ones leave it.
Oldest(S, n) ==
    [i \in 1..Min({n, Cardinality(S)}) |->
        CHOOSE r \in S : Cardinality({q \in S : q < r}) = i - 1]

\* Mutation: a watermark, only rows newer than every sealed row are sealed.
UnsealedRowsNewer(limit) == Oldest({r \in Unsealed : \A q \in Sealed : q < r}, limit)

\* _unsealed_rows(limit), oldest first.
UnsealedRows(limit) == Oldest(Unsealed, limit)

\* _sealed_rows(from_seq, limit), in sequence order.
SealedRows(from, limit) ==
    LET q == SetToSortSeq({r \in Sealed : log[r].seq >= from},
                          LAMBDA p, r : log[p].seq < log[r].seq)
    IN  SubSeq(q, 1, Min({limit, Len(q)}))

Idle == [pc |-> "idle", left |-> 0, sealed |-> FALSE, head |-> NoHead, rows |-> << >>]

NoCheck == [pc |-> "idle", start |-> 1, left |-> -1, head |-> NoHead,
            expected |-> NoHead, next |-> 1, prev |-> GENESIS, reason |-> "none",
            seen |-> NoHead, missing |-> {}]

Init ==
    /\ log = [r \in Rows |-> Unwritten]
    /\ anchor = NoHead
    /\ lock = NoOne
    /\ sealer = [s \in Sealers |-> Idle]
    /\ heads = {}
    /\ witness = {}
    /\ check = NoCheck
    /\ gone = {}
    /\ fails = 0

-----------------------------------------------------------------------------
(* Writing rows: AuditLogger.log                                           *)

\* created_at is stamped before the insert commits, so a row may appear
\* after younger ones.
Write(r) ==
    /\ ~log[r].there
    /\ \A g \in gone : g.row # r
    /\ log' = [log EXCEPT ![r].there = TRUE]
    /\ UNCHANGED <<anchor, lock, sealer, heads, witness, check, gone, fails>>

-----------------------------------------------------------------------------
(* The sealing task                                                        *)

\* The beat starts the task: up to MaxRounds calls of seal for the tenant.
Beat(s) ==
    /\ sealer[s].pc = "idle"
    /\ sealer' = [sealer EXCEPT ![s] = [Idle EXCEPT !.pc = "lock", !.left = MaxRounds]]
    /\ UNCHANGED <<log, anchor, lock, heads, witness, check, gone, fails>>

\* Mutation: seal reads the head without the advisory lock.
LockUnguarded(s) ==
    /\ sealer[s].pc = "lock"
    /\ lock' = s
    /\ sealer' = [sealer EXCEPT ![s].pc = "read"]
    /\ UNCHANGED <<log, anchor, heads, witness, check, gone, fails>>

\* _lock_chain: held until the transaction ends.
Lock(s) ==
    /\ sealer[s].pc = "lock"
    /\ lock = NoOne
    /\ lock' = s
    /\ sealer' = [sealer EXCEPT ![s].pc = "read"]
    /\ UNCHANGED <<log, anchor, heads, witness, check, gone, fails>>

\* A call of seal has returned: the task goes on while a further batch waits
\* and rounds are left; then a head it sealed goes to Grantex.
Returned(s, head, sealed, more) ==
    CASE more /\ sealer[s].left > 1 ->
            [Idle EXCEPT !.pc = "lock", !.left = sealer[s].left - 1, !.sealed = sealed]
      [] ~(more /\ sealer[s].left > 1) /\ sealed ->
            [Idle EXCEPT !.pc = "witness", !.head = head]
      [] OTHER -> Idle

\* _head_row and _unsealed_rows.  With no row to seal the transaction ends.
Read(s) ==
    LET rows == UnsealedRows(Batch) IN
    /\ sealer[s].pc = "read"
    /\ IF rows = << >>
       THEN /\ sealer' = [sealer EXCEPT ![s] =
                    Returned(s, CurrentHead, sealer[s].sealed, FALSE)]
            /\ lock' = NoOne
       ELSE /\ sealer' = [sealer EXCEPT ![s].pc = "commit", ![s].head = CurrentHead,
                                        ![s].rows = rows]
            /\ UNCHANGED lock
    /\ UNCHANGED <<log, anchor, heads, witness, check, gone, fails>>

\* The i-th row of a batch sealed onto a head.
Link(head, rows, i) ==
    [there |-> TRUE, seq |-> head.seq + i,
     prev |-> head.hash \o SubSeq(rows, 1, i - 1),
     hash |-> link_hash(head.hash \o SubSeq(rows, 1, i - 1), rows[i])]

NewHead(s) ==
    HeadAt(sealer[s].head.seq + Len(sealer[s].rows), sealer[s].head.hash \o sealer[s].rows)

SealedLog(s) ==
    [r \in Rows |->
        IF r \in ToSet(sealer[s].rows)
        THEN Link(sealer[s].head, sealer[s].rows, CHOOSE i \in 1..Len(sealer[s].rows) : sealer[s].rows[i] = r)
        ELSE log[r]]

\* The links and _write_anchor commit together, and the lock is freed.
Commit(s) ==
    /\ sealer[s].pc = "commit"
    /\ log' = SealedLog(s)
    /\ anchor' = NewHead(s)
    /\ lock' = NoOne
    /\ sealer' = [sealer EXCEPT ![s].pc = "log"]
    /\ UNCHANGED <<heads, witness, check, gone, fails>>

\* The head is logged after the commit; seal returns to the task.
LogHead(s) ==
    /\ sealer[s].pc = "log"
    /\ heads' = heads \cup {NewHead(s)}
    /\ sealer' = [sealer EXCEPT ![s] =
            Returned(s, NewHead(s), TRUE, Len(sealer[s].rows) >= Batch)]
    /\ UNCHANGED <<log, anchor, lock, witness, check, gone, fails>>

\* Grantex, which holds what it witnessed, refuses another hash for the number.
Forks(head) ==
    \E w \in witness : w.status = "witnessed" /\ w.seq = head.seq /\ w.hash # head.hash

\* witness_head: Grantex answers a fork with the evidence, countersigns the
\* head, or gives no usable answer, which leaves no checkpoint.
Witness(s) ==
    LET head == sealer[s].head
        _store(status) == witness' = witness \cup {[seq |-> head.seq, hash |-> head.hash, status |-> status]}
    IN  /\ sealer[s].pc = "witness"
        /\ \/ UNCHANGED witness
           \/ Forks(head) /\ _store("fork")
           \/ ~Forks(head) /\ _store("witnessed")
        /\ sealer' = [sealer EXCEPT ![s] = Idle]
        /\ UNCHANGED <<log, anchor, lock, heads, check, gone, fails>>

\* A database error, caught per tenant, or the death of the worker: the
\* transaction rolls back, which frees the lock.
Fail(s) ==
    /\ sealer[s].pc # "idle"
    /\ fails < MaxFails
    /\ fails' = fails + 1
    /\ lock' = IF lock = s THEN NoOne ELSE lock
    /\ sealer' = [sealer EXCEPT ![s] = Idle]
    /\ UNCHANGED <<log, anchor, heads, witness, check, gone>>

-----------------------------------------------------------------------------
(* Losing rows: outside this code, whose trigger refuses every DELETE.     *)

\* A sealed row disappears from the table, the anchor and the log of heads
\* stay.  Rows a sealer holds FOR UPDATE (the head and its batch) cannot.
Lose(r) ==
    /\ Cardinality(gone) < MaxGone
    /\ r \in Sealed
    /\ \A s \in Sealers : sealer[s].pc = "commit" => log[r].hash # sealer[s].head.hash
    /\ gone' = gone \cup {[row |-> r, seq |-> log[r].seq]}
    /\ log' = [log EXCEPT ![r] = Unwritten]
    /\ UNCHANGED <<anchor, lock, sealer, heads, witness, check, fails>>

-----------------------------------------------------------------------------
(* Verification                                                            *)

\* verify reads the head.  A limit of -1 is None, an expected head of
\* sequence 0 is none supplied; a supplied one is from the sealing log.
VerifyBegin(start, limit, expected) ==
    /\ check.pc = "idle"
    /\ check' = [NoCheck EXCEPT !.pc = "anchors", !.start = start, !.left = limit,
                     !.head = CurrentHead, !.expected = expected,
                     !.seen = anchor, !.missing = gone]
    /\ UNCHANGED <<log, anchor, lock, sealer, heads, witness, gone, fails>>

RowsAt(seq) == {r \in Sealed : log[r].seq = seq}

\* _anchor_break.
AnchorBreak(head, against) ==
    CASE against.seq =< 0 -> "none"
      [] against.seq > head.seq -> "truncated"
      [] against.seq \in 1..head.seq /\ RowsAt(against.seq) = {} -> "sequence_gap"
      [] against.seq \in 1..head.seq /\ \E r \in RowsAt(against.seq) : log[r].hash # against.hash
            -> "anchor_mismatch"
      [] OTHER -> "none"

\* Mutation: verify leaves the stored anchor out.
FirstAnchorBreakExpectedOnly(head, expected) == AnchorBreak(head, expected)

\* The first break the stored anchor, then the expected head, shows.
FirstAnchorBreak(head, expected) ==
    IF AnchorBreak(head, anchor) # "none" THEN AnchorBreak(head, anchor)
    ELSE AnchorBreak(head, expected)

\* verify returns its first break.
Verdict(reason) == check' = [NoCheck EXCEPT !.reason = reason]

\* verify reads the anchor, in a later snapshot than the head, and the link
\* before the first row it is to check.
VerifyAnchors ==
    LET found == FirstAnchorBreak(check.head, check.expected)
        before == RowsAt(check.start - 1)
    IN  /\ check.pc = "anchors"
        /\ \/ found # "none" /\ Verdict(found)
           \/ found = "none" /\ check.head.seq = 0 /\ Verdict("none")
           \/ /\ found = "none" /\ check.head.seq > 0
              /\ check.start > 1 /\ before = {}
              /\ Verdict("sequence_gap")
           \/ /\ found = "none" /\ check.head.seq > 0
              /\ (check.start > 1 => before # {})
              /\ check' = [check EXCEPT !.pc = "walk", !.next = check.start,
                     !.prev = IF check.start > 1 THEN log[CHOOSE r \in before : TRUE].hash ELSE GENESIS]
        /\ UNCHANGED <<log, anchor, lock, sealer, heads, witness, gone, fails>>

\* _check.
Check(r, expected, prev) ==
    CASE log[r].seq # expected -> "sequence_gap"
      [] log[r].seq = expected /\ log[r].prev # prev -> "previous_link"
      [] log[r].seq = expected /\ log[r].prev = prev /\ log[r].hash # link_hash(prev, r) -> "link_hash"
      [] OTHER -> "none"

\* One row of a page: nothing is read past the first break.
CheckRow(walk, r) ==
    IF walk.reason # "none" THEN walk
    ELSE [next |-> log[r].seq + 1, prev |-> log[r].hash, reason |-> Check(r, walk.next, walk.prev)]

Walk(rows) ==
    FoldLeft(CheckRow, [next |-> check.next, prev |-> check.prev, reason |-> "none"], rows)

\* A page of the walk; it ends at a break, a short page or the limit.
VerifyPage ==
    LET page == IF check.left = -1 THEN Page ELSE Min({Page, check.left})
        rows == SealedRows(check.next, page)
        walk == Walk(rows)
        left == IF check.left = -1 THEN -1 ELSE check.left - Len(rows)
        over == walk.reason # "none" \/ Len(rows) < page \/ left = 0
    IN  /\ check.pc = "walk"
        /\ \/ over /\ Verdict(walk.reason)
           \/ /\ ~over
              /\ check' = [check EXCEPT !.left = left, !.next = walk.next, !.prev = walk.prev]
        /\ UNCHANGED <<log, anchor, lock, sealer, heads, witness, gone, fails>>

-----------------------------------------------------------------------------

SealStep(s) == Lock(s) \/ Read(s) \/ Commit(s) \/ LogHead(s) \/ Witness(s)

Next ==
    \/ \E r \in Rows : Write(r) \/ Lose(r)
    \/ \E s \in Sealers : Beat(s) \/ SealStep(s) \/ Fail(s)
    \/ \E asked \in Asked, expected \in heads \cup {NoHead} :
          VerifyBegin(asked[1], asked[2], expected)
    \/ VerifyAnchors
    \/ VerifyPage

\* Celery beat starts the task every five minutes, and a worker that runs it
\* goes on; both may fail MaxFails times.
Fairness ==
    /\ WF_vars(\E s \in Sealers : Beat(s))
    /\ \A s \in Sealers : WF_vars(SealStep(s))

Spec == Init /\ [][Next]_vars

FairSpec == Spec /\ Fairness

-----------------------------------------------------------------------------
(* Properties                                                              *)

\* Chain columns, anchors and heads are numbers with the hash that belongs to
\* them, also inside a sealing or a verification.
TypeOK ==
    /\ \A r \in Rows : /\ log[r].there \in BOOLEAN
                       /\ HeadAt(log[r].seq, log[r].hash) \in Heads
    /\ anchor \in Heads
    /\ lock \in Sealers \cup {NoOne}
    /\ \A s \in Sealers : sealer[s].left \in 0..MaxRounds /\ sealer[s].head \in Heads
    /\ heads \subseteq Heads
    /\ check.head \in Heads /\ check.expected \in heads \cup {NoHead}
    /\ fails \in 0..MaxFails

\* Unless rows were lost, the sealed rows are numbered 1, 2, 3 and so on
\* without a gap or a repeat, every row carries the hash of the row before
\* it, the stored anchor is the head, and every head that left the platform,
\* in the sealing log or at Grantex, is still a link of the chain, so that no
\* witness is answered with a fork: whatever sealers interleave, fail or die
\* (seal, _lock_chain, _write_anchor, witness_head).
ChainIsWhole ==
    LET h == CurrentHead.hash IN
    gone = {} =>
        /\ Len(h) = Cardinality(Sealed)
        /\ \A i \in 1..Len(h) : log[h[i]] = [there |-> TRUE, seq |-> i,
                                 prev |-> SubSeq(h, 1, i - 1), hash |-> SubSeq(h, 1, i)]
        /\ anchor = CurrentHead
        /\ \A p \in heads \cup witness : IsPrefix(p.hash, h)
        /\ \A w \in witness : w.status = "witnessed"

Returns == check.pc # "idle" /\ check'.pc = "idle"

\* What a verification says of the whole chain is right.  Without loss it
\* reports a break in two cases only: a sealing committed between its reads of
\* the head and of the anchor, or the caller asked for rows past the end.  When
\* sealed rows were lost before it, it finds no break only because a later
\* sealing gave the lost numbers out again, and it never accepts a head from
\* the sealing log that commits to a lost row (verify, _anchor_break).
VerdictIsRight ==
    /\ [][Returns /\ gone = {} /\ check'.reason # "none" =>
            \/ check'.reason = "truncated" /\ anchor # check.seen
            \/ check'.reason = "sequence_gap" /\ check.start > check.head.seq + 1]_vars
    /\ [][/\ Returns /\ check'.reason = "none"
          /\ check.start = 1 /\ check.left = -1
          /\ gone = check.missing
          => \A g \in gone :
               /\ \E f \in gone : f.seq =< g.seq /\ RowsAt(f.seq) # {}
               /\ g.row \notin ToSet(check.expected.hash)]_vars

\* Every audit row that is written is sealed in the end, also one that
\* commits after younger rows were sealed (_unsealed_rows orders by
\* created_at but keeps no watermark).
RowsGetSealed == <>[](Unsealed = {})
=============================================================================
