-------------------------- MODULE AuditChainProofs --------------------------
(***************************************************************************)
(* The audit chain is whole for any number of rows, sealers and failures,   *)
(* as long as no sealed row is lost.                                        *)
(*                                                                          *)
(* The argument: the stored anchor names the chain, and the sealed rows are *)
(* its links (Linked).  The advisory lock leaves one sealer between reading *)
(* the head and committing, so the head it read is still the anchor and the *)
(* rows it read are still unsealed (SealingOf).  A commit therefore only    *)
(* appends, and a head that was logged or witnessed still begins the chain  *)
(* (Shown), so two heads of one number are the same head.                   *)
(***************************************************************************)
EXTENDS AuditChain, FiniteSetTheorems, SequenceTheorems, TLAPS

\* Rows are numbered in the order of (created_at, id), NoOne is no worker, and the
\* sizes of a batch and of a run of the task are numbers.
AuditSetup ==
    /\ IsFiniteSet(Rows) /\ Rows \subseteq Int
    /\ NoOne \notin Sealers
    /\ Batch \in Nat /\ MaxRounds \in Nat

\* The chain: the rows the stored anchor commits to.
Chain == anchor.hash

Injective(s) == \A i, j \in 1..Len(s) : s[i] = s[j] => i = j

Begins(p, s) == Len(p) <= Len(s) /\ \A i \in 1..Len(p) : p[i] = s[i]

LinkOf(s, i) == [there |-> TRUE, seq |-> i, prev |-> SubSeq(s, 1, i - 1), hash |-> SubSeq(s, 1, i)]

AuditRows == [there : BOOLEAN, seq : Nat, prev : Seq(Rows), hash : Seq(Rows)]
ChainHeads == [seq : Nat, hash : Seq(Rows)]
SealerPcs == {"idle", "lock", "read", "commit", "log", "witness"}
Sealings == [pc : SealerPcs, left : Int, sealed : BOOLEAN, head : ChainHeads, rows : Seq(Rows)]

\* The rows of the chain are the sealed ones, each once and each a link.
Linked ==
    /\ log \in [Rows -> AuditRows]
    /\ Chain \in Seq(Rows) /\ anchor = [seq |-> Len(Chain), hash |-> Chain]
    /\ Injective(Chain)
    /\ \A i \in 1..Len(Chain) : log[Chain[i]] = LinkOf(Chain, i)
    /\ \A r \in Rows : log[r].seq > 0 => \E i \in 1..Len(Chain) : Chain[i] = r

\* A head the chain has grown from.
OnChain(p) == p.seq = Len(p.hash) /\ p.hash \in Seq(Rows) /\ Begins(p.hash, Chain)

\* A sealer about to commit goes on from the stored anchor, with rows that are
\* still unsealed; what it has committed stays on the chain.
SealingOf(s) ==
    /\ sealer[s] \in Sealings
    /\ sealer[s].pc = "commit" =>
         /\ sealer[s].head = anchor /\ Injective(sealer[s].rows)
         /\ \A i \in 1..Len(sealer[s].rows) : sealer[s].rows[i] \in Unsealed
    /\ sealer[s].pc = "log" => OnChain(NewHead(s))
    /\ sealer[s].pc = "witness" => OnChain(sealer[s].head)

\* What left the platform is on the chain.
Shown ==
    /\ \A p \in heads \cup witness : OnChain(p)
    /\ \A w \in witness : w.status = "witnessed"

\* Reading the head and committing happen under the advisory lock.
Locked ==
    /\ sealer \in [Sealers -> Sealings]
    /\ \A s \in Sealers : sealer[s].pc \in {"read", "commit"} => lock = s

Whole == Locked /\ Linked /\ Shown /\ \A s \in Sealers : SealingOf(s)

AuditInv == gone = {} => Whole

\* The rows of S older than r, which give r its place.
Older(S, r) == {q \in S : q < r}

LEMMA Places ==
    ASSUME NEW S \in SUBSET Int, IsFiniteSet(S)
    PROVE  /\ Cardinality(S) \in Nat
           /\ \A r, t \in S : Cardinality(Older(S, r)) = Cardinality(Older(S, t)) => r = t
           /\ \A k \in 0..(Cardinality(S) - 1) : \E r \in S : Cardinality(Older(S, r)) = k
<1> DEFINE n == Cardinality(S)
           f == [r \in S |-> Cardinality(Older(S, r))]
<1>1. n \in Nat
  BY FS_CardinalityType
<1>2. ASSUME NEW r \in S PROVE IsFiniteSet(Older(S, r)) /\ Cardinality(Older(S, r)) \in 0..(n - 1)
  <2>1. Older(S, r) \in SUBSET S /\ r \notin Older(S, r)
    BY DEF Older
  <2>2. IsFiniteSet(Older(S, r)) /\ Cardinality(Older(S, r)) <= n /\ Cardinality(Older(S, r)) # n
    BY <2>1, FS_Subset
  <2>3. Cardinality(Older(S, r)) \in Nat
    BY <2>2, FS_CardinalityType
  <2> QED BY <1>1, <2>2, <2>3
<1>3. ASSUME NEW r \in S, NEW t \in S, r < t PROVE Cardinality(Older(S, r)) < Cardinality(Older(S, t))
  <2>1. Older(S, r) \in SUBSET Older(S, t) /\ r \in Older(S, t) /\ r \notin Older(S, r)
    <3>1. \A q \in S : q < r => q < t
      BY <1>3
    <3>2. r \in Int /\ ~(r < r)
      OBVIOUS
    <3> QED BY <1>3, <3>1, <3>2, Zenon DEF Older
  <2>2. /\ Cardinality(Older(S, r)) <= Cardinality(Older(S, t))
        /\ Cardinality(Older(S, r)) # Cardinality(Older(S, t))
    BY <2>1, <1>2, FS_Subset
  <2> QED BY <2>2, <1>2
<1>4. ASSUME NEW r \in S, NEW t \in S, Cardinality(Older(S, r)) = Cardinality(Older(S, t)) PROVE r = t
  <2>1. ~(r < t) /\ ~(t < r)
    BY <1>2, <1>3, <1>4
  <2> QED BY <2>1
<1>5. f \in Injection(S, 0..(n - 1))
  BY <1>2, <1>4 DEF Injection, IsInjective
<1>6. IsFiniteSet(0..(n - 1)) /\ Cardinality(0..(n - 1)) = n
  BY <1>1, FS_Interval
<1>7. f \in Surjection(S, 0..(n - 1))
  BY <1>5, <1>6, FS_Injection
<1>8. \A k \in 0..(n - 1) : \E r \in S : f[r] = k
  BY <1>7, Zenon DEF Surjection
<1> QED BY <1>1, <1>4, <1>8

\* _unsealed_rows returns rows of the set it is asked for, each once.
LEMMA OldestRows ==
    ASSUME NEW S \in SUBSET Int, IsFiniteSet(S), NEW n \in Nat
    PROVE  Oldest(S, n) \in Seq(S) /\ Injective(Oldest(S, n))
<1> DEFINE m == Min({n, Cardinality(S)})
           q == Oldest(S, n)
<1>1. m \in Nat /\ m <= Cardinality(S)
  <2>1. ASSUME NEW k \in Nat PROVE Min({n, k}) \in Nat /\ Min({n, k}) <= k
    BY <2>1 DEF Min
  <2> QED BY <2>1, Places
<1>2. q = [i \in 1..m |-> CHOOSE r \in S : Cardinality(Older(S, r)) = i - 1]
  BY DEF Oldest, Older
<1> HIDE DEF m, q
<1>3. ASSUME NEW i \in 1..m PROVE q[i] \in S /\ Cardinality(Older(S, q[i])) = i - 1
  <2>1. i - 1 \in 0..(Cardinality(S) - 1)
    BY <1>1, Places
  <2>2. \E r \in S : Cardinality(Older(S, r)) = i - 1
    BY <2>1, Places
  <2>3. q[i] = CHOOSE r \in S : Cardinality(Older(S, r)) = i - 1
    BY <1>2
  <2> QED BY <2>2, <2>3
<1>4. q \in [1..m -> S]
  BY <1>2, <1>3
<1>5. q \in Seq(S) /\ Len(q) = m
  BY <1>1, <1>4
<1>6. Injective(q)
  BY <1>3, <1>5 DEF Injective
<1> QED BY <1>5, <1>6 DEF q

LEMMA PrefixesBegin ==
    ASSUME NEW p \in Seq(Rows), NEW h \in Seq(Rows), Begins(p, h)
    PROVE  IsPrefix(p, h)
<1>1. /\ SubSeq(p, 1, Len(p)) \in Seq(Rows) /\ Len(SubSeq(p, 1, Len(p))) = Len(p)
      /\ \A i \in 1..Len(p) : SubSeq(p, 1, Len(p))[i] = p[i]
  BY SubSeqProperties
<1>2. /\ SubSeq(h, 1, Len(p)) \in Seq(Rows) /\ Len(SubSeq(h, 1, Len(p))) = Len(p)
      /\ \A i \in 1..Len(p) : SubSeq(h, 1, Len(p))[i] = h[i]
  BY SubSeqProperties DEF Begins
<1>3. SubSeq(p, 1, Len(p)) = SubSeq(h, 1, Len(p))
  BY <1>1, <1>2, SeqEqual DEF Begins
<1> QED BY <1>3 DEF IsPrefix, Begins

\* The head the queries find is the stored anchor.
LEMMA TheHead ==
    ASSUME Linked
    PROVE  CurrentHead = anchor /\ Cardinality(Sealed) = Len(Chain)
<1> DEFINE n == Len(Chain)
<1>1. n \in Nat /\ Chain \in [1..n -> Rows]
  BY DEF Linked
<1>2. \A i \in 1..n : log[Chain[i]].there /\ log[Chain[i]].seq = i /\ log[Chain[i]].hash = SubSeq(Chain, 1, i)
  <2> SUFFICES ASSUME NEW i \in 1..n
               PROVE  /\ log[Chain[i]].there /\ log[Chain[i]].seq = i
                      /\ log[Chain[i]].hash = SubSeq(Chain, 1, i)
    OBVIOUS
  <2>1. log[Chain[i]] = LinkOf(Chain, i)
    BY DEF Linked
  <2>2. LinkOf(Chain, i).there /\ LinkOf(Chain, i).seq = i /\ LinkOf(Chain, i).hash = SubSeq(Chain, 1, i)
    BY DEF LinkOf
  <2> QED BY <2>1, <2>2
<1>3. \A r : r \in Sealed <=> \E i \in 1..n : Chain[i] = r
  <2>1. ASSUME NEW r \in Sealed PROVE \E i \in 1..n : Chain[i] = r
    BY DEF Linked, Sealed
  <2>2. ASSUME NEW i \in 1..n PROVE Chain[i] \in Sealed
    BY <1>1, <1>2 DEF Sealed
  <2> QED BY <2>1, <2>2
<1>4. Cardinality(Sealed) = n
  <2>1. Chain \in Injection(1..n, Sealed)
    BY <1>1, <1>3 DEF Injection, IsInjective, Linked, Injective
  <2>2. Chain \in Surjection(1..n, Sealed)
    BY <1>1, <1>3 DEF Surjection
  <2>3. ExistsBijection(1..n, Sealed)
    BY <2>1, <2>2 DEF ExistsBijection, Bijection
  <2> QED BY <1>1, <2>3, FS_CountingElements
<1>5. CASE n = 0
  <2>1. Sealed = {}
    BY <1>3, <1>5
  <2>2. Chain = << >>
    BY <1>1, <1>5, EmptySeq DEF Linked
  <2>3. CurrentHead = [seq |-> n, hash |-> Chain]
    BY <2>1, <2>2, <1>5 DEF CurrentHead, NoHead, HeadAt, GENESIS
  <2> QED BY <1>4, <2>3 DEF Linked
<1>6. CASE n > 0
  <2>1. Chain[n] \in Sealed /\ \A q \in Sealed : log[q].seq <= log[Chain[n]].seq
    BY <1>1, <1>2, <1>3, <1>6
  <2>2. HeadRow \in Sealed /\ \A q \in Sealed : log[q].seq <= log[HeadRow].seq
    BY <2>1 DEF HeadRow
  <2>3. HeadRow = Chain[n]
    <3>1. PICK i \in 1..n : Chain[i] = HeadRow
      BY <1>3, <2>2
    <3>2. i >= n
      BY <3>1, <2>1, <2>2, <1>2, <1>1, <1>6
    <3> QED BY <3>1, <3>2, <1>1
  <2>4. SubSeq(Chain, 1, n) = Chain
    BY SubSeqFull DEF Linked
  <2>5. CurrentHead = [seq |-> n, hash |-> Chain]
    BY <2>1, <2>3, <2>4, <1>2, <1>1, <1>6 DEF CurrentHead, HeadAt
  <2> QED BY <1>4, <2>5 DEF Linked
<1> QED BY <1>1, <1>5, <1>6

\* A row linked after a tail is linked after the whole.
LEMMA AppendLast ==
    ASSUME NEW h \in Seq(Rows), NEW t \in Seq(Rows), NEW r \in Rows
    PROVE  h \o Append(t, r) = Append(h \o t, r)
OBVIOUS

\* The rows a sealer holds, linked onto the anchor.
LEMMA Extends ==
    ASSUME NEW h \in Seq(Rows), NEW t \in Seq(Rows)
    PROVE  /\ h \o t \in Seq(Rows) /\ Len(h \o t) = Len(h) + Len(t)
           /\ \A i \in 1..Len(h) : (h \o t)[i] = h[i] /\ LinkOf(h \o t, i) = LinkOf(h, i)
           /\ \A j \in 1..Len(t) :
                (h \o t)[Len(h) + j] = t[j]
                /\ LinkOf(h \o t, Len(h) + j) = Link([seq |-> Len(h), hash |-> h], t, j)
<1> DEFINE c == h \o t
<1>1. /\ c \in Seq(Rows) /\ Len(c) = Len(h) + Len(t)
      /\ \A i \in 1..Len(h) : c[i] = h[i]
      /\ \A j \in 1..Len(t) : c[Len(h) + j] = t[j]
  BY ConcatProperties
<1>2. ASSUME NEW k \in 0..Len(h) PROVE SubSeq(c, 1, k) = SubSeq(h, 1, k)
  <2>1. /\ SubSeq(c, 1, k) \in Seq(Rows) /\ Len(SubSeq(c, 1, k)) = k
        /\ \A i \in 1..k : SubSeq(c, 1, k)[i] = c[i]
    BY <1>1, SubSeqProperties, ElementOfSeq
  <2>2. /\ SubSeq(h, 1, k) \in Seq(Rows) /\ Len(SubSeq(h, 1, k)) = k
        /\ \A i \in 1..k : SubSeq(h, 1, k)[i] = h[i]
    BY SubSeqProperties, ElementOfSeq
  <2> QED BY <1>1, <2>1, <2>2, SeqEqual
<1>3. ASSUME NEW k \in 0..Len(t) PROVE SubSeq(c, 1, Len(h) + k) = h \o SubSeq(t, 1, k)
  <2>1. /\ SubSeq(c, 1, Len(h) + k) \in Seq(Rows) /\ Len(SubSeq(c, 1, Len(h) + k)) = Len(h) + k
        /\ \A i \in 1..(Len(h) + k) : SubSeq(c, 1, Len(h) + k)[i] = c[i]
    BY <1>1, SubSeqProperties, ElementOfSeq
  <2>2. /\ SubSeq(t, 1, k) \in Seq(Rows) /\ Len(SubSeq(t, 1, k)) = k
        /\ \A i \in 1..k : SubSeq(t, 1, k)[i] = t[i]
    BY SubSeqProperties, ElementOfSeq
  <2>3. /\ h \o SubSeq(t, 1, k) \in Seq(Rows) /\ Len(h \o SubSeq(t, 1, k)) = Len(h) + k
        /\ \A i \in 1..(Len(h) + k) :
             (h \o SubSeq(t, 1, k))[i] = IF i <= Len(h) THEN h[i] ELSE SubSeq(t, 1, k)[i - Len(h)]
    BY <2>2, ConcatProperties
  <2>4. ASSUME NEW i \in 1..(Len(h) + k) PROVE c[i] = (h \o SubSeq(t, 1, k))[i]
    <3>1. CASE i <= Len(h)
      BY <3>1, <1>1, <2>3
    <3>2. CASE i > Len(h)
      <4>1. i - Len(h) \in 1..k /\ i - Len(h) \in 1..Len(t) /\ i = Len(h) + (i - Len(h))
        BY <3>2
      <4>2. c[i] = t[i - Len(h)] /\ SubSeq(t, 1, k)[i - Len(h)] = t[i - Len(h)]
        BY <4>1, <1>1, <2>2
      <4> QED BY <4>2, <2>3, <3>2
    <3> QED BY <3>1, <3>2
  <2> QED BY <2>1, <2>3, <2>4, SeqEqual
<1>4. ASSUME NEW i \in 1..Len(h) PROVE LinkOf(c, i) = LinkOf(h, i)
  <2>1. SubSeq(c, 1, i) = SubSeq(h, 1, i) /\ SubSeq(c, 1, i - 1) = SubSeq(h, 1, i - 1)
    BY <1>2
  <2> HIDE DEF c
  <2> QED BY <2>1, Zenon DEF LinkOf
<1>5. ASSUME NEW j \in 1..Len(t)
      PROVE  LinkOf(c, Len(h) + j) = Link([seq |-> Len(h), hash |-> h], t, j)
  <2>1. Len(h) + j - 1 = Len(h) + (j - 1) /\ j - 1 \in 0..Len(t) /\ j \in 0..Len(t)
    OBVIOUS
  <2>2. SubSeq(c, 1, Len(h) + j - 1) = h \o SubSeq(t, 1, j - 1)
    BY <2>1, <1>3
  <2>3. SubSeq(c, 1, Len(h) + j) = h \o SubSeq(t, 1, j)
    BY <2>1, <1>3
  <2>4. h \o SubSeq(t, 1, j) = Append(h \o SubSeq(t, 1, j - 1), t[j])
    <3>1. SubSeq(t, 1, j) = SubSeq(t, 1, j - 1) \o <<t[j]>>
      BY SubSeqRecursiveSecond
    <3>2. SubSeq(t, 1, j - 1) \in Seq(Rows) /\ <<t[j]>> \in Seq(Rows) /\ t[j] \in Rows
      BY SubSeqProperties, ElementOfSeq
    <3>3. SubSeq(t, 1, j - 1) \o <<t[j]>> = Append(SubSeq(t, 1, j - 1), t[j])
      BY <3>2, AppendIsConcat
    <3> QED BY <3>1, <3>2, <3>3, AppendLast
  <2> HIDE DEF c
  <2>5. Link([seq |-> Len(h), hash |-> h], t, j) =
            [there |-> TRUE, seq |-> Len(h) + j, prev |-> h \o SubSeq(t, 1, j - 1),
             hash |-> Append(h \o SubSeq(t, 1, j - 1), t[j])]
    BY DEF Link, link_hash
  <2>6. LinkOf(c, Len(h) + j) =
            [there |-> TRUE, seq |-> Len(h) + j, prev |-> h \o SubSeq(t, 1, j - 1),
             hash |-> h \o SubSeq(t, 1, j)]
    <3> DEFINE k == Len(h) + j
               u == h \o SubSeq(t, 1, j - 1)
               v == h \o SubSeq(t, 1, j)
    <3>1. SubSeq(c, 1, k - 1) = u /\ SubSeq(c, 1, k) = v
      BY <2>2, <2>3
    <3> HIDE DEF k, u, v
    <3>2. LinkOf(c, k) = [there |-> TRUE, seq |-> k, prev |-> u, hash |-> v]
      BY <3>1, Zenon DEF LinkOf
    <3> QED BY <3>2 DEF k, u, v
  <2> QED BY <2>4, <2>5, <2>6, Zenon
<1> QED BY <1>1, <1>4, <1>5

LEMMA BeginsOnward ==
    ASSUME NEW a \in Seq(Rows), NEW b \in Seq(Rows), NEW c \in Seq(Rows), Begins(a, b), Begins(b, c)
    PROVE  Begins(a, c)
<1>1. Len(a) \in Nat /\ Len(b) \in Nat /\ Len(c) \in Nat
  OBVIOUS
<1> QED BY <1>1 DEF Begins

\* What is on the chain stays on it while the chain only grows.
LEMMA StaysOnChain ==
    ASSUME NEW p, OnChain(p), Chain \in Seq(Rows), Chain' \in Seq(Rows), Begins(Chain, Chain')
    PROVE  OnChain(p)'
BY BeginsOnward DEF OnChain

LEMMA OtherSealers ==
    ASSUME NEW q \in Sealers, SealingOf(q), sealer'[q] = sealer[q],
           Chain \in Seq(Rows), Chain' \in Seq(Rows), Begins(Chain, Chain'),
           sealer[q].pc = "commit" => anchor' = anchor /\ Unsealed \subseteq Unsealed'
    PROVE  SealingOf(q)'
<1>1. PICK p : p = NewHead(q)
  OBVIOUS
<1>2. PICK h : h = sealer[q].head
  OBVIOUS
<1>3. NewHead(q)' = p /\ sealer'[q].head = h
  BY <1>1, <1>2 DEF NewHead
<1>4. sealer'[q].pc = "log" => OnChain(p)'
  BY <1>1, StaysOnChain DEF SealingOf
<1>5. sealer'[q].pc = "witness" => OnChain(h)'
  BY <1>2, StaysOnChain DEF SealingOf
<1>6. OnChain(p)' <=> OnChain(NewHead(q))'
  BY <1>3 DEF OnChain
<1>7. OnChain(h)' <=> OnChain(sealer[q].head)'
  BY <1>3 DEF OnChain
<1> QED BY <1>4, <1>5, <1>6, <1>7 DEF SealingOf

\* One sealer goes on, and neither the rows nor the anchor change.
LEMMA SealerMoves ==
    ASSUME Whole, NEW s \in Sealers, NEW new \in Sealings,
           sealer' = [sealer EXCEPT ![s] = new], UNCHANGED <<log, anchor>>,
           new.pc = "commit" => /\ new.head = anchor /\ Injective(new.rows)
                                /\ \A i \in 1..Len(new.rows) : new.rows[i] \in Unsealed,
           new.pc = "log" => OnChain(HeadAt(new.head.seq + Len(new.rows), new.head.hash \o new.rows)),
           new.pc = "witness" => OnChain(new.head)
    PROVE  Linked' /\ sealer' \in [Sealers -> Sealings] /\ \A q \in Sealers : SealingOf(q)'
<1>1. Linked' /\ Chain' = Chain /\ Chain \in Seq(Rows)
  BY DEF Whole, Linked, Chain
<1>2. sealer' \in [Sealers -> Sealings] /\ sealer'[s] = new
  BY DEF Whole, Locked
<1>3. ASSUME NEW p PROVE OnChain(p) <=> OnChain(p)'
  BY <1>1 DEF OnChain
<1>4. NewHead(s)' = HeadAt(new.head.seq + Len(new.rows), new.head.hash \o new.rows)
  BY <1>2 DEF NewHead
<1>5. SealingOf(s)'
  <2>1. PICK p : p = HeadAt(new.head.seq + Len(new.rows), new.head.hash \o new.rows)
    OBVIOUS
  <2>2. new.pc = "log" => OnChain(NewHead(s))'
    <3>1. new.pc = "log" => OnChain(p)'
      BY <2>1, <1>3
    <3> QED BY <3>1, <2>1, <1>4 DEF OnChain
  <2>3. new.pc = "witness" => OnChain(sealer[s].head)'
    <3>1. PICK h : h = new.head
      OBVIOUS
    <3>2. new.pc = "witness" => OnChain(h)'
      BY <3>1, <1>3
    <3> QED BY <3>1, <3>2, <1>2 DEF OnChain
  <2>4. Unsealed' = Unsealed
    BY DEF Unsealed
  <2> QED BY <1>2, <2>2, <2>3, <2>4 DEF SealingOf
<1>6. ASSUME NEW q \in Sealers, q # s PROVE SealingOf(q)'
  <2>1. sealer'[q] = sealer[q] /\ SealingOf(q)
    BY <1>6 DEF Whole, Locked
  <2>2. Begins(Chain, Chain') /\ Unsealed' = Unsealed
    BY <1>1 DEF Begins, Unsealed
  <2> QED BY <1>1, <2>1, <2>2, OtherSealers
<1> QED BY <1>1, <1>2, <1>5, <1>6

LEMMA IdleSealing == Idle \in Sealings /\ Idle.pc = "idle"
<1>1. GENESIS \in Seq(Rows) /\ NoHead \in ChainHeads
  BY EmptySeq DEF GENESIS, NoHead, HeadAt, ChainHeads
<1>2. << >> \in Seq(Rows)
  BY EmptySeq
<1> QED BY <1>1, <1>2 DEF Idle, Sealings, SealerPcs

\* The task goes on to another batch, to the witness or to its end.
LEMMA ReturnedSealings ==
    ASSUME NEW s \in Sealers, sealer[s] \in Sealings,
           NEW head \in ChainHeads, NEW sealed \in BOOLEAN, NEW more \in BOOLEAN
    PROVE  /\ Returned(s, head, sealed, more) \in Sealings
           /\ Returned(s, head, sealed, more).pc \in {"lock", "witness", "idle"}
           /\ Returned(s, head, sealed, more).pc = "witness" => Returned(s, head, sealed, more).head = head
<1>1. PICK left : left = sealer[s].left /\ left \in Int /\ left - 1 \in Int
  BY DEF Sealings
<1>2. CASE more /\ left > 1
  <2>1. Returned(s, head, sealed, more) = [Idle EXCEPT !.pc = "lock", !.left = left - 1, !.sealed = sealed]
    BY <1>1, <1>2 DEF Returned
  <2> QED BY <1>1, <2>1, IdleSealing, Zenon DEF Sealings, SealerPcs
<1>3. CASE ~(more /\ left > 1) /\ sealed
  <2>1. Returned(s, head, sealed, more) = [Idle EXCEPT !.pc = "witness", !.head = head]
    BY <1>1, <1>3 DEF Returned
  <2> QED BY <1>1, <2>1, IdleSealing, Zenon DEF Sealings, SealerPcs
<1>4. CASE ~(more /\ left > 1) /\ ~sealed
  <2>1. Returned(s, head, sealed, more) = Idle
    BY <1>1, <1>4 DEF Returned
  <2> QED BY <2>1, IdleSealing
<1> QED BY <1>2, <1>3, <1>4

LEMMA ShownStays ==
    ASSUME Shown, heads' = heads, witness' = witness, UNCHANGED anchor
    PROVE  Shown'
BY DEF Shown, OnChain, Chain

LEMMA BeatStep ==
    ASSUME AuditSetup, Whole, NEW s \in Sealers, Beat(s)
    PROVE  Whole'
<1> DEFINE new == [Idle EXCEPT !.pc = "lock", !.left = MaxRounds]
<1>1. new \in Sealings /\ new.pc = "lock"
  <2>1. MaxRounds \in Int
    BY DEF AuditSetup
  <2> QED BY <2>1, IdleSealing, Zenon DEF Sealings, SealerPcs
<1>2. sealer' = [sealer EXCEPT ![s] = new] /\ UNCHANGED <<log, anchor, lock, heads, witness>>
  BY DEF Beat
<1> HIDE DEF new
<1>3. Linked' /\ sealer' \in [Sealers -> Sealings] /\ \A q \in Sealers : SealingOf(q)'
  BY <1>1, <1>2, SealerMoves, Zenon
<1>4. Locked'
  BY <1>1, <1>2, <1>3 DEF Whole, Locked
<1>5. Shown'
  BY <1>2, ShownStays DEF Whole
<1> QED BY <1>3, <1>4, <1>5 DEF Whole

LEMMA LockStep ==
    ASSUME AuditSetup, Whole, NEW s \in Sealers, Lock(s)
    PROVE  Whole'
<1> DEFINE new == [sealer[s] EXCEPT !.pc = "read"]
<1>1. sealer[s] \in Sealings
  BY DEF Whole, Locked
<1>2. new \in Sealings /\ new.pc = "read"
  BY <1>1 DEF Sealings, SealerPcs
<1>3. /\ sealer' = [sealer EXCEPT ![s] = new] /\ lock = NoOne /\ lock' = s
      /\ UNCHANGED <<log, anchor, heads, witness>>
  BY DEF Lock
<1> HIDE DEF new
<1>4. Linked' /\ sealer' \in [Sealers -> Sealings] /\ \A q \in Sealers : SealingOf(q)'
  BY <1>2, <1>3, SealerMoves, Zenon
<1>5. Locked'
  BY <1>2, <1>3, <1>4 DEF Whole, Locked, AuditSetup
<1>6. Shown'
  BY <1>3, ShownStays DEF Whole
<1> QED BY <1>4, <1>5, <1>6 DEF Whole

LEMMA FailStep ==
    ASSUME AuditSetup, Whole, NEW s \in Sealers, Fail(s)
    PROVE  Whole'
<1>1. Idle \in Sealings /\ Idle.pc = "idle"
  BY IdleSealing
<1>2. /\ sealer' = [sealer EXCEPT ![s] = Idle] /\ lock' = IF lock = s THEN NoOne ELSE lock
      /\ UNCHANGED <<log, anchor, heads, witness>>
  BY DEF Fail
<1>3. Linked' /\ sealer' \in [Sealers -> Sealings] /\ \A q \in Sealers : SealingOf(q)'
  BY <1>1, <1>2, SealerMoves, Zenon
<1>4. Locked'
  BY <1>1, <1>2, <1>3 DEF Whole, Locked
<1>5. Shown'
  BY <1>2, ShownStays DEF Whole
<1> QED BY <1>3, <1>4, <1>5 DEF Whole

LEMMA WriteStep ==
    ASSUME AuditSetup, Whole, NEW r \in Rows, Write(r)
    PROVE  Whole'
<1>1. /\ ~log[r].there /\ log' = [log EXCEPT ![r].there = TRUE]
      /\ UNCHANGED <<anchor, lock, sealer, heads, witness>>
  BY DEF Write
<1>2. log \in [Rows -> AuditRows] /\ Chain' = Chain /\ Chain \in Seq(Rows)
  BY <1>1 DEF Whole, Linked, Chain
<1>3. /\ log' \in [Rows -> AuditRows]
      /\ \A q \in Rows : log'[q].seq = log[q].seq /\ (q # r => log'[q] = log[q])
      /\ log'[r].there
  BY <1>1, <1>2, Zenon DEF AuditRows
<1>4. Linked'
  <2>1. ASSUME NEW i \in 1..Len(Chain) PROVE log'[Chain[i]] = LinkOf(Chain, i)
    <3>1. Chain[i] \in Rows /\ log[Chain[i]] = LinkOf(Chain, i) /\ LinkOf(Chain, i).there
      BY <1>2, ElementOfSeq DEF Whole, Linked, LinkOf
    <3> QED BY <3>1, <1>1, <1>3
  <2> QED BY <1>1, <1>2, <1>3, <2>1 DEF Whole, Linked
<1>5. Unsealed \subseteq Unsealed'
  BY <1>3 DEF Unsealed
<1>6. ASSUME NEW q \in Sealers PROVE SealingOf(q)'
  <2>1. Begins(Chain, Chain')
    BY <1>2 DEF Begins
  <2> QED BY <1>1, <1>2, <1>5, <2>1, OtherSealers DEF Whole
<1>7. Locked' /\ Shown'
  BY <1>1, ShownStays DEF Whole, Locked
<1> QED BY <1>4, <1>6, <1>7 DEF Whole

LEMMA ReadStep ==
    ASSUME AuditSetup, Whole, NEW s \in Sealers, Read(s)
    PROVE  Whole'
<1> DEFINE rows == UnsealedRows(Batch)
<1>1. sealer[s] \in Sealings /\ sealer[s].sealed \in BOOLEAN /\ lock = s
  BY DEF Whole, Locked, Read, Sealings
<1>2. CurrentHead = anchor /\ anchor \in ChainHeads
  BY TheHead DEF Whole, Linked, ChainHeads
<1>3. rows \in Seq(Unsealed) /\ Injective(rows)
  <2>1. Unsealed \in SUBSET Rows /\ Unsealed \in SUBSET Int /\ IsFiniteSet(Unsealed)
    BY FS_Subset, Zenon DEF Unsealed, AuditSetup
  <2> QED BY <2>1, OldestRows DEF UnsealedRows, AuditSetup
<1>4. rows \in Seq(Rows) /\ \A i \in 1..Len(rows) : rows[i] \in Unsealed
  <2>1. Unsealed \subseteq Rows
    BY DEF Unsealed
  <2> QED BY <1>3, <2>1, SeqMonotonic, ElementOfSeq
<1>5. UNCHANGED <<log, anchor, heads, witness>>
  BY DEF Read
<1>6. Shown'
  BY <1>5, ShownStays DEF Whole
<1>7. CASE rows = << >>
  <2>1. PICK new : new = Returned(s, anchor, sealer[s].sealed, FALSE)
    OBVIOUS
  <2>2. sealer' = [sealer EXCEPT ![s] = new] /\ lock' = NoOne
    BY <1>2, <1>7, <2>1, Zenon DEF Read
  <2>3. new \in Sealings /\ new.pc \in {"lock", "witness", "idle"} /\ (new.pc = "witness" => new.head = anchor)
    BY <1>1, <1>2, <2>1, ReturnedSealings, Zenon
  <2>4. OnChain(anchor)
    BY DEF Whole, Linked, OnChain, Begins
  <2>5. Linked' /\ sealer' \in [Sealers -> Sealings] /\ \A q \in Sealers : SealingOf(q)'
    BY <1>5, <2>2, <2>3, <2>4, SealerMoves, Zenon
  <2>6. Locked'
    BY <1>1, <2>2, <2>3, <2>5 DEF Whole, Locked
  <2> QED BY <1>6, <2>5, <2>6 DEF Whole
<1>8. CASE rows # << >>
  <2>1. PICK new : new = [sealer[s] EXCEPT !.pc = "commit", !.head = anchor, !.rows = rows]
    OBVIOUS
  <2>2. sealer' = [sealer EXCEPT ![s] = new] /\ lock' = lock
    BY <1>2, <1>8, <2>1, Zenon DEF Read
  <2> HIDE DEF rows
  <2>3. new \in Sealings /\ new.pc = "commit" /\ new.head = anchor /\ new.rows = rows
    BY <1>1, <1>2, <1>4, <2>1, Zenon DEF Sealings, SealerPcs
  <2>4. Linked' /\ sealer' \in [Sealers -> Sealings] /\ \A q \in Sealers : SealingOf(q)'
    BY <1>3, <1>4, <1>5, <2>2, <2>3, SealerMoves, Zenon
  <2>5. Locked'
    BY <1>1, <2>2, <2>4 DEF Whole, Locked
  <2> QED BY <1>6, <2>4, <2>5 DEF Whole
<1> QED BY <1>7, <1>8

LEMMA LogHeadStep ==
    ASSUME AuditSetup, Whole, NEW s \in Sealers, LogHead(s)
    PROVE  Whole'
<1>1. PICK p : p = NewHead(s)
  OBVIOUS
<1>2. sealer[s] \in Sealings /\ OnChain(p) /\ p \in ChainHeads /\ sealer[s].pc = "log"
  <2>1. SealingOf(s) /\ sealer[s].pc = "log" /\ sealer[s] \in Sealings
    BY DEF Whole, LogHead, SealingOf
  <2>2. p.hash \in Seq(Rows) /\ p.seq \in Nat
    BY <1>1, <2>1 DEF SealingOf, OnChain
  <2>3. p = [seq |-> p.seq, hash |-> p.hash]
    BY <1>1 DEF NewHead, HeadAt
  <2> QED BY <1>1, <2>1, <2>2, <2>3 DEF SealingOf, ChainHeads
<1>3. PICK new : new = Returned(s, p, TRUE, Len(sealer[s].rows) >= Batch)
  OBVIOUS
<1>4. /\ sealer' = [sealer EXCEPT ![s] = new] /\ heads' = heads \cup {p}
      /\ UNCHANGED <<log, anchor, lock, witness>>
  BY <1>1, <1>3 DEF LogHead
<1>5. new \in Sealings /\ new.pc \in {"lock", "witness", "idle"} /\ (new.pc = "witness" => new.head = p)
  <2>1. (Len(sealer[s].rows) >= Batch) \in BOOLEAN
    OBVIOUS
  <2> QED BY <1>2, <1>3, <2>1, ReturnedSealings, Zenon
<1>6. Linked' /\ sealer' \in [Sealers -> Sealings] /\ \A q \in Sealers : SealingOf(q)'
  BY <1>2, <1>4, <1>5, SealerMoves, Zenon
<1>7. Locked'
  BY <1>4, <1>5, <1>6 DEF Whole, Locked
<1>8. Shown'
  BY <1>2, <1>4 DEF Whole, Shown, OnChain, Chain
<1> QED BY <1>6, <1>7, <1>8 DEF Whole

\* A head on the chain is never a fork of a witnessed one: both begin the chain.
LEMMA NoFork ==
    ASSUME Whole, NEW head, OnChain(head)
    PROVE  ~Forks(head)
<1>1. SUFFICES ASSUME NEW w \in witness, w.seq = head.seq PROVE w.hash = head.hash
  BY DEF Forks
<1>2. OnChain(w)
  BY DEF Whole, Shown
<1>3. /\ w.hash \in Seq(Rows) /\ head.hash \in Seq(Rows) /\ Len(w.hash) = Len(head.hash)
      /\ \A i \in 1..Len(w.hash) : w.hash[i] = head.hash[i]
  BY <1>1, <1>2 DEF OnChain, Begins
<1> QED BY <1>3, SeqEqual

LEMMA WitnessStep ==
    ASSUME AuditSetup, Whole, NEW s \in Sealers, Witness(s)
    PROVE  Whole'
<1>1. PICK head : head = sealer[s].head
  OBVIOUS
<1>2. OnChain(head) /\ ~Forks(head)
  BY <1>1, NoFork DEF Whole, SealingOf, Witness
<1>3. /\ sealer' = [sealer EXCEPT ![s] = Idle] /\ UNCHANGED <<log, anchor, lock, heads>>
      /\ witness' = witness \/ witness' = witness \cup {[seq |-> head.seq, hash |-> head.hash, status |-> "witnessed"]}
  BY <1>1, <1>2 DEF Witness
<1>4. Linked' /\ sealer' \in [Sealers -> Sealings] /\ \A q \in Sealers : SealingOf(q)'
  BY <1>3, IdleSealing, SealerMoves, Zenon
<1>5. Locked'
  BY <1>3, <1>4, IdleSealing DEF Whole, Locked
<1>6. Shown'
  BY <1>2, <1>3 DEF Whole, Shown, OnChain, Chain
<1> QED BY <1>4, <1>5, <1>6 DEF Whole

LEMMA CommitStep ==
    ASSUME AuditSetup, Whole, NEW s \in Sealers, Commit(s)
    PROVE  Whole'
<1>1. PICK h, t : h = Chain /\ t = sealer[s].rows
  OBVIOUS
<1>2. /\ h \in Seq(Rows) /\ t \in Seq(Rows) /\ Injective(h) /\ Injective(t)
      /\ anchor = [seq |-> Len(h), hash |-> h] /\ sealer[s].head = anchor
      /\ \A j \in 1..Len(t) : t[j] \in Unsealed
  <2>1. sealer[s] \in Sealings /\ sealer[s].pc = "commit" /\ SealingOf(s)
    BY DEF Whole, Commit, SealingOf
  <2>2. t \in Seq(Rows)
    BY <1>1, <2>1 DEF Sealings
  <2> QED BY <1>1, <2>1, <2>2 DEF Whole, Linked, SealingOf
<1>3. /\ anchor' = [seq |-> Len(h) + Len(t), hash |-> h \o t]
      /\ log' = SealedLog(s) /\ lock' = NoOne /\ UNCHANGED <<heads, witness>>
      /\ sealer' = [sealer EXCEPT ![s].pc = "log"]
  BY <1>1, <1>2 DEF Commit, NewHead, HeadAt
<1>4. /\ h \o t \in Seq(Rows) /\ Len(h \o t) = Len(h) + Len(t)
      /\ \A i \in 1..Len(h) : (h \o t)[i] = h[i] /\ LinkOf(h \o t, i) = LinkOf(h, i)
      /\ \A j \in 1..Len(t) : /\ (h \o t)[Len(h) + j] = t[j]
                              /\ LinkOf(h \o t, Len(h) + j) = Link(anchor, t, j)
  <2>1. h \in Seq(Rows) /\ t \in Seq(Rows)
    BY <1>2
  <2>2. \A j \in 1..Len(t) : /\ (h \o t)[Len(h) + j] = t[j]
                             /\ LinkOf(h \o t, Len(h) + j) = Link([seq |-> Len(h), hash |-> h], t, j)
    BY <2>1, Extends, Zenon
  <2>3. \A i \in 1..Len(h) : (h \o t)[i] = h[i] /\ LinkOf(h \o t, i) = LinkOf(h, i)
    BY <2>1, Extends, Zenon
  <2>4. h \o t \in Seq(Rows) /\ Len(h \o t) = Len(h) + Len(t)
    BY <2>1, Extends, Zenon
  <2> QED BY <1>2, <2>2, <2>3, <2>4, Zenon
<1>5. PICK c : c = h \o t
  OBVIOUS
<1>6. Chain' = c /\ c \in Seq(Rows) /\ Len(c) = Len(h) + Len(t) /\ Len(h) \in Nat /\ Len(t) \in Nat
  BY <1>2, <1>3, <1>4, <1>5 DEF Chain
<1>7. Begins(h, c)
  BY <1>4, <1>5, <1>6 DEF Begins
<1>8. ASSUME NEW i \in 1..Len(h)
      PROVE  c[i] = h[i] /\ h[i] \in Rows /\ log[h[i]].seq = i /\ log'[h[i]] = LinkOf(c, i)
  <2>1. h[i] \in Rows /\ log[h[i]] = LinkOf(h, i) /\ LinkOf(h, i).seq = i
    BY <1>1, <1>2, ElementOfSeq, Zenon DEF Whole, Linked, LinkOf
  <2>2. h[i] \notin ToSet(t)
    BY <1>2, <2>1 DEF ToSet, Unsealed
  <2>3. log'[h[i]] = log[h[i]]
    BY <1>1, <1>3, <2>1, <2>2 DEF SealedLog
  <2> QED BY <1>4, <1>5, <2>1, <2>3
<1>9. ASSUME NEW j \in 1..Len(t)
      PROVE  c[Len(h) + j] = t[j] /\ t[j] \in Rows /\ log[t[j]].seq = 0 /\ log'[t[j]] = LinkOf(c, Len(h) + j)
  <2>1. t[j] \in Rows /\ t[j] \in ToSet(t) /\ log[t[j]].seq = 0
    BY <1>2, ElementOfSeq DEF ToSet, Unsealed
  <2>2. (CHOOSE i \in 1..Len(t) : t[i] = t[j]) = j
    BY <1>2 DEF Injective
  <2>3. log'[t[j]] = Link(anchor, t, j)
    BY <1>1, <1>2, <1>3, <2>1, <2>2, Zenon DEF SealedLog
  <2> QED BY <1>4, <1>5, <2>1, <2>3
<1>10. ASSUME NEW i \in 1..Len(c), i > Len(h)
       PROVE  i - Len(h) \in 1..Len(t) /\ Len(h) + (i - Len(h)) = i
  BY <1>6, <1>10
<1>11. Linked'
  <2>1. ASSUME NEW i \in 1..Len(c) PROVE c[i] \in Rows /\ log'[c[i]] = LinkOf(c, i)
    <3>1. CASE i <= Len(h)
      BY <3>1, <1>6, <1>8
    <3>2. CASE i > Len(h)
      <4>1. PICK j \in 1..Len(t) : Len(h) + j = i
        BY <3>2, <1>10
      <4> QED BY <4>1, <1>9
    <3> QED BY <3>1, <3>2, <1>6
  <2>2. Injective(c)
    <3>1. ASSUME NEW i \in 1..Len(c), NEW k \in 1..Len(c), c[i] = c[k], i <= Len(h) PROVE i = k
      <4>1. CASE k <= Len(h)
        BY <3>1, <4>1, <1>2, <1>6, <1>8 DEF Injective
      <4>2. CASE k > Len(h)
        <5>1. i \in 1..Len(h) /\ log[c[i]].seq = i
          BY <3>1, <1>6, <1>8
        <5>2. log[c[k]].seq = 0
          <6>1. k - Len(h) \in 1..Len(t) /\ Len(h) + (k - Len(h)) = k
            BY <4>2, <1>10
          <6>2. c[Len(h) + (k - Len(h))] = t[k - Len(h)] /\ log[t[k - Len(h)]].seq = 0
            BY <6>1, <1>9
          <6> QED BY <6>1, <6>2
        <5> QED BY <3>1, <5>1, <5>2
      <4> QED BY <4>1, <4>2, <1>6
    <3>2. ASSUME NEW i \in 1..Len(c), NEW k \in 1..Len(c), c[i] = c[k], i > Len(h), k > Len(h) PROVE i = k
      <4>1. t[i - Len(h)] = t[k - Len(h)]
        BY <3>2, <1>9, <1>10
      <4>2. i - Len(h) = k - Len(h)
        BY <4>1, <3>2, <1>2, <1>10 DEF Injective
      <4> QED BY <4>2, <1>6
    <3> QED BY <3>1, <3>2, <1>6 DEF Injective
  <2>3. log' \in [Rows -> AuditRows]
    <3>1. ASSUME NEW i \in 1..Len(c) PROVE LinkOf(c, i) \in AuditRows
      <4>1. SubSeq(c, 1, i - 1) \in Seq(Rows) /\ SubSeq(c, 1, i) \in Seq(Rows)
        BY <1>6, SubSeqProperties, ElementOfSeq
      <4>2. i \in Nat
        BY <1>6
      <4> QED BY <4>1, <4>2 DEF LinkOf, AuditRows
    <3>2. ASSUME NEW r \in Rows PROVE log'[r] \in AuditRows
      <4>1. CASE r \in ToSet(t)
        <5>1. PICK j \in 1..Len(t) : t[j] = r
          BY <4>1, <1>2 DEF ToSet
        <5>2. Len(h) + j \in 1..Len(c)
          BY <1>6
        <5> QED BY <5>1, <5>2, <3>1, <1>9
      <4>2. CASE r \notin ToSet(t)
        <5>1. log'[r] = log[r]
          BY <4>2, <1>1, <1>3 DEF SealedLog
        <5> QED BY <5>1 DEF Whole, Linked
      <4> QED BY <4>1, <4>2
    <3>3. log' = [r \in Rows |-> log'[r]]
      BY <1>3 DEF SealedLog
    <3> QED BY <3>2, <3>3
  <2>4. ASSUME NEW r \in Rows, log'[r].seq > 0 PROVE \E i \in 1..Len(c) : c[i] = r
    <3>1. CASE r \in ToSet(t)
      <4>1. PICK j \in 1..Len(t) : t[j] = r
        BY <3>1, <1>2 DEF ToSet
      <4>2. Len(h) + j \in 1..Len(c) /\ c[Len(h) + j] = r
        BY <4>1, <1>6, <1>9
      <4> QED BY <4>2
    <3>2. CASE r \notin ToSet(t)
      <4>1. log'[r] = log[r]
        BY <3>2, <1>1, <1>3 DEF SealedLog
      <4>2. PICK i \in 1..Len(h) : h[i] = r
        BY <4>1, <2>4, <1>1 DEF Whole, Linked
      <4>3. i \in 1..Len(c) /\ c[i] = r
        BY <4>2, <1>6, <1>8
      <4> QED BY <4>3
    <3> QED BY <3>1, <3>2
  <2>5. anchor' = [seq |-> Len(c), hash |-> c]
    BY <1>3, <1>4, <1>5
  <2> QED BY <2>1, <2>2, <2>3, <2>4, <2>5, <1>6 DEF Linked
<1>12. sealer' \in [Sealers -> Sealings] /\ sealer'[s].pc = "log" /\ \A q \in Sealers : q # s => sealer'[q] = sealer[q]
  BY <1>3, Zenon DEF Whole, Locked, Sealings, SealerPcs
<1>13. ASSUME NEW q \in Sealers, q # s PROVE sealer[q].pc \notin {"read", "commit"}
  BY <1>13 DEF Whole, Locked, Commit
<1>14. Locked'
  BY <1>12, <1>13 DEF Locked
<1>15. SealingOf(s)'
  <2>1. NewHead(s)' = [seq |-> Len(h) + Len(t), hash |-> c]
    <3>1. sealer'[s].head = anchor /\ sealer'[s].rows = t
      BY <1>1, <1>2, <1>3 DEF Whole, Locked, Sealings
    <3> QED BY <3>1, <1>2, <1>5 DEF NewHead, HeadAt
  <2>2. Begins(c, c)
    BY <1>6 DEF Begins
  <2>3. OnChain(NewHead(s))'
    BY <2>1, <2>2, <1>6 DEF OnChain
  <2> QED BY <2>3, <1>12 DEF SealingOf
<1>16. ASSUME NEW q \in Sealers, q # s PROVE SealingOf(q)'
  <2>1. SealingOf(q) /\ sealer'[q] = sealer[q] /\ Begins(Chain, Chain') /\ Chain \in Seq(Rows) /\ Chain' \in Seq(Rows)
    BY <1>1, <1>2, <1>6, <1>7, <1>12, <1>16 DEF Whole
  <2> QED BY <2>1, <1>13, <1>16, OtherSealers
<1>17. Shown'
  <2>1. ASSUME NEW p \in heads \cup witness PROVE OnChain(p)'
    <3>1. OnChain(p)
      BY DEF Whole, Shown
    <3> QED BY <3>1, <1>1, <1>2, <1>6, <1>7, StaysOnChain
  <2> QED BY <2>1, <1>3 DEF Whole, Shown
<1> QED BY <1>11, <1>14, <1>15, <1>16, <1>17 DEF Whole

LEMMA AuditStart == ASSUME Init PROVE AuditInv
<1>1. anchor = [seq |-> 0, hash |-> << >>] /\ << >> \in Seq(Rows) /\ Chain = << >> /\ Len(<< >>) = 0
  BY EmptySeq DEF Init, NoHead, HeadAt, GENESIS, Chain
<1>2. log \in [Rows -> AuditRows] /\ \A r \in Rows : log[r].seq = 0
  BY <1>1 DEF Init, Unwritten, GENESIS, AuditRows
<1>3. Linked
  BY <1>1, <1>2 DEF Linked, Injective
<1>4. Locked /\ \A s \in Sealers : SealingOf(s)
  BY IdleSealing DEF Init, Locked, SealingOf
<1>5. Shown
  BY DEF Init, Shown
<1> QED BY <1>3, <1>4, <1>5 DEF AuditInv, Whole

LEMMA AuditStep == ASSUME AuditSetup, AuditInv, [Next]_vars PROVE AuditInv'
<1> SUFFICES ASSUME gone' = {} PROVE Whole'
  BY DEF AuditInv
<1>1. ASSUME NEW r \in Rows, Write(r) PROVE Whole'
  BY <1>1, WriteStep, Zenon DEF AuditInv, Write
<1>2. ASSUME NEW r \in Rows, Lose(r) PROVE FALSE
  BY <1>2, Zenon DEF Lose
<1>3. ASSUME NEW s \in Sealers, Beat(s) \/ SealStep(s) \/ Fail(s) PROVE Whole'
  <2>1. gone = {}
    BY <1>3, Zenon DEF Beat, SealStep, Fail, Lock, Read, Commit, LogHead, Witness
  <2>2. Whole
    BY <2>1 DEF AuditInv
  <2> QED BY <1>3, <2>2, BeatStep, LockStep, ReadStep, CommitStep, LogHeadStep, WitnessStep, FailStep
          DEF SealStep
<1>4. ASSUME UNCHANGED <<log, anchor, lock, sealer, heads, witness, gone>> PROVE Whole'
  BY <1>4 DEF AuditInv, Whole, Locked, Linked, Shown, SealingOf, OnChain, Chain, NewHead, Unsealed
<1>5. ASSUME NEW a \in Asked, NEW e \in heads \cup {NoHead}, VerifyBegin(a[1], a[2], e) PROVE Whole'
  BY <1>4, <1>5 DEF VerifyBegin
<1>6. CASE VerifyAnchors \/ VerifyPage \/ UNCHANGED vars
  BY <1>4, <1>6 DEF VerifyAnchors, VerifyPage, vars
<1> QED BY <1>1, <1>2, <1>3, <1>5, <1>6 DEF Next

\* Unless rows are lost, the sealed rows are numbered without a gap or a repeat
\* and linked by their hashes, the anchor is the head, and what was logged or
\* witnessed is on the chain, however sealers interleave, fail and die in between
\* and in whatever order rows come to be there (seal, _lock_chain, _write_anchor,
\* witness_head).
THEOREM SealedRowsFormAChain == ASSUME AuditSetup PROVE Spec => []ChainIsWhole
<1>1. AuditInv => ChainIsWhole
  <2> SUFFICES ASSUME Whole
               PROVE  /\ Len(CurrentHead.hash) = Cardinality(Sealed)
                      /\ \A i \in 1..Len(CurrentHead.hash) :
                           log[CurrentHead.hash[i]] =
                               [there |-> TRUE, seq |-> i, prev |-> SubSeq(CurrentHead.hash, 1, i - 1),
                                hash |-> SubSeq(CurrentHead.hash, 1, i)]
                      /\ anchor = CurrentHead
                      /\ \A p \in heads \cup witness : IsPrefix(p.hash, CurrentHead.hash)
                      /\ \A w \in witness : w.status = "witnessed"
    BY DEF AuditInv, ChainIsWhole
  <2>1. CurrentHead.hash = Chain /\ CurrentHead = anchor /\ Cardinality(Sealed) = Len(Chain)
    BY TheHead DEF Whole, Chain
  <2>2. \A i \in 1..Len(Chain) : log[Chain[i]] = LinkOf(Chain, i)
    BY DEF Whole, Linked
  <2>3. \A p \in heads \cup witness : IsPrefix(p.hash, Chain)
    BY PrefixesBegin DEF Whole, Shown, OnChain, Linked
  <2> QED BY <2>1, <2>2, <2>3 DEF Whole, Shown, LinkOf
<1>2. Init => AuditInv
  BY AuditStart
<1>3. AuditInv /\ [Next]_vars => AuditInv'
  BY AuditStep
<1> QED BY <1>1, <1>2, <1>3, PTL DEF Spec
=============================================================================
