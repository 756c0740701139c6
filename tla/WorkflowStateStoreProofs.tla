---------------------- MODULE WorkflowStateStoreProofs ----------------------
(***************************************************************************)
(* For any number of clients, keys and edits: the types, the log's          *)
(* consistency and the single effect of a key hold of every run.  Unless two*)
(* processes come to a legacy run at once, no update is lost and the store  *)
(* implements the abstract record of a run (RunRecord), step by step.       *)
(*                                                                          *)
(* The other parts are about what else the engine builds on: the order of a *)
(* definition's steps (TopologicalSort), and what a step returns that has    *)
(* children (ParallelStep).                                                 *)
(***************************************************************************)
EXTENDS WorkflowStateStore, FiniteSetTheorems, SequenceTheorems, WellFoundedInduction, TLAPS

\* A leaf that names no prover is Zenon's; those with arithmetic are for SMT.
USE Zenon

(***************************************************************************)
(* Types                                                                    *)
(***************************************************************************)
LEMMA IdleIsCopy == Idle \in Copies
BY DEF Idle, Copies, Stages, Contents, NoVersion

LEMMA InitTypeOK == Init => TypeOK
BY ConstantsAssumption, IdleIsCopy, SMT DEF Init, TypeOK, NoRow, Contents

\* Replacing one client's copy by another copy keeps the type of mem.
LEMMA CopyReplaced ==
  ASSUME TypeOK, NEW c \in Clients, NEW r \in Copies, mem' = [mem EXCEPT ![c] = r]
  PROVE  mem' \in [Clients -> Copies]
BY DEF TypeOK

LEMMA NextTypeOK == TypeOK /\ [Next]_vars => TypeOK'
<1> SUFFICES ASSUME TypeOK, [Next]_vars PROVE TypeOK'
  OBVIOUS
<1>0. /\ \A c \in Clients : mem[c] \in Copies
      /\ row.content \in Contents /\ row.version \in Nat /\ cache.content \in Contents
  BY DEF TypeOK
<1>1. ASSUME NEW c \in Clients, LoadDurable(c) PROVE TypeOK'
  <2>1. [Idle EXCEPT !.pc = "held", !.content = row.content, !.version = row.version] \in Copies
    BY <1>0, IdleIsCopy DEF Copies, Stages
  <2> QED
    BY <1>1, <2>1, CopyReplaced DEF LoadDurable, TypeOK
<1>2. ASSUME NEW c \in Clients, LoadMiss(c) PROVE TypeOK'
  <2>1. [Idle EXCEPT !.pc = "miss"] \in Copies
    BY IdleIsCopy DEF Copies, Stages
  <2> QED
    BY <1>2, <2>1, CopyReplaced DEF LoadMiss, TypeOK
<1>3. ASSUME NEW c \in Clients, LoadLegacy(c) PROVE TypeOK'
  <2>1. [Idle EXCEPT !.pc = "backfill", !.content = cache.content] \in Copies
    BY <1>0, IdleIsCopy DEF Copies, Stages
  <2> QED
    BY <1>3, <2>1, CopyReplaced DEF LoadLegacy, TypeOK
<1>4. ASSUME NEW c \in Clients, LoadNothing(c) PROVE TypeOK'
  BY <1>4, IdleIsCopy, CopyReplaced DEF LoadNothing, TypeOK
<1>5. ASSUME NEW c \in Clients, StartRun(c) PROVE TypeOK'
  <2>1. [Idle EXCEPT !.pc = "saving"] \in Copies
    BY IdleIsCopy DEF Copies, Stages
  <2> QED
    BY <1>5, <2>1, CopyReplaced DEF StartRun, TypeOK
<1>6. ASSUME NEW c \in Clients, NEW k \in Keys \cup {NoKey}, Edit(c, k) PROVE TypeOK'
  <2> DEFINE r == [mem[c] EXCEPT !.content = @ \cup {edits + 1},
                                 !.key = k,
                                 !.pc = IF k = NoKey THEN "saving" ELSE "keyed"]
  <2>1. edits + 1 \in 1..MaxEdits /\ edits + 1 \in 0..MaxEdits
    BY <1>6, ConstantsAssumption, SMT DEF Edit, TypeOK
  <2>2. mem[c].content \in Contents
    BY <1>0 DEF Copies
  <2>3. mem[c].content \cup {edits + 1} \in Contents
    BY <2>1, <2>2 DEF Contents
  <2>4. r \in Copies
    BY <1>0, <2>3 DEF Copies, Stages
  <2>5. mem' = [mem EXCEPT ![c] = r]
    BY <1>6 DEF Edit
  <2>6. mem' \in [Clients -> Copies]
    BY <2>4, <2>5, CopyReplaced
  <2> QED
    BY <1>6, <2>1, <2>6 DEF Edit, TypeOK
<1>7. ASSUME NEW c \in Clients, CheckKey(c) PROVE TypeOK'
  <2> DEFINE r == [mem[c] EXCEPT !.pc = IF KeyUsed(mem[c].key) THEN "cached" ELSE "saving"]
  <2>1. r \in Copies
    BY <1>0 DEF Copies, Stages
  <2>2. mem' = [mem EXCEPT ![c] = r]
    BY <1>7 DEF CheckKey
  <2>3. mem' \in [Clients -> Copies]
    BY <2>1, <2>2, CopyReplaced
  <2> QED
    BY <1>7, <2>3 DEF CheckKey, TypeOK
<1>8. ASSUME NEW c \in Clients, Commit(c) PROVE TypeOK'
  <2> DEFINE r == [mem[c] EXCEPT !.version = row.version + 1, !.pc = "cached"]
  <2>0. row.version + 1 \in Nat
    BY <1>0, SMT
  <2>1. r \in Copies
    BY <1>0, <2>0 DEF Copies, Stages
  <2>2. mem' = [mem EXCEPT ![c] = r]
    BY <1>8 DEF Commit
  <2>3. mem' \in [Clients -> Copies]
    BY <2>1, <2>2, CopyReplaced
  <2>4. mem[c].content \in Contents /\ mem[c].key \in Keys \cup {NoKey}
    BY <1>0 DEF Copies
  <2>5. /\ row' \in [version : Nat, content : Contents]
        /\ transitions' \in Seq([before : Contents, after : Contents, key : Keys \cup {NoKey}])
    BY <1>8, <1>0, <2>4, SMT DEF Commit, TypeOK
  <2> QED
    BY <1>8, <2>3, <2>5 DEF Commit, TypeOK
<1>9. ASSUME NEW c \in Clients, SaveFails(c) PROVE TypeOK'
  BY <1>9, IdleIsCopy, CopyReplaced DEF SaveFails, TypeOK
<1>10. ASSUME NEW c \in Clients, WriteRedisCache(c) PROVE TypeOK'
  <2> DEFINE r == [mem[c] EXCEPT !.pc = "held", !.key = NoKey]
  <2>1. r \in Copies
    BY <1>0 DEF Copies, Stages
  <2>2. mem' = [mem EXCEPT ![c] = r]
    BY <1>10 DEF WriteRedisCache
  <2>3. mem' \in [Clients -> Copies]
    BY <2>1, <2>2, CopyReplaced
  <2>4. cache' \in [present : BOOLEAN, content : Contents]
    <3>1. mem[c].content \in Contents
      BY <1>0 DEF Copies
    <3>2. CASE cache' = [present |-> TRUE, content |-> mem[c].content]
      BY <3>1, <3>2
    <3>3. CASE UNCHANGED cache
      BY <3>3 DEF TypeOK
    <3> QED
      BY <1>10, <3>2, <3>3 DEF WriteRedisCache
  <2> QED
    BY <1>10, <2>3, <2>4 DEF WriteRedisCache, TypeOK
<1>11. ASSUME NEW c \in Clients, Drop(c) PROVE TypeOK'
  BY <1>11, IdleIsCopy, CopyReplaced DEF Drop, TypeOK
<1>12. CASE UNCHANGED vars
  BY <1>12 DEF vars, TypeOK
<1> QED
  BY <1>1, <1>2, <1>3, <1>4, <1>5, <1>6, <1>7, <1>8, <1>9, <1>10, <1>11, <1>12 DEF Next

\* Every variable keeps its type in every behaviour of the store.
THEOREM TypesHold == Spec => []TypeOK
<1>1. Init => TypeOK
  BY InitTypeOK
<1>2. TypeOK /\ [Next]_vars => TypeOK'
  BY NextTypeOK
<1> QED
  BY <1>1, <1>2, PTL DEF Spec

(***************************************************************************)
(* The log                                                                  *)
(***************************************************************************)
\* Only Commit writes the row or the log.
LEMMA OnlyCommitWrites ==
  ASSUME [Next]_vars, ~ \E c \in Clients : Commit(c)
  PROVE  UNCHANGED <<row, transitions>>
BY DEF Next, vars, LoadDurable, LoadMiss, LoadLegacy, LoadNothing, StartRun, Edit, CheckKey, SaveFails,
       WriteRedisCache, Drop

\* The two invariants of the log, in one induction over the commits.
LEMMA LogAndKeys == Spec => [](LogExplainsRow /\ KeyTakesEffectOnce)
<1> DEFINE Log == LogExplainsRow /\ KeyTakesEffectOnce
<1>1. Init => Log
  BY SMT DEF Init, LogExplainsRow, KeyTakesEffectOnce, NoRow, RowExists
<1>2. TypeOK /\ Log /\ [Next]_vars => Log'
  <2> SUFFICES ASSUME TypeOK, Log, [Next]_vars PROVE Log'
    OBVIOUS
  <2>1. CASE UNCHANGED <<row, transitions>>
    BY <2>1 DEF LogExplainsRow, KeyTakesEffectOnce, RowExists
  <2>2. ASSUME NEW c \in Clients, Commit(c) PROVE Log'
    <3> DEFINE n == Len(transitions)
               t == [before |-> row.content, after |-> mem[c].content, key |-> mem[c].key]
    <3>1. /\ n \in Nat /\ n = row.version
          /\ row.version \in Nat
          /\ transitions' = Append(transitions, t)
          /\ row'.version = row.version + 1 /\ row'.content = mem[c].content
      BY <2>2 DEF Commit, TypeOK, LogExplainsRow
    <3>2. /\ Len(transitions') = n + 1
          /\ transitions'[n + 1] = t
          /\ \A i \in 1..n : transitions'[i] = transitions[i]
      BY <3>1, SMT DEF TypeOK
    <3>3. LogExplainsRow'
      <4>1. Len(transitions') = row'.version
        BY <3>1, <3>2
      <4>2. ASSUME NEW i \in 2..Len(transitions')
            PROVE  transitions'[i].before = transitions'[i - 1].after
        <5>1. CASE i = n + 1
          <6>1. RowExists /\ n \in 1..n /\ i - 1 = n
            BY <5>1, <4>2, <3>1, <3>2, SMT DEF RowExists
          <6>2. transitions[n].after = row.content
            BY <6>1 DEF LogExplainsRow
          <6> QED
            BY <5>1, <6>1, <6>2, <3>2, SMT
        <5>2. CASE i # n + 1
          <6>1. i \in 2..n /\ i \in 1..n /\ i - 1 \in 1..n
            BY <5>2, <4>2, <3>1, <3>2, SMT
          <6> QED
            BY <6>1, <3>2 DEF LogExplainsRow
        <5> QED
          BY <5>1, <5>2
      <4>3. transitions'[Len(transitions')].after = row'.content
        BY <3>1, <3>2, SMT
      <4> QED
        BY <4>1, <4>2, <4>3 DEF LogExplainsRow
    <3>4. KeyTakesEffectOnce'
      <4> SUFFICES ASSUME NEW i \in 1..Len(transitions'), NEW j \in 1..Len(transitions'),
                          transitions'[i].key = transitions'[j].key,
                          transitions'[i].key # NoKey
                   PROVE  i = j
        BY DEF KeyTakesEffectOnce
      <4>1. \A m \in 1..n : mem[c].key # NoKey => transitions[m].key # mem[c].key
        BY <2>2 DEF Commit, Unique, KeyUsed
      <4>2. CASE i \in 1..n /\ j \in 1..n
        BY <4>2, <3>2 DEF KeyTakesEffectOnce
      <4>3. CASE i = n + 1 \/ j = n + 1
        BY <4>1, <4>3, <3>1, <3>2, SMT
      <4> QED
        BY <4>2, <4>3, <3>1, <3>2, SMT
    <3> QED
      BY <3>3, <3>4
  <2> QED
    BY <2>1, <2>2, OnlyCommitWrites
<1> QED
  BY <1>1, <1>2, TypesHold, PTL DEF Spec

\* The row and the log agree after every step of the store: save writes both in
\* one transaction, under the row's lock.
THEOREM LogIsTheHistory == Spec => []LogExplainsRow
BY LogAndKeys, PTL

\* A key is in the log at most once, although save looks it up before it locks
\* the row (the unique index on the run and the key).
THEOREM KeysTakeEffectOnce == Spec => []KeyTakesEffectOnce
BY LogAndKeys, PTL

(***************************************************************************)
(* No lost update                                                           *)
(***************************************************************************)
\* At most one process comes to the run while it is still without its row.
OneLegacyReader == \A c, d \in LegacyReaders : c = d

\* A copy at the row's version holds everything the row holds, and the only copy
\* without a version is the one that is about to insert the row: start_run's, or
\* the backfill of a legacy run.  NoLostUpdate alone is not inductive: it says
\* nothing of the copies still to be written.
CopiesAreCurrent ==
    /\ ~RowExists => row.content = {} /\ cache.content = {}
    /\ ~started => ~RowExists /\ ~cache.present
    /\ \A c \in Clients :
          /\ mem[c].version <= row.version
          /\ ~started => mem[c].pc = "idle"
          /\ ~RowExists /\ cache.present /\ mem[c].pc # "idle" => c \in LegacyReaders
          /\ mem[c].pc # "idle" /\ mem[c].version # NoVersion /\ mem[c].version = row.version
                => row.content \subseteq mem[c].content
          /\ mem[c].pc # "idle" /\ mem[c].version = NoVersion
                => mem[c].pc \in {"miss", "backfill", "saving"} /\ ~RowExists
          /\ mem[c].pc \in {"miss", "backfill"} => mem[c].version = NoVersion
    /\ \A c, d \in Clients :
          /\ mem[c].pc # "idle" /\ mem[c].version = NoVersion
          /\ mem[d].pc # "idle" /\ mem[d].version = NoVersion
          => c = d

\* Both hold unless two processes come to a legacy run at once.
LEMMA CopiesStayCurrent ==
    ASSUME OneLegacyReader PROVE Spec => [](CopiesAreCurrent /\ NoLostUpdate)
<1> DEFINE IInv == CopiesAreCurrent /\ NoLostUpdate
<1>1. Init => IInv
  BY SMT DEF Init, CopiesAreCurrent, NoLostUpdate, NoRow, RowExists, Idle, NoVersion
<1>2. TypeOK /\ IInv /\ [Next]_vars => IInv'
  <2> SUFFICES ASSUME TypeOK, IInv, [Next]_vars PROVE IInv'
    OBVIOUS
  <2>0. /\ row.version \in Nat
        /\ \A c \in Clients : mem[c].version \in Nat
        /\ mem \in [Clients -> Copies]
    BY DEF TypeOK, Copies
  <2>1. ASSUME NEW c \in Clients, LoadDurable(c) PROVE IInv'
    BY <2>0, <2>1, SMT DEF LoadDurable, CopiesAreCurrent, NoLostUpdate, RowExists, Idle, NoVersion
  <2>2. ASSUME NEW c \in Clients, LoadMiss(c) PROVE IInv'
    BY <2>0, <2>2, SMT DEF LoadMiss, CopiesAreCurrent, NoLostUpdate, RowExists, Idle, NoVersion, OneLegacyReader
  <2>3. ASSUME NEW c \in Clients, LoadLegacy(c) PROVE IInv'
    BY <2>0, <2>3 DEF LoadLegacy, CopiesAreCurrent, NoLostUpdate, RowExists, Idle, NoVersion
  <2>4. ASSUME NEW c \in Clients, LoadNothing(c) PROVE IInv'
    BY <2>0, <2>4 DEF LoadNothing, CopiesAreCurrent, NoLostUpdate, RowExists, Idle, NoVersion
  <2>5. ASSUME NEW c \in Clients, StartRun(c) PROVE IInv'
    BY <2>0, <2>5, SMT DEF StartRun, CopiesAreCurrent, NoLostUpdate, RowExists, Idle, NoVersion
  <2>6. ASSUME NEW c \in Clients, NEW k \in Keys \cup {NoKey}, Edit(c, k) PROVE IInv'
    BY <2>0, <2>6, SMT DEF Edit, CopiesAreCurrent, NoLostUpdate, RowExists, NoVersion, Copies
  <2>7. ASSUME NEW c \in Clients, CheckKey(c) PROVE IInv'
    BY <2>0, <2>7, SMT DEF CheckKey, CopiesAreCurrent, NoLostUpdate, RowExists, NoVersion, Copies
  <2>8. ASSUME NEW c \in Clients, Commit(c) PROVE IInv'
    <3> DEFINE n == Len(transitions)
               t == [before |-> row.content, after |-> mem[c].content, key |-> mem[c].key]
    <3>1. row.content \subseteq mem[c].content
      BY <2>0, <2>8 DEF Commit, Current, Writing, CopiesAreCurrent, RowExists, NoVersion
    <3>2. NoLostUpdate'
      <4>1. transitions' = Append(transitions, t) /\ n \in Nat
        BY <2>8, SMT DEF Commit, TypeOK
      <4>2. /\ Len(transitions') = n + 1
            /\ transitions'[n + 1] = t
            /\ \A i \in 1..n : transitions'[i] = transitions[i]
        BY <4>1, SMT DEF TypeOK
      <4> QED
        BY <3>1, <4>1, <4>2, SMT DEF NoLostUpdate
    <3>3. CopiesAreCurrent'
      <4>1. /\ row'.version = row.version + 1 /\ row'.content = mem[c].content
            /\ mem' = [mem EXCEPT ![c] = [mem[c] EXCEPT !.version = row.version + 1, !.pc = "cached"]]
            /\ UNCHANGED started
        BY <2>8 DEF Commit
      <4>2. \A d \in Clients : d # c => mem'[d] = mem[d]
        BY <4>1, <2>0
      <4>3. /\ mem'[c].version = row.version + 1 /\ mem'[c].content = mem[c].content
            /\ mem'[c].pc = "cached"
        BY <4>1, <2>0 DEF Copies
      <4>4. started
        BY <2>8 DEF Commit, CopiesAreCurrent, Writing
      <4>5. \A d \in Clients : d # c /\ mem[d].pc # "idle" => mem[d].version # NoVersion
        BY <2>0, <2>8, SMT DEF Commit, Current, Writing, CopiesAreCurrent, RowExists, NoVersion
      <4> QED
        BY <2>0, <4>1, <4>2, <4>3, <4>4, <4>5, SMT DEF CopiesAreCurrent, RowExists, NoVersion
    <3> QED
      BY <3>2, <3>3
  <2>9. ASSUME NEW c \in Clients, SaveFails(c) PROVE IInv'
    BY <2>0, <2>9, SMT DEF SaveFails, CopiesAreCurrent, NoLostUpdate, RowExists, Idle, NoVersion
  <2>10. ASSUME NEW c \in Clients, WriteRedisCache(c) PROVE IInv'
    BY <2>0, <2>10, SMT DEF WriteRedisCache, CopiesAreCurrent, NoLostUpdate, RowExists, NoVersion, Copies
  <2>11. ASSUME NEW c \in Clients, Drop(c) PROVE IInv'
    BY <2>0, <2>11, SMT DEF Drop, CopiesAreCurrent, NoLostUpdate, RowExists, Idle, NoVersion
  <2>12. CASE UNCHANGED vars
    BY <2>12 DEF vars, CopiesAreCurrent, NoLostUpdate, RowExists
  <2> QED
    BY <2>1, <2>2, <2>3, <2>4, <2>5, <2>6, <2>7, <2>8, <2>9, <2>10, <2>11, <2>12 DEF Next
<1> QED
  BY <1>1, <1>2, TypesHold, PTL DEF Spec

\* No committed update is ever lost, whatever the number of concurrent writers
\* (StaleStateError).  The one exception is a legacy run that two processes load
\* at once: their backfills carry no version (load, redis_legacy_backfill), and
\* the later one overwrites what was saved on the earlier.
THEOREM UpdatesSurvive == ASSUME OneLegacyReader PROVE Spec => []NoLostUpdate
<1>1. Spec => [](CopiesAreCurrent /\ NoLostUpdate)
  BY CopiesStayCurrent
<1> QED
  BY <1>1, PTL

(***************************************************************************)
(* The store implements the record                                          *)
(***************************************************************************)
\* A save that is under way carries an edit the row does not have, unless it is
\* the one that inserts the row, which carries none and no key.
SavesAreNews ==
    /\ row.content \subseteq 1..edits
    /\ \A c \in Clients :
          /\ mem[c].content \subseteq 1..edits
          /\ mem[c].pc \in {"keyed", "saving"} /\ mem[c].version # NoVersion
                /\ mem[c].version = row.version
                => ~(mem[c].content \subseteq row.content)
          /\ mem[c].pc # "idle" /\ mem[c].version = NoVersion
                => mem[c].content = {} /\ mem[c].key = NoKey

LEMMA NewsInit == Init => SavesAreNews
BY SMT DEF Init, SavesAreNews, NoRow, Idle, NoVersion

LEMMA NewsNext ==
    ASSUME TypeOK, CopiesAreCurrent, SavesAreNews, [Next]_vars
    PROVE  SavesAreNews'
<1>0. /\ row.version \in Nat
      /\ \A c \in Clients : mem[c].version \in Nat
      /\ mem \in [Clients -> Copies]
      /\ edits \in Nat
  BY SMT DEF TypeOK, Copies
<1>1. ASSUME NEW c \in Clients, LoadDurable(c) PROVE SavesAreNews'
  BY <1>0, <1>1 DEF LoadDurable, SavesAreNews, RowExists, Idle, NoVersion
<1>2. ASSUME NEW c \in Clients, LoadMiss(c) PROVE SavesAreNews'
  BY <1>0, <1>2 DEF LoadMiss, SavesAreNews, Idle, NoVersion
<1>3. ASSUME NEW c \in Clients, LoadLegacy(c) \/ LoadNothing(c) PROVE SavesAreNews'
  <2>1. cache.content = {}
    BY <1>3 DEF LoadLegacy, LoadNothing, CopiesAreCurrent
  <2>2. /\ mem'[c].content = {} /\ mem'[c].key = NoKey /\ mem'[c].pc \in {"idle", "backfill"}
        /\ \A d \in Clients : d # c => mem'[d] = mem[d]
        /\ row' = row /\ edits' = edits
    <3>1. CASE LoadLegacy(c)
      BY <1>0, <2>1, <3>1 DEF LoadLegacy, Idle
    <3>2. CASE LoadNothing(c)
      BY <1>0, <3>2 DEF LoadNothing, Idle
    <3> QED
      BY <1>3, <3>1, <3>2
  <2> QED
    BY <2>2 DEF SavesAreNews
<1>4. ASSUME NEW c \in Clients, StartRun(c) PROVE SavesAreNews'
  BY <1>0, <1>4 DEF StartRun, SavesAreNews, Idle, NoVersion
<1>5. ASSUME NEW c \in Clients, NEW k \in Keys \cup {NoKey}, Edit(c, k) PROVE SavesAreNews'
  <2>1. /\ mem'[c].content = mem[c].content \cup {edits + 1}
        /\ mem'[c].version = mem[c].version
        /\ \A d \in Clients : d # c => mem'[d] = mem[d]
        /\ row' = row /\ edits' = edits + 1
    BY <1>0, <1>5 DEF Edit, Copies
  <2>2. 1..edits \subseteq 1..edits' /\ edits + 1 \in 1..edits' /\ edits + 1 \notin 1..edits
    BY <1>0, <2>1, SMT
  <2>3. mem[c].version # NoVersion
    BY <1>5 DEF Edit, CopiesAreCurrent
  <2> QED
    BY <2>1, <2>2, <2>3 DEF SavesAreNews
<1>6. ASSUME NEW c \in Clients, CheckKey(c) PROVE SavesAreNews'
  BY <1>0, <1>6 DEF CheckKey, SavesAreNews, Copies
<1>7. ASSUME NEW c \in Clients, Commit(c) PROVE SavesAreNews'
  <2>1. /\ mem'[c].content = mem[c].content
        /\ mem'[c].version = row.version + 1
        /\ mem'[c].pc = "cached"
        /\ \A d \in Clients : d # c => mem'[d] = mem[d]
        /\ row'.version = row.version + 1 /\ row'.content = mem[c].content /\ edits' = edits
    BY <1>0, <1>7 DEF Commit, Copies
  <2>2. \A d \in Clients : mem[d].version # row'.version
    BY <1>0, <2>1, SMT DEF CopiesAreCurrent
  <2> QED
    BY <1>0, <2>1, <2>2, SMT DEF SavesAreNews, NoVersion
<1>8. ASSUME NEW c \in Clients, SaveFails(c) \/ Drop(c) PROVE SavesAreNews'
  BY <1>0, <1>8, SMT DEF SaveFails, Drop, SavesAreNews, Idle
<1>9. ASSUME NEW c \in Clients, WriteRedisCache(c) PROVE SavesAreNews'
  BY <1>0, <1>9 DEF WriteRedisCache, SavesAreNews, Copies
<1>10. CASE UNCHANGED vars
  BY <1>10 DEF vars, SavesAreNews
<1> QED
  BY <1>1, <1>2, <1>3, <1>4, <1>5, <1>6, <1>7, <1>8, <1>9, <1>10 DEF Next

\* The keys in the log, as the record sees them.
KeysUsed == {transitions[i].key : i \in 1..Len(transitions)} \ {NoKey}

\* A commit inserts the row, or takes the record to its next version.
LEMMA CommitIsAnUpdate ==
    ASSUME TypeOK, CopiesAreCurrent, SavesAreNews, NEW c \in Clients, Commit(c)
    PROVE  Record!Next
<1> DEFINE n == Len(transitions)
           k == mem[c].key
           t == [before |-> row.content, after |-> mem[c].content, key |-> k]
<1>0. /\ row.version \in Nat /\ mem[c].version \in Nat /\ mem[c] \in Copies
      /\ k \in Keys \cup {NoKey} /\ mem[c].content \in SUBSET (1..MaxEdits)
  BY DEF TypeOK, Copies, Contents
<1>1. row'.version = row.version + 1 /\ row'.content = mem[c].content
  BY DEF Commit
<1>2. KeysUsed' = KeysUsed \cup ({k} \ {NoKey})
  <2>1. transitions' = Append(transitions, t) /\ n \in Nat
    BY SMT DEF Commit, TypeOK
  <2>2. /\ Len(transitions') = n + 1
        /\ transitions'[n + 1].key = k
        /\ \A i \in 1..n : transitions'[i] = transitions[i]
    BY <2>1, SMT DEF TypeOK
  <2>3. 1..(n + 1) = 1..n \cup {n + 1}
    BY <2>1, SMT
  <2> QED
    BY <2>2, <2>3 DEF KeysUsed
<1>3. CASE mem[c].version = NoVersion
  <2>1. ~RowExists /\ row.version = 0 /\ row.content = {} /\ mem[c].content = {} /\ k = NoKey
    BY <1>3 DEF Commit, Writing, CopiesAreCurrent, SavesAreNews, RowExists
  <2>2. row'.version = 1 /\ row'.content = row.content /\ KeysUsed' = KeysUsed
    BY <1>1, <1>2, <2>1, SMT
  <2>3. Record!Create
    BY <2>1, <2>2 DEF Record!Create, KeysUsed
  <2> QED
    BY <2>3 DEF Record!Next
<1>4. CASE mem[c].version # NoVersion
  <2>1. row.version > 0 /\ mem[c].version = row.version
    BY <1>0, <1>4, SMT DEF Commit, Current, CopiesAreCurrent, RowExists, NoVersion
  <2>2. mem[c].pc = "saving"
    BY <1>4 DEF Commit, Writing, CopiesAreCurrent
  <2>3. row.content \subseteq mem[c].content /\ row.content # mem[c].content
    BY <1>4, <2>1, <2>2 DEF CopiesAreCurrent, SavesAreNews
  <2>4. k \notin KeysUsed
    BY DEF Commit, Unique, KeyUsed, KeysUsed
  <2>5. Record!Update(k)
    BY <1>0, <1>1, <1>2, <2>1, <2>3, <2>4 DEF Record!Update, KeysUsed
  <2> QED
    BY <1>0, <2>5 DEF Record!Next, Record!Update
<1> QED
  BY <1>3, <1>4

\* The store implements the record its callers rely on: created once, only ever
\* growing, one version and at most one use of a key at a time.  Loads, lookups,
\* failed saves and the cache are invisible; a commit is an update of the record.
THEOREM StoreImplementsRecord == ASSUME OneLegacyReader PROVE Spec => ImplementsRunRecord
<1>1. Init => Record!Init
  BY SMT DEF Init, Record!Init, NoRow
<1>2. TypeOK /\ CopiesAreCurrent /\ SavesAreNews /\ [Next]_vars => [Record!Next]_(Record!vars)
  <2> SUFFICES ASSUME TypeOK, CopiesAreCurrent, SavesAreNews, [Next]_vars
               PROVE  [Record!Next]_(Record!vars)
    OBVIOUS
  <2>1. CASE UNCHANGED <<row, transitions>>
    BY <2>1 DEF Record!vars
  <2> QED
    BY <2>1, CommitIsAnUpdate, OnlyCommitWrites
<1>3. Spec => [](CopiesAreCurrent /\ NoLostUpdate)
  BY CopiesStayCurrent
<1>4. TypeOK /\ CopiesAreCurrent /\ SavesAreNews /\ [Next]_vars => SavesAreNews'
  BY NewsNext
<1> QED
  BY <1>1, <1>2, <1>3, <1>4, NewsInit, TypesHold, PTL DEF Spec, ImplementsRunRecord, Record!Spec

(***************************************************************************)
(* The order of the steps                                                  *)
(*                                                                         *)
(* in_degree counts the edges that are not relaxed (Counted), a step is in *)
(* the order or in the queue exactly when none is left, and once.  So the  *)
(* order has every step after the steps with an edge to it; and when the   *)
(* queue runs dry early, each step that is left has an edge from another   *)
(* that is left, and the other way round, the first of such steps could    *)
(* not have been ordered.                                                  *)
(***************************************************************************)
CONSTANTS N, Definitions
VARIABLES def, in_degree, queue, rest, order, result

Sort == INSTANCE TopologicalSort

\* A definition is a finite list of steps with dependencies and fallbacks among them.
SortSetup == N \in Nat /\ Definitions \subseteq Sort!AllDefinitions

Injects(s) == \A i, j \in 1..Len(s) : s[i] = s[j] => i = j
Within(s, x) == \E i \in 1..Len(s) : s[i] = x

\* The edges into a step that are not relaxed.
Unrelaxed(t) == {e \in Sort!Into(t) : ~Within(order, e.from) \/ e \in rest}

SortTyped ==
    /\ def \in Sort!AllDefinitions
    /\ in_degree \in [Sort!Ids -> Nat]
    /\ queue \in Seq(Sort!Ids) /\ order \in Seq(Sort!Ids)
    /\ rest \subseteq Sort!Edges

\* Every step is listed once, in the order or in the queue.
ListedOnce ==
    /\ Injects(order) /\ Injects(queue)
    /\ \A s \in Sort!Ids : ~(Within(order, s) /\ Within(queue, s))

\* in_degree counts the edges that are not relaxed, and a step is listed when
\* there is none.
Counted ==
    /\ \A t \in Sort!Ids : in_degree[t] = Cardinality(Unrelaxed(t))
    /\ \A t \in Sort!Ids : in_degree[t] = 0 <=> Within(order, t) \/ Within(queue, t)
    /\ \A e \in rest : Within(order, e.from)

\* A step is ordered after every step with an edge to it.
Ordered ==
    \A j \in 1..Len(order) : \A e \in Sort!Into(order[j]) : \E i \in 1..(j - 1) : order[i] = e.from

Returned ==
    /\ result \in {"sorting", "sorted", "raised"}
    /\ result # "sorting" =>
         rest = {} /\ queue = << >> /\ (result = "sorted" <=> Len(order) = N)

SortInv == SortTyped /\ ListedOnce /\ Counted /\ Ordered /\ Returned

LEMMA SortCardinality == ASSUME NEW S PROVE Sort!Cardinality(S) = Cardinality(S)
BY DEF Sort!Cardinality, Cardinality, Sort!IsFiniteSet, IsFiniteSet

\* There are finitely many edges.
LEMMA EdgesFinite ==
    ASSUME SortSetup
    PROVE  /\ IsFiniteSet(Sort!Edges)
           /\ \A S \in SUBSET Sort!Edges : IsFiniteSet(S) /\ Cardinality(S) \in Nat
           /\ \A e \in Sort!Edges : e.from \in Sort!Ids /\ e.to \in Sort!Ids
<1> DEFINE Ids == 1..N
           Whys == {"depends_on", "fallback"}
           P == (Ids \X Ids) \X (Ids \X Whys)
           T == [from : Ids, to : Ids, by : Ids, why : Whys]
           f == [p \in P |-> [from |-> p[1][1], to |-> p[1][2], by |-> p[2][1], why |-> p[2][2]]]
<1>1. IsFiniteSet(Ids)
  BY FS_Interval, SMT DEF SortSetup
<1>2. IsFiniteSet(Whys)
  <2>1. IsFiniteSet({"depends_on"})
    BY FS_Singleton
  <2>2. IsFiniteSet({"depends_on"} \cup {"fallback"})
    BY <2>1, FS_AddElement
  <2>3. Whys = {"depends_on"} \cup {"fallback"}
    OBVIOUS
  <2> QED BY <2>2, <2>3
<1>3. IsFiniteSet(P)
  <2> HIDE DEF Ids, Whys
  <2>1. IsFiniteSet(Ids \X Ids) /\ IsFiniteSet(Ids \X Whys)
    BY <1>1, <1>2, FS_Product
  <2> QED BY <2>1, FS_Product
<1>4. f \in Surjection(P, T)
  <2>1. f \in [P -> T]
    OBVIOUS
  <2>2. ASSUME NEW e \in T PROVE \E p \in P : f[p] = e
    <3> DEFINE p == <<<<e.from, e.to>>, <<e.by, e.why>>>>
    <3>1. p \in P
      OBVIOUS
    <3>2. f[p] = e
      BY <3>1
    <3> QED BY <3>1, <3>2
  <2> QED BY <2>1, <2>2 DEF Surjection
<1>5. IsFiniteSet(T)
  BY <1>3, <1>4, FS_Surjection, SMT
<1>6. Sort!Edges \subseteq T
  BY DEF Sort!Edges, Sort!Ids
<1>7. IsFiniteSet(Sort!Edges) /\ \A S \in SUBSET Sort!Edges : IsFiniteSet(S)
  BY <1>5, <1>6, FS_Subset
<1> QED BY <1>6, <1>7, FS_CardinalityType DEF Sort!Ids

\* Precedes is an edge.
LEMMA EdgesPrecede ==
    ASSUME SortTyped, NEW s \in Sort!Ids, NEW t \in Sort!Ids
    PROVE  Sort!Precedes(s, t) <=> \E e \in Sort!Into(t) : e.from = s
<1>1. ASSUME NEW e \in Sort!Into(t), e.from = s PROVE Sort!Precedes(s, t)
  BY <1>1 DEF Sort!Into, Sort!Edges, Sort!Precedes, Sort!FallsBack
<1>2. ASSUME s \in def.dependsOn[t] PROVE \E e \in Sort!Into(t) : e.from = s
  <2> DEFINE e == [from |-> s, to |-> t, by |-> t, why |-> "depends_on"]
  <2>1. e \in Sort!Edges
    BY <1>2 DEF Sort!Edges
  <2> QED BY <2>1, SMT DEF Sort!Into
<1>3. ASSUME s # t, def.fallback[s] = t PROVE \E e \in Sort!Into(t) : e.from = s
  <2> DEFINE e == [from |-> s, to |-> t, by |-> s, why |-> "fallback"]
  <2>1. Sort!FallsBack(s)
    BY <1>3, SMT DEF Sort!FallsBack, Sort!NoStep, Sort!Ids
  <2>2. e \in Sort!Edges
    BY <1>3, <2>1 DEF Sort!Edges
  <2> QED BY <2>2, SMT DEF Sort!Into
<1> QED BY <1>1, <1>2, <1>3 DEF Sort!Precedes

\* The steps of S in definition order: each once, and all of them.
LEMMA DefinitionOrder ==
    ASSUME SortSetup, NEW S \in SUBSET Sort!Ids, NEW q \in Sort!InDefinitionOrder(S)
    PROVE  /\ q \in Seq(Sort!Ids) /\ Injects(q)
           /\ \A s \in Sort!Ids : Within(q, s) <=> s \in S
<1> DEFINE n == Cardinality(S)
<1>1. IsFiniteSet(S) /\ n \in Nat
  <2>1. IsFiniteSet(1..N)
    BY FS_Interval, SMT DEF SortSetup
  <2> QED BY <2>1, FS_Subset, FS_CardinalityType DEF Sort!Ids
<1>2. q \in [1..n -> S] /\ \A i, j \in 1..n : i < j => q[i] < q[j]
  BY SortCardinality DEF Sort!InDefinitionOrder
<1>3. q \in Seq(S) /\ Len(q) = n
  BY <1>1, <1>2, SMT
<1>4. Injects(q)
  <2> SUFFICES ASSUME NEW i \in 1..n, NEW j \in 1..n, q[i] = q[j] PROVE i = j
    BY <1>3 DEF Injects
  <2>1. q[i] \in Int
    <3>1. q[i] \in S
      BY <1>2
    <3>2. q[i] \in Sort!Ids
      BY <3>1
    <3>3. \A x \in Sort!Ids : x \in Int
      BY SMT DEF Sort!Ids
    <3> QED BY <3>2, <3>3
  <2>2. ~(i < j) /\ ~(j < i)
    BY <1>2, <2>1, SMT
  <2> QED BY <1>1, <2>2, SMT
<1>5. \A s \in S : Within(q, s)
  <2>1. q \in Injection(1..n, S)
    BY <1>2, <1>3, <1>4 DEF Injection, IsInjective, Injects
  <2>2. Cardinality(1..n) = Cardinality(S)
    BY <1>1, FS_Interval, SMT
  <2>3. q \in Surjection(1..n, S)
    BY <1>1, <2>1, <2>2, FS_Injection
  <2> QED BY <1>3, <2>3 DEF Surjection, Within
<1> QED BY <1>2, <1>3, <1>4, <1>5, SMT DEF Within

LEMMA SortInit == ASSUME SortSetup, Sort!Init PROVE SortInv
<1>1. def \in Sort!AllDefinitions /\ rest = {} /\ order = << >> /\ result = "sorting"
  BY DEF Sort!Init, SortSetup
<1>2. \A t \in Sort!Ids : Sort!Into(t) \subseteq Sort!Edges /\ Unrelaxed(t) = Sort!Into(t)
  BY <1>1, SMT DEF Unrelaxed, Within, Sort!Into
<1>3. \A t \in Sort!Ids : in_degree[t] = Cardinality(Unrelaxed(t)) /\ in_degree[t] \in Nat
  BY <1>2, SortCardinality, EdgesFinite DEF Sort!Init
<1>4. /\ queue \in Seq(Sort!Ids) /\ Injects(queue)
      /\ \A s \in Sort!Ids : Within(queue, s) <=> in_degree[s] = 0
  <2> DEFINE S == {s \in Sort!Ids : in_degree[s] = 0}
  <2>1. queue \in Sort!InDefinitionOrder(S)
    BY DEF Sort!Init
  <2> QED BY <2>1, DefinitionOrder
<1>5. SortTyped
  BY <1>1, <1>3, <1>4, SMT DEF SortTyped, Sort!Init
<1>6. \A s : ~Within(order, s)
  BY <1>1, SMT DEF Within
<1> QED BY <1>1, <1>3, <1>4, <1>5, <1>6, SMT DEF SortInv, ListedOnce, Counted, Ordered, Returned, Injects

LEMMA PopStep == ASSUME SortSetup, SortInv, Sort!Pop PROVE SortInv'
<1> DEFINE s == Head(queue)
           n == Len(order)
<1>1. /\ result = "sorting" /\ rest = {} /\ queue # << >> /\ order' = Append(order, s)
      /\ queue' = Tail(queue) /\ rest' = Sort!OutOf(s) /\ UNCHANGED <<def, in_degree, result>>
  BY DEF Sort!Pop
<1>2. /\ s \in Sort!Ids /\ order' \in Seq(Sort!Ids) /\ queue' \in Seq(Sort!Ids)
      /\ n \in Nat /\ Len(order') = n + 1 /\ order'[n + 1] = s /\ \A i \in 1..n : order'[i] = order[i]
      /\ Len(queue) \in Nat \ {0} /\ Len(queue') = Len(queue) - 1
      /\ \A i \in 1..Len(queue') : queue'[i] = queue[i + 1]
      /\ queue[1] = s
  BY <1>1, SMT DEF SortInv, SortTyped
<1> HIDE DEF s
<1>3. \A x : Within(order, x)' <=> Within(order, x) \/ x = s
  BY <1>2, SMT DEF Within
<1>4. Within(queue, s) /\ ~Within(order, s) /\ \A x : Within(queue, x)' <=> Within(queue, x) /\ x # s
  <2>1. Within(queue, s) /\ ~Within(order, s)
    BY <1>2, SMT DEF Within, SortInv, ListedOnce
  <2>2. ASSUME NEW x, Within(queue, x)' PROVE Within(queue, x) /\ x # s
    <3>1. PICK i \in 1..Len(queue') : queue'[i] = x
      BY <2>2 DEF Within
    <3>2. i + 1 \in 1..Len(queue) /\ queue[i + 1] = x /\ i + 1 # 1 /\ 1 \in 1..Len(queue)
      BY <1>2, <3>1, SMT
    <3> QED BY <1>2, <3>2 DEF Within, SortInv, ListedOnce, Injects
  <2>3. ASSUME NEW x, Within(queue, x), x # s PROVE Within(queue, x)'
    <3>1. PICK i \in 1..Len(queue) : queue[i] = x
      BY <2>3 DEF Within
    <3>2. i - 1 \in 1..Len(queue') /\ queue'[i - 1] = x
      BY <1>2, <2>3, <3>1, SMT
    <3> QED BY <3>2 DEF Within
  <2> QED BY <2>1, <2>2, <2>3
<1>5. UNCHANGED <<Sort!Edges>> /\ \A t : UNCHANGED Sort!Into(t)
  BY <1>1 DEF Sort!Edges, Sort!Into, Sort!FallsBack
<1>6. SortTyped'
  BY <1>1, <1>2, <1>5 DEF SortInv, SortTyped, Sort!OutOf
<1>7. ListedOnce'
  <2>1. Injects(order)'
    <3> SUFFICES ASSUME NEW i \in 1..(n + 1), NEW j \in 1..(n + 1), order'[i] = order'[j] PROVE i = j
      BY <1>2 DEF Injects
    <3>1. CASE i \in 1..n /\ j \in 1..n
      BY <1>2, <3>1 DEF SortInv, ListedOnce, Injects
    <3>2. CASE i = n + 1 \/ j = n + 1
      BY <1>2, <1>4, <3>2, SMT DEF Within
    <3> QED BY <1>2, <3>1, <3>2, SMT
  <2>2. Injects(queue)'
    BY <1>2, SMT DEF SortInv, ListedOnce, Injects
  <2> QED BY <1>3, <1>4, <2>1, <2>2 DEF SortInv, ListedOnce
<1>8. \A t \in Sort!Ids : Unrelaxed(t)' = Unrelaxed(t)
  BY <1>1, <1>3, <1>4, <1>5 DEF Unrelaxed, Sort!OutOf, Sort!Into
<1>9. Counted'
  BY <1>1, <1>3, <1>4, <1>8 DEF SortInv, Counted, Sort!OutOf
<1>10. Ordered'
  <2> SUFFICES ASSUME NEW j \in 1..(n + 1), NEW e \in Sort!Into(order'[j])
               PROVE  \E i \in 1..(j - 1) : order'[i] = e.from
    BY <1>2, <1>5 DEF Ordered
  <2>1. CASE j \in 1..n
    <3>1. PICK i \in 1..(j - 1) : order[i] = e.from
      BY <1>2, <2>1 DEF SortInv, Ordered
    <3>2. i \in 1..n
      BY <1>2, <2>1, SMT
    <3>3. order'[i] = order[i]
      BY <1>2, <3>2
    <3> QED BY <3>1, <3>3
  <2>2. CASE j = n + 1
    <3>1. in_degree[s] = 0 /\ e \in Sort!Into(s)
      BY <1>2, <1>4, <2>2 DEF SortInv, Counted
    <3>2. IsFiniteSet(Unrelaxed(s)) /\ Cardinality(Unrelaxed(s)) = 0
      <4>1. Unrelaxed(s) \subseteq Sort!Edges
        BY DEF Unrelaxed, Sort!Into
      <4> QED BY <1>2, <3>1, <4>1, EdgesFinite DEF SortInv, Counted
    <3>3. Unrelaxed(s) = {}
      BY <3>2, FS_EmptySet
    <3>4. Within(order, e.from)
      BY <3>1, <3>3 DEF Unrelaxed
    <3> QED BY <1>2, <2>2, <3>4, SMT DEF Within
  <2> QED BY <1>2, <2>1, <2>2, SMT
<1> QED BY <1>1, <1>6, <1>7, <1>9, <1>10 DEF SortInv, Returned

LEMMA RelaxStep == ASSUME SortSetup, SortInv, Sort!Relax PROVE SortInv'
<1>1. PICK e \in rest :
        /\ in_degree' = [in_degree EXCEPT ![e.to] = @ - 1]
        /\ queue' = IF in_degree[e.to] = 1 THEN Append(queue, e.to) ELSE queue
        /\ rest' = rest \ {e} /\ UNCHANGED <<def, order, result>>
  BY DEF Sort!Relax
<1> DEFINE t == e.to
           n == Len(queue)
<1>2. e \in Sort!Edges /\ t \in Sort!Ids /\ e.from \in Sort!Ids /\ e \in Unrelaxed(t)
  BY EdgesFinite DEF SortInv, SortTyped, Unrelaxed, Sort!Into
<1> HIDE DEF t
<1>3. UNCHANGED <<Sort!Edges>> /\ (\A x : UNCHANGED Sort!Into(x)) /\ \A x : Within(order, x)' <=> Within(order, x)
  BY <1>1 DEF Sort!Edges, Sort!Into, Sort!FallsBack, Within
<1>4. /\ Unrelaxed(t)' = Unrelaxed(t) \ {e}
      /\ \A x \in Sort!Ids \ {t} : Unrelaxed(x)' = Unrelaxed(x)
  <2>1. Within(order, e.from)
    BY DEF SortInv, Counted
  <2>2. \A x \in Sort!Ids \ {t} : e \notin Sort!Into(x)
    BY DEF Sort!Into, t
  <2> QED BY <1>1, <1>3, <2>1, <2>2 DEF Unrelaxed
<1>5. /\ in_degree[t] \in Nat \ {0} /\ in_degree'[t] = in_degree[t] - 1
      /\ \A x \in Sort!Ids \ {t} : in_degree'[x] = in_degree[x]
      /\ \A x \in Sort!Ids : in_degree'[x] = Cardinality(Unrelaxed(x)')
      /\ in_degree' \in [Sort!Ids -> Nat]
  <2>1. Unrelaxed(t) \subseteq Sort!Edges
    BY DEF Unrelaxed, Sort!Into
  <2>2. IsFiniteSet(Unrelaxed(t)) /\ in_degree[t] = Cardinality(Unrelaxed(t)) /\ in_degree[t] \in Nat
    BY <1>2, <2>1, EdgesFinite DEF SortInv, Counted
  <2>3. Cardinality(Unrelaxed(t) \ {e}) = in_degree[t] - 1
    BY <1>2, <2>2, FS_RemoveElement
  <2>4. in_degree[t] # 0
    BY <1>2, <2>2, FS_EmptySet
  <2>5. in_degree'[t] = in_degree[t] - 1 /\ \A x \in Sort!Ids \ {t} : in_degree'[x] = in_degree[x]
    BY <1>1, <1>2 DEF t, SortInv, SortTyped
  <2>6. \A x \in Sort!Ids : in_degree'[x] = Cardinality(Unrelaxed(x)')
    BY <1>4, <2>3, <2>5 DEF SortInv, Counted
  <2>7. in_degree' \in [Sort!Ids -> Nat]
    BY <1>1, <1>2, <2>2, <2>4, SMT DEF t, SortInv, SortTyped
  <2> QED BY <2>2, <2>4, <2>5, <2>6, <2>7
<1>6. ~Within(order, t) /\ ~Within(queue, t)
  BY <1>2, <1>5 DEF SortInv, Counted
<1>7. /\ queue' \in Seq(Sort!Ids) /\ Injects(queue)'
      /\ \A x : Within(queue, x)' <=> Within(queue, x) \/ (x = t /\ in_degree[t] = 1)
  <2>1. CASE in_degree[t] = 1
    <3>1. /\ queue' \in Seq(Sort!Ids) /\ n \in Nat /\ Len(queue') = n + 1 /\ queue'[n + 1] = t
          /\ \A i \in 1..n : queue'[i] = queue[i]
      BY <1>1, <1>2, <2>1, SMT DEF t, SortInv, SortTyped
    <3>2. Injects(queue)'
      <4> SUFFICES ASSUME NEW i \in 1..(n + 1), NEW j \in 1..(n + 1), queue'[i] = queue'[j] PROVE i = j
        BY <3>1 DEF Injects
      <4>1. CASE i \in 1..n /\ j \in 1..n
        BY <3>1, <4>1 DEF SortInv, ListedOnce, Injects
      <4>2. CASE i = n + 1 \/ j = n + 1
        BY <1>6, <3>1, <4>2, SMT DEF Within
      <4> QED BY <3>1, <4>1, <4>2, SMT
    <3>3. \A x : Within(queue, x)' <=> Within(queue, x) \/ x = t
      BY <3>1, SMT DEF Within
    <3> QED BY <2>1, <3>1, <3>2, <3>3
  <2>2. CASE in_degree[t] # 1
    <3>1. queue' = queue
      BY <1>1, <2>2 DEF t
    <3> QED BY <2>2, <3>1 DEF SortInv, SortTyped, ListedOnce, Within, Injects
  <2> QED BY <2>1, <2>2
<1>8. SortTyped'
  BY <1>1, <1>3, <1>5, <1>7 DEF SortInv, SortTyped
<1>9. ListedOnce'
  BY <1>1, <1>3, <1>6, <1>7 DEF SortInv, ListedOnce, Injects
<1>10. Counted'
  <2>1. \A x \in Sort!Ids : in_degree'[x] = 0 <=> Within(order, x)' \/ Within(queue, x)'
    BY <1>3, <1>5, <1>6, <1>7, SMT DEF SortInv, Counted
  <2>2. \A f \in rest' : Within(order, f.from)'
    BY <1>1, <1>3 DEF SortInv, Counted
  <2> QED BY <1>5, <2>1, <2>2 DEF Counted
<1>11. Ordered' /\ Returned'
  BY <1>1, <1>3, SMT DEF SortInv, Ordered, Returned
<1> QED BY <1>8, <1>9, <1>10, <1>11 DEF SortInv

LEMMA SortStep == ASSUME SortSetup, SortInv, [Sort!Next]_(Sort!vars) PROVE SortInv'
<1>1. ASSUME UNCHANGED <<def, in_degree, queue, rest, order>>
      PROVE  SortTyped' /\ ListedOnce' /\ Counted' /\ Ordered'
  BY <1>1, SMT DEF SortInv, SortTyped, ListedOnce, Counted, Ordered, Injects, Within, Unrelaxed, Sort!Into,
                   Sort!Edges, Sort!FallsBack
<1>2. CASE Sort!Finish
  BY <1>1, <1>2 DEF Sort!Finish, SortInv, Returned
<1>3. CASE Sort!Done \/ UNCHANGED Sort!vars
  BY <1>1, <1>3 DEF Sort!Done, Sort!vars, SortInv, Returned
<1> QED BY <1>2, <1>3, PopStep, RelaxStep DEF Sort!Next

\* A set of naturals has a least element.
LEMMA LeastOf == ASSUME NEW T \in SUBSET Nat, T # {} PROVE \E x \in T : \A y \in T : x <= y
<1> DEFINE R == OpToRel(<, Nat)
<1>1. \A x, y \in Nat : y < x => <<y, x>> \in R
  BY DEF OpToRel
<1>2. IsWellFoundedOn(R, Nat)
  BY NatLessThanWellFounded
<1> HIDE DEF R
<1>3. \E x \in T : \A y \in T : ~(<<y, x>> \in R)
  BY <1>2, WFMin
<1>4. PICK x \in T : \A y \in T : ~(<<y, x>> \in R)
  BY <1>3
<1>5. ASSUME NEW y \in T PROVE x <= y
  <2>1. x \in Nat /\ y \in Nat
    OBVIOUS
  <2>2. ~(y < x)
    BY <1>1, <1>4, <2>1
  <2> QED BY <2>1, <2>2, SMT
<1> QED BY <1>5

LEMMA UpTo == ASSUME NEW n \in Nat PROVE IsFiniteSet(1..n) /\ Cardinality(1..n) = n
BY FS_Interval, SMT

LEMMA SoundFromInv == ASSUME SortSetup, SortInv PROVE Sort!OrderIsSound
<1> USE DEF SortInv
<1>1. ASSUME result = "sorted"
      PROVE  /\ Len(order) = N
             /\ \A i, j \in Sort!Ids : Sort!Precedes(order[i], order[j]) => i < j
             /\ \A s \in Sort!Ids : \E i \in Sort!Ids : order[i] = s
  <2>1. Len(order) = N /\ order \in [1..N -> 1..N]
    BY <1>1, SMT DEF Returned, SortTyped, Sort!Ids
  <2>2. ASSUME NEW i \in 1..N, NEW j \in 1..N, Sort!Precedes(order[i], order[j]) PROVE i < j
    <3>1. PICK e \in Sort!Into(order[j]) : e.from = order[i]
      BY <2>1, <2>2, EdgesPrecede DEF Sort!Ids
    <3>2. PICK k \in 1..(j - 1) : order[k] = order[i]
      BY <2>1, <3>1 DEF Ordered
    <3>3. k \in 1..N /\ k < j
      BY <3>2, SMT DEF SortSetup
    <3>4. k = i
      BY <2>1, <3>2, <3>3 DEF ListedOnce, Injects
    <3> QED BY <3>3, <3>4
  <2>3. order \in Surjection(1..N, 1..N)
    <3>1. order \in Injection(1..N, 1..N)
      BY <2>1 DEF ListedOnce, Injects, Injection, IsInjective
    <3>2. IsFiniteSet(1..N)
      BY FS_Interval, SMT DEF SortSetup
    <3> QED BY <3>1, <3>2, FS_Injection
  <2> QED BY <2>1, <2>2, <2>3 DEF Sort!Ids, Surjection
<1>2. ASSUME result = "sorted", NEW S \in SUBSET Sort!Ids, S # {}, \A t \in S : \E s \in S : Sort!Precedes(s, t)
      PROVE  FALSE
  <2> DEFINE T == {i \in 1..N : order[i] \in S}
  <2>1. T \in SUBSET Nat /\ T # {}
    <3>1. PICK s \in S : TRUE
      BY <1>2
    <3>2. PICK i \in 1..N : order[i] = s
      BY <1>1, <1>2 DEF Sort!Ids
    <3> QED BY <3>1, <3>2, SMT DEF SortSetup
  <2>2. PICK i \in T : \A j \in T : i <= j
    BY <2>1, LeastOf
  <2>3. PICK s \in S : Sort!Precedes(s, order[i])
    BY <1>2, <2>2
  <2>4. PICK j \in 1..N : order[j] = s
    BY <1>1, <1>2 DEF Sort!Ids
  <2>5. j < i /\ j \in T
    BY <1>1, <1>2, <2>2, <2>3, <2>4 DEF Sort!Ids
  <2> QED BY <2>2, <2>5, SMT DEF SortSetup
<1>3. ASSUME result = "raised"
      PROVE  \E S \in (SUBSET Sort!Ids) \ {{}} : \A t \in S : \E s \in S : Sort!Precedes(s, t)
  <2> DEFINE S == {s \in Sort!Ids : ~Within(order, s)}
  <2>1. rest = {} /\ queue = << >> /\ Len(order) # N
    BY <1>3 DEF Returned
  <2>2. S # {}
    <3> SUFFICES ASSUME S = {} PROVE FALSE
      OBVIOUS
    <3>1. order \in [1..Len(order) -> 1..N] /\ Len(order) \in Nat
      <4>1. order \in Seq(1..N)
        BY DEF SortTyped, Sort!Ids
      <4> QED BY <4>1, LenProperties
    <3>2. order \in Injection(1..Len(order), 1..N)
      BY <3>1 DEF ListedOnce, Injects, Injection, IsInjective
    <3>3. order \in Surjection(1..Len(order), 1..N)
      BY <3>1 DEF Surjection, Within, Sort!Ids
    <3>4. /\ IsFiniteSet(1..N) /\ Cardinality(1..N) = N
          /\ Cardinality(1..Len(order)) = Len(order)
      <4>1. 1 \in Int /\ N \in Nat /\ Len(order) \in Nat
        BY <3>1, SMT DEF SortSetup
      <4> QED BY <4>1, UpTo
    <3>5. Cardinality(1..Len(order)) = Cardinality(1..N)
      BY <3>2, <3>3, <3>4, FS_Injection
    <3> QED BY <2>1, <3>4, <3>5
  <2>3. ASSUME NEW t \in S PROVE \E s \in S : Sort!Precedes(s, t)
    <3>1. Unrelaxed(t) # {}
      <4>1. in_degree[t] # 0
        BY <2>1, SMT DEF Counted, Within
      <4>2. Cardinality({}) = 0
        BY FS_EmptySet
      <4> QED BY <4>1, <4>2 DEF Counted
    <3>2. PICK e \in Unrelaxed(t) : TRUE
      BY <3>1
    <3>3. e \in Sort!Into(t) /\ ~Within(order, e.from) /\ e.from \in Sort!Ids
      BY <2>1, EdgesFinite DEF Unrelaxed, Sort!Into
    <3> QED BY <3>3, EdgesPrecede
  <2> QED BY <2>2, <2>3
<1>4. result \in {"sorting", "sorted", "raised"}
  BY DEF Returned
<1> HIDE DEF SortInv
<1> QED BY <1>1, <1>2, <1>3, <1>4 DEF Sort!OrderIsSound

\* For any list of steps with dependencies and fallbacks: the order that
\* _topological_sort returns names every step once, after the steps it depends
\* on and the steps it is the fallback of, and it raises exactly when some steps
\* each wait for another, a cycle or a self-dependency.
THEOREM SortIsSound ==
    ASSUME SortSetup
    PROVE  Sort!Spec => []Sort!OrderIsSound
<1>1. Sort!Init => SortInv
  BY SortInit
<1>2. SortInv /\ [Sort!Next]_(Sort!vars) => SortInv'
  BY SortStep
<1>3. SortInv => Sort!OrderIsSound
  BY SoundFromInv
<1> QED BY <1>1, <1>2, <1>3, PTL DEF Sort!Spec

(***************************************************************************)
(* Steps with children                                                     *)
(*                                                                         *)
(* While the step waits, no child has been told to stop, so a child is at  *)
(* work, finished and uncollected, or collected (Waits).  The wait ends with*)
(* what wait_for asks for or with all children (Ends).  From then on only  *)
(* children that were not collected change, and what the step has collected*)
(* is what it returns.                                                     *)
(***************************************************************************)
CONSTANTS Children, Policies, Decisions, None
VARIABLES policy, begun, child, ready, results, left, step, winner

Par == INSTANCE ParallelStep WITH started <- begun

\* The instance counts as the library does.
LEMMA ChildrenCardinality == \A S : Par!Cardinality(S) = Cardinality(S)
BY DEF Par!Cardinality, Cardinality, Par!IsFiniteSet, IsFiniteSet

Outcomes ==
    [status : {"running", "cancelling", "cancelled", "completed", "failed"},
     decision : Decisions \cup {None}]

\* wait_for, or a collaboration's merge strategy, is one the code knows.
KnownPolicies == \A p \in Policies : p.how \in {"all", "any", "count", "merge", "vote", "first"}

\* What is collected, or waits to be, has finished.
Settled ==
    /\ policy \in Policies
    /\ begun \subseteq Children
    /\ child \in [Children -> Outcomes]
    /\ ready \in Seq(begun) /\ Par!Range(ready) \cap Par!Unsettled = {}
    /\ results \subseteq begun \ Par!Unsettled
    /\ left \subseteq begun
    /\ step \in {"wait", "drain", "completed", "failed", "timed_out"} \cup Par!Raised

Waits ==
    step = "wait" =>
        /\ \A c \in begun : child[c] \notin {Par!Cancelling, Par!Cancelled}
        /\ begun \subseteq Par!Unsettled \cup results \cup Par!Range(ready)

Ends ==
    step # "wait" =>
        /\ Par!Is("all") => results = begun
        /\ policy.how \in {"any", "count"} => results = begun \/ Par!Satisfied

StepInv == Settled /\ Waits /\ Ends /\ Par!ChildrenAnswerForStep

LEMMA Marks ==
    /\ Par!Running \in Outcomes /\ Par!Cancelling \in Outcomes /\ Par!Cancelled \in Outcomes
    /\ Par!Running # Par!Cancelling /\ Par!Running # Par!Cancelled /\ Par!Cancelling # Par!Cancelled
    /\ \A o \in Outcomes : o.status \in {"completed", "failed"} => o \notin {Par!Running, Par!Cancelling, Par!Cancelled}
BY SMT DEF Par!Running, Par!Cancelling, Par!Cancelled, Par!Outcome, Outcomes

LEMMA StepInit == Par!Init => StepInv
<1> SUFFICES ASSUME Par!Init PROVE StepInv
  OBVIOUS
<1>1. Par!Range(ready) = {}
  BY SMT DEF Par!Init, Par!Range
<1>2. Settled
  BY <1>1, Marks, SMT DEF Par!Init, Settled
<1>3. Waits
  BY <1>1, Marks DEF Par!Init, Waits, Par!Unsettled
<1> QED BY <1>2, <1>3 DEF Par!Init, StepInv, Ends, Par!ChildrenAnswerForStep

\* A child that was not collected settles, or is told to stop: what the step has
\* collected stays as it is.
LEMMA ChildMoves ==
    ASSUME StepInv, UNCHANGED <<policy, begun, results, step, winner>>,
           child' \in [Children -> Outcomes],
           \A d \in begun : child'[d] # child[d] => d \in Par!Unsettled,
           step \in {"wait", "drain"} \cup Par!Raised
    PROVE  Ends' /\ Par!ChildrenAnswerForStep'
<1>1. Par!Completed(results)' = Par!Completed(results)
  BY DEF Par!Completed, StepInv, Settled
<1>2. Par!Satisfied' = Par!Satisfied
  BY <1>1 DEF Par!Satisfied, Par!Is
<1>3. Ends'
  BY <1>1, <1>2 DEF StepInv, Ends, Par!Is, Par!Satisfied
<1> QED BY <1>3 DEF Par!ChildrenAnswerForStep

LEMMA FinishStep ==
    ASSUME StepInv, NEW c \in Children, Par!Finish(c)
    PROVE  StepInv'
<1>1. PICK o \in Outcomes : o.status \in {"completed", "failed"} /\ child' = [child EXCEPT ![c] = o]
  <2>1. PICK s \in {"completed", "failed"}, d \in Decisions \cup {None} : child' = [child EXCEPT ![c] = Par!Outcome(s, d)]
    BY DEF Par!Finish
  <2>2. Par!Outcome(s, d) \in Outcomes /\ Par!Outcome(s, d).status = s
    BY DEF Par!Outcome, Outcomes
  <2> QED BY <2>1, <2>2
<1>2. /\ c \in begun /\ c \in Par!Unsettled /\ ready' = Append(ready, c)
      /\ UNCHANGED <<policy, begun, results, left, step, winner>>
  BY DEF Par!Finish, Par!Unsettled
<1>3. Par!Unsettled' = Par!Unsettled \ {c}
  BY <1>1, <1>2, Marks DEF Par!Unsettled, StepInv, Settled
<1>4. ready' \in Seq(begun) /\ Par!Range(ready') = Par!Range(ready) \cup {c}
  BY <1>2, SMT DEF Par!Range, StepInv, Settled
<1>5. Settled'
  BY <1>1, <1>2, <1>3, <1>4 DEF StepInv, Settled
<1>6. Waits'
  BY <1>1, <1>2, <1>3, <1>4, Marks DEF StepInv, Settled, Waits
<1>7. step \in {"wait", "drain"} \cup Par!Raised
  BY <1>2 DEF StepInv, Settled, Par!ChildrenAnswerForStep
<1>8. child' \in [Children -> Outcomes] /\ \A d \in begun : child'[d] # child[d] => d \in Par!Unsettled
  BY <1>1, <1>2 DEF StepInv, Settled
<1> QED BY <1>2, <1>5, <1>6, <1>7, <1>8, ChildMoves DEF StepInv

LEMMA StopsStep ==
    ASSUME StepInv, NEW c \in Children, Par!Stops(c)
    PROVE  StepInv'
<1>1. /\ c \in begun /\ c \in Par!Unsettled /\ child[c] = Par!Cancelling
      /\ child' = [child EXCEPT ![c] = Par!Cancelled]
      /\ UNCHANGED <<policy, begun, ready, results, left, step, winner>>
  BY DEF Par!Stops, Par!Unsettled
<1>2. Par!Unsettled' = Par!Unsettled \ {c}
  BY <1>1, Marks DEF Par!Unsettled, StepInv, Settled
<1>3. step \in {"drain"} \cup Par!Raised
  BY <1>1 DEF StepInv, Settled, Waits, Par!ChildrenAnswerForStep
<1>4. child' \in [Children -> Outcomes] /\ \A d \in begun : child'[d] # child[d] => d \in Par!Unsettled
  BY <1>1, Marks DEF StepInv, Settled
<1>5. Settled' /\ Waits'
  BY <1>1, <1>2, <1>3, <1>4 DEF StepInv, Settled, Waits, Par!Raised
<1> QED BY <1>1, <1>3, <1>4, <1>5, ChildMoves DEF StepInv

LEMMA CancelStep ==
    ASSUME StepInv, NEW c \in Children, Par!CancelNext(c)
    PROVE  StepInv'
<1>1. /\ step = "drain" /\ left' = left \ {c}
      /\ child' = [child EXCEPT ![c] = IF child[c] = Par!Running THEN Par!Cancelling ELSE child[c]]
      /\ c \in begun
      /\ UNCHANGED <<policy, begun, ready, results, step, winner>>
  BY DEF Par!CancelNext, StepInv, Settled
<1>2. Par!Unsettled' = Par!Unsettled
  BY <1>1, Marks DEF Par!Unsettled, StepInv, Settled
<1>3. child' \in [Children -> Outcomes] /\ \A d \in begun : child'[d] # child[d] => d \in Par!Unsettled
  BY <1>1, Marks DEF StepInv, Settled, Par!Unsettled
<1>4. Settled' /\ Waits'
  BY <1>1, <1>2, <1>3 DEF StepInv, Settled, Waits
<1> QED BY <1>1, <1>3, <1>4, ChildMoves DEF StepInv

\* Cancelling what still runs settles nothing and touches nothing that has settled.
LEMMA CancelAllKeeps ==
    ASSUME StepInv, Par!CancelAll, begun' = begun
    PROVE  /\ child' \in [Children -> Outcomes]
           /\ Par!Unsettled' = Par!Unsettled
           /\ \A d \in begun \ Par!Unsettled : child'[d] = child[d]
BY Marks DEF Par!CancelAll, StepInv, Settled, Par!Unsettled

\* The turns of the wait collect children that have settled.
LEMMA Collected ==
    ASSUME StepInv, step = "wait", step' \in {"wait", "drain"}, NEW S \in SUBSET (begun \ Par!Unsettled),
           results' = results \cup S, ready' \in Seq(begun), Par!Range(ready') \cap Par!Unsettled = {},
           UNCHANGED <<policy, begun, left, winner>>,
           child' \in [Children -> Outcomes], Par!Unsettled' = Par!Unsettled,
           step' = "wait" => /\ child' = child
                             /\ Par!Range(ready) \subseteq S \cup Par!Range(ready'),
           Ends'
    PROVE  StepInv'
<1>1. Settled'
  BY DEF StepInv, Settled
<1>2. Waits'
  BY DEF StepInv, Waits
<1> QED BY <1>1, <1>2 DEF StepInv, Par!ChildrenAnswerForStep

LEMMA GatherStep ==
    ASSUME StepInv, Par!GatherAll
    PROVE  StepInv'
<1>1. /\ step = "wait" /\ step' = "drain" /\ Par!Unsettled = {} /\ child' = child /\ Par!Is("all")
      /\ results' = results \cup begun /\ ready' = << >> /\ UNCHANGED <<policy, begun, left, winner>>
  BY DEF Par!GatherAll, Par!Collect
<1>2. ready' \in Seq(begun) /\ Par!Range(ready') = {} /\ Par!Unsettled' = Par!Unsettled
  BY <1>1, SMT DEF Par!Range, Par!Unsettled
<1>3. results' = begun
  BY <1>1 DEF StepInv, Settled
<1>4. Ends'
  BY <1>1, <1>3 DEF Ends, Par!Is
<1>5. begun \in SUBSET (begun \ Par!Unsettled) /\ child' \in [Children -> Outcomes]
  BY <1>1 DEF StepInv, Settled
<1> QED BY <1>1, <1>2, <1>4, <1>5, Collected

LEMMA WaitAnyStep ==
    ASSUME StepInv, Par!WaitAny
    PROVE  StepInv'
<1> DEFINE done == Par!Range(ready)
<1>1. done \subseteq begun \ Par!Unsettled
  BY SMT DEF StepInv, Settled, Par!Range
<1>2. step = "wait" /\ Par!Is("any")
  BY DEF Par!WaitAny
<1>3. << >> \in Seq(begun) /\ Par!Range(<< >>) = {}
  BY SMT DEF Par!Range
<1> HIDE DEF done
<1>4. CASE Par!Completed(done) # {}
  <2>1. PICK c \in Par!Completed(done), S \in SUBSET (done \ Par!Completed(done)) : Par!Collect({c} \cup S)
    BY <1>4 DEF Par!WaitAny, done
  <2>2. Par!CancelAll /\ step' = "drain"
    BY <1>4 DEF Par!WaitAny, done
  <2>3. /\ results' = results \cup ({c} \cup S) /\ ready' = << >> /\ UNCHANGED <<policy, begun, left, winner>>
    BY <2>1 DEF Par!Collect
  <2>4. {c} \cup S \in SUBSET (begun \ Par!Unsettled) /\ child[c].status = "completed"
    BY <1>1, <2>1 DEF Par!Completed
  <2>5. /\ child' \in [Children -> Outcomes] /\ Par!Unsettled' = Par!Unsettled
        /\ \A d \in begun \ Par!Unsettled : child'[d] = child[d]
    BY <2>2, <2>3, CancelAllKeeps
  <2>6. c \in Par!Completed(results)'
    BY <2>3, <2>4, <2>5 DEF Par!Completed
  <2>7. Ends'
    BY <1>2, <2>3, <2>6 DEF Ends, Par!Is, Par!Satisfied
  <2> QED BY <1>2, <1>3, <2>2, <2>3, <2>4, <2>5, <2>7, Collected
<1>5. CASE Par!Completed(done) = {}
  <2>1. /\ results' = results \cup done /\ ready' = << >> /\ UNCHANGED <<policy, begun, left, winner>>
        /\ child' = child /\ step' = IF Par!Unsettled = {} THEN "drain" ELSE "wait"
    BY <1>5 DEF Par!WaitAny, Par!Collect, done
  <2>2. Par!Unsettled' = Par!Unsettled /\ child' \in [Children -> Outcomes]
    BY <2>1 DEF Par!Unsettled, StepInv, Settled
  <2>3. step' # "wait" => results' = begun
    BY <1>1, <1>2, <2>1 DEF StepInv, Settled, Waits, done
  <2>4. Ends'
    BY <1>2, <2>1, <2>3 DEF Ends, Par!Is
  <2>5. Par!Range(ready) \subseteq done
    BY DEF done
  <2> QED BY <1>1, <1>2, <1>3, <2>1, <2>2, <2>4, <2>5, Collected
<1> QED BY <1>4, <1>5

LEMMA TakeNextStep ==
    ASSUME StepInv, Par!TakeNext
    PROVE  StepInv'
<1> DEFINE c == Head(ready)
           collected == results \cup {c}
           enough == Cardinality(Par!Completed(collected)) >= policy.n
<1>1. /\ step = "wait" /\ Par!Is("count") /\ ready # << >> /\ results' = collected /\ ready' = Tail(ready)
      /\ UNCHANGED <<policy, begun, left, winner>>
      /\ IF enough THEN Par!CancelAll ELSE child' = child
      /\ step' = IF enough \/ collected = begun THEN "drain" ELSE "wait"
  BY ChildrenCardinality DEF Par!TakeNext
<1>2. ready' \in Seq(begun) /\ Par!Range(ready) = {c} \cup Par!Range(ready')
  <2>1. ready \in Seq(begun) /\ Len(ready) \in Nat \ {0} /\ c = ready[1]
    BY <1>1, SMT DEF StepInv, Settled
  <2>2. /\ ready' \in Seq(begun) /\ Len(ready') = Len(ready) - 1
        /\ \A i \in 1..Len(ready') : ready'[i] = ready[i + 1]
    BY <1>1, <2>1, SMT
  <2>3. ASSUME NEW i \in 1..Len(ready), i # 1 PROVE ready[i] = ready'[i - 1] /\ i - 1 \in 1..Len(ready')
    BY <2>1, <2>2, <2>3, SMT
  <2>4. Par!Range(ready) = {ready[i] : i \in 1..Len(ready)} /\ Par!Range(ready') = {ready'[i] : i \in 1..Len(ready')}
    BY <2>1, <2>2, SMT DEF Par!Range
  <2>5. Par!Range(ready) \subseteq {c} \cup Par!Range(ready')
    BY <2>1, <2>3, <2>4, SMT
  <2>6. c \in Par!Range(ready)
    BY <2>1, <2>4, SMT
  <2>7. \A i \in 1..Len(ready') : i + 1 \in 1..Len(ready)
    BY <2>1, <2>2, SMT
  <2>8. Par!Range(ready') \subseteq Par!Range(ready)
    BY <2>2, <2>4, <2>7
  <2> QED BY <2>2, <2>5, <2>6, <2>8
<1>3. {c} \in SUBSET (begun \ Par!Unsettled) /\ Par!Range(ready') \cap Par!Unsettled = {}
  <2>1. Par!Range(ready) \subseteq begun
    BY SMT DEF StepInv, Settled, Par!Range
  <2> HIDE DEF c
  <2> QED BY <1>2, <2>1 DEF StepInv, Settled
<1>4. /\ child' \in [Children -> Outcomes] /\ Par!Unsettled' = Par!Unsettled
      /\ \A d \in begun \ Par!Unsettled : child'[d] = child[d]
      /\ step' = "wait" => child' = child
  BY <1>1, CancelAllKeeps DEF StepInv, Settled, Par!Unsettled
<1>5. Par!Completed(results)' = Par!Completed(collected)
  BY <1>1, <1>3, <1>4 DEF Par!Completed, StepInv, Settled
<1>6. Ends'
  <2>1. step' # "wait" => results' = begun \/ Cardinality(Par!Completed(results)') >= policy.n
    BY <1>1, <1>5
  <2> QED BY <1>1, <2>1, ChildrenCardinality DEF Ends, Par!Is, Par!Satisfied
<1>7. Par!Range(ready) \subseteq {c} \cup Par!Range(ready') /\ step' \in {"wait", "drain"}
  BY <1>1, <1>2
<1> HIDE DEF c, enough
<1> QED BY <1>1, <1>2, <1>3, <1>4, <1>6, <1>7, Collected

\* The other turns that end the wait.
LEMMA WaitEndsStep ==
    ASSUME StepInv, Par!TakeNone \/ Par!WaitAgents \/ Par!WaitRaises \/ Par!NoAgents
    PROVE  StepInv'
<1>1. CASE Par!TakeNone
  <2>1. UNCHANGED <<policy, begun, child, ready, results, left, winner>> /\ step' = "drain" /\ begun = {}
    BY <1>1 DEF Par!TakeNone
  <2>2. Settled' /\ Waits'
    BY <2>1 DEF StepInv, Settled, Waits, Par!Unsettled
  <2>3. Ends'
    BY <2>1 DEF StepInv, Settled, Ends
  <2> QED BY <2>1, <2>2, <2>3 DEF StepInv, Par!ChildrenAnswerForStep
<1>2. CASE Par!WaitAgents
  <2>1. /\ UNCHANGED <<policy, begun, child, winner>> /\ step' = "drain"
        /\ results' = Par!Range(ready) /\ ready' = << >> /\ left' = begun \ Par!Range(ready)
        /\ policy.how \in Par!Collaborations
    BY <1>2 DEF Par!WaitAgents
  <2>2. Par!Range(ready) \subseteq begun /\ ready' \in Seq(begun) /\ Par!Range(ready') = {} /\ Par!Unsettled' = Par!Unsettled
    BY <2>1, SMT DEF StepInv, Settled, Par!Range, Par!Unsettled
  <2>3. Settled' /\ Waits'
    BY <2>1, <2>2 DEF StepInv, Settled, Waits
  <2>4. Ends'
    BY <2>1 DEF Ends, Par!Is, Par!Collaborations
  <2> QED BY <2>1, <2>3, <2>4 DEF StepInv, Par!ChildrenAnswerForStep
<1>3. CASE Par!NoAgents
  <2>1. /\ UNCHANGED <<policy, begun, child, ready, results, left, winner>> /\ step' = "failed" /\ begun = {}
        /\ policy.how \in Par!Collaborations
    BY <1>3 DEF Par!NoAgents
  <2>2. Settled' /\ Waits' /\ results = {}
    BY <2>1 DEF StepInv, Settled, Waits, Par!Unsettled
  <2>3. Ends'
    BY <2>1 DEF Ends, Par!Is, Par!Collaborations
  <2>4. Par!Unsettled' = {} /\ Par!Completed(results)' = {}
    BY <2>1, <2>2 DEF Par!Unsettled, Par!Completed
  <2>5. Par!ChildrenAnswerForStep'
    BY <2>1, <2>2, <2>4 DEF Par!ChildrenAnswerForStep, Par!Is, Par!Collaborations
  <2> QED BY <2>2, <2>3, <2>5 DEF StepInv
<1>4. CASE Par!WaitRaises
  <2>1. /\ UNCHANGED <<policy, begun, child, ready, results, left, winner>> /\ step' \in Par!Raised
        /\ policy.how \in Par!Collaborations
    BY <1>4 DEF Par!WaitRaises, Par!Raised
  <2>2. Settled' /\ Waits'
    BY <2>1 DEF StepInv, Settled, Waits, Par!Unsettled, Par!Raised
  <2>3. Ends'
    BY <2>1 DEF Ends, Par!Is, Par!Collaborations
  <2> QED BY <2>1, <2>2, <2>3 DEF StepInv, Par!ChildrenAnswerForStep
<1> QED BY <1>1, <1>2, <1>3, <1>4

\* What the step has collected is what it answers with.
LEMMA ReturnStep ==
    ASSUME StepInv, KnownPolicies, None \notin Children,
           Par!ParallelReturns \/ Par!MergeReturns \/ Par!VoteReturns \/ Par!FirstReturns
    PROVE  StepInv'
<1>1. /\ Par!Drained /\ UNCHANGED <<policy, begun, child, ready, results, left>>
      /\ step' \in {"completed", "failed", "timed_out"}
  BY DEF Par!ParallelReturns, Par!MergeReturns, Par!VoteReturns, Par!FirstReturns, Par!Return
<1>2. /\ Par!Unsettled' = Par!Unsettled /\ Par!Unsettled = {}
      /\ Par!Completed(results)' = Par!Completed(results) /\ (Par!Satisfied' <=> Par!Satisfied)
  BY <1>1 DEF Par!Drained, Par!Unsettled, Par!Completed, Par!Satisfied, Par!Is
<1>3. Settled' /\ Waits'
  BY <1>1, <1>2 DEF StepInv, Settled, Waits
<1>4. Ends /\ step = "drain" /\ results \subseteq begun /\ results \subseteq Children
  BY <1>1 DEF StepInv, Par!Drained, Settled
<1>5. Ends'
  BY <1>1, <1>2, <1>4 DEF Ends, Par!Is
<1>6. CASE Par!ParallelReturns
  <2>1. /\ policy.how \in {"all", "any", "count"}
        /\ step' = IF (IF Par!Is("any") THEN Par!Completed(results) # {} ELSE Par!Completed(results) = results)
                   THEN "completed" ELSE "failed"
    BY <1>6 DEF Par!ParallelReturns, Par!Return
  <2>2. Par!ChildrenAnswerForStep'
    <3>1. CASE Par!Is("all")
      <4>1. results = begun /\ (Par!Satisfied <=> Par!Completed(results) = begun)
        BY <1>4, <3>1 DEF Ends, Par!Satisfied, Par!Is
      <4> QED BY <1>1, <1>2, <2>1, <3>1, <4>1 DEF Par!ChildrenAnswerForStep, Par!Is
    <3>2. CASE Par!Is("any")
      <4>1. (results = begun \/ Par!Satisfied) /\ (Par!Satisfied <=> Par!Completed(results) # {})
        BY <1>4, <3>2 DEF Ends, Par!Satisfied, Par!Is
      <4>2. results = begun => Par!Completed(begun)' = Par!Completed(results)
        BY <1>1 DEF Par!Completed
      <4> QED BY <1>1, <1>2, <1>4, <2>1, <3>2, <4>1, <4>2 DEF Par!ChildrenAnswerForStep, Par!Is
    <3>3. CASE Par!Is("count")
      <4>1. results = begun \/ Par!Satisfied
        BY <1>4, <3>3 DEF Ends, Par!Is
      <4>2. results = begun => Par!Completed(begun)' = Par!Completed(results)
        BY <1>1 DEF Par!Completed
      <4> QED BY <1>1, <1>2, <1>4, <2>1, <3>3, <4>1, <4>2 DEF Par!ChildrenAnswerForStep, Par!Is
    <3> QED BY <2>1, <3>1, <3>2, <3>3 DEF Par!Is
  <2> QED BY <1>3, <1>5, <2>2 DEF StepInv
<1>7. CASE Par!MergeReturns
  <2>1. Par!Is("merge") /\ step' = IF Par!Completed(results) # {} THEN "completed" ELSE "failed"
    BY <1>7 DEF Par!MergeReturns, Par!Return
  <2>2. Par!ChildrenAnswerForStep'
    BY <1>1, <1>2, <2>1 DEF Par!ChildrenAnswerForStep, Par!Is, Par!Satisfied
  <2> QED BY <1>3, <1>5, <2>2 DEF StepInv
<1>8. CASE Par!VoteReturns
  <2>1. /\ Par!Is("vote") /\ step' = IF Par!Voted # {} THEN "completed" ELSE "failed"
        /\ IF Par!Voted = {} THEN winner' = None ELSE winner' \in Par!Voted
    BY <1>8 DEF Par!VoteReturns, Par!Return
  <2>2. ASSUME NEW d \in Par!Voted PROVE \E c \in results : child[c].decision = d
    <3>1. Cardinality({c \in results : child[c].decision = d}) > 0
      BY ChildrenCardinality DEF Par!Voted, Par!Votes
    <3>2. {c \in results : child[c].decision = d} # {}
      BY <3>1, FS_EmptySet, SMT
    <3> QED BY <3>2
  <2>3. Par!Voted # {} => \E c \in results' : child'[c].decision = winner'
    BY <1>1, <2>1, <2>2
  <2>4. Par!Voted = {} => winner' \notin Par!Completed(results)
    BY <1>4, <2>1 DEF Par!Completed
  <2>5. Par!ChildrenAnswerForStep'
    BY <1>1, <1>2, <2>1, <2>3, <2>4 DEF Par!ChildrenAnswerForStep, Par!Is, Par!Satisfied
  <2> QED BY <1>3, <1>5, <2>5 DEF StepInv
<1>9. CASE Par!FirstReturns
  <2>1. /\ Par!Is("first")
        /\ \/ step' = "timed_out"
           \/ winner' \in results /\ step' = IF child[winner'].status = "completed" THEN "completed" ELSE "failed"
    BY <1>9 DEF Par!FirstReturns, Par!Return
  <2>2. /\ step' = "completed" => winner' \in Par!Completed(results)
        /\ step' = "failed" => winner' \notin Par!Completed(results)
    BY <2>1 DEF Par!Completed
  <2>3. Par!ChildrenAnswerForStep'
    BY <1>1, <1>2, <2>1, <2>2 DEF Par!ChildrenAnswerForStep, Par!Is, Par!Satisfied
  <2> QED BY <1>3, <1>5, <2>3 DEF StepInv
<1> QED BY <1>6, <1>7, <1>8, <1>9

\* A step with children whose wait does not itself raise answers for them: none
\* is at work when it returns, it completes only with what wait_for or the
\* collaboration asks for, it fails only when that cannot be had, and no result is
\* dropped before; for any number of children, in whatever order they finish, fail
\* and are cancelled (execute_parallel, _execute_parallel,
\* execute_collaboration_step).
THEOREM StepsAnswerForChildren ==
    ASSUME KnownPolicies, None \notin Children
    PROVE  Par!Spec => []Par!ChildrenAnswerForStep
<1>1. StepInv /\ [Par!Next]_(Par!vars) => StepInv'
  <2> SUFFICES ASSUME StepInv, [Par!Next]_(Par!vars) PROVE StepInv'
    OBVIOUS
  <2>1. CASE UNCHANGED Par!vars
    BY <2>1 DEF Par!vars, StepInv, Settled, Waits, Ends, Par!ChildrenAnswerForStep, Par!Satisfied,
                Par!Completed, Par!Unsettled, Par!Is
  <2>2. CASE Par!Next
    BY <2>2, FinishStep, StopsStep, CancelStep, GatherStep, WaitAnyStep, TakeNextStep, WaitEndsStep, ReturnStep
       DEF Par!Next
  <2> QED BY <2>1, <2>2
<1>2. StepInv => Par!ChildrenAnswerForStep
  BY DEF StepInv
<1> QED BY <1>1, <1>2, StepInit, PTL DEF Par!Spec
=============================================================================
