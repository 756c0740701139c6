------------------------- MODULE WorkflowStateStore -------------------------
(***************************************************************************)
(* The durable workflow state store (workflows/state_store.py): one row per *)
(* run in Postgres, guarded by an optimistic version, an append-only log of *)
(* transitions with optional idempotency keys, and a Redis copy that is a   *)
(* best-effort cache and the legacy source of runs older than the row.      *)
(*                                                                          *)
(* The module follows one run.  The state dictionary is abstracted to the   *)
(* set of edits its writers have made: a write that drops an edit another   *)
(* writer committed is exactly a lost update.                               *)
(***************************************************************************)
EXTENDS Naturals, Sequences

CONSTANTS
    Clients,       \* processes holding an in-memory copy of the run's state
    Keys,          \* idempotency keys a save may carry
    NoKey,         \* "no idempotency key"
    LegacyReaders, \* clients that may come to a run older than its row
    MaxEdits       \* bound on the edits made in memory

ASSUME ConstantsAssumption ==
    /\ NoKey \notin Keys
    /\ LegacyReaders \subseteq Clients
    /\ MaxEdits \in Nat

NoVersion == 0     \* STATE_VERSION_KEY missing from the in-memory state

VARIABLES
    row,           \* the WorkflowRunState row, of version 0 until it is inserted
    transitions,   \* the WorkflowStateTransition rows: [before, after, key]
    cache,         \* the Redis copy of the run: [present, content]
    mem,           \* per client: [pc, content, version, key]
    edits,         \* edits made so far, by anyone
    started        \* start_run has been called

vars == <<row, transitions, cache, mem, edits, started>>

Contents == SUBSET (1..MaxEdits)
Idle == [pc |-> "idle", content |-> {}, version |-> NoVersion, key |-> NoKey]

NoRow == [version |-> 0, content |-> {}]
RowExists == row.version # 0

Stages == {"idle", "miss", "backfill", "held", "keyed", "saving", "cached"}
Copies == [pc : Stages, content : Contents, version : Nat, key : Keys \cup {NoKey}]

TypeOK ==
    /\ row \in [version : Nat, content : Contents]
    /\ transitions \in Seq([before : Contents, after : Contents, key : Keys \cup {NoKey}])
    /\ cache \in [present : BOOLEAN, content : Contents]
    /\ mem \in [Clients -> Copies]
    /\ edits \in 0..MaxEdits
    /\ started \in BOOLEAN

\* The run is still to be started, or it is a legacy one: it predates the row
\* and lives only in Redis.
Init ==
    /\ row = NoRow
    /\ transitions = <<>>
    /\ mem = [c \in Clients |-> Idle]
    /\ edits = 0
    /\ started \in BOOLEAN /\ (started => LegacyReaders # {})
    /\ cache = [present |-> started, content |-> {}]

(***************************************************************************)
(* load()                                                                   *)
(***************************************************************************)
\* Mutation: load() trusts the Redis copy for the content.
LoadCacheFirst(c) ==
    /\ mem[c].pc = "idle"
    /\ RowExists
    /\ mem' = [mem EXCEPT ![c] = [Idle EXCEPT !.pc = "held",
                                              !.content = cache.content,
                                              !.version = row.version]]
    /\ UNCHANGED <<row, transitions, cache, edits, started>>

\* repository.load finds the row: the copy carries the row's version.
LoadDurable(c) ==
    /\ mem[c].pc = "idle"
    /\ RowExists
    /\ mem' = [mem EXCEPT ![c] = [Idle EXCEPT !.pc = "held",
                                              !.content = row.content,
                                              !.version = row.version]]
    /\ UNCHANGED <<row, transitions, cache, edits, started>>

\* repository.load finds nothing; load() goes on to ask Redis.  Only a legacy
\* run can be asked for before it has a row: start_run makes the id of any other
\* run and hands it out once its row is committed.
LoadMiss(c) ==
    /\ mem[c].pc = "idle"
    /\ c \in LegacyReaders
    /\ cache.present /\ ~RowExists
    /\ mem' = [mem EXCEPT ![c] = [Idle EXCEPT !.pc = "miss"]]
    /\ UNCHANGED <<row, transitions, cache, edits, started>>

\* A legacy copy is found and within the repository's tenant scope.
LoadLegacy(c) ==
    /\ mem[c].pc = "miss"
    /\ cache.present
    /\ mem' = [mem EXCEPT ![c] = [Idle EXCEPT !.pc = "backfill", !.content = cache.content]]
    /\ UNCHANGED <<row, transitions, cache, edits, started>>

\* Nothing in Redis, Redis unreadable, or a copy outside the tenant scope.
LoadNothing(c) ==
    /\ mem[c].pc = "miss"
    /\ mem' = [mem EXCEPT ![c] = Idle]
    /\ UNCHANGED <<row, transitions, cache, edits, started>>

(***************************************************************************)
(* save()                                                                   *)
(***************************************************************************)
\* start_run: a fresh run id, a state that was never loaded.
StartRun(c) ==
    /\ mem[c].pc = "idle"
    /\ ~started
    /\ started' = TRUE
    /\ mem' = [mem EXCEPT ![c] = [Idle EXCEPT !.pc = "saving"]]
    /\ UNCHANGED <<row, transitions, cache, edits>>

\* The caller changes its copy and calls save with a key or without one.
Edit(c, k) ==
    /\ mem[c].pc = "held"
    /\ edits < MaxEdits
    /\ edits' = edits + 1
    /\ mem' = [mem EXCEPT ![c] = [mem[c] EXCEPT !.content = mem[c].content \cup {edits + 1},
                                           !.key = k,
                                           !.pc = IF k = NoKey THEN "saving" ELSE "keyed"]]
    /\ UNCHANGED <<row, transitions, cache, started>>

\* Mutation: only the latest transition is compared with the key.
KeyUsedLast(k) == Len(transitions) > 0 /\ transitions[Len(transitions)].key = k

KeyUsed(k) == \E i \in 1..Len(transitions) : transitions[i].key = k

\* The transaction looks the key up before it locks the row.  A key already in
\* the log makes the whole save a no-op; the copy keeps its edit and its version.
CheckKey(c) ==
    /\ mem[c].pc = "keyed"
    /\ mem' = [mem EXCEPT ![c].pc = IF KeyUsed(mem[c].key) THEN "cached" ELSE "saving"]
    /\ UNCHANGED <<row, transitions, cache, edits, started>>

\* Mutation: the row is overwritten whatever its version.
LastWriterWins(c) == TRUE

\* With the row locked, the copy's version must be the row's.  A copy without a
\* version is not compared at all.
Current(c) ==
    \/ ~RowExists
    \/ mem[c].version = NoVersion
    \/ row.version = mem[c].version

\* The unique index on (run_id, idempotency_key) refuses a second use of a key
\* that the earlier lookup could not see.
Unique(c) == mem[c].key = NoKey \/ ~KeyUsed(mem[c].key)

Writing == {"saving", "backfill"}

\* Mutation: a write without a key leaves no transition.
CommitLoggingKeysOnly(c) ==
    /\ mem[c].pc \in Writing
    /\ Current(c)
    /\ Unique(c)
    /\ row' = [version |-> row.version + 1, content |-> mem[c].content]
    /\ transitions' = IF mem[c].key = NoKey THEN transitions
                      ELSE Append(transitions, [before |-> row.content,
                                                after  |-> mem[c].content,
                                                key    |-> mem[c].key])
    /\ mem' = [mem EXCEPT ![c] = [mem[c] EXCEPT !.version = row.version + 1, !.pc = "cached"]]
    /\ UNCHANGED <<cache, edits, started>>

\* The locked row is rewritten (or inserted), its version bumped, the transition
\* logged, and the caller's copy told its new version.
Commit(c) ==
    /\ mem[c].pc \in Writing
    /\ Current(c)
    /\ Unique(c)
    /\ row' = [version |-> row.version + 1, content |-> mem[c].content]
    /\ transitions' = Append(transitions,
                             [before |-> row.content,
                              after  |-> mem[c].content,
                              key    |-> mem[c].key])
    /\ mem' = [mem EXCEPT ![c] = [mem[c] EXCEPT !.version = row.version + 1, !.pc = "cached"]]
    /\ UNCHANGED <<cache, edits, started>>

\* StaleStateError, an IntegrityError or any database failure: nothing written.
SaveFails(c) ==
    /\ mem[c].pc \in Writing
    /\ mem' = [mem EXCEPT ![c] = Idle]
    /\ UNCHANGED <<row, transitions, cache, edits, started>>

\* After the transaction the store writes what it was given to Redis; a Redis
\* failure is logged and ignored.
WriteRedisCache(c) ==
    /\ mem[c].pc = "cached"
    /\ \/ cache' = [present |-> TRUE, content |-> mem[c].content]
       \/ UNCHANGED cache
    /\ mem' = [mem EXCEPT ![c] = [mem[c] EXCEPT !.pc = "held", !.key = NoKey]]
    /\ UNCHANGED <<row, transitions, edits, started>>

\* The holder is done with its copy, or its process dies.
Drop(c) ==
    /\ mem[c].pc # "idle"
    /\ mem' = [mem EXCEPT ![c] = Idle]
    /\ UNCHANGED <<row, transitions, cache, edits, started>>

Next ==
    \E c \in Clients :
        \/ LoadDurable(c) \/ LoadMiss(c) \/ LoadLegacy(c) \/ LoadNothing(c)
        \/ StartRun(c)
        \/ \E k \in Keys \cup {NoKey} : Edit(c, k)
        \/ CheckKey(c) \/ Commit(c) \/ SaveFails(c)
        \/ WriteRedisCache(c) \/ Drop(c)

Spec == Init /\ [][Next]_vars

(***************************************************************************)
(* Properties                                                               *)
(***************************************************************************)
\* A committed save keeps every edit of the state it replaces: a writer whose
\* copy was overtaken fails closed instead of overwriting (the version check
\* in WorkflowStateRepository.save, StaleStateError).
NoLostUpdate ==
    \A i \in 1..Len(transitions) :
        transitions[i].before \subseteq transitions[i].after

\* The log is the row's history: one transition per version, each starting from
\* the state the one before it left, the last one ending in the row.
LogExplainsRow ==
    /\ Len(transitions) = row.version
    /\ \A i \in 2..Len(transitions) : transitions[i].before = transitions[i - 1].after
    /\ RowExists => transitions[Len(transitions)].after = row.content

\* A key takes effect at most once, however often its save is retried and
\* however two saves with the same key interleave.
KeyTakesEffectOnce ==
    \A i, j \in 1..Len(transitions) :
        transitions[i].key = transitions[j].key /\ transitions[i].key # NoKey => i = j

\* What the store promises its callers: a record that only ever grows, one
\* version and at most one use of a key at a time.
Record == INSTANCE RunRecord WITH
    record  <- row.content,
    version <- row.version,
    used    <- {transitions[i].key : i \in 1..Len(transitions)} \ {NoKey}

\* The store with its loads, lookups, locks and cache implements that record.
ImplementsRunRecord == Record!Spec
=============================================================================
