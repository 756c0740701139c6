----------------------------- MODULE ToolGateway -----------------------------
(***************************************************************************)
(* Calls of ToolGateway.execute with one idempotency key                   *)
(* (core/tool_gateway/gateway.py, idempotency.py).  Every call runs the    *)
(* same pipeline: checks, the reservation of the key in Redis, the tool    *)
(* registry, the connector, the tool itself, and the result or the release *)
(* of the key.  Calls interleave at every await, may be cancelled or die   *)
(* with their worker, and the keys in Redis expire.                        *)
(*                                                                         *)
(* A result is named by the call that produced it.  What the tool did      *)
(* outside is the counter effects.  incidents counts the events that allow *)
(* one more effect by design: it is history, no action reads it.  A call   *)
(* of a remote MCP tool is one: execute hands it over before it comes to   *)
(* the key.                                                                *)
(***************************************************************************)
EXTENDS Integers, FiniteSets

CONSTANTS
    Calls,          \* calls of execute with the key: first tries and retries
    MaxIncidents,   \* bound: expiries under a running call, failed stores, remote calls...
    None

VARIABLES
    key,        \* Redis: what the key holds
    call,       \* call -> its place in execute
    answer,     \* call -> what it returned
    connector,  \* the (tenant, company, connector) entry of _connectors
    connLock,   \* holder of the entry's asyncio.Lock
    instances,  \* connector objects connected and handed out
    effects,    \* times the tool did what it does
    incidents

vars == <<key, call, answer, connector, connLock, instances, effects, incidents>>

Free == [kind |-> "free", by |-> None]
Pending(c) == [kind |-> "pending", by |-> c]
Result(c) == [kind |-> "result", by |-> c]
Says(what) == [kind |-> what, by |-> None]

Init ==
    /\ key = Free
    /\ call = [c \in Calls |-> "checks"]
    /\ answer = [c \in Calls |-> Says("nothing")]
    /\ connector = FALSE
    /\ connLock = None
    /\ instances = 0
    /\ effects = 0
    /\ incidents = 0

Goto(c, pc) == call' = [call EXCEPT ![c] = pc]

Return(c, value) ==
    /\ Goto(c, "done")
    /\ answer' = [answer EXCEPT ![c] = value]

\* Steps that touch neither the connector cache nor the tool.
KeepsTool == UNCHANGED <<connector, connLock, instances, effects>>

-----------------------------------------------------------------------------
(* Before the reservation                                                  *)

\* Pseudonyms, operator override, governance, grants, scopes and the rate
\* limit: each may refuse, and a refusal returns at once.
Checks(c) ==
    /\ call[c] = "checks"
    /\ \/ Goto(c, "reserve") /\ UNCHANGED answer
       \/ Return(c, Says("refused"))
    /\ UNCHANGED <<key, incidents>> /\ KeepsTool

\* The tool is one of a remote MCP server, unless the agent may not use it:
\* execute_agent_tool takes effect or not, and its answer is returned, with no
\* look at the key.
Remote(c) ==
    /\ call[c] = "checks"
    /\ incidents < MaxIncidents
    /\ incidents' = incidents + 1
    /\ effects' \in {effects, effects + 1}
    /\ Return(c, Says("remote"))
    /\ UNCHANGED <<key, connector, connLock, instances>>

\* Mutation: the key is claimed by a SET without NX.
ReserveOverwrites(c) ==
    /\ call[c] = "reserve"
    /\ key.kind # "result"
    /\ key' = Pending(c)
    /\ Goto(c, "screen")
    /\ UNCHANGED <<answer, incidents>> /\ KeepsTool

\* reserve: SET NX.  The loser goes on to read the key.
Reserve(c) ==
    /\ call[c] = "reserve"
    /\ IF key = Free
       THEN key' = Pending(c) /\ Goto(c, "screen")
       ELSE UNCHANGED key /\ Goto(c, "get")
    /\ UNCHANGED <<answer, incidents>> /\ KeepsTool

\* Mutation: a pending marker is taken for a result.
GetCachedAnything(c) ==
    /\ call[c] = "get"
    /\ Return(c, IF key # Free THEN Result(key.by) ELSE Says("in_progress"))
    /\ UNCHANGED <<key, incidents>> /\ KeepsTool

\* The rest of reserve: a result is replayed; a pending marker, or a key that
\* expired since the SET, is answered with E1009.
GetCached(c) ==
    /\ call[c] = "get"
    /\ Return(c, IF key.kind = "result" THEN key ELSE Says("in_progress"))
    /\ UNCHANGED <<key, incidents>> /\ KeepsTool

-----------------------------------------------------------------------------
(* With the reservation                                                    *)

\* release deletes the key, whoever holds it by now.
Release(c) ==
    /\ call[c] = "release"
    /\ key' = Free
    /\ Return(c, Says("error"))
    /\ UNCHANGED incidents /\ KeepsTool

\* screen_call refuses, or the call goes on with the cached connector, if any.
Screen(c) ==
    /\ call[c] = "screen"
    /\ \/ Goto(c, "release")
       \/ connector /\ Goto(c, "execute")
       \/ ~connector /\ Goto(c, "resolve")
    /\ UNCHANGED <<key, answer, incidents>> /\ KeepsTool

\* Mutation: the cache is not read again once the lock is held.
ResolveNoRecheck(c) ==
    /\ call[c] = "resolve"
    /\ connLock = None
    /\ connLock' = c /\ Goto(c, "connect")
    /\ UNCHANGED <<key, answer, incidents, connector, instances, effects>>

\* _resolve_connector takes the entry's lock and looks again.
Resolve(c) ==
    /\ call[c] = "resolve"
    /\ connLock = None
    /\ IF connector
       THEN Goto(c, "execute") /\ UNCHANGED connLock
       ELSE connLock' = c /\ Goto(c, "connect")
    /\ UNCHANGED <<key, answer, incidents, connector, instances, effects>>

\* Configuration and connect(), under the lock: the instance is cached once
\* connected, else the call ends with E1005.
Connect(c) ==
    /\ call[c] = "connect"
    /\ connLock' = None
    /\ \/ connector' = TRUE /\ instances' = instances + 1 /\ Goto(c, "execute")
       \/ UNCHANGED <<connector, instances>> /\ Goto(c, "release")
    /\ UNCHANGED <<key, answer, incidents, effects>>

\* execute_tool, in or out of the registered envelope: a result; an error
\* payload or an exception without effect; or an exception after the effect
\* (a timeout, an output refused), which counts as an incident.
Execute(c) ==
    /\ call[c] = "execute"
    /\ \/ effects' = effects + 1 /\ Goto(c, "store") /\ UNCHANGED incidents
       \/ Goto(c, "release") /\ UNCHANGED <<effects, incidents>>
       \/ /\ incidents < MaxIncidents
          /\ incidents' = incidents + 1
          /\ effects' = effects + 1 /\ Goto(c, "release")
    /\ UNCHANGED <<key, answer, connector, connLock, instances>>

\* store: SETEX, over whatever the key holds.  If it fails the except branch
\* releases the key and reports the call as failed: an incident.
Store(c) ==
    /\ call[c] = "store"
    /\ \/ key' = Result(c) /\ Return(c, Result(c)) /\ UNCHANGED incidents
       \/ /\ incidents < MaxIncidents
          /\ incidents' = incidents + 1
          /\ Goto(c, "release") /\ UNCHANGED <<key, answer>>
    /\ KeepsTool

\* The task is cancelled or its worker dies, or a step outside the try
\* raises: nothing is released but the asyncio lock.  After the effect it is
\* an incident: the reservation will expire without a result.
Die(c) ==
    LET cost == IF call[c] = "store" THEN 1 ELSE 0 IN
    /\ call[c] \in {"screen", "resolve", "connect", "execute", "store", "release"}
    /\ incidents + cost =< MaxIncidents
    /\ incidents' = incidents + cost
    /\ Return(c, Says("died"))
    /\ connLock' = IF connLock = c THEN None ELSE connLock
    /\ UNCHANGED <<key, connector, instances, effects>>

InFlight(c) == call[c] \in {"screen", "resolve", "connect", "execute", "store", "release"}

\* The worker process is replaced: its calls and its connector cache are gone.
Restart ==
    LET cost == Cardinality({c \in Calls : call[c] = "store"}) IN
    /\ \E c \in Calls : InFlight(c)
    /\ incidents + cost =< MaxIncidents
    /\ incidents' = incidents + cost
    /\ call' = [c \in Calls |-> IF InFlight(c) THEN "done" ELSE call[c]]
    /\ answer' = [c \in Calls |-> IF InFlight(c) THEN Says("died") ELSE answer[c]]
    /\ connector' = FALSE /\ connLock' = None /\ instances' = 0
    /\ UNCHANGED <<key, effects>>

-----------------------------------------------------------------------------
(* Expiry                                                                  *)

\* Mutation: a reservation has no expiry of its own.
ReservationNeverExpires ==
    /\ key.kind = "pending" /\ InFlight(key.by)
    /\ incidents < MaxIncidents
    /\ incidents' = incidents + 1
    /\ key' = Free
    /\ UNCHANGED <<call, answer>> /\ KeepsTool

\* RESERVATION_TTL ends; under a running call that is an incident.
ReservationExpires ==
    LET cost == IF key.kind = "pending" /\ InFlight(key.by) THEN 1 ELSE 0 IN
    /\ key.kind = "pending"
    /\ incidents + cost =< MaxIncidents
    /\ incidents' = incidents + cost
    /\ key' = Free
    /\ UNCHANGED <<call, answer>> /\ KeepsTool

\* IDEMPOTENCY_TTL ends: an incident for a retry that comes later.
ResultExpires ==
    /\ key.kind = "result"
    /\ incidents < MaxIncidents
    /\ incidents' = incidents + 1
    /\ key' = Free
    /\ UNCHANGED <<call, answer>> /\ KeepsTool

-----------------------------------------------------------------------------

Step(c) ==
    \/ Checks(c) \/ Remote(c) \/ Reserve(c) \/ GetCached(c) \/ Release(c) \/ Screen(c)
    \/ Resolve(c) \/ Connect(c) \/ Execute(c) \/ Store(c)

Next ==
    \/ \E c \in Calls : Step(c) \/ Die(c)
    \/ Restart
    \/ ReservationExpires
    \/ ResultExpires

\* Every await of a call ends: the event loop runs it, connectors time out,
\* and the connector lock is held over awaits that end.  Redis drops a key
\* whose time is over.
Fairness ==
    /\ \A c \in Calls : WF_vars(Step(c))
    /\ WF_vars(ReservationExpires)

Spec == Init /\ [][Next]_vars

FairSpec == Spec /\ Fairness

-----------------------------------------------------------------------------
(* Properties                                                              *)

\* The key holds nothing, a reservation or a result, every call is somewhere
\* in execute, and answers are results or the errors execute returns.  Calls
\* that race for a connector connect and hand out one instance between them:
\* whoever waited for the lock takes the one it finds (_resolve_connector).
TypeOK ==
    /\ key \in {Free} \cup {Pending(c) : c \in Calls} \cup {Result(c) : c \in Calls}
    /\ call \in [Calls -> {"checks", "reserve", "get", "screen", "resolve", "connect",
                           "execute", "store", "release", "done"}]
    /\ answer \in [Calls -> {Says(w) : w \in {"nothing", "refused", "remote", "in_progress", "error", "died"}}
                               \cup {Result(c) : c \in Calls}]
    /\ connector \in BOOLEAN /\ connLock \in Calls \cup {None}
    /\ instances \in 0..1 /\ effects \in Nat /\ incidents \in 0..MaxIncidents

\* However calls with one key overlap, fail and are retried, the tool takes
\* effect once, plus at most once more for each incident: a reservation that
\* expired under its call, a result that expired, was not stored or was
\* lost with its worker, a failure reported after the effect (reserve,
\* release, store; the comment at gateway.py:409), and a call that went to a
\* remote MCP tool, for which the key is not looked at.
OneEffectPerIncident == effects =< 1 + incidents

\* A replayed answer is the result of a call whose tool took effect: never
\* the pending marker, nor the answer of a call that failed (reserve, store).
ReplayIsAResult ==
    \A c \in Calls : answer[c].kind = "result" =>
        answer[answer[c].by] = answer[c] /\ effects > 0

\* A key is not held for ever: what a dead or hung call reserved becomes free
\* or a result (RESERVATION_TTL).
KeyComesFree == []<>(key.kind # "pending")
=============================================================================
