-------------------------- MODULE ToolGatewayProofs --------------------------
(***************************************************************************)
(* An idempotency key allows one effect, and one more for each incident,   *)
(* for any finite number of calls.  The invariant keeps an account: the    *)
(* effects there were, the calls that may still have one or free the key,  *)
(* and the key itself when a new call may come by it, are together at most *)
(* one more than the incidents.  The second half is about the rate limiter *)
(* in front of the calls, which lets through no more than has accrued.     *)
(***************************************************************************)
EXTENDS ToolGateway, FiniteSetTheorems, TLAPS

Places == {"checks", "reserve", "get", "screen", "resolve", "connect", "execute", "store",
           "release", "done"}

\* The places of a call that holds a reservation and has no effect to store.
Working == {"screen", "resolve", "connect", "execute", "release"}

Errors == {Says(w) : w \in {"nothing", "refused", "remote", "in_progress", "error", "died"}}

Types ==
    /\ key \in {Free} \cup {Pending(c) : c \in Calls} \cup {Result(c) : c \in Calls}
    /\ call \in [Calls -> Places]
    /\ answer \in [Calls -> Errors \cup {Result(c) : c \in Calls}]
    /\ effects \in Nat /\ incidents \in Nat

Undone == {c \in Calls : call[c] \in Working}

\* The key is free, or will be without an incident: whoever reserved it died.
Available == key.kind = "free" \/ (key.kind = "pending" /\ ~InFlight(key.by))

Accounted == effects + Cardinality(Undone) + (IF Available THEN 1 ELSE 0) =< 1 + incidents

\* How many of the working calls a step of c to place pc adds or takes away.
Weight(pc) == IF pc \in Working THEN 1 ELSE 0

\* One call moves: the number of working calls follows its place.
LEMMA OneMoves ==
    ASSUME IsFiniteSet(Calls), call \in [Calls -> Places],
           NEW c \in Calls, NEW pc \in Places, Goto(c, pc)
    PROVE  /\ Cardinality(Undone) \in Nat
           /\ Cardinality(Undone') = Cardinality(Undone) + Weight(pc) - Weight(call[c])
<1>1. IsFiniteSet(Undone) /\ IsFiniteSet(Undone')
  BY FS_Subset DEF Undone
<1>2. Cardinality(Undone) \in Nat /\ Cardinality(Undone') \in Nat
  BY <1>1, FS_CardinalityType
<1>3. CASE pc \in Working /\ call[c] \notin Working
  <2>1. Undone' = Undone \cup {c} /\ c \notin Undone
    BY <1>3 DEF Undone, Goto
  <2> QED BY <1>1, <1>2, <1>3, <2>1, FS_AddElement DEF Weight
<1>4. CASE pc \notin Working /\ call[c] \in Working
  <2>1. Undone' = Undone \ {c} /\ c \in Undone
    BY <1>4 DEF Undone, Goto
  <2> QED BY <1>1, <1>2, <1>4, <2>1, FS_RemoveElement DEF Weight
<1>5. CASE pc \in Working <=> call[c] \in Working
  <2>1. Undone' = Undone
    BY <1>5 DEF Undone, Goto
  <2> QED BY <1>2, <1>5, <2>1 DEF Weight
<1> QED BY <1>3, <1>4, <1>5

\* A step of one call keeps the types.
LEMMA StepTypes ==
    ASSUME Types, NEW c \in Calls, Step(c) \/ Die(c)
    PROVE  Types'
<1> USE DEF Types, Places, Goto, Return, KeepsTool
<1>1. key' \in {Free} \cup {Pending(d) : d \in Calls} \cup {Result(d) : d \in Calls}
  BY DEF Step, Checks, Remote, Reserve, GetCached, Release, Screen, Resolve, Connect, Execute, Store, Die
<1>2. effects' \in Nat /\ incidents' \in Nat
  BY DEF Step, Checks, Remote, Reserve, GetCached, Release, Screen, Resolve, Connect, Execute, Store, Die
<1>3. call' \in [Calls -> Places]
  BY DEF Step, Checks, Remote, Reserve, GetCached, Release, Screen, Resolve, Connect, Execute, Store, Die
<1>4. answer' \in [Calls -> Errors \cup {Result(d) : d \in Calls}]
  <2>1. CASE GetCached(c)
    <3>1. (IF key.kind = "result" THEN key ELSE Says("in_progress"))
             \in Errors \cup {Result(d) : d \in Calls}
      BY DEF Errors, Free, Pending, Result, Says
    <3> QED BY <2>1, <3>1 DEF GetCached
  <2>2. Says("refused") \in Errors /\ Says("remote") \in Errors /\ Says("error") \in Errors /\ Says("died") \in Errors
    BY DEF Errors
  <2>3. CASE ~GetCached(c)
    BY <2>2, <2>3 DEF Step, Checks, Remote, Reserve, Release, Screen, Resolve, Connect, Execute, Store, Die
  <2> QED BY <2>1, <2>3
<1> QED BY <1>1, <1>2, <1>3, <1>4

\* While the key stays as it is and a call does not leave its reservation, the
\* key is as available as before.
LEMMA AvailableStays ==
    ASSUME Types, NEW c \in Calls, NEW pc \in Places, Goto(c, pc), key' = key,
           pc \in Working \cup {"store"} <=> call[c] \in Working \cup {"store"}
    PROVE  Available' <=> Available
<1>1. \A d \in Calls : InFlight(d)' <=> InFlight(d)
  BY DEF Types, InFlight, Working, Goto
<1>2. key.kind = "pending" => key.by \in Calls
  BY DEF Types, Free, Pending, Result
<1> QED BY <1>1, <1>2 DEF Available

\* The step of a call keeps the account.
LEMMA StepAccounted ==
    ASSUME IsFiniteSet(Calls), Types, Accounted, NEW c \in Calls, Step(c) \/ Die(c)
    PROVE  Accounted'
<1> DEFINE n == Cardinality(Undone)
<1>0. /\ effects \in Nat /\ incidents \in Nat /\ call \in [Calls -> Places]
      /\ key.kind = "pending" => key.by \in Calls
  BY DEF Types, Free, Pending, Result
<1>m. ASSUME NEW pc \in Places, Goto(c, pc)
      PROVE  /\ n \in Nat
             /\ Cardinality(Undone') = n + Weight(pc) - Weight(call[c])
  BY <1>0, <1>m, OneMoves
<1>1. CASE Checks(c)
  <2> PICK pc \in {"reserve", "done"} : Goto(c, pc)
    BY <1>1 DEF Checks, Return
  <2>1. Available' <=> Available
    BY <1>1, AvailableStays DEF Checks, Places, Working
  <2> QED BY <1>0, <1>1, <1>m, <2>1 DEF Accounted, Checks, KeepsTool, Weight, Working, Places
<1>2. CASE Reserve(c)
  <2>1. CASE key = Free
    <3>1. Goto(c, "screen") /\ call[c] = "reserve" /\ Available /\ ~Available'
      BY <1>0, <1>2, <2>1 DEF Reserve, Available, Free, Pending, InFlight, Goto
    <3> QED BY <1>0, <1>2, <1>m, <3>1 DEF Accounted, Reserve, KeepsTool, Weight, Working, Places
  <2>2. CASE key # Free
    <3>1. Goto(c, "get") /\ call[c] = "reserve" /\ key' = key
      BY <1>2, <2>2 DEF Reserve
    <3>2. Available' <=> Available
      BY <3>1, AvailableStays DEF Places, Working
    <3> QED BY <1>0, <1>2, <1>m, <3>1, <3>2 DEF Accounted, Reserve, KeepsTool, Weight, Working, Places
  <2> QED BY <2>1, <2>2
<1>3. CASE GetCached(c)
  <2>1. Goto(c, "done") /\ call[c] = "get" /\ key' = key
    BY <1>3 DEF GetCached, Return
  <2>2. Available' <=> Available
    BY <2>1, AvailableStays DEF Places, Working
  <2> QED BY <1>0, <1>3, <1>m, <2>1, <2>2 DEF Accounted, GetCached, KeepsTool, Weight, Working, Places
<1>4. CASE Release(c)
  <2>1. Goto(c, "done") /\ call[c] = "release"
    BY <1>4 DEF Release, Return
  <2> QED BY <1>0, <1>4, <1>m, <2>1 DEF Accounted, Release, KeepsTool, Weight, Working, Places
<1>5. CASE Screen(c) \/ Resolve(c) \/ Connect(c)
  <2>1. PICK pc \in Working : Goto(c, pc)
    BY <1>5 DEF Screen, Resolve, Connect, Working
  <2>2. /\ call[c] \in Working /\ key' = key /\ effects' = effects /\ incidents' = incidents
    BY <1>5 DEF Screen, Resolve, Connect, Working, KeepsTool
  <2>3. Available' <=> Available
    BY <2>1, <2>2, AvailableStays DEF Places, Working
  <2>4. Cardinality(Undone') = n /\ n \in Nat
    BY <1>0, <1>m, <2>1, <2>2 DEF Weight, Working, Places
  <2> QED BY <1>0, <2>2, <2>3, <2>4 DEF Accounted
<1>6. CASE Execute(c)
  <2>1. PICK pc \in {"store", "release"} : Goto(c, pc)
    BY <1>6 DEF Execute
  <2>2. call[c] = "execute" /\ key' = key
    BY <1>6 DEF Execute
  <2>3. Available' <=> Available
    BY <2>1, <2>2, AvailableStays DEF Places, Working
  <2>4. Cardinality(Undone') = n + Weight(pc) - 1 /\ n \in Nat
    BY <1>0, <1>m, <2>1, <2>2 DEF Weight, Working, Places
  <2>5. pc = call'[c]
    BY <1>0, <2>1 DEF Goto
  <2>6. \/ pc = "store" /\ effects' = effects + 1 /\ incidents' = incidents
        \/ pc = "release" /\ effects' = effects /\ incidents' = incidents
        \/ pc = "release" /\ effects' = effects + 1 /\ incidents' = incidents + 1
    BY <1>0, <1>6, <2>5 DEF Execute, Goto
  <2> QED BY <1>0, <2>3, <2>4, <2>6 DEF Accounted, Weight, Working
<1>7. CASE Store(c)
  <2>1. call[c] = "store" /\ effects' = effects
    BY <1>7 DEF Store, KeepsTool
  <2>2. CASE Return(c, Result(c)) /\ key' = Result(c) /\ incidents' = incidents
    <3>1. ~Available'
      BY <2>2 DEF Available, Result
    <3>2. Cardinality(Undone') = n /\ n \in Nat
      BY <1>0, <1>m, <2>1, <2>2 DEF Return, Weight, Working, Places
    <3> QED BY <1>0, <2>1, <2>2, <3>1, <3>2 DEF Accounted
  <2>3. CASE Goto(c, "release") /\ key' = key /\ incidents' = incidents + 1
    <3>1. Available' <=> Available
      BY <2>1, <2>3, AvailableStays DEF Places, Working
    <3>2. Cardinality(Undone') = n + 1 /\ n \in Nat
      BY <1>0, <1>m, <2>1, <2>3 DEF Weight, Working, Places
    <3> QED BY <1>0, <2>1, <2>3, <3>1, <3>2 DEF Accounted
  <2> QED BY <1>7, <2>2, <2>3 DEF Store
<1>8. CASE Remote(c)
  <2>1. /\ Goto(c, "done") /\ call[c] = "checks" /\ key' = key
        /\ effects' \in {effects, effects + 1} /\ incidents' = incidents + 1
    BY <1>8 DEF Remote, Return
  <2>2. Available' <=> Available
    BY <2>1, AvailableStays DEF Places, Working
  <2>3. Cardinality(Undone') = n /\ n \in Nat
    BY <1>0, <1>m, <2>1 DEF Weight, Working, Places
  <2> QED BY <1>0, <2>1, <2>2, <2>3 DEF Accounted
<1>9. CASE Die(c)
  <2>1. Goto(c, "done") /\ effects' = effects
    BY <1>9 DEF Die, Return
  <2>2. CASE call[c] = "store"
    <3>1. incidents' = incidents + 1
      BY <1>9, <2>2 DEF Die
    <3>2. Cardinality(Undone') = n /\ n \in Nat
      BY <1>0, <1>m, <2>1, <2>2 DEF Weight, Working, Places
    <3> QED BY <1>0, <2>1, <3>1, <3>2 DEF Accounted
  <2>3. CASE call[c] # "store"
    <3>1. incidents' = incidents /\ call[c] \in Working
      BY <1>0, <1>9, <2>3 DEF Die, Working
    <3>2. Cardinality(Undone') = n - 1 /\ n \in Nat
      BY <1>0, <1>m, <2>1, <3>1 DEF Weight, Working, Places
    <3> QED BY <1>0, <2>1, <3>1, <3>2 DEF Accounted
  <2> QED BY <2>2, <2>3
<1> QED BY <1>1, <1>2, <1>3, <1>4, <1>5, <1>6, <1>7, <1>8, <1>9 DEF Step

\* Replacing the worker ends the calls in flight; the one that reserved the
\* key was among the working ones, or its lost effect is an incident.
LEMMA RestartAccounted ==
    ASSUME IsFiniteSet(Calls), Types, Accounted, Restart
    PROVE  Types' /\ Accounted'
<1> DEFINE Storing == {c \in Calls : call[c] = "store"}
<1>0. /\ effects \in Nat /\ incidents \in Nat /\ call \in [Calls -> Places]
      /\ key.kind = "pending" => key.by \in Calls
  BY DEF Types, Free, Pending, Result
<1>1. IsFiniteSet(Undone) /\ IsFiniteSet(Storing)
  BY FS_Subset DEF Undone
<1>2. Cardinality(Undone) \in Nat /\ Cardinality(Storing) \in Nat
  BY <1>1, FS_CardinalityType
<1>3. \A c \in Calls : call'[c] \notin Working /\ ~InFlight(c)'
  BY <1>0 DEF Restart, InFlight, Working
<1>4. Cardinality(Undone') = 0
  BY <1>3, FS_EmptySet DEF Undone
<1>5. effects' = effects /\ key' = key /\ incidents' = incidents + Cardinality(Storing)
  BY DEF Restart
<1>6. Types'
  <2>1. call' \in [Calls -> Places]
    BY <1>0 DEF Restart, Places
  <2>2. answer' \in [Calls -> Errors \cup {Result(c) : c \in Calls}]
    BY DEF Restart, Types, Errors
  <2> QED BY <1>0, <1>2, <1>5, <2>1, <2>2 DEF Types
<1>7. CASE Available \/ ~Available'
  BY <1>0, <1>2, <1>4, <1>5, <1>6, <1>7 DEF Accounted
<1>8. CASE ~Available /\ Available'
  <2>1. key.kind = "pending" /\ InFlight(key.by) /\ key.by \in Calls
    BY <1>0, <1>5, <1>8 DEF Available
  <2>2. Undone # {} \/ Storing # {}
    BY <2>1 DEF InFlight, Undone, Working
  <2>3. Cardinality(Undone) >= 1 \/ Cardinality(Storing) >= 1
    BY <1>1, <1>2, <2>2, FS_EmptySet
  <2> QED BY <1>0, <1>2, <1>4, <1>5, <1>6, <2>3 DEF Accounted
<1> QED BY <1>7, <1>8

\* A key that expires makes itself available; under a call in flight, or with
\* a result in it, that is an incident.
LEMMA ExpiryAccounted ==
    ASSUME IsFiniteSet(Calls), Types, Accounted, ReservationExpires \/ ResultExpires
    PROVE  Types' /\ Accounted'
<1>0. effects \in Nat /\ incidents \in Nat /\ call' = call /\ answer' = answer /\ effects' = effects
  BY DEF Types, ReservationExpires, ResultExpires, KeepsTool
<1>1. Cardinality(Undone) \in Nat
  BY FS_Subset, FS_CardinalityType DEF Undone
<1>2. Undone' = Undone
  BY <1>0 DEF Undone
<1>3. IF Available THEN incidents' \in {incidents, incidents + 1} ELSE incidents' = incidents + 1
  BY <1>0 DEF ReservationExpires, ResultExpires, Available
<1>4. Types'
  BY <1>0, <1>3 DEF Types, ReservationExpires, ResultExpires
<1> QED BY <1>0, <1>1, <1>2, <1>3, <1>4 DEF Accounted

\* What an answer or the key calls a result belongs to a call that is done and
\* returned it.
Returned(r) == r.by \in Calls /\ call[r.by] = "done" /\ answer[r.by] = r /\ effects > 0

Replays ==
    /\ key.kind = "result" => Returned(key)
    /\ \A c \in Calls : /\ call[c] = "store" => effects > 0
                        /\ answer[c].kind = "result" => Returned(answer[c])

Inv == Types /\ Accounted /\ Replays

LEMMA InvInit == ASSUME IsFiniteSet(Calls), Init PROVE Inv
<1>1. Types
  BY DEF Init, Types, Places, Errors
<1>2. Undone = {}
  BY DEF Init, Undone, Working
<1>3. Accounted
  BY <1>2, FS_EmptySet DEF Init, Accounted
<1>4. Replays
  BY DEF Init, Replays, Free, Says
<1> QED BY <1>1, <1>3, <1>4 DEF Inv

\* No call that is done is moved again, so what it returned stays.
LEMMA ReplaysKept ==
    ASSUME Types, Replays, Types', Next
    PROVE  Replays'
<1>0. /\ effects \in Nat /\ effects' \in Nat /\ effects' >= effects
      /\ call \in [Calls -> Places] /\ DOMAIN answer = Calls
  BY DEF Types, Next, Step, Checks, Remote, Reserve, GetCached, Release, Screen, Resolve, Connect,
         Execute, Store, Die, Restart, ReservationExpires, ResultExpires, KeepsTool
<1>1. ASSUME NEW d \in Calls, call[d] = "done"
      PROVE  call'[d] = "done" /\ answer'[d] = answer[d]
  BY <1>0, <1>1 DEF Types, Next, Step, Checks, Remote, Reserve, GetCached, Release, Screen, Resolve, Connect,
         Execute, Store, Die, Restart, ReservationExpires, ResultExpires, KeepsTool,
         Goto, Return, InFlight
<1>2. ASSUME NEW r, Returned(r) PROVE Returned(r)'
  BY <1>0, <1>1, <1>2 DEF Returned
<1>3. ASSUME NEW c \in Calls, call'[c] = "store" PROVE effects' > 0
  BY <1>0, <1>3 DEF Types, Replays, Next, Step, Checks, Remote, Reserve, GetCached, Release, Screen, Resolve,
         Connect, Execute, Store, Die, Restart, ReservationExpires, ResultExpires, KeepsTool,
         Goto, Return, InFlight
<1>4. key'.kind = "result" => Returned(key)'
  <2>1. CASE \E c \in Calls : Store(c)
    <3> PICK c \in Calls : Store(c) BY <2>1
    <3>1. call[c] = "store" /\ effects > 0 /\ effects' = effects
      BY DEF Store, Replays, KeepsTool
    <3>2. CASE key' = Result(c) /\ Return(c, Result(c))
      BY <1>0, <3>1, <3>2 DEF Types, Returned, Result, Return, Goto
    <3>3. CASE key' = key
      BY <1>2, <3>3 DEF Replays
    <3> QED BY <3>2, <3>3 DEF Store
  <2>2. CASE ~\E c \in Calls : Store(c)
    <3>1. key' = key \/ key'.kind # "result"
      BY <2>2 DEF Next, Step, Checks, Remote, Reserve, GetCached, Release, Screen, Resolve, Connect,
         Execute, Die, Restart, ReservationExpires, ResultExpires, Free, Pending
    <3> QED BY <1>2, <3>1 DEF Replays
  <2> QED BY <2>1, <2>2
<1>5. ASSUME NEW c \in Calls, answer'[c].kind = "result" PROVE Returned(answer[c])'
  <2>1. CASE answer'[c] = answer[c]
    BY <1>2, <1>5, <2>1 DEF Replays
  <2>2. CASE GetCached(c) /\ answer'[c] = key /\ key.kind = "result"
    BY <1>2, <2>2 DEF Replays
  <2>3. CASE Store(c) /\ answer'[c] = Result(c) /\ key' = Result(c)
    BY <1>4, <2>3 DEF Result
  <2>4. \/ answer'[c] = answer[c]
        \/ answer'[c].kind # "result"
        \/ GetCached(c) /\ answer'[c] = key /\ key.kind = "result"
        \/ Store(c) /\ answer'[c] = Result(c) /\ key' = Result(c)
    BY <1>0 DEF Types, Next, Step, Checks, Remote, Reserve, GetCached, Release, Screen, Resolve, Connect,
         Execute, Store, Die, Restart, ReservationExpires, ResultExpires, KeepsTool,
         Goto, Return, Says
  <2> QED BY <1>5, <2>1, <2>2, <2>3, <2>4
<1> QED BY <1>3, <1>4, <1>5 DEF Replays

LEMMA InvNext == ASSUME IsFiniteSet(Calls), Inv, [Next]_vars PROVE Inv'
<1>1. CASE UNCHANGED vars
  BY <1>1 DEF Inv, Types, Accounted, Replays, Returned, Undone, Available, InFlight, vars
<1>2. CASE Next
  <2>1. Types' /\ Accounted'
    BY <1>2, StepTypes, StepAccounted, RestartAccounted, ExpiryAccounted DEF Inv, Next
  <2>2. Replays'
    BY <1>2, <2>1, ReplaysKept DEF Inv
  <2> QED BY <2>1, <2>2 DEF Inv
<1> QED BY <1>1, <1>2

\* However many calls share an idempotency key, overlap, fail and are retried,
\* the tool takes effect once, plus at most once for each incident, calls of
\* remote MCP tools among them (reserve, release and store in
\* core/tool_gateway/idempotency.py and gateway.py).
THEOREM EffectsAccounted ==
    ASSUME IsFiniteSet(Calls)
    PROVE  Spec => []OneEffectPerIncident
<1>1. Inv => OneEffectPerIncident
  <2> SUFFICES ASSUME Inv PROVE OneEffectPerIncident
    OBVIOUS
  <2>1. Cardinality(Undone) \in Nat
    BY FS_Subset, FS_CardinalityType DEF Undone
  <2> QED BY <2>1 DEF Inv, Types, Accounted, OneEffectPerIncident
<1> QED BY <1>1, InvInit, InvNext, PTL DEF Spec

\* What any call is answered as a result is what a call whose tool took effect
\* returned: a pending marker is never replayed (get_cached, store).
THEOREM ReplaysAreResults ==
    ASSUME IsFiniteSet(Calls)
    PROVE  Spec => []ReplayIsAResult
<1>1. Inv => ReplayIsAResult
  BY DEF Inv, Replays, Returned, ReplayIsAResult
<1> QED BY <1>1, InvInit, InvNext, PTL DEF Spec

(***************************************************************************)
(* The rate limiter                                                         *)
(***************************************************************************)
CONSTANTS Callers, Limit, Minute, Ttl, MaxTime
VARIABLES now, bucket, used, asked, passed, setBack

Limiter == INSTANCE RateLimiter

\* A bucket outlives its last use by a minute or more: EXPIRE is given twice the
\* time a bucket takes to fill.
LimiterSetup == Limit \in Nat /\ Minute \in Nat /\ Ttl \in Nat /\ Minute <= Ttl

\* What was let through and is left in the bucket was there at first or has
\* accrued up to last_refill; with no bucket, a full one has accrued.
Accrued ==
    IF bucket.there
    THEN passed * Minute + bucket.tokens <= Limit * Minute + (bucket.last + setBack) * Limit
    ELSE passed * Minute <= (now + setBack) * Limit

LimiterTyped ==
    /\ now \in Nat /\ used \in 0..now
    /\ bucket \in [there : BOOLEAN, tokens : Nat, last : 0..used]
    /\ asked \in [Callers -> -1..now]
    /\ passed \in Nat /\ setBack \in Nat
    /\ ~bucket.there => bucket.tokens = Limit * Minute

LimiterInv == LimiterTyped /\ Accrued

LEMMA Scales == ASSUME NEW a \in Int, NEW b \in Int, NEW c \in Nat, a <= b PROVE a * c <= b * c
OBVIOUS

LEMMA Distributes == ASSUME NEW a \in Int, NEW b \in Int, NEW c \in Int PROVE (a + b) * c = a * c + b * c
OBVIOUS

\* max(0, d) and min(a, b), as the script writes them.
LEMMA NotNegative ==
    ASSUME NEW d \in Int PROVE Limiter!Max({d, 0}) = IF d <= 0 THEN 0 ELSE d
BY DEF Limiter!Max

LEMMA Smaller ==
    ASSUME NEW a \in Int, NEW b \in Int PROVE Limiter!Min({a, b}) = IF a <= b THEN a ELSE b
BY DEF Limiter!Min

LEMMA LimiterInit == ASSUME LimiterSetup, Limiter!Init PROVE LimiterInv
BY DEF LimiterSetup, Limiter!Init, Limiter!Full, Limiter!Capacity, LimiterInv, LimiterTyped, Accrued

LEMMA ExpireStep ==
    ASSUME LimiterSetup, LimiterInv, Limiter!Expire
    PROVE  LimiterInv'
<1>1. /\ bucket.there /\ now >= used + Ttl
      /\ bucket' = [there |-> FALSE, tokens |-> Limit * Minute, last |-> 0]
      /\ UNCHANGED <<now, used, asked, passed, setBack>>
  BY DEF Limiter!Expire, Limiter!Full, Limiter!Capacity
<1>2. LimiterTyped'
  BY <1>1 DEF LimiterInv, LimiterTyped, LimiterSetup
<1>3. Minute + (bucket.last + setBack) <= now + setBack
  BY <1>1 DEF LimiterInv, LimiterTyped, LimiterSetup
<1>4. (Minute + (bucket.last + setBack)) * Limit <= (now + setBack) * Limit
  BY <1>3, Scales DEF LimiterInv, LimiterTyped, LimiterSetup
<1>5. (Minute + (bucket.last + setBack)) * Limit = Minute * Limit + (bucket.last + setBack) * Limit
  BY Distributes DEF LimiterInv, LimiterTyped, LimiterSetup
<1>6. Accrued'
  BY <1>1, <1>4, <1>5 DEF LimiterInv, LimiterTyped, LimiterSetup, Accrued
<1> QED BY <1>2, <1>6 DEF LimiterInv

LEMMA BucketStep ==
    ASSUME LimiterSetup, LimiterInv, NEW c \in Callers, Limiter!TokenBucket(c)
    PROVE  LimiterInv'
<1> DEFINE t == asked[c]
           gained == Limiter!Max({t - Limiter!Last(t), 0})
           tokens == Limiter!Refilled(t)
           back == Limiter!Max({(IF bucket.there THEN bucket.last ELSE now) - t, 0})
<1>1. /\ t # -1
      /\ bucket' = [there |-> TRUE, last |-> t,
                    tokens |-> IF tokens >= Minute THEN tokens - Minute ELSE tokens]
      /\ used' = now /\ setBack' = setBack + back /\ now' = now
      /\ asked' = [asked EXCEPT ![c] = -1]
      /\ passed' = IF tokens >= Minute THEN passed + 1 ELSE passed
  BY DEF Limiter!TokenBucket
<1>2. /\ t \in 0..now /\ Limiter!Last(t) \in Nat /\ gained \in Nat /\ back \in Nat
      /\ Limiter!Last(t) = IF bucket.there THEN bucket.last ELSE t
      /\ gained = IF t <= Limiter!Last(t) THEN 0 ELSE t - Limiter!Last(t)
      /\ bucket.there => t + back = bucket.last + gained
      /\ ~bucket.there => t + back = now /\ gained = 0
  <2> DEFINE last == Limiter!Last(t)
             before == IF bucket.there THEN bucket.last ELSE now
  <2>1. t \in 0..now /\ before \in 0..now /\ last = IF bucket.there THEN bucket.last ELSE t
    BY <1>1 DEF LimiterInv, LimiterTyped, Limiter!Last
  <2>2. last \in Nat
    BY <2>1 DEF LimiterInv, LimiterTyped
  <2> HIDE DEF t, last
  <2>3. gained = IF t - last <= 0 THEN 0 ELSE t - last
    <3>1. t - last \in Int
      BY <2>1, <2>2
    <3>2. gained = Limiter!Max({t - last, 0})
      BY DEF last
    <3> HIDE DEF gained
    <3> QED BY <3>1, <3>2, NotNegative
  <2>4. back = IF before - t <= 0 THEN 0 ELSE before - t
    <3>1. before - t \in Int
      BY <2>1
    <3>2. back = Limiter!Max({before - t, 0})
      OBVIOUS
    <3> HIDE DEF back, before
    <3> QED BY <3>1, <3>2, NotNegative
  <2> HIDE DEF gained, back, before
  <2>5. /\ gained \in Nat /\ back \in Nat
        /\ gained = IF t <= last THEN 0 ELSE t - last
        /\ bucket.there => t + back = bucket.last + gained
        /\ ~bucket.there => t + back = now /\ gained = 0
    BY <2>1, <2>2, <2>3, <2>4 DEF before
  <2> QED BY <2>1, <2>2, <2>5 DEF last
<1>3. gained * Limit \in Nat /\ Limit * Minute \in Nat
  BY <1>2 DEF LimiterSetup
<1>4. tokens \in Nat /\ tokens <= bucket.tokens + gained * Limit
  <2>1. tokens = Limiter!Min({Limit * Minute, bucket.tokens + gained * Limit})
    BY DEF Limiter!Refilled, Limiter!Capacity
  <2> HIDE DEF gained, tokens
  <2> QED BY <2>1, <1>3, Smaller DEF LimiterInv, LimiterTyped
<1> HIDE DEF t, gained, tokens, back
<1>5. LimiterTyped'
  BY <1>1, <1>2, <1>4 DEF LimiterInv, LimiterTyped, LimiterSetup
<1>6. passed' * Minute + bucket'.tokens = passed * Minute + tokens
  <2>1. (passed + 1) * Minute = passed * Minute + 1 * Minute
    BY Distributes DEF LimiterInv, LimiterTyped, LimiterSetup
  <2> QED BY <2>1, <1>1, <1>4 DEF LimiterInv, LimiterTyped, LimiterSetup
<1>7. (bucket'.last + setBack') * Limit =
         (IF bucket.there THEN bucket.last + setBack ELSE now + setBack) * Limit + gained * Limit
  <2>1. bucket'.last + setBack' =
            (IF bucket.there THEN bucket.last + setBack ELSE now + setBack) + gained
    BY <1>1, <1>2 DEF LimiterInv, LimiterTyped
  <2> QED BY <2>1, <1>2, Distributes DEF LimiterInv, LimiterTyped, LimiterSetup
<1>8. passed * Minute + tokens <= Limit * Minute + (bucket'.last + setBack') * Limit
  <2>1. CASE bucket.there
    BY <2>1, <1>3, <1>4, <1>7 DEF LimiterInv, LimiterTyped, LimiterSetup, Accrued
  <2>2. CASE ~bucket.there
    BY <2>2, <1>2, <1>3, <1>4, <1>7 DEF LimiterInv, LimiterTyped, LimiterSetup, Accrued
  <2> QED BY <2>1, <2>2
<1>9. Accrued'
  BY <1>1, <1>6, <1>8 DEF Accrued, LimiterSetup
<1> QED BY <1>5, <1>9 DEF LimiterInv

LEMMA LimiterStep == ASSUME LimiterSetup, LimiterInv, [Limiter!Next]_(Limiter!vars) PROVE LimiterInv'
<1>1. CASE Limiter!Tick
  <2>1. LimiterTyped'
    BY <1>1 DEF LimiterInv, LimiterTyped, LimiterSetup, Limiter!Tick
  <2>2. (now + setBack) * Limit <= (now' + setBack) * Limit
    BY <1>1, Scales DEF LimiterInv, LimiterTyped, LimiterSetup, Limiter!Tick
  <2>3. Accrued'
    BY <1>1, <2>2 DEF LimiterInv, LimiterTyped, LimiterSetup, Limiter!Tick, Accrued
  <2> QED BY <2>1, <2>3 DEF LimiterInv
<1>2. CASE Limiter!Expire
  BY <1>2, ExpireStep
<1>3. ASSUME NEW c \in Callers, Limiter!Ask(c) PROVE LimiterInv'
  BY <1>3 DEF LimiterInv, LimiterTyped, Accrued, Limiter!Ask
<1>4. ASSUME NEW c \in Callers, Limiter!TokenBucket(c) PROVE LimiterInv'
  BY <1>4, BucketStep
<1>5. CASE UNCHANGED Limiter!vars
  BY <1>5 DEF LimiterInv, LimiterTyped, Accrued, Limiter!vars
<1> QED BY <1>1, <1>2, <1>3, <1>4, <1>5 DEF Limiter!Next

\* The requests let through never exceed the capacity plus what has accrued, for
\* any number of callers whose clock readings arrive in any order; only the time
\* by which last_refill was set back is credited twice, and dropping an unused
\* bucket credits nothing (_TOKEN_BUCKET_LUA, RateLimiter.check).
THEOREM LimitHolds ==
    ASSUME LimiterSetup PROVE Limiter!Spec => []Limiter!SpendsWhatAccrues
<1>1. LimiterInv => Limiter!SpendsWhatAccrues
  <2> SUFFICES ASSUME LimiterInv PROVE passed * Minute <= Limit * Minute + (now + setBack) * Limit
    BY DEF Limiter!SpendsWhatAccrues, Limiter!Capacity
  <2>1. (bucket.last + setBack) * Limit <= (now + setBack) * Limit
    BY Scales DEF LimiterInv, LimiterTyped, LimiterSetup
  <2> QED BY <2>1 DEF LimiterInv, LimiterTyped, LimiterSetup, Accrued
<1>2. Limiter!Init => LimiterInv
  BY LimiterInit
<1>3. LimiterInv /\ [Limiter!Next]_(Limiter!vars) => LimiterInv'
  BY LimiterStep
<1> QED BY <1>1, <1>2, <1>3, PTL DEF Limiter!Spec
=============================================================================
