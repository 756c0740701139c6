----------------------------- MODULE RateLimiter -----------------------------
(***************************************************************************)
(* The token bucket of one tenant and connector in Redis                   *)
(* (core/tool_gateway/rate_limiter.py).  A caller reads the clock and then *)
(* sends it to the Lua script, which runs atomically; between the two any  *)
(* other caller may run, so the script sees times out of order.            *)
(*                                                                         *)
(* Time is in ticks, Minute ticks to the minute.  Tokens are counted in    *)
(* parts: one token is Minute parts, so that limit / 60 tokens a second    *)
(* are limit parts a tick and no fraction is rounded.                      *)
(***************************************************************************)
EXTENDS Integers, FiniteSetsExt

CONSTANTS
    Callers,
    Limit,      \* the connector's requests per minute: capacity and refill
    Minute,     \* ticks in a minute
    Ttl,        \* ticks the bucket outlives its last use: at least 2 * Minute
    MaxTime     \* bound: ticks

VARIABLES
    now,        \* the clock
    bucket,     \* Redis: there or not, tokens (in parts), last_refill
    used,       \* when the script last ran, for the expiry
    asked,      \* caller -> the time it read, -1 when it has no call out
    passed,     \* requests allowed so far
    setBack     \* history: ticks by which last_refill was set behind, in total

vars == <<now, bucket, used, asked, passed, setBack>>

Capacity == Limit * Minute

Full == [there |-> FALSE, tokens |-> Capacity, last |-> 0]

Init ==
    /\ now = 0
    /\ bucket = Full
    /\ used = 0
    /\ asked = [c \in Callers |-> -1]
    /\ passed = 0
    /\ setBack = 0

Tick ==
    /\ now < MaxTime
    /\ now' = now + 1
    /\ UNCHANGED <<bucket, used, asked, passed, setBack>>

\* check reads time.time().
Ask(c) ==
    /\ asked[c] = -1
    /\ asked' = [asked EXCEPT ![c] = now]
    /\ UNCHANGED <<now, bucket, used, passed, setBack>>

Last(t) == IF bucket.there THEN bucket.last ELSE t

\* Mutation: time that ran backwards is credited as if it had elapsed.
RefilledAbsolute(t) ==
    Min({Capacity, bucket.tokens + Max({t - Last(t), Last(t) - t}) * Limit})

\* The tokens in the bucket at time t.
Refilled(t) == Min({Capacity, bucket.tokens + Max({t - Last(t), 0}) * Limit})

\* The script: refill, move last_refill to the caller's time, take a token.
TokenBucket(c) ==
    LET t == asked[c]
        tokens == Refilled(t)
        allowed == tokens >= Minute
    IN  /\ asked[c] # -1
        /\ bucket' = [there |-> TRUE, last |-> t,
                      tokens |-> IF allowed THEN tokens - Minute ELSE tokens]
        /\ used' = now
        /\ setBack' = setBack + Max({(IF bucket.there THEN bucket.last ELSE now) - t, 0})
        /\ asked' = [asked EXCEPT ![c] = -1]
        /\ passed' = IF allowed THEN passed + 1 ELSE passed
        /\ UNCHANGED now

\* EXPIRE: an unused bucket is dropped, the next call starts with a full one.
Expire ==
    /\ bucket.there /\ now >= used + Ttl
    /\ bucket' = Full
    /\ UNCHANGED <<now, used, asked, passed, setBack>>

Next ==
    \/ Tick \/ Expire
    \/ \E c \in Callers : Ask(c) \/ TokenBucket(c)

Spec == Init /\ [][Next]_vars

-----------------------------------------------------------------------------
(* Properties                                                              *)

\* The bucket never holds more than the capacity, and never a time ahead of
\* the clock.
TypeOK ==
    /\ now \in 0..MaxTime /\ used \in 0..now
    /\ bucket.tokens \in 0..Capacity /\ bucket.last \in 0..now
    /\ asked \in [Callers -> -1..now]
    /\ passed \in Nat /\ setBack \in Nat

\* At any time, the requests let through are at most the capacity plus what
\* the elapsed time refills; a call that arrives late or out of order adds
\* the time it sets last_refill behind by, which is credited again, and
\* nothing else does: not dropping an unused bucket, not a clock read twice
\* (_TOKEN_BUCKET_LUA, EXPIRE).
SpendsWhatAccrues == passed * Minute =< Capacity + (now + setBack) * Limit
=============================================================================
