---------------------------- MODULE RateLimiting ----------------------------
(***************************************************************************)
(* deps._new_rate_limiter: the API counts its callers in memory, or in     *)
(* Redis when REDIS_URL is set. A deployment uses one of the two limiters  *)
(* and never touches the other: it stays in its initial state.             *)
(***************************************************************************)
EXTENDS RateLimiter

CONSTANTS
    Requests,       \* to the API processes that share Redis
    RedisDelay,     \* MaxDelay, between a caller's clock and its commands
    RedisClock,     \* MaxClock, with Redis
    FaultKinds,     \* the faults the environment may inject ...
    MaxFaults       \* ... and how many of them in one behaviour

VARIABLES
    REDIS_URL,      \* whether it is set
    time, counter, ttl, check, granted, late, faults    \* of RedisRateLimiter

redisVars == <<time, counter, ttl, check, granted, late, faults>>

Redis == INSTANCE RedisRateLimiter WITH
    MaxDelay <- RedisDelay, MaxClock <- RedisClock,
    clock <- time, call <- check, admitted <- granted

ASSUME RedisConstants == Redis!RedisAssumption

LimitingInit ==
    /\ REDIS_URL \in BOOLEAN
    /\ Init
    /\ Redis!Init

InMemory == ~REDIS_URL /\ Next /\ UNCHANGED <<REDIS_URL, redisVars>>
Shared == REDIS_URL /\ Redis!Next /\ UNCHANGED <<REDIS_URL, vars>>

LimitingNext == InMemory \/ Shared
LimitingSpec == LimitingInit /\ [][LimitingNext]_<<REDIS_URL, vars, redisVars>>
-----------------------------------------------------------------------------
(* All the processes together let no more of a window in than the limit,   *)
(* but for callers that come when its counter may have expired.            *)
WindowLimit == Redis!WindowLimit

(* Nobody is refused by a shared counter before the limit but for faults.  *)
NoSpuriousRefusal == Redis!NoSpuriousRefusal

(* Counters stay behind in Redis only for faults.                          *)
LeaksAreFaults == Redis!LeaksAreFaults
=============================================================================
