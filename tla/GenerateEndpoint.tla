-------------------------- MODULE GenerateEndpoint --------------------------
(***************************************************************************)
(* POST /api/generate from its dependencies to its answer (main.py,        *)
(* service.py, claude_client.py). Every dependency and every handler is a  *)
(* synchronous function that occupies a thread of the server's pool while  *)
(* it runs; the call to Claude may take very long, so that a semaphore     *)
(* caps how many generations run at once and refuses the others.           *)
(***************************************************************************)
EXTENDS Integers, FiniteSets

CONSTANTS
    Generations,    \* requests to POST /api/generate
    Reads,          \* requests to the other endpoints
    PoolSize,       \* threads of the pool
    MaxConcurrent,  \* GENERATE_MAX_CONCURRENCY
    ParseRetries    \* parse_retries of PoemConfig

ASSUME PoolAssumption == /\ PoolSize \in Nat /\ MaxConcurrent \in Nat
                         /\ MaxConcurrent < PoolSize
ASSUME RetriesAssumption == ParseRetries \in Nat
ASSUME RequestsAssumption == Generations \cap Reads = {}

VARIABLES
    step,       \* per request: the function that it runs next, or runs
    threads,    \* the requests that keep a thread of the pool
    cached,     \* the semaphore in get_generation_semaphore's lru_cache, if any
    semaphore,  \* per generation: the semaphore it was given
    slots,      \* per semaphore: its value
    holding,    \* the requests whose acquire succeeded, until their release
    calls,      \* per request: the calls to Claude while its handler runs
    persisted,  \* the generations whose poem and jobs are in the database
    answer      \* per request: its response, "none" before

vars == <<step, threads, cached, semaphore, slots, holding, calls, persisted,
          answer>>

limits == <<cached, semaphore, slots, holding>>

Requests == Generations \cup Reads

Init ==
    /\ step = [r \in Requests |-> "none"]
    /\ threads = {}
    /\ cached = {}
    /\ semaphore = [g \in Generations |-> g]
    /\ slots = [g \in Generations |-> MaxConcurrent]
    /\ holding = {}
    /\ calls = [r \in Requests |-> 0]
    /\ persisted = {}
    /\ answer = [r \in Requests |-> "none"]

-----------------------------------------------------------------------------
(* The server.                                                             *)

Arrive(r) ==
    /\ step[r] = "none"
    /\ step' = [step EXCEPT ![r] = IF r \in Reads THEN "read" ELSE "limit"]
    /\ UNCHANGED <<threads, limits, calls, persisted, answer>>

(* A function runs when the pool has a thread for it, or goes on running   *)
(* on the one it has. A short one ends in the same step: only what may     *)
(* take long, or may be overtaken, is seen on its thread (Keep).           *)
Running(r, f) ==
    step[r] = f /\ (r \in threads \/ Cardinality(threads) < PoolSize)
Continue(r, f) ==
    /\ step' = [step EXCEPT ![r] = f]
    /\ threads' = threads \ {r}
    /\ UNCHANGED <<calls, answer>>
Keep(r, f) ==
    /\ step' = [step EXCEPT ![r] = f]
    /\ threads' = threads \cup {r}
    /\ UNCHANGED <<calls, answer>>

(* The response is decided: the handler returns (200, "ok"), refuses (401, *)
(* 422, 429, 502, 503: "refused"), or an error escapes it (500, "failed"). *)
(* What a dependency acquired is released afterwards.                      *)
NoFinally(r, code) ==                       \* mutant: no finally around the yield
    /\ answer' = [answer EXCEPT ![r] = code]
    /\ calls' = [calls EXCEPT ![r] = 0]
    /\ threads' = threads \ {r}
    /\ step' = [step EXCEPT ![r] =
                   IF r \in holding /\ code = "ok" THEN "release" ELSE "over"]
Respond(r, code) ==
    /\ answer' = [answer EXCEPT ![r] = code]
    /\ calls' = [calls EXCEPT ![r] = 0]
    /\ threads' = threads \ {r}
    /\ step' = [step EXCEPT ![r] = IF r \in holding THEN "release" ELSE "over"]

Read(r) ==
    /\ Running(r, "read")
    /\ Respond(r, "ok")
    /\ UNCHANGED <<limits, persisted>>

-----------------------------------------------------------------------------
(* The dependencies of POST /api/generate, in their order. Whether a       *)
(* request is over its limit and whether it has the key is left open.      *)

EnforceRateLimit(g) ==
    /\ Running(g, "limit")
    /\ \/ Continue(g, "auth")
       \/ Respond(g, "refused")
    /\ UNCHANGED <<limits, persisted>>

RequireApiKey(g) ==
    /\ Running(g, "auth")
    /\ \/ Continue(g, "semaphore")
       \/ Respond(g, "refused")
    /\ UNCHANGED <<limits, persisted>>

(* get_generation_semaphore: lru_cache calls the function when it has no   *)
(* value yet, and without a lock: a request that looked before another's   *)
(* semaphore was stored builds one too, and gets its own, not the stored   *)
(* one. A semaphore has the name of the request that built it.             *)
LookUp(g) ==
    /\ Running(g, "semaphore")
    /\ \/ /\ cached # {}
          /\ \E s \in cached : semaphore' = [semaphore EXCEPT ![g] = s]
          /\ Continue(g, "acquire")
       \/ /\ cached = {}
          /\ Keep(g, "build")
          /\ UNCHANGED semaphore
    /\ UNCHANGED <<cached, slots, holding, persisted>>

CacheLast(g) == {g}                         \* mutant: the last one built is stored
CacheFirst(g) == IF cached = {} THEN {g} ELSE cached

Build(g) ==
    /\ Running(g, "build")
    /\ cached' = CacheFirst(g)
    /\ Continue(g, "acquire")
    /\ UNCHANGED <<semaphore, slots, holding, persisted>>

(* acquire(blocking=False)                                                 *)
Wait(g) ==                                  \* mutant: acquire() waits on its thread
    /\ g \notin threads
    /\ Keep(g, "acquire")
Refuse(g) == Respond(g, "refused")

EnforceGenerationLimit(g) ==
    /\ Running(g, "acquire")
    /\ LET s == semaphore[g] IN
       \/ /\ slots[s] > 0
          /\ slots' = [slots EXCEPT ![s] = @ - 1]
          /\ holding' = holding \cup {g}
          /\ Continue(g, "endpoint")
       \/ /\ slots[s] = 0
          /\ Refuse(g)
          /\ UNCHANGED <<slots, holding>>
    /\ UNCHANGED <<cached, semaphore, persisted>>

Release(g) ==
    /\ step[g] = "release"
    /\ slots' = [slots EXCEPT ![semaphore[g]] = @ + 1]
    /\ holding' = holding \ {g}
    /\ step' = [step EXCEPT ![g] = "over"]
    /\ UNCHANGED <<threads, cached, semaphore, calls, persisted, answer>>

-----------------------------------------------------------------------------
(* The handler: it keeps its thread to the end.                            *)

CallClaude(g) ==
    /\ step' = [step EXCEPT ![g] = "claude"]
    /\ threads' = threads \cup {g}
    /\ calls' = [calls EXCEPT ![g] = @ + 1]
    /\ UNCHANGED answer

(* An image model that is not on the list is refused, ...                  *)
ValidateModel(g) ==
    /\ Running(g, "endpoint")
    /\ \/ Respond(g, "refused")
       \/ CallClaude(g)
    /\ UNCHANGED <<limits, persisted>>

(* ... PoemGenerator.generate calls Claude until an answer can be parsed:  *)
(* a refusal or the last unusable answer is a PoemGenerationError (502),   *)
(* an error of the call itself escapes (500).                              *)
MayRetry(n) == n < ParseRetries + 1

ClaudeAnswers(g) ==
    /\ Running(g, "claude")
    /\ \/ Keep(g, "persist")
       \/ MayRetry(calls[g]) /\ CallClaude(g)
       \/ ~MayRetry(calls[g]) /\ Respond(g, "refused")
       \/ Respond(g, "refused")
       \/ Respond(g, "failed")
    /\ UNCHANGED <<limits, persisted>>

(* ... and GenerationService.generate persists and enqueues: what raises   *)
(* is answered with 500.                                                   *)
Persist(g) ==
    /\ Running(g, "persist")
    /\ \/ /\ persisted' = persisted \cup {g}
          /\ Keep(g, "enqueue")
       \/ Respond(g, "failed") /\ UNCHANGED persisted
    /\ UNCHANGED limits

QueueUnavailable(g) ==                      \* mutant: a queue that is down is a 503
    /\ Running(g, "enqueue")
    /\ Respond(g, "ok") \/ Respond(g, "refused")
    /\ UNCHANGED <<limits, persisted>>
EnqueueJobs(g) ==
    /\ Running(g, "enqueue")
    /\ Respond(g, "ok") \/ Respond(g, "failed")
    /\ UNCHANGED <<limits, persisted>>

-----------------------------------------------------------------------------
Handler(g) ==
    \/ EnforceRateLimit(g) \/ RequireApiKey(g)
    \/ LookUp(g) \/ Build(g) \/ EnforceGenerationLimit(g)
    \/ ValidateModel(g) \/ Persist(g) \/ EnqueueJobs(g) \/ Release(g)

Next ==
    \/ \E r \in Requests : Arrive(r)
    \/ \E r \in Reads : Read(r)
    \/ \E g \in Generations : Handler(g) \/ ClaudeAnswers(g)

Spec == Init /\ [][Next]_vars

(* The pool serves whoever waits (its queue is FIFO), and every function   *)
(* but the call to Claude is taken to end, although no timeout is set for  *)
(* the database or Redis. Nothing is said of Claude, not even that it      *)
(* answers.                                                                *)
Fairness ==
    /\ \A r \in Reads : SF_vars(Read(r))
    /\ \A g \in Generations : SF_vars(Handler(g))
FairSpec == Spec /\ Fairness
-----------------------------------------------------------------------------
(* Properties.                                                             *)

Steps == {"none", "read", "limit", "auth", "semaphore", "build", "acquire",
          "endpoint", "claude", "persist", "enqueue", "release", "over"}

(* Every variable holds a value of its kind; Claude is called no more than *)
(* parse_retries + 1 times for one request.                                *)
TypeOK ==
    /\ step \in [Requests -> Steps]
    /\ threads \subseteq Requests
    /\ cached \subseteq Generations /\ Cardinality(cached) <= 1
    /\ semaphore \in [Generations -> Generations]
    /\ slots \in [Generations -> 0..MaxConcurrent]
    /\ holding \subseteq Generations
    /\ calls \in [Requests -> 0..(ParseRetries + 1)]
    /\ persisted \subseteq Generations
    /\ answer \in [Requests -> {"none", "ok", "refused", "failed"}]

(* No slot of a semaphore is lost or given out twice, whatever raises      *)
(* between acquire and release.                                            *)
SlotsConserved ==
    /\ \A s \in Generations :
         slots[s] + Cardinality({g \in holding : semaphore[g] = s}) = MaxConcurrent
    /\ \A g \in Generations : step[g] = "over" => g \notin holding

(* The generations that run under a semaphore of their own, beside the     *)
(* cached one.                                                             *)
Private == {g \in holding : semaphore[g] \notin cached}

(* GENERATE_MAX_CONCURRENCY bounds the generations that run at once, but   *)
(* for those that raced for the first semaphore: the one that is stored    *)
(* first stays, and only who looked before it was there runs beside it,    *)
(* one at a time per semaphore that was built in the race.                 *)
CapHolds ==
    /\ Cardinality(holding \ Private) <= MaxConcurrent
    /\ \A g \in Private : semaphore[g] = g

(* A client that was refused, or told that Claude failed, may ask again:   *)
(* nothing of its request was stored. Only a 500 leaves that open, since   *)
(* it also stands for a failure after the commit, whose jobs are left to   *)
(* the reconciler.                                                         *)
OnlyAnsweredPersist == \A g \in persisted : answer[g] # "refused"

(* The generations never take the last thread, however slow Claude is:     *)
(* every other request is answered, unless semaphores were built in a race *)
(* and generations run on more than one of them.                           *)
ReadsAnswered ==
    \A r \in Reads : step[r] # "none" ~> (answer[r] # "none" \/ Private # {})

(* When the calls to Claude end (its client has a timeout), every          *)
(* generation is answered, and its slot is free again afterwards.          *)
ClaudeEnds == \A g \in Generations : WF_vars(ClaudeAnswers(g))
GenerationsEnd ==
    ClaudeEnds => \A g \in Generations :
        step[g] # "none" ~> (step[g] = "over" /\ g \notin holding)
=============================================================================
