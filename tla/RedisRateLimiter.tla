-------------------------- MODULE RedisRateLimiter --------------------------
(***************************************************************************)
(* ratelimit.RedisRateLimiter: the fixed-window limiter that the API       *)
(* processes share through Redis, for one key. A check is an INCR of the   *)
(* window's counter and, for the first request of the window, an EXPIRE:   *)
(* two commands, between which anything may happen.                        *)
(***************************************************************************)
EXTENDS Integers, FiniteSets

CONSTANTS
    Requests,       \* bound: the requests made, to any of the API processes
    MaxRequests,    \* max_requests
    Second,         \* clock ticks in a second
    Window,         \* window_seconds, in ticks
    MaxDelay,       \* bound: ticks between a caller's clock and its commands
    MaxClock,       \* bound: ticks of a behaviour
    FaultKinds,     \* the faults the environment may inject
    MaxFaults       \* bound: how many of them one behaviour may contain

Faults == {"down", "reply", "crash"}

(* What is assumed of them.                                                *)
RedisAssumption ==
    /\ MaxRequests \in Nat \ {0} /\ MaxFaults \in Nat
    /\ Second \in Nat \ {0} /\ MaxDelay \in Nat /\ MaxClock \in Nat
    /\ Window \in Nat \ {0} /\ Window % Second = 0
    /\ FaultKinds \subseteq Faults

VARIABLES
    clock,      \* time.time(), the same in every process
    counter,    \* per window: the counter in Redis, 0 when there is none
    ttl,        \* per window: when Redis drops the counter, Never without EXPIRE
    call,       \* per request: the check it is in, or its result
    admitted,   \* history, per window: how many the counter let in
    late,       \* history, per window: how many came when it may have expired
    faults      \* how many faults happened so far

vars == <<clock, counter, ttl, call, admitted, late, faults>>

Windows == 0..(MaxClock \div Window)
Never == MaxClock + 2 * Window + MaxDelay + 1   \* later than any expiry time
NoCall == [pc |-> "idle"]

Fault(kind) == /\ kind \in FaultKinds
               /\ faults < MaxFaults
               /\ faults' = faults + 1

Init ==
    /\ clock = 0
    /\ counter = [w \in Windows |-> 0]
    /\ ttl = [w \in Windows |-> Never]
    /\ call = [r \in Requests |-> NoCall]
    /\ admitted = [w \in Windows |-> 0]
    /\ late = [w \in Windows |-> 0]
    /\ faults = 0

(* Time passes, and Redis drops the counters whose time has come.          *)
Tick ==
    /\ clock < MaxClock
    /\ \A r \in Requests : call[r].pc \in {"incr", "expire"} => clock < call[r].now + MaxDelay
    /\ clock' = clock + 1
    /\ counter' = [w \in Windows |-> IF ttl[w] <= clock' THEN 0 ELSE counter[w]]
    /\ ttl' = [w \in Windows |-> IF ttl[w] <= clock' THEN Never ELSE ttl[w]]
    /\ UNCHANGED <<call, admitted, late, faults>>

-----------------------------------------------------------------------------
(* check(key)                                                              *)

WindowIndex(t) == t \div Window

ReadClock(r) ==
    /\ call[r] = NoCall
    /\ call' = [call EXCEPT ![r] = [pc |-> "incr", now |-> clock]]
    /\ UNCHANGED <<clock, counter, ttl, admitted, late, faults>>

(* int(window - now % window) + 1, in seconds                              *)
RetryAfter(now) == (Window - (now % Window)) \div Second + 1

AllowedOneLess(n) == n < MaxRequests        \* mutant: one request too few
Allowed(n) == n <= MaxRequests

(* The verdict on a caller whose INCR answered n.                          *)
Verdict(r, n) ==
    LET now == call[r].now
        w == WindowIndex(now)
    IN
    IF Allowed(n)
    THEN /\ call' = [call EXCEPT ![r] = [pc |-> "allowed", now |-> now]]
         /\ admitted' = [admitted EXCEPT ![w] = @ + 1]
    ELSE /\ call' = [call EXCEPT ![r] = [pc |-> "refused", now |-> now,
                                         retryAfter |-> RetryAfter(now)]]
         /\ UNCHANGED admitted

(* A window's counter lives until its last second has gone by, at least.   *)
Closed(w) == clock >= (w + 1) * Window + Second

NeverFirst(n) == n = 0                      \* mutant: the count before the INCR
First(n) == n = 1

Incr(r) ==
    LET w == WindowIndex(call[r].now)
        n == counter[w] + 1
    IN
    /\ call[r].pc = "incr"
    /\ counter' = [counter EXCEPT ![w] = n]
    /\ IF First(n)
       THEN call' = [call EXCEPT ![r].pc = "expire"] /\ UNCHANGED admitted
       ELSE Verdict(r, n)
    /\ late' = [late EXCEPT ![w] = IF Closed(w) THEN @ + 1 ELSE @]
    /\ UNCHANGED <<clock, ttl, faults>>

(* The expiry of a counter that is set now; EXPIRE on a key that is gone   *)
(* does nothing.                                                           *)
TooEarly(t) == t + Window \div 2            \* mutant: before the window closes
ExpiryFrom(t) == t + Window + Second

Expire(r) ==
    LET w == WindowIndex(call[r].now) IN
    /\ call[r].pc = "expire"
    /\ ttl' = [ttl EXCEPT ![w] = IF counter[w] = 0 THEN @ ELSE ExpiryFrom(clock)]
    /\ Verdict(r, 1)
    /\ UNCHANGED <<clock, counter, late, faults>>

-----------------------------------------------------------------------------
(* What may go wrong.                                                      *)

(* INCR or EXPIRE raises: the request is let in (fail-open). The command   *)
(* may have taken effect.                                                  *)
RedisFails(r) ==
    LET w == WindowIndex(call[r].now) IN
    /\ call[r].pc \in {"incr", "expire"}
    /\ Fault("down")
    /\ call' = [call EXCEPT ![r].pc = "open"]
    /\ \/ UNCHANGED <<counter, ttl>>
       \/ /\ call[r].pc = "incr"
          /\ counter' = [counter EXCEPT ![w] = @ + 1]
          /\ UNCHANGED ttl
       \/ /\ call[r].pc = "expire" /\ counter[w] # 0
          /\ ttl' = [ttl EXCEPT ![w] = ExpiryFrom(clock)]
          /\ UNCHANGED counter
    /\ UNCHANGED <<clock, admitted, late>>

(* The reply to a command is lost: the client (queue.redis_from_url) backs *)
(* off and sends it again, up to MaxDelay after the caller read its clock: *)
(* an INCR may be repeated when the window's counter has expired.          *)
ReplyLost(r) ==
    LET w == WindowIndex(call[r].now) IN
    /\ call[r].pc \in {"incr", "expire"}
    /\ Fault("reply")
    /\ IF call[r].pc = "incr"
       THEN counter' = [counter EXCEPT ![w] = @ + 1] /\ UNCHANGED ttl
       ELSE /\ ttl' = [ttl EXCEPT ![w] = IF counter[w] = 0 THEN @ ELSE ExpiryFrom(clock)]
            /\ UNCHANGED counter
    /\ UNCHANGED <<clock, call, admitted, late>>

(* The API process dies.                                                   *)
Crash(r) ==
    /\ call[r].pc \in {"incr", "expire"}
    /\ Fault("crash")
    /\ call' = [call EXCEPT ![r].pc = "dead"]
    /\ UNCHANGED <<clock, counter, ttl, admitted, late>>

Next ==
    \/ Tick
    \/ \E r \in Requests :
         \/ ReadClock(r) \/ Incr(r) \/ Expire(r)
         \/ RedisFails(r) \/ ReplyLost(r) \/ Crash(r)

Spec == Init /\ [][Next]_vars
-----------------------------------------------------------------------------
(* Properties.                                                             *)

Instants == 0..MaxClock
Calls ==
    {NoCall} \cup [pc : {"incr", "expire", "allowed", "open", "dead"}, now : Instants]
    \cup [pc : {"refused"}, now : Instants, retryAfter : 1..(Window \div Second + 1)]

(* Every variable holds a value of its kind; a refused caller is told to   *)
(* wait at least a second and at most one more than the window has.        *)
TypeOK ==
    /\ clock \in Instants
    /\ counter \in [Windows -> Nat]
    /\ ttl \in [Windows -> 0..Never]
    /\ call \in [Requests -> Calls]
    /\ admitted \in [Windows -> Nat]
    /\ late \in [Windows -> Nat]
    /\ faults \in 0..MaxFaults

(* All the processes together let no more than MaxRequests of a window in, *)
(* not counting those let in because Redis failed. What comes on top are   *)
(* callers whose INCR reached Redis after the window's last second, when   *)
(* its counter may have expired and starts again: the client's backoff (1, *)
(* 2 and 4 s) may delay a repeated INCR that long. One for each of them:   *)
(* they let nobody else in.                                                *)
WindowLimit == \A w \in Windows : admitted[w] <= MaxRequests + late[w]

(* The callers of a window that were counted first and owe the EXPIRE.     *)
Owing(w) == {q \in Requests : /\ call[q].pc = "expire"
                              /\ WindowIndex(call[q].now) = w}

(* A lost reply or a failure costs at most the one admission it counted    *)
(* twice or did not decide: nobody is refused before the limit of its      *)
(* window is reached but for them.                                         *)
NoSpuriousRefusal ==
    [][\A r \in Requests : LET w == WindowIndex(call[r].now) IN
         (call'[r].pc = "refused" /\ call[r].pc = "incr") =>
             Cardinality(Owing(w)) + admitted[w] + faults >= MaxRequests]_vars

(* Memory: a counter is gone when its window has been closed for longer    *)
(* than the expiry and the delay of its callers, except for one counter    *)
(* per fault: nobody sends the EXPIRE when the process dies before it, or  *)
(* when the client repeats the first INCR, which then answers 2.           *)
Leaked == {w \in Windows : /\ clock > (w + 1) * Window + Window + Second + MaxDelay
                           /\ counter[w] # 0}
LeaksAreFaults == Cardinality(Leaked) <= faults
=============================================================================
