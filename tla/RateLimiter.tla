---------------------------- MODULE RateLimiter ----------------------------
(***************************************************************************)
(* ratelimit.RateLimiter: the in-memory sliding-window limiter of one API  *)
(* process, shared by the threads of its pool. A thread reads the clock    *)
(* first and takes the lock afterwards, so that the threads may pass the   *)
(* lock in another order than the clock's.                                 *)
(***************************************************************************)
EXTENDS Integers, Sequences, FiniteSets, SequencesExt

CONSTANTS
    Threads,    \* of the pool that runs the dependencies of a request
    Keys,       \* peer addresses and client names
    MaxRequests, \* max_requests
    Second,     \* clock ticks in a second
    Window,     \* window_seconds, in ticks
    MaxKeys,    \* max_keys
    MaxDelay,   \* bound: ticks a thread may spend between clock and lock
    MaxClock    \* bound: ticks of a behaviour

ASSUME LimitAssumption == MaxRequests \in Nat \ {0} /\ MaxKeys \in Nat \ {0}
ASSUME TimeAssumption ==
    /\ Second \in Nat \ {0} /\ Window \in Nat \ {0}
    /\ MaxDelay \in Nat /\ MaxClock \in Nat

VARIABLES
    clock,      \* time.monotonic()
    hits,       \* per key: the list of its hits, <<>> when _hits lacks it
    order,      \* the keys of _hits, in insertion order
    call,       \* per thread: the call of check it is in, or its result
    admitted    \* history, per key: when it was let in, since its last eviction

vars == <<clock, hits, order, call, admitted>>

NoCall == [pc |-> "idle"]

Init ==
    /\ clock = 0
    /\ hits = [k \in Keys |-> <<>>]
    /\ order = <<>>
    /\ call = [th \in Threads |-> NoCall]
    /\ admitted = [k \in Keys |-> <<>>]

Tick ==
    /\ clock < MaxClock
    /\ \A th \in Threads : call[th].pc = "waiting" => clock < call[th].now + MaxDelay
    /\ clock' = clock + 1
    /\ UNCHANGED <<hits, order, call, admitted>>

(* A request: now = time.monotonic(), then the thread waits for the lock.  *)
ReadClock(th, k) ==
    /\ call[th].pc # "waiting"
    /\ call' = [call EXCEPT ![th] = [pc |-> "waiting", key |-> k, now |-> clock]]
    /\ UNCHANGED <<clock, hits, order, admitted>>

-----------------------------------------------------------------------------
(* Under the lock.                                                         *)

(* What a comprehension that drops the elements of S keeps: SelectSeq,     *)
(* written with a recursive function, of which something can be proved.    *)
Without(s, S) ==
    LET f[n \in 0..Len(s)] ==
          IF n = 0 THEN <<>>
          ELSE IF s[n] \in S THEN f[n - 1] ELSE Append(f[n - 1], s[n])
    IN f[Len(s)]

(* The hits of the window that ends now.                                   *)
Live(ts, now) == Without(ts, {t \in ToSet(ts) : now - t >= Window})

OneMore(ts) == Len(ts) > MaxRequests                \* mutant: one request too many
Full(ts) == Len(ts) >= MaxRequests

(* int(window - (now - hits[0])) + 1, in seconds                           *)
NoExtra(ts, now) == (Window - (now - Head(ts))) \div Second   \* mutant: no + 1
RetryAfter(ts, now) == (Window - (now - Head(ts))) \div Second + 1

Refuse(th) ==
    LET k == call[th].key
        now == call[th].now
        live == Live(hits[k], now)
    IN
    /\ call[th].pc = "waiting"
    /\ Full(live)
    /\ hits' = [hits EXCEPT ![k] = live]
    /\ call' = [call EXCEPT ![th] = [pc |-> "refused", key |-> k, now |-> now,
                                     retryAfter |-> RetryAfter(live, now)]]
    /\ UNCHANGED <<clock, order, admitted>>

(* _evict: the keys whose newest hit has aged out, then, while there are   *)
(* still too many, those with the oldest last hit (sorted is stable).      *)
Expired(h, ks, now) == {k \in ToSet(ks) : now - Last(h[k]) >= Window}
Older(h, ks, j, k) ==
    \/ Last(h[j]) < Last(h[k])
    \/ Last(h[j]) = Last(h[k]) /\ \E m, n \in 1..Len(ks) : m < n /\ ks[m] = j /\ ks[n] = k
Oldest(h, ks, n) == {k \in ToSet(ks) : Cardinality({j \in ToSet(ks) : Older(h, ks, j, k)}) < n}

NoOverflow(h, ks, now) ==                   \* mutant: only expired keys go
    [gone |-> IF Len(ks) > MaxKeys THEN Expired(h, ks, now) ELSE {}, dropped |-> {}]
Evict(h, ks, now) ==
    LET expired == IF Len(ks) > MaxKeys THEN Expired(h, ks, now) ELSE {}
        rest == Without(ks, expired)
        dropped == IF Len(rest) > MaxKeys THEN Oldest(h, rest, Len(rest) - MaxKeys) ELSE {}
    IN [gone |-> expired \cup dropped, dropped |-> dropped]

Allow(th) ==
    LET k == call[th].key
        now == call[th].now
        live == Live(hits[k], now)
        table == [hits EXCEPT ![k] = Append(live, now)]
        keys == IF Contains(order, k) THEN order ELSE Append(order, k)
        evicted == Evict(table, keys, now)
    IN
    /\ call[th].pc = "waiting"
    /\ ~Full(live)
    /\ hits' = [j \in Keys |-> IF j \in evicted.gone THEN <<>> ELSE table[j]]
    /\ order' = Without(keys, evicted.gone)
    /\ call' = [call EXCEPT ![th] = [pc |-> "allowed", key |-> k, now |-> now]]
    /\ admitted' = [j \in Keys |-> IF j \in evicted.dropped THEN <<>>
                                   ELSE IF j = k THEN Append(admitted[j], clock)
                                   ELSE admitted[j]]
    /\ UNCHANGED clock

Next ==
    \/ Tick
    \/ \E th \in Threads :
         \/ \E k \in Keys : ReadClock(th, k)
         \/ Refuse(th) \/ Allow(th)

Spec == Init /\ [][Next]_vars
-----------------------------------------------------------------------------
(* Properties.                                                             *)

(* Every variable holds a value of its kind; a refused caller is told to   *)
(* wait at least a second and not much longer than the window.             *)
Stamps == 0..MaxClock
Calls ==
    {NoCall} \cup [pc : {"waiting", "allowed"}, key : Keys, now : Stamps]
    \cup [pc : {"refused"}, key : Keys, now : Stamps,
          retryAfter : 1..((Window + MaxDelay) \div Second + 1)]
TypeOK ==
    /\ clock \in Stamps
    /\ hits \in [Keys -> Seq(Stamps)]
    /\ order \in Seq(Keys)
    /\ call \in [Threads -> Calls]
    /\ admitted \in [Keys -> Seq(Stamps)]

(* The memory bound the docstring gives: max_keys buckets, whichever keys  *)
(* come and in whichever order the threads get the lock.                   *)
KeysBounded == Len(order) <= MaxKeys

(* The limit itself, in real time: of MaxRequests + 1 consecutive admissions of a  *)
(* key the last comes at least a window after the first, less the time a   *)
(* thread may lose between reading the clock and taking the lock.          *)
LimitHolds ==
    \A k \in Keys : \A n \in 1..(Len(admitted[k]) - MaxRequests) :
        admitted[k][n + MaxRequests] - admitted[k][n] >= Window - MaxDelay

(* Retry-After is long enough: a caller that nobody competes with is let   *)
(* in when it has waited as long as it was told.                           *)
RetrySuffices ==
    [][\A th \in Threads : Refuse(th) =>
         LET c == call'[th] IN
         Len(Live(hits'[c.key], c.now + c.retryAfter * Second)) < MaxRequests]_vars
=============================================================================
