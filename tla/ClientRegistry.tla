--------------------------- MODULE ClientRegistry ---------------------------
(***************************************************************************)
(* clients.ClientRegistry and ratelimit.NamedClientLimiter: which caller   *)
(* configured in RATE_LIMIT_CLIENTS a peer address belongs to, and the     *)
(* bucket its request is counted in. The threads of the API share a cache  *)
(* of DNS answers and the limiters; a lookup runs outside the lock and     *)
(* takes its time, while containers restart and change their addresses.    *)
(***************************************************************************)
EXTENDS Integers, Sequences, FiniteSets

CONSTANTS
    Threads,    \* requests handled at the same time
    Addresses,  \* of the peers
    Names,      \* the names that DNS is asked for
    Entries,    \* RATE_LIMIT_CLIENTS in its order: [name, limit, hosts]; hosts
                \* is the network of an IP or CIDR, {} for a name to be resolved
    Absent,     \* the name or the limit of an entry that has none
    DefaultMax, \* RATE_LIMIT_PER_MIN
    NoName,     \* the owner of an address that no name has
    Ttl,        \* RESOLVE_TTL_SECONDS, in ticks
    MaxDelay,   \* bound: ticks one call of _addresses may take
    MaxClock,   \* bound: ticks of a behaviour
    MaxMoves    \* bound: address changes and failing lookups

(* parse_client_rules: an entry without a name, or whose limit is not a    *)
(* positive number, is skipped and the others stand. A rule is the position*)
(* of its entry.                                                           *)
AnyLimit(e) == e.name # Absent              \* mutant: no check of the limit
WellFormed(e) ==
    /\ e.name # Absent
    /\ e.limit = Absent \/ (e.limit \in Int /\ e.limit > 0)
Rules == {n \in 1..Len(Entries) : WellFormed(Entries[n])}

(* An entry that is an address is the network of that address.             *)
ASSUME EntriesAssumption ==
    /\ Len(Entries) \in Nat
    /\ \A n \in 1..Len(Entries) : Entries[n].hosts \subseteq Addresses
    /\ \A n \in Rules : /\ Entries[n].hosts = {} => Entries[n].name \in Names
                        /\ Entries[n].name \in Addresses =>
                              Entries[n].name \in Entries[n].hosts
ASSUME NamesAssumption == NoName \notin Names
ASSUME LimitsAssumption == DefaultMax \in Nat /\ Absent \notin Int
ASSUME TimeAssumption == Ttl \in Nat \ {0} /\ {MaxDelay, MaxClock, MaxMoves} \subseteq Nat

VARIABLES
    clock,      \* time.monotonic()
    owner,      \* per address: the name DNS has for it at this moment
    cache,      \* per name: the expiry and the answer, or NoEntry
    match,      \* per thread: the call of for_peer it is in
    limiters,   \* per name: the limit of its limiter, Absent before it is built
    \* history and bounds
    gained,     \* per address: since when it has its owner
    lost,       \* per address and name: when it was last the owner, or -1
    failed,     \* per name: when a lookup failed last, or -1
    moves       \* address changes and failing lookups so far

world == <<owner, gained, lost>>
vars == <<clock, world, cache, match, limiters, failed, moves>>

NoEntry == [until |-> 0, addresses |-> {}]
NoCall == [pc |-> "idle"]
Keys == {Entries[n].name : n \in Rules}

Init ==
    /\ clock = 0
    /\ owner = [a \in Addresses |-> NoName]
    /\ gained = [a \in Addresses |-> 0]
    /\ lost = [a \in Addresses |-> [n \in Names |-> -1]]
    /\ cache = [n \in Names |-> NoEntry]
    /\ match = [th \in Threads |-> NoCall]
    /\ limiters = [k \in Keys |-> Absent]
    /\ failed = [n \in Names |-> -1]
    /\ moves = 0

Busy == {"cache", "lookup", "store"}

Tick ==
    /\ clock < MaxClock
    /\ \A th \in Threads : match[th].pc \in Busy => clock < match[th].now + MaxDelay
    /\ clock' = clock + 1
    /\ UNCHANGED <<world, cache, match, limiters, failed, moves>>

(* A container stops, starts or comes back with another address.           *)
Move(a, n) ==
    /\ moves < MaxMoves
    /\ owner[a] # n
    /\ moves' = moves + 1
    /\ owner' = [owner EXCEPT ![a] = n]
    /\ gained' = [gained EXCEPT ![a] = clock]
    /\ lost' = IF owner[a] = NoName THEN lost
               ELSE [lost EXCEPT ![a][owner[a]] = clock]
    /\ UNCHANGED <<clock, cache, match, limiters, failed>>

-----------------------------------------------------------------------------
(* match(peer): the rules are tried in their order.                        *)

(* The next rule that needs a decision of its own, after the n-th: the     *)
(* first network with the peer in it, or name, and what is to be done.     *)
Applies(n, a) == Entries[n].hosts = {} \/ a \in Entries[n].hosts
NamesFirst(n, a) ==     \* mutant: the networks after the names
    LET rest == {m \in Rules : m > n /\ Applies(m, a)}
        names == {m \in rest : Entries[m].hosts = {}}
    IN
    IF rest = {} THEN 0
    ELSE IF names = {} THEN CHOOSE m \in rest : \A k \in rest : m <= k
    ELSE CHOOSE m \in names : \A k \in names : m <= k
After(n, a) ==
    LET rest == {m \in Rules : m > n /\ Applies(m, a)} IN
    IF rest = {} THEN 0 ELSE CHOOSE m \in rest : \A k \in rest : m <= k

Try(th, n, a) ==
    LET m == After(n, a) IN
    match' = [match EXCEPT ![th] =
                IF m = 0 THEN [pc |-> "bucket", peer |-> a, key |-> a, max |-> DefaultMax]
                ELSE IF Entries[m].hosts # {} THEN [pc |-> "matched", peer |-> a, rule |-> m]
                ELSE [pc |-> "name", peer |-> a, at |-> m]]

Call(th, a) ==
    /\ match[th].pc \in {"idle", "bucket"}
    /\ Try(th, 0, a)
    /\ UNCHANGED <<clock, world, cache, limiters, failed, moves>>

(* _addresses(name): the clock, then the cache under the lock, ...         *)
ReadClock(th) ==
    LET c == match[th] IN
    /\ c.pc = "name"
    /\ match' = [match EXCEPT ![th] =
                   [pc |-> "cache", peer |-> c.peer, at |-> c.at, now |-> clock]]
    /\ UNCHANGED <<clock, world, cache, limiters, failed, moves>>

(* An answer decides the rule, or the next one is tried.                   *)
Decide(th, addresses) ==
    LET c == match[th] IN
    IF c.peer \in addresses
    THEN match' = [match EXCEPT ![th] = [pc |-> "matched", peer |-> c.peer, rule |-> c.at]]
    ELSE Try(th, c.at, c.peer)

ValidForever(entry, now) == entry.until > 0 \* mutant: entries never expire
Valid(entry, now) == entry.until > now

ReadCache(th) ==
    LET c == match[th]
        name == Entries[c.at].name
    IN
    /\ c.pc = "cache"
    /\ IF Valid(cache[name], c.now)
       THEN Decide(th, cache[name].addresses)
       ELSE match' = [match EXCEPT ![th].pc = "lookup"]
    /\ UNCHANGED <<clock, world, cache, limiters, failed, moves>>

(* ... then the lookup, which never raises: a failure answers nothing ...  *)
Answer(th, addresses) ==
    LET c == match[th] IN
    match' = [match EXCEPT ![th] =
                [pc |-> "store", peer |-> c.peer, at |-> c.at, now |-> c.now,
                 addresses |-> addresses]]

Resolve(th) ==
    /\ match[th].pc = "lookup"
    /\ Answer(th, {a \in Addresses : owner[a] = Entries[match[th].at].name})
    /\ UNCHANGED <<clock, world, cache, limiters, failed, moves>>

ResolveFails(th) ==
    /\ match[th].pc = "lookup"
    /\ moves < MaxMoves
    /\ moves' = moves + 1
    /\ failed' = [failed EXCEPT ![Entries[match[th].at].name] = clock]
    /\ Answer(th, {})
    /\ UNCHANGED <<clock, world, cache, limiters>>

(* ... and the cache again, whatever another thread has put there.         *)
FromStore(c) == clock + Ttl                 \* mutant: from the end of the lookup
Until(c) == c.now + Ttl

Store(th) ==
    LET c == match[th] IN
    /\ c.pc = "store"
    /\ cache' = [cache EXCEPT ![Entries[c.at].name] =
                   [until |-> Until(c), addresses |-> c.addresses]]
    /\ Decide(th, c.addresses)
    /\ UNCHANGED <<clock, world, limiters, failed, moves>>

(* for_peer under its lock: a limiter is built for a name that has none.   *)
(* enforce_rate_limit counts the request in it, under the name, and a peer *)
(* without a rule in the default limiter, under its address (Try).         *)
Newest(k, n) == n                           \* mutant: each rule with its own limit
FirstBuilt(k, n) == IF limiters[k] = Absent THEN n ELSE limiters[k]

ForPeer(th) ==
    LET c == match[th]
        r == Entries[c.rule]
        limit == FirstBuilt(r.name, IF r.limit = Absent THEN DefaultMax ELSE r.limit)
    IN
    /\ c.pc = "matched"
    /\ limiters' = [limiters EXCEPT ![r.name] = limit]
    /\ match' = [match EXCEPT ![th] =
                   [pc |-> "bucket", peer |-> c.peer, key |-> r.name, max |-> limit]]
    /\ UNCHANGED <<clock, world, cache, failed, moves>>

Next ==
    \/ Tick
    \/ \E a \in Addresses, n \in Names \cup {NoName} : Move(a, n)
    \/ \E th \in Threads :
         \/ \E a \in Addresses : Call(th, a)
         \/ ReadClock(th) \/ ReadCache(th)
         \/ Resolve(th) \/ ResolveFails(th) \/ Store(th)
         \/ ForPeer(th)

Spec == Init /\ [][Next]_vars
-----------------------------------------------------------------------------
(* Properties.                                                             *)

Counted(th) == match[th].pc = "bucket"

(* First match wins, and a malformed entry spoils no other: whatever the   *)
(* lookups answer, a peer that a network entry covers is counted under the *)
(* name of that entry or of an earlier one, never under its address.       *)
Usable(n) ==
    Entries[n].name # Absent /\ (Entries[n].limit # Absent => Entries[n].limit \in Nat \ {0})
FirstMatchWins ==
    \A th \in Threads, n \in 1..Len(Entries) :
        (Counted(th) /\ match[th].peer \in Entries[n].hosts /\ Usable(n)) =>
            \E m \in 1..n : Usable(m) /\ Entries[m].name = match[th].key

(* One bucket per name: callers that are counted under the same name at    *)
(* whatever time share one limit, although the entries that gave them the  *)
(* name may state different ones.                                          *)
SameAllowance ==
    \A th, other \in Threads :
        (Counted(th) /\ Counted(other) /\ match[th].key = match[other].key) =>
            match[th].max = match[other].max

(* A thread has an answer for the name of the rule it is at, and the peer  *)
(* is among the answer's addresses or not.                                 *)
Decision(th) == match[th].pc \in {"cache", "store"} /\ match'[th].pc \notin Busy
Hit(th) == match'[th].pc = "matched" /\ match'[th].rule = match[th].at
NameAt(th) == Entries[match[th].at].name

(* No peer gets the bucket of a name it has given up longer ago than an    *)
(* answer is kept and a call lasts, although lookups overtake each other   *)
(* and the older of two answers may replace the newer one in the cache.    *)
NotStale ==
    [][\A th \in Threads : Decision(th) /\ Hit(th) =>
         LET a == match[th].peer IN
         \/ owner[a] = NameAt(th)
         \/ lost[a][NameAt(th)] >= 0 /\ clock - lost[a][NameAt(th)] < Ttl + MaxDelay]_vars

(* A container that has come back with another address is recognised after *)
(* that time, unless a lookup of its name failed in between.               *)
NotMissed ==
    [][\A th \in Threads : Decision(th) /\ ~Hit(th) =>
         LET a == match[th].peer IN
         \/ owner[a] # NameAt(th)
         \/ clock - gained[a] < Ttl + MaxDelay
         \/ failed[NameAt(th)] >= 0 /\ clock - failed[NameAt(th)] < Ttl + MaxDelay]_vars
=============================================================================
