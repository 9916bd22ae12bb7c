------------------------- MODULE ClientRegistryProofs -------------------------
(***************************************************************************)
(* The theorems about ClientRegistry, for any entries, addresses, threads  *)
(* and times.                                                              *)
(***************************************************************************)
EXTENDS ClientRegistry, FiniteSetTheorems, WellFoundedInduction, TLAPS

-----------------------------------------------------------------------------
(* The order of the entries.                                               *)

(* A set of natural numbers that is not empty has a least member.          *)
LEMMA LeastMember ==
  ASSUME NEW S, S \subseteq Nat, S # {}
  PROVE  \E m \in S : \A n \in S : m <= n
<1> DEFINE R == {ss \in Nat \X Nat : ss[1] < ss[2]}
<1>1. IsWellFoundedOn(R, Nat)
  BY NatLessThanWellFounded DEF OpToRel
<1>2. PICK m \in S : \A n \in S : ~(<<n, m>> \in R)
  <2> HIDE DEF R
  <2> QED BY <1>1, WFMin
<1>3. ASSUME NEW n \in S PROVE m <= n
  <2>1. n \in Nat /\ m \in Nat
    OBVIOUS
  <2>2. ~(n < m)
    BY <1>2, <2>1
  <2> QED BY <2>1, <2>2
<1> QED BY <1>3

-----------------------------------------------------------------------------
(* The invariant.                                                          *)

(* What a thread knows of its call.                                        *)
Named == [pc : {"name"}, peer : Addresses, at : Rules]
Asking == [pc : {"cache", "lookup"}, peer : Addresses, at : Rules, now : Nat]
Storing == [pc : {"store"}, peer : Addresses, at : Rules, now : Nat,
            addresses : SUBSET Addresses]
Matched == [pc : {"matched"}, peer : Addresses, rule : Rules]
Buckets == [pc : {"bucket"}, peer : Addresses, key : Keys \cup Addresses, max : Int]
Calls == {NoCall} \cup Named \cup Asking \cup Storing \cup Matched \cup Buckets

(* No network before the n-th entry has the address.                       *)
Uncovered(a, n) == \A m \in Rules : m < n => a \notin Entries[m].hosts

(* A thread is at a name that no network with its peer precedes; so is the *)
(* rule that it has found. The bucket has the name of a rule that is not   *)
(* behind any network with the peer, and the limit of that name's limiter, *)
(* or there is no such network and the peer is on its own.                 *)
OwnBucket(c) ==
    /\ c.key = c.peer /\ c.max = DefaultMax
    /\ \A n \in Rules : c.peer \notin Entries[n].hosts
NamedBucket(c) ==
    /\ \A n \in Rules : c.peer \in Entries[n].hosts =>
          \E m \in Rules : m <= n /\ Entries[m].name = c.key
    /\ c.key \in Keys /\ limiters[c.key] # Absent /\ c.max = limiters[c.key]

Sound(c) ==
    /\ c \in Calls
    /\ c.pc \in {"name"} \cup Busy => Entries[c.at].hosts = {} /\ Uncovered(c.peer, c.at)
    /\ c.pc = "matched" => Uncovered(c.peer, c.rule)
    /\ c.pc = "bucket" => OwnBucket(c) \/ NamedBucket(c)

Typed ==
    /\ clock \in Nat
    /\ owner \in [Addresses -> Names \cup {NoName}]
    /\ gained \in [Addresses -> Nat]
    /\ lost \in [Addresses -> [Names -> Int]]
    /\ failed \in [Names -> Int]
    /\ cache \in [Names -> [until : Nat, addresses : SUBSET Addresses]]
    /\ limiters \in [Keys -> Int \cup {Absent}]
    /\ DOMAIN match = Threads

(* An answer that was given since then was right, or the address has moved *)
(* or a lookup failed since.                                               *)
Answered(n, since, addresses) ==
    \A a \in Addresses :
        /\ a \in addresses => owner[a] = n \/ lost[a][n] >= since
        /\ a \notin addresses => \/ owner[a] # n
                                 \/ gained[a] >= since
                                 \/ failed[n] >= since

CacheKept ==
    \A n \in Names :
        /\ cache[n].until = 0 \/ cache[n].until >= Ttl
        /\ cache[n].until - Ttl <= clock
        /\ Answered(n, cache[n].until - Ttl, cache[n].addresses)

(* A call of _addresses began no longer ago than it may take.              *)
CallKept(c) ==
    /\ c.pc \in Busy => c.now <= clock /\ clock <= c.now + MaxDelay
    /\ c.pc = "store" => Answered(Entries[c.at].name, c.now, c.addresses)

Inv == /\ Typed /\ CacheKept
       /\ \A th \in Threads : Sound(match[th]) /\ CallKept(match[th])

-----------------------------------------------------------------------------
(* The rules.                                                              *)

(* What is known of a rule.                                                *)
LEMMA RuleFacts ==
    ASSUME NEW n \in Rules
    PROVE  /\ n \in Nat /\ 1 <= n /\ n <= Len(Entries)
           /\ Entries[n].name \in Keys
           /\ Entries[n].hosts = {} => Entries[n].name \in Names
           /\ Entries[n].limit = Absent \/ (Entries[n].limit \in Int /\ Entries[n].limit > 0)
<1>1. n \in 1..Len(Entries) /\ Len(Entries) \in Nat
  BY EntriesAssumption DEF Rules
<1>2. n \in Nat /\ 1 <= n /\ n <= Len(Entries)
  BY <1>1
<1>3. Entries[n].hosts = {} => Entries[n].name \in Names
  BY EntriesAssumption
<1> QED BY <1>2, <1>3 DEF Rules, Keys, WellFormed

(* The next rule is the first of those that are left and apply.            *)
LEMMA AfterIs ==
    ASSUME NEW n \in Nat, NEW a
    PROVE  \/ /\ After(n, a) = 0
              /\ \A k \in Rules : k > n => ~Applies(k, a)
           \/ /\ After(n, a) \in Rules /\ After(n, a) > n /\ Applies(After(n, a), a)
              /\ \A k \in Rules : k > n /\ k < After(n, a) => ~Applies(k, a)
<1> DEFINE rest == {m \in Rules : m > n /\ Applies(m, a)}
<1>1. CASE rest = {}
  <2>1. After(n, a) = 0
    BY <1>1 DEF After
  <2> QED BY <1>1, <2>1
<1>2. CASE rest # {}
  <2>1. rest \subseteq Nat
    BY RuleFacts
  <2>2. \E m \in rest : \A k \in rest : m <= k
    BY <1>2, <2>1, LeastMember
  <2>3. After(n, a) = CHOOSE m \in rest : \A k \in rest : m <= k
    BY <1>2 DEF After
  <2>4. After(n, a) \in rest /\ \A k \in rest : After(n, a) <= k
    BY <2>2, <2>3
  <2>5. ASSUME NEW k \in Rules, k > n, k < After(n, a), Applies(k, a) PROVE FALSE
    <3>1. k \in rest /\ k \in Nat /\ After(n, a) \in Nat
      BY <2>1, <2>4, <2>5
    <3> HIDE DEF rest
    <3>2. After(n, a) <= k
      BY <2>4, <3>1
    <3> QED BY <2>5, <3>1, <3>2
  <2> QED BY <2>4, <2>5
<1> QED BY <1>1, <1>2

(* What trying the rules behind the n-th leads to: a name to be resolved,  *)
(* a network, or a bucket of the peer's own.                               *)
Tried(c) ==
    /\ c \in Named \cup Matched \cup Buckets
    /\ c.pc = "name" => Entries[c.at].hosts = {} /\ Uncovered(c.peer, c.at)
    /\ c.pc = "matched" => Entries[c.rule].hosts # {} /\ Uncovered(c.peer, c.rule)
    /\ c.pc = "bucket" => OwnBucket(c)

(* The rules are tried in their order.                                     *)
LEMMA TryStep ==
    ASSUME DOMAIN match = Threads, NEW th \in Threads, NEW n \in Nat, NEW a \in Addresses,
           \A m \in Rules : m <= n => a \notin Entries[m].hosts,
           Try(th, n, a)
    PROVE  /\ Tried(match'[th])
           /\ match' = [match EXCEPT ![th] = match'[th]]
<1> DEFINE m == After(n, a)
           c == IF m = 0 THEN [pc |-> "bucket", peer |-> a, key |-> a, max |-> DefaultMax]
                ELSE IF Entries[m].hosts # {} THEN [pc |-> "matched", peer |-> a, rule |-> m]
                ELSE [pc |-> "name", peer |-> a, at |-> m]
<1>1. match' = [match EXCEPT ![th] = c]
  BY DEF Try
<1>2. match'[th] = c
  BY <1>1
<1>3. \/ m = 0 /\ \A k \in Rules : k > n => ~Applies(k, a)
      \/ /\ m \in Rules /\ m > n /\ Applies(m, a)
         /\ \A k \in Rules : k > n /\ k < m => ~Applies(k, a)
  BY AfterIs
<1> HIDE DEF m
<1>4. ASSUME NEW k \in Rules PROVE k \in Nat /\ (k <= n \/ k > n)
  BY RuleFacts
<1>5. CASE m = 0
  <2>1. c = [pc |-> "bucket", peer |-> a, key |-> a, max |-> DefaultMax]
    BY <1>5
  <2>2. 0 \notin Rules
    BY RuleFacts
  <2>3. \A k \in Rules : a \notin Entries[k].hosts
    BY <1>3, <1>4, <1>5, <2>2 DEF Applies
  <2>4. DefaultMax \in Int
    BY LimitsAssumption
  <2> QED BY <1>1, <1>2, <2>1, <2>3, <2>4 DEF Tried, OwnBucket, Buckets
<1>6. CASE m # 0
  <2>1. Uncovered(a, m) /\ m \in Rules
    BY <1>3, <1>4, <1>6 DEF Applies, Uncovered
  <2>2. CASE Entries[m].hosts # {}
    <3>1. c = [pc |-> "matched", peer |-> a, rule |-> m]
      BY <1>6, <2>2
    <3> QED BY <1>1, <1>2, <2>1, <2>2, <3>1 DEF Tried, Matched
  <2>3. CASE Entries[m].hosts = {}
    <3>1. c = [pc |-> "name", peer |-> a, at |-> m]
      BY <1>6, <2>3
    <3> QED BY <1>1, <1>2, <2>1, <2>3, <3>1 DEF Tried, Named
  <2> QED BY <2>2, <2>3
<1> QED BY <1>5, <1>6

(* So they are behind a name that did not answer with the peer's address.  *)
LEMMA DecideStep ==
    ASSUME Inv, NEW th \in Threads, NEW addresses, match[th].pc \in Busy,
           Decide(th, addresses)
    PROVE  /\ match' = [match EXCEPT ![th] = match'[th]]
           /\ IF match[th].peer \in addresses
              THEN match'[th] = [pc |-> "matched", peer |-> match[th].peer, rule |-> match[th].at]
              ELSE Tried(match'[th])
<1> DEFINE c == match[th]
<1>1. DOMAIN match = Threads /\ c \in Calls
  BY DEF Inv, Typed, Sound
<1>2. c.peer \in Addresses /\ c.at \in Rules
  BY <1>1 DEF Calls, NoCall, Named, Asking, Storing, Matched, Buckets, Busy
<1>3. Entries[c.at].hosts = {} /\ Uncovered(c.peer, c.at) /\ c.at \in Nat
  BY <1>2, RuleFacts DEF Inv, Sound
<1>4. CASE c.peer \in addresses
  BY <1>1, <1>4 DEF Decide
<1>5. CASE c.peer \notin addresses
  <2>1. Try(th, c.at, c.peer)
    BY <1>5 DEF Decide
  <2>2. ASSUME NEW m \in Rules, m <= c.at PROVE c.peer \notin Entries[m].hosts
    <3>1. m \in Nat
      BY RuleFacts
    <3> QED BY <1>3, <2>2, <3>1 DEF Uncovered
  <2> QED BY <1>1, <1>2, <1>3, <1>5, <2>1, <2>2, TryStep
<1> QED BY <1>4, <1>5

-----------------------------------------------------------------------------
(* The steps of a thread.                                                  *)

ThreadStep(th) ==
    \/ \E a \in Addresses : Call(th, a)
    \/ ReadClock(th) \/ ReadCache(th)
    \/ Resolve(th) \/ ResolveFails(th) \/ Store(th)
    \/ ForPeer(th)

(* What may become of a call in one step of its thread.                    *)
CallStep(c, d) ==
    \/ Tried(d)
    \/ /\ c.pc = "name"
       /\ d = [pc |-> "cache", peer |-> c.peer, at |-> c.at, now |-> clock]
    \/ /\ c.pc \in {"cache", "store"}
       /\ d = [pc |-> "matched", peer |-> c.peer, rule |-> c.at]
    \/ c.pc = "cache" /\ d = [c EXCEPT !.pc = "lookup"]
    \/ /\ c.pc = "lookup"
       /\ \E A \in SUBSET Addresses :
             /\ d = [pc |-> "store", peer |-> c.peer, at |-> c.at, now |-> c.now,
                     addresses |-> A]
             /\ \/ A = {a \in Addresses : owner[a] = Entries[c.at].name}
                \/ A = {} /\ failed' = [failed EXCEPT ![Entries[c.at].name] = clock]
    \/ /\ c.pc = "matched"
       /\ d = [pc |-> "bucket", peer |-> c.peer, key |-> Entries[c.rule].name,
               max |-> limiters'[Entries[c.rule].name]]
       /\ d.max # Absent

(* A thread takes its own call on, and no other.                           *)
LEMMA ThreadSteps ==
    ASSUME Inv, NEW th \in Threads, ThreadStep(th)
    PROVE  /\ match' = [match EXCEPT ![th] = match'[th]]
           /\ CallStep(match[th], match'[th])
           /\ clock' = clock
<1> DEFINE c == match[th]
<1>0. DOMAIN match = Threads /\ c \in Calls
  BY DEF Inv, Typed, Sound
<1>1. CASE \E a \in Addresses : Call(th, a)
  <2>1. PICK a \in Addresses : Try(th, 0, a) /\ clock' = clock
    BY <1>1 DEF Call
  <2>2. \A m \in Rules : m <= 0 => a \notin Entries[m].hosts
    BY RuleFacts
  <2> QED BY <1>0, <2>1, <2>2, TryStep DEF CallStep
<1>2. CASE ReadClock(th)
  BY <1>0, <1>2 DEF ReadClock, CallStep
<1>3. CASE ReadCache(th)
  <2>1. c.pc = "cache" /\ clock' = clock
    BY <1>3 DEF ReadCache
  <2>2. CASE Decide(th, cache[Entries[c.at].name].addresses)
    BY <2>1, <2>2, DecideStep DEF CallStep, Busy
  <2>3. CASE match' = [match EXCEPT ![th].pc = "lookup"]
    <3>1. match' = [match EXCEPT ![th] = [c EXCEPT !.pc = "lookup"]]
      BY <2>3
    <3> QED BY <1>0, <2>1, <3>1 DEF CallStep
  <2> QED BY <1>3, <2>2, <2>3 DEF ReadCache
<1>4. CASE Resolve(th)
  BY <1>0, <1>4 DEF Resolve, Answer, CallStep
<1>5. CASE ResolveFails(th)
  BY <1>0, <1>5 DEF ResolveFails, Answer, CallStep
<1>6. CASE Store(th)
  <2>1. c.pc = "store" /\ clock' = clock /\ Decide(th, c.addresses)
    BY <1>6 DEF Store
  <2> QED BY <2>1, DecideStep DEF CallStep, Busy
<1>7. CASE ForPeer(th)
  <2>1. c.pc = "matched" /\ c.rule \in Rules
    BY <1>0, <1>7 DEF ForPeer, Calls, NoCall, Named, Asking, Storing, Matched, Buckets
  <2>2. Entries[c.rule].name \in Keys /\ DOMAIN limiters = Keys
    BY <2>1, RuleFacts DEF Inv, Typed
  <2>3. limiters'[Entries[c.rule].name] # Absent
    BY <1>7, <2>2, LimitsAssumption DEF ForPeer, FirstBuilt
  <2> QED BY <1>0, <1>7, <2>1, <2>2, <2>3 DEF ForPeer, CallStep
<1> QED BY <1>1, <1>2, <1>3, <1>4, <1>5, <1>6, <1>7 DEF ThreadStep

(* A limiter keeps its limit once it is built.                             *)
LEMMA LimitersStay ==
    ASSUME Inv, Next
    PROVE  /\ limiters' \in [Keys -> Int \cup {Absent}]
           /\ \A k \in Keys : limiters[k] # Absent => limiters'[k] = limiters[k]
<1>0. limiters \in [Keys -> Int \cup {Absent}]
  BY DEF Inv, Typed
<1>1. ASSUME NEW th \in Threads, ForPeer(th)
      PROVE  /\ limiters' \in [Keys -> Int \cup {Absent}]
             /\ \A k \in Keys : limiters[k] # Absent => limiters'[k] = limiters[k]
  <2> DEFINE r == Entries[match[th].rule]
             limit == FirstBuilt(r.name, IF r.limit = Absent THEN DefaultMax ELSE r.limit)
  <2>1. match[th].rule \in Rules
    BY <1>1 DEF Inv, Sound, ForPeer, Calls, NoCall, Named, Asking, Storing, Matched, Buckets
  <2>2. r.name \in Keys /\ (r.limit = Absent \/ r.limit \in Int)
    BY <2>1, RuleFacts
  <2>3. limit \in Int /\ (limiters[r.name] # Absent => limit = limiters[r.name])
    BY <1>0, <2>2, LimitsAssumption DEF FirstBuilt
  <2>4. limiters' = [limiters EXCEPT ![r.name] = limit]
    BY <1>1 DEF ForPeer
  <2> HIDE DEF r, limit
  <2> QED BY <1>0, <2>2, <2>3, <2>4
<1>2. CASE UNCHANGED limiters
  BY <1>0, <1>2
<1>3. UNCHANGED limiters \/ \E th \in Threads : ForPeer(th)
  BY DEF Next, Tick, Move, Call, ReadClock, ReadCache, Resolve, ResolveFails, Store
<1> QED BY <1>1, <1>2, <1>3

-----------------------------------------------------------------------------
(* The answers of DNS.                                                     *)

(* The next state's Answered, of an answer and a time that stay.           *)
StillAnswered(n, since, addresses) ==
    \A a \in Addresses :
        /\ a \in addresses => owner'[a] = n \/ lost'[a][n] >= since
        /\ a \notin addresses => \/ owner'[a] # n
                                 \/ gained'[a] >= since
                                 \/ failed'[n] >= since

(* The world keeps its types, and an answer stays as right as it was.      *)
LEMMA WorldStep ==
    ASSUME Inv, Next
    PROVE  /\ clock' \in Nat /\ clock' >= clock
           /\ owner' \in [Addresses -> Names \cup {NoName}]
           /\ gained' \in [Addresses -> Nat]
           /\ lost' \in [Addresses -> [Names -> Int]]
           /\ failed' \in [Names -> Int]
           /\ \A n \in Names, since \in Int : \A addresses :
                 since <= clock /\ Answered(n, since, addresses) =>
                    StillAnswered(n, since, addresses)
<1>0. /\ clock \in Nat /\ clock \in Int
      /\ owner \in [Addresses -> Names \cup {NoName}]
      /\ gained \in [Addresses -> Nat]
      /\ lost \in [Addresses -> [Names -> Int]]
      /\ failed \in [Names -> Int]
  BY DEF Inv, Typed
<1>1. CASE \E a \in Addresses, m \in Names \cup {NoName} : Move(a, m)
  <2>1. PICK a \in Addresses, m \in Names \cup {NoName} : Move(a, m)
    BY <1>1
  <2>2. /\ owner' = [owner EXCEPT ![a] = m]
        /\ gained' = [gained EXCEPT ![a] = clock]
        /\ clock' = clock /\ failed' = failed
    BY <2>1 DEF Move
  <2>3. /\ lost' \in [Addresses -> [Names -> Int]]
        /\ \A b \in Addresses \ {a} : lost'[b] = lost[b]
        /\ \A n \in Names : lost'[a][n] = IF owner[a] = n THEN clock ELSE lost[a][n]
    <3>1. CASE owner[a] = NoName
      BY <1>0, <2>1, <3>1, NamesAssumption DEF Move
    <3>2. CASE owner[a] # NoName
      <4>1. lost' = [lost EXCEPT ![a] = [lost[a] EXCEPT ![owner[a]] = clock]]
        BY <2>1, <3>2 DEF Move
      <4>2. lost[a] \in [Names -> Int] /\ owner[a] \in Names
        BY <1>0, <3>2
      <4>3. /\ [lost[a] EXCEPT ![owner[a]] = clock] \in [Names -> Int]
            /\ \A n \in Names : [lost[a] EXCEPT ![owner[a]] = clock][n]
                                  = IF owner[a] = n THEN clock ELSE lost[a][n]
        BY <1>0, <4>2
      <4> QED BY <1>0, <4>1, <4>3
    <3> QED BY <3>1, <3>2
  <2>4. ASSUME NEW n \in Names, NEW since \in Int, NEW addresses,
               since <= clock, Answered(n, since, addresses)
        PROVE  StillAnswered(n, since, addresses)
    <3> SUFFICES ASSUME NEW b \in Addresses
                 PROVE  /\ b \in addresses => owner'[b] = n \/ lost'[b][n] >= since
                        /\ b \notin addresses => \/ owner'[b] # n
                                                 \/ gained'[b] >= since
                                                 \/ failed'[n] >= since
      BY DEF StillAnswered
    <3>0. /\ b \in addresses => owner[b] = n \/ lost[b][n] >= since
          /\ b \notin addresses => \/ owner[b] # n
                                   \/ gained[b] >= since
                                   \/ failed[n] >= since
      BY <2>4 DEF Answered
    <3>1. CASE b = a
      <4>1. gained'[b] = clock
        BY <1>0, <2>2, <3>1
      <4>2. lost'[b][n] = IF owner[b] = n THEN clock ELSE lost[b][n]
        BY <2>3, <3>1
      <4> QED BY <1>0, <2>4, <3>0, <4>1, <4>2
    <3>2. CASE b # a
      <4>1. owner'[b] = owner[b] /\ gained'[b] = gained[b] /\ lost'[b] = lost[b]
        BY <1>0, <2>2, <2>3, <3>2
      <4> QED BY <2>2, <3>0, <4>1
    <3> QED BY <3>1, <3>2
  <2>5. /\ owner' \in [Addresses -> Names \cup {NoName}]
        /\ gained' \in [Addresses -> Nat]
    BY <1>0, <2>2
  <2> QED BY <1>0, <2>2, <2>3, <2>4, <2>5
<1>2. CASE \E th \in Threads : ResolveFails(th)
  <2>1. PICK th \in Threads : ResolveFails(th)
    BY <1>2
  <2>2. /\ failed' = [failed EXCEPT ![Entries[match[th].at].name] = clock]
        /\ clock' = clock /\ UNCHANGED world
    BY <2>1 DEF ResolveFails
  <2>3. failed' \in [Names -> Int] /\ \A n \in Names : failed'[n] \in {failed[n], clock}
    BY <1>0, <2>2
  <2>4. ASSUME NEW n \in Names, NEW since \in Int, NEW addresses,
               since <= clock, Answered(n, since, addresses)
        PROVE  StillAnswered(n, since, addresses)
    <3>1. failed[n] >= since => failed'[n] >= since
      BY <1>0, <2>3, <2>4
    <3> QED BY <2>2, <2>4, <3>1 DEF Answered, StillAnswered, world
  <2> QED BY <1>0, <2>2, <2>3, <2>4 DEF world
<1>3. CASE UNCHANGED <<world, failed>> /\ clock' \in {clock, clock + 1}
  BY <1>0, <1>3 DEF Answered, StillAnswered, world
<1>4. \/ \E a \in Addresses, m \in Names \cup {NoName} : Move(a, m)
      \/ \E th \in Threads : ResolveFails(th)
      \/ UNCHANGED <<world, failed>> /\ clock' \in {clock, clock + 1}
  BY DEF Next, Tick, Call, ReadClock, ReadCache, Resolve, Store, ForPeer, world
<1> QED BY <1>1, <1>2, <1>3, <1>4

(* An answer that is stored is as right as when it was given.              *)
LEMMA CacheStep ==
    ASSUME Inv, Next
    PROVE  /\ cache' \in [Names -> [until : Nat, addresses : SUBSET Addresses]]
           /\ CacheKept'
<1>0. /\ cache \in [Names -> [until : Nat, addresses : SUBSET Addresses]]
      /\ clock \in Nat /\ clock' \in Nat /\ clock' >= clock /\ Ttl \in Nat \ {0}
  BY WorldStep, TimeAssumption DEF Inv, Typed
<1>1. ASSUME NEW n \in Names, NEW since \in Int, NEW addresses,
             since <= clock, Answered(n, since, addresses)
      PROVE  StillAnswered(n, since, addresses)
  BY <1>1, WorldStep
<1>2. ASSUME NEW n \in Names, cache'[n] = cache[n]
      PROVE  /\ cache'[n].until = 0 \/ cache'[n].until >= Ttl
             /\ cache'[n].until - Ttl <= clock'
             /\ StillAnswered(n, cache'[n].until - Ttl, cache'[n].addresses)
  <2>1. /\ cache[n].until = 0 \/ cache[n].until >= Ttl
        /\ cache[n].until - Ttl <= clock
        /\ Answered(n, cache[n].until - Ttl, cache[n].addresses)
    BY DEF Inv, CacheKept
  <2>2. cache[n].until \in Nat /\ cache[n].until - Ttl \in Int
    BY <1>0
  <2>3. StillAnswered(n, cache[n].until - Ttl, cache[n].addresses)
    BY <1>1, <2>1, <2>2
  <2> QED BY <1>0, <1>2, <2>1, <2>2, <2>3
<1>3. ASSUME \A n \in Names :
                /\ cache'[n].until = 0 \/ cache'[n].until >= Ttl
                /\ cache'[n].until - Ttl <= clock'
                /\ StillAnswered(n, cache'[n].until - Ttl, cache'[n].addresses)
      PROVE  CacheKept'
  BY <1>3 DEF CacheKept, Answered, StillAnswered
<1>4. CASE UNCHANGED cache
  BY <1>0, <1>2, <1>3, <1>4
<1>5. CASE \E th \in Threads : Store(th)
  <2>1. PICK th \in Threads : Store(th)
    BY <1>5
  <2> DEFINE c == match[th]
             name == Entries[c.at].name
             stored == [until |-> c.now + Ttl, addresses |-> c.addresses]
  <2>2. c.pc = "store" /\ cache' = [cache EXCEPT ![name] = stored]
    BY <2>1 DEF Store, Until
  <2>3. c \in Storing /\ c.now <= clock /\ Answered(name, c.now, c.addresses)
    BY <2>2 DEF Inv, Sound, CallKept, Calls, NoCall, Named, Asking, Storing, Matched, Buckets, Busy
  <2>4. name \in Names
    <3>1. c.at \in Rules /\ Entries[c.at].hosts = {}
      BY <2>2, <2>3 DEF Inv, Sound, Storing, Busy
    <3> QED BY <3>1, RuleFacts
  <2>5. c.now \in Nat /\ c.addresses \in SUBSET Addresses
    BY <2>3 DEF Storing
  <2>6. StillAnswered(name, c.now, c.addresses)
    BY <1>1, <2>3, <2>4, <2>5
  <2> HIDE DEF c, name
  <2>7. stored \in [until : Nat, addresses : SUBSET Addresses]
    BY <1>0, <2>5
  <2>8. cache' \in [Names -> [until : Nat, addresses : SUBSET Addresses]]
    BY <1>0, <2>2, <2>7
  <2>9. ASSUME NEW n \in Names
        PROVE  /\ cache'[n].until = 0 \/ cache'[n].until >= Ttl
               /\ cache'[n].until - Ttl <= clock'
               /\ StillAnswered(n, cache'[n].until - Ttl, cache'[n].addresses)
    <3>1. CASE n = name
      <4>1. cache'[n].until = c.now + Ttl /\ cache'[n].addresses = c.addresses
        BY <1>0, <2>2, <2>4, <3>1
      <4>2. c.now + Ttl - Ttl = c.now
        BY <1>0, <2>5
      <4> QED BY <1>0, <2>3, <2>5, <2>6, <3>1, <4>1, <4>2
    <3>2. CASE n # name
      <4>1. cache'[n] = cache[n]
        BY <1>0, <2>2, <3>2
      <4> QED BY <1>2, <4>1
    <3> QED BY <3>1, <3>2
  <2> QED BY <1>3, <2>8, <2>9
<1>6. UNCHANGED cache \/ \E th \in Threads : Store(th)
  BY DEF Next, Tick, Move, Call, ReadClock, ReadCache, Resolve, ResolveFails, ForPeer
<1> QED BY <1>4, <1>5, <1>6

-----------------------------------------------------------------------------
(* The calls.                                                              *)

(* A call that its thread does not take on stays sound; time runs only as  *)
(* far as it may take.                                                     *)
LEMMA CallStays ==
    ASSUME Inv, Next, NEW th \in Threads, match'[th] = match[th]
    PROVE  Sound(match[th])' /\ CallKept(match[th])'
<1> DEFINE c == match[th]
<1>1. /\ Sound(c) /\ CallKept(c) /\ c \in Calls
      /\ clock \in Nat /\ clock' \in Nat /\ clock' >= clock
  BY WorldStep DEF Inv, Typed, Sound
<1>2. Sound(match[th])'
  <2>1. NamedBucket(c) => NamedBucket(match[th])'
    BY LimitersStay DEF NamedBucket
  <2> QED BY <1>1, <2>1 DEF Sound, OwnBucket
<1>3. c.pc \in Busy => c.now <= clock' /\ clock' <= c.now + MaxDelay
  <2> SUFFICES ASSUME c.pc \in Busy PROVE c.now <= clock' /\ clock' <= c.now + MaxDelay
    OBVIOUS
  <2>1. c.now \in Nat
    BY <1>1 DEF Calls, NoCall, Named, Asking, Storing, Matched, Buckets, Busy
  <2>2. c.now <= clock /\ clock <= c.now + MaxDelay
    BY DEF Inv, CallKept
  <2>3. CASE clock' = clock
    BY <2>2, <2>3
  <2>4. CASE Tick
    <3>1. clock < c.now + MaxDelay /\ clock' = clock + 1
      BY <2>4 DEF Tick
    <3> QED BY <1>1, <2>1, <2>2, <3>1, TimeAssumption
  <2>5. clock' = clock \/ Tick
    BY DEF Next, Move, Call, ReadClock, ReadCache, Resolve, ResolveFails, Store, ForPeer
  <2> QED BY <2>3, <2>4, <2>5
<1>4. c.pc = "store" => StillAnswered(Entries[c.at].name, c.now, c.addresses)
  <2> SUFFICES ASSUME c.pc = "store" PROVE StillAnswered(Entries[c.at].name, c.now, c.addresses)
    OBVIOUS
  <2>1. /\ c.now <= clock /\ Answered(Entries[c.at].name, c.now, c.addresses)
        /\ Entries[c.at].hosts = {}
    BY DEF Inv, Sound, CallKept, Busy
  <2>2. c.now \in Nat /\ c.at \in Rules
    BY <1>1 DEF Calls, NoCall, Named, Asking, Storing, Matched, Buckets
  <2>3. Entries[c.at].name \in Names
    BY <2>1, <2>2, RuleFacts
  <2> QED BY <2>1, <2>2, <2>3, WorldStep
<1> QED BY <1>2, <1>3, <1>4 DEF CallKept, Answered, StillAnswered

(* One that it takes on is sound again.                                    *)
LEMMA CallGoesOn ==
    ASSUME Inv, Next, NEW th \in Threads, CallStep(match[th], match'[th]), clock' = clock,
           match[th] \in Calls
    PROVE  Sound(match[th])' /\ CallKept(match[th])'
<1> DEFINE c == match[th]
           d == match'[th]
<1>1. /\ Sound(c) /\ CallKept(c) /\ clock \in Nat
  BY DEF Inv, Typed
<1>2. CASE Tried(d)
  BY <1>2 DEF Tried, Sound, CallKept, OwnBucket, Calls, Named, Matched, Buckets, Busy
<1>3. CASE /\ c.pc = "name"
           /\ d = [pc |-> "cache", peer |-> c.peer, at |-> c.at, now |-> clock]
  <2>1. c.peer \in Addresses /\ c.at \in Rules
    BY <1>3 DEF Calls, NoCall, Named, Asking, Storing, Matched, Buckets
  <2>2. d \in Asking
    BY <1>1, <1>3, <2>1 DEF Asking
  <2> QED BY <1>1, <1>3, <2>2, TimeAssumption DEF Sound, CallKept, Calls, Busy
<1>4. CASE /\ c.pc \in {"cache", "store"}
           /\ d = [pc |-> "matched", peer |-> c.peer, rule |-> c.at]
  <2>1. c.peer \in Addresses /\ c.at \in Rules
    BY <1>4 DEF Calls, NoCall, Named, Asking, Storing, Matched, Buckets
  <2>2. d \in Matched
    BY <1>4, <2>1 DEF Matched
  <2> QED BY <1>1, <1>4, <2>2 DEF Sound, CallKept, Calls, Busy
<1>5. CASE c.pc = "cache" /\ d = [c EXCEPT !.pc = "lookup"]
  <2>1. c \in Asking
    BY <1>5 DEF Calls, NoCall, Named, Asking, Storing, Matched, Buckets
  <2>2. d \in Asking /\ d.pc = "lookup" /\ d.peer = c.peer /\ d.at = c.at /\ d.now = c.now
    BY <1>5, <2>1 DEF Asking
  <2> QED BY <1>1, <1>5, <2>2 DEF Sound, CallKept, Calls, Busy
<1>6. CASE /\ c.pc = "lookup"
           /\ \E A \in SUBSET Addresses :
                 /\ d = [pc |-> "store", peer |-> c.peer, at |-> c.at, now |-> c.now,
                         addresses |-> A]
                 /\ \/ A = {a \in Addresses : owner[a] = Entries[c.at].name}
                    \/ A = {} /\ failed' = [failed EXCEPT ![Entries[c.at].name] = clock]
  <2>1. PICK A \in SUBSET Addresses :
                 /\ d = [pc |-> "store", peer |-> c.peer, at |-> c.at, now |-> c.now,
                         addresses |-> A]
                 /\ \/ A = {a \in Addresses : owner[a] = Entries[c.at].name}
                    \/ A = {} /\ failed' = [failed EXCEPT ![Entries[c.at].name] = clock]
    BY <1>6
  <2>2. c \in Asking
    BY <1>6 DEF Calls, NoCall, Named, Asking, Storing, Matched, Buckets
  <2>3. d \in Storing /\ c.now \in Nat /\ c.at \in Rules
    BY <2>1, <2>2 DEF Asking, Storing
  <2>4. Entries[c.at].hosts = {} /\ c.now <= clock
    BY <1>1, <1>6 DEF Sound, CallKept, Busy
  <2>5. Entries[c.at].name \in Names
    BY <2>3, <2>4, RuleFacts
  <2>6. StillAnswered(Entries[c.at].name, c.now, A)
    <3>1. CASE A = {a \in Addresses : owner[a] = Entries[c.at].name}
      <4>1. Answered(Entries[c.at].name, c.now, A)
        BY <3>1 DEF Answered
      <4> QED BY <2>3, <2>4, <2>5, <4>1, WorldStep
    <3>2. CASE A = {} /\ failed' = [failed EXCEPT ![Entries[c.at].name] = clock]
      <4>1. failed'[Entries[c.at].name] = clock
        BY <2>5, <3>2 DEF Inv, Typed
      <4> QED BY <2>4, <3>2, <4>1 DEF StillAnswered
    <3> QED BY <2>1, <3>1, <3>2
  <2>7. CallKept(match[th])'
    BY <1>1, <1>6, <2>1, <2>6 DEF CallKept, Answered, StillAnswered, Busy
  <2>8. Sound(match[th])'
    BY <1>1, <1>6, <2>1, <2>3 DEF Sound, Calls, Busy
  <2> QED BY <2>7, <2>8
<1>7. CASE /\ c.pc = "matched"
           /\ d = [pc |-> "bucket", peer |-> c.peer, key |-> Entries[c.rule].name,
                   max |-> limiters'[Entries[c.rule].name]]
           /\ d.max # Absent
  <2>1. c \in Matched
    BY <1>7 DEF Calls, NoCall, Named, Asking, Storing, Matched, Buckets
  <2>2. c.peer \in Addresses /\ c.rule \in Rules /\ Uncovered(c.peer, c.rule)
    BY <1>1, <1>7, <2>1 DEF Matched, Sound
  <2>3. Entries[c.rule].name \in Keys
    BY <2>2, RuleFacts
  <2>4. d.max \in Int /\ d.max = limiters'[d.key] /\ d.key \in Keys
    BY <1>7, <2>3, LimitersStay
  <2>5. d \in Buckets
    BY <1>7, <2>2, <2>3, <2>4 DEF Buckets
  <2>6. ASSUME NEW n \in Rules, c.peer \in Entries[n].hosts
        PROVE  c.rule <= n /\ Entries[c.rule].name = d.key
    <3>1. n \in Nat /\ c.rule \in Nat /\ ~(n < c.rule)
      BY <2>2, <2>6, RuleFacts DEF Uncovered
    <3> QED BY <1>7, <3>1
  <2>7. NamedBucket(match[th])'
    BY <1>7, <2>2, <2>4, <2>6 DEF NamedBucket
  <2> QED BY <1>7, <2>5, <2>7 DEF Sound, CallKept, Calls, Busy
<1> QED BY <1>2, <1>3, <1>4, <1>5, <1>6, <1>7 DEF CallStep

-----------------------------------------------------------------------------
(* The invariant holds.                                                    *)

(* Nobody calls at first, and nothing is cached.                           *)
LEMMA InitInv == Init => Inv
<1> SUFFICES ASSUME Init PROVE Inv
  OBVIOUS
<1> USE DEF Init, NoEntry, NoCall
<1>1. Typed
  BY DEF Typed
<1>2. CacheKept
  <2> SUFFICES ASSUME NEW n \in Names
               PROVE  /\ cache[n].until = 0
                      /\ 0 - Ttl <= clock
                      /\ Answered(n, 0 - Ttl, {})
    BY DEF CacheKept
  <2> QED BY TimeAssumption DEF Answered
<1>3. ASSUME NEW th \in Threads PROVE Sound(match[th]) /\ CallKept(match[th])
  BY DEF Sound, CallKept, Calls, Busy
<1> QED BY <1>1, <1>2, <1>3 DEF Inv

(* Who takes a step: time, DNS or one thread.                              *)
LEMMA StepsAre ==
    ASSUME Next
    PROVE  \/ match' = match
           \/ \E th \in Threads : ThreadStep(th)
  BY DEF Next, ThreadStep, Tick, Move

(* The invariant is inductive.                                             *)
LEMMA InvStep == Inv /\ [Next]_vars => Inv'
<1>1. ASSUME Inv, Next PROVE Inv'
  <2>1. DOMAIN match = Threads /\ \A th \in Threads : match[th] \in Calls
    BY <1>1 DEF Inv, Typed, Sound
  <2>2. /\ DOMAIN match' = Threads
        /\ \A th \in Threads : Sound(match[th])' /\ CallKept(match[th])'
    <3>1. CASE match' = match
      BY <1>1, <2>1, <3>1, CallStays
    <3>2. CASE \E th \in Threads : ThreadStep(th)
      <4>1. PICK th \in Threads : ThreadStep(th)
        BY <3>2
      <4>2. /\ match' = [match EXCEPT ![th] = match'[th]]
            /\ CallStep(match[th], match'[th]) /\ clock' = clock
        BY <1>1, <4>1, ThreadSteps
      <4>3. Sound(match[th])' /\ CallKept(match[th])'
        BY <1>1, <2>1, <4>2, CallGoesOn
      <4>4. ASSUME NEW o \in Threads, o # th PROVE Sound(match[o])' /\ CallKept(match[o])'
        <5>1. match'[o] = match[o]
          BY <2>1, <4>2, <4>4
        <5> QED BY <1>1, <5>1, CallStays
      <4>5. DOMAIN match' = Threads
        BY <2>1, <4>2
      <4> QED BY <4>3, <4>4, <4>5
    <3> QED BY <1>1, <3>1, <3>2, StepsAre
  <2>3. Typed'
    BY <1>1, <2>2, WorldStep, CacheStep, LimitersStay DEF Typed
  <2> QED BY <1>1, <2>2, <2>3, CacheStep DEF Inv
<1>2. ASSUME Inv, UNCHANGED vars PROVE Inv'
  BY <1>2 DEF Inv, Typed, CacheKept, Answered, Sound, CallKept, OwnBucket, NamedBucket,
     vars, world
<1> QED BY <1>1, <1>2

(* Rules are tried in their order, answers are as right as they can be.    *)
THEOREM InvHolds == Spec => []Inv
  BY InitInv, InvStep, PTL DEF Spec

-----------------------------------------------------------------------------
(* The properties.                                                         *)

(* First match wins: a peer that a well-formed network entry covers is     *)
(* counted under the name of that entry or of an earlier one, never under  *)
(* its address, whatever the lookups answer and the other entries are.     *)
THEOREM FirstMatches == Spec => []FirstMatchWins
<1>1. Inv => FirstMatchWins
  <2> SUFFICES ASSUME Inv, NEW th \in Threads, NEW n \in 1..Len(Entries),
                      Counted(th), match[th].peer \in Entries[n].hosts, Usable(n)
               PROVE  \E m \in 1..n : Usable(m) /\ Entries[m].name = match[th].key
    BY DEF FirstMatchWins
  <2>1. n \in Rules
    BY DEF Rules, WellFormed, Usable
  <2>2. PICK m \in Rules : m <= n /\ Entries[m].name = match[th].key
    BY <2>1 DEF Inv, Sound, Counted, OwnBucket, NamedBucket
  <2>3. m \in 1..n
    BY <2>2, RuleFacts
  <2>4. Usable(m)
    BY RuleFacts DEF Rules, WellFormed, Usable
  <2> QED BY <2>2, <2>3, <2>4
<1> QED BY <1>1, InvHolds, PTL

(* Whoever is counted under the same name has the same limit: that of the  *)
(* one limiter of the name, which never changes; and a peer that is counted*)
(* under its own address is not counted with one that an entry names.      *)
THEOREM OneAllowance == Spec => []SameAllowance
<1>1. Inv => SameAllowance
  <2> SUFFICES ASSUME Inv, NEW th \in Threads, NEW o \in Threads,
                      Counted(th), Counted(o), match[th].key = match[o].key
               PROVE  match[th].max = match[o].max
    BY DEF SameAllowance
  <2>1. /\ OwnBucket(match[th]) \/ NamedBucket(match[th])
        /\ OwnBucket(match[o]) \/ NamedBucket(match[o])
        /\ match[th].peer \in Addresses /\ match[o].peer \in Addresses
    BY DEF Inv, Sound, Counted, Calls, NoCall, Named, Asking, Storing, Matched, Buckets
  <2>2. ASSUME NEW c, NEW d, OwnBucket(c), NamedBucket(d), c.key = d.key, c.peer \in Addresses
        PROVE  FALSE
    <3>1. PICK m \in Rules : Entries[m].name = c.peer
      BY <2>2 DEF OwnBucket, NamedBucket, Keys
    <3>2. c.peer \in Entries[m].hosts
      BY <2>2, <3>1, EntriesAssumption
    <3> QED BY <2>2, <3>2 DEF OwnBucket
  <2> QED BY <2>1, <2>2 DEF OwnBucket, NamedBucket
<1> QED BY <1>1, InvHolds, PTL

(* A decision rests on an answer that is not older than an entry may be    *)
(* kept and a call may take.                                               *)
LEMMA DecisionRests ==
    ASSUME Inv, Next, NEW th \in Threads, Decision(th)
    PROVE  /\ match[th].peer \in Addresses
           /\ \E since \in Nat, addresses \in SUBSET Addresses :
                 /\ Answered(NameAt(th), since, addresses)
                 /\ clock - since < Ttl + MaxDelay
                 /\ Hit(th) <=> match[th].peer \in addresses
<1> DEFINE c == match[th]
<1>1. /\ Sound(c) /\ CallKept(c) /\ c \in Calls /\ c.pc \in {"cache", "store"}
      /\ DOMAIN match = Threads /\ clock \in Nat
  BY DEF Inv, Typed, Sound, Decision
<1>2. /\ c.peer \in Addresses /\ c.at \in Rules /\ c.now \in Nat
      /\ c.pc = "store" => c.addresses \in SUBSET Addresses
  BY <1>1 DEF Calls, NoCall, Named, Asking, Storing, Matched, Buckets
<1>3. NameAt(th) \in Names /\ Entries[c.at].hosts = {} /\ clock <= c.now + MaxDelay
  BY <1>1, <1>2, RuleFacts DEF Sound, CallKept, Busy, NameAt
<1>4. ASSUME NEW addresses, Decide(th, addresses)
      PROVE  Hit(th) <=> c.peer \in addresses
  <2>0. match[th].pc \in Busy
    BY <1>1 DEF Busy
  <2>1. CASE c.peer \in addresses
    <3>1. match'[th] = [pc |-> "matched", peer |-> c.peer, rule |-> c.at]
      BY <1>4, <2>0, <2>1, DecideStep
    <3> QED BY <2>1, <3>1 DEF Hit
  <2>2. CASE c.peer \notin addresses
    <3>1. Tried(match'[th])
      BY <1>4, <2>0, <2>2, DecideStep
    <3>2. match'[th].pc = "matched" => Entries[match'[th].rule].hosts # {}
      BY <3>1 DEF Tried
    <3> QED BY <1>3, <2>2, <3>2 DEF Hit
  <2> QED BY <2>1, <2>2
<1>5. PICK u \in Threads : ThreadStep(u)
  <2>1. match' # match
    BY <1>1 DEF Decision, Busy
  <2> QED BY <2>1, StepsAre
<1>6. u = th
  <2>1. match' = [match EXCEPT ![u] = match'[u]]
    BY <1>5, ThreadSteps
  <2> QED BY <1>1, <2>1 DEF Decision, Busy
<1>7. ReadCache(th) \/ Store(th)
  BY <1>1, <1>5, <1>6 DEF ThreadStep, Call, ReadClock, Resolve, ResolveFails, ForPeer
<1>8. CASE ReadCache(th)
  <2> DEFINE entry == cache[NameAt(th)]
  <2>1. entry.until \in Nat /\ entry.addresses \in SUBSET Addresses
    BY <1>3 DEF Inv, Typed
  <2>2. entry.until > c.now /\ Decide(th, entry.addresses)
    <3>1. ~(match' = [match EXCEPT ![th].pc = "lookup"])
      <4>1. c \in Asking \cup Storing
        BY <1>1 DEF Calls, NoCall, Named, Asking, Storing, Matched, Buckets
      <4>2. [c EXCEPT !.pc = "lookup"].pc = "lookup"
        BY <4>1 DEF Asking, Storing
      <4>3. match' = [match EXCEPT ![th].pc = "lookup"] =>
               match'[th] = [c EXCEPT !.pc = "lookup"]
        BY <1>1
      <4> QED BY <4>2, <4>3 DEF Decision, Busy
    <3> QED BY <1>8, <3>1 DEF ReadCache, Valid, NameAt
  <2>3. /\ entry.until = 0 \/ entry.until >= Ttl
        /\ Answered(NameAt(th), entry.until - Ttl, entry.addresses)
    BY <1>3 DEF Inv, CacheKept
  <2> DEFINE since == entry.until - Ttl
  <2>4. since \in Nat /\ clock - since < Ttl + MaxDelay
    BY <1>1, <1>2, <1>3, <2>1, <2>2, <2>3, TimeAssumption
  <2>5. Hit(th) <=> c.peer \in entry.addresses
    BY <1>4, <2>2
  <2> HIDE DEF since
  <2> QED BY <1>2, <2>1, <2>3, <2>4, <2>5 DEF since
<1>9. CASE Store(th)
  <2>1. Decide(th, c.addresses) /\ c.pc = "store"
    BY <1>9 DEF Store
  <2>2. Answered(NameAt(th), c.now, c.addresses)
    BY <1>1, <2>1 DEF CallKept, NameAt
  <2>3. clock - c.now < Ttl + MaxDelay
    BY <1>1, <1>2, <1>3, TimeAssumption
  <2>4. Hit(th) <=> c.peer \in c.addresses
    BY <1>4, <2>1
  <2> QED BY <1>2, <2>1, <2>2, <2>3, <2>4
<1> QED BY <1>2, <1>7, <1>8, <1>9

(* No peer gets the bucket of a name it has given up longer ago than an    *)
(* answer is kept and a call lasts, although lookups overtake each other.  *)
THEOREM NothingStale == Spec => NotStale
<1> DEFINE Kept(th) ==
      LET a == match[th].peer IN
      \/ owner[a] = NameAt(th)
      \/ lost[a][NameAt(th)] >= 0 /\ clock - lost[a][NameAt(th)] < Ttl + MaxDelay
<1>1. ASSUME Inv, [Next]_vars, NEW th \in Threads, Decision(th), Hit(th) PROVE Kept(th)
  <2>1. Next
    BY <1>1 DEF vars, Decision, Busy
  <2>2. PICK since \in Nat, addresses \in SUBSET Addresses :
           /\ Answered(NameAt(th), since, addresses)
           /\ clock - since < Ttl + MaxDelay
           /\ match[th].peer \in addresses
    BY <1>1, <2>1, DecisionRests
  <2>3. /\ match[th].peer \in Addresses
        /\ \/ owner[match[th].peer] = NameAt(th)
           \/ lost[match[th].peer][NameAt(th)] >= since
    BY <1>1, <2>1, <2>2, DecisionRests DEF Answered
  <2>4. NameAt(th) \in Names
    <3>1. match[th].at \in Rules /\ Entries[match[th].at].hosts = {}
      BY <1>1 DEF Inv, Sound, Decision, Calls, NoCall, Named, Asking, Storing, Matched,
         Buckets, Busy
    <3> QED BY <3>1, RuleFacts DEF NameAt
  <2>5. lost[match[th].peer][NameAt(th)] \in Int /\ clock \in Nat
    BY <1>1, <2>3, <2>4 DEF Inv, Typed
  <2> QED BY <2>2, <2>3, <2>5, TimeAssumption
<1>2. Inv /\ [Next]_vars =>
        [\A th \in Threads : Decision(th) /\ Hit(th) => Kept(th)]_vars
  BY <1>1
<1> QED BY <1>2, InvHolds, PTL DEF Spec, NotStale

(* A container that has come back with another address is recognised after *)
(* that time, unless a lookup of its name has failed since.                *)
THEOREM NothingMissed == Spec => NotMissed
<1> DEFINE Kept(th) ==
      LET a == match[th].peer IN
      \/ owner[a] # NameAt(th)
      \/ clock - gained[a] < Ttl + MaxDelay
      \/ failed[NameAt(th)] >= 0 /\ clock - failed[NameAt(th)] < Ttl + MaxDelay
<1>1. ASSUME Inv, [Next]_vars, NEW th \in Threads, Decision(th), ~Hit(th) PROVE Kept(th)
  <2>1. Next
    BY <1>1 DEF vars, Decision, Busy
  <2>2. PICK since \in Nat, addresses \in SUBSET Addresses :
           /\ Answered(NameAt(th), since, addresses)
           /\ clock - since < Ttl + MaxDelay
           /\ match[th].peer \notin addresses
    BY <1>1, <2>1, DecisionRests
  <2>3. /\ match[th].peer \in Addresses
        /\ \/ owner[match[th].peer] # NameAt(th)
           \/ gained[match[th].peer] >= since
           \/ failed[NameAt(th)] >= since
    BY <1>1, <2>1, <2>2, DecisionRests DEF Answered
  <2>4. NameAt(th) \in Names
    <3>1. match[th].at \in Rules /\ Entries[match[th].at].hosts = {}
      BY <1>1 DEF Inv, Sound, Decision, Calls, NoCall, Named, Asking, Storing, Matched,
         Buckets, Busy
    <3> QED BY <3>1, RuleFacts DEF NameAt
  <2>5. gained[match[th].peer] \in Int /\ failed[NameAt(th)] \in Int /\ clock \in Nat
    BY <1>1, <2>3, <2>4 DEF Inv, Typed
  <2> QED BY <2>2, <2>3, <2>5, TimeAssumption
<1>2. Inv /\ [Next]_vars =>
        [\A th \in Threads : Decision(th) /\ ~Hit(th) => Kept(th)]_vars
  BY <1>1
<1> QED BY <1>2, InvHolds, PTL DEF Spec, NotMissed
=============================================================================
