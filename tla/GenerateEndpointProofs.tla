------------------------ MODULE GenerateEndpointProofs ------------------------
(***************************************************************************)
(* The theorems about GenerateEndpoint, for any requests, any pool and any *)
(* cap.                                                                    *)
(***************************************************************************)
EXTENDS GenerateEndpoint, FiniteSetTheorems, TLAPS

-----------------------------------------------------------------------------
(* The invariant.                                                          *)

(* The functions that run before the acquire, and those that run between   *)
(* it and the release.                                                     *)
Early == {"none", "read", "limit", "auth", "semaphore", "build", "acquire"}
Inside == {"endpoint", "claude", "persist", "enqueue"}

Typed ==
    /\ step \in [Requests -> Steps]
    /\ threads \subseteq Requests
    /\ semaphore \in [Generations -> Generations]
    /\ slots \in [Generations -> Nat]
    /\ holding \subseteq Generations /\ IsFiniteSet(holding)
    /\ calls \in [Requests -> 0..(ParseRetries + 1)]
    /\ persisted \subseteq Generations
    /\ answer \in [Requests -> {"none", "ok", "refused", "failed"}]

(* Only who holds a slot is inside the handler, and whoever is neither     *)
(* there nor about to release one holds none.                              *)
HoldersInside ==
    \A g \in Generations : g \in holding <=> step[g] \in Inside \cup {"release"}

(* The lru_cache holds one semaphore for good, and a generation has it or  *)
(* one that it built itself.                                               *)
CachedOrOwn ==
    /\ cached = {} \/ \E s \in Generations : cached = {s}
    /\ \A g \in Generations : semaphore[g] = g \/ semaphore[g] \in cached

(* Claude is called by the handler alone.                                  *)
CallsInside == \A r \in Requests : step[r] \in Early \cup {"endpoint"} => calls[r] = 0

(* An answer ends the handler, and what was stored was stored by it.       *)
AnswersLast ==
    /\ \A r \in Requests : step[r] \in Early \cup Inside => answer[r] = "none"
    /\ \A g \in persisted : /\ step[g] \in {"enqueue", "release", "over"}
                            /\ answer[g] # "refused"

Holders(s) == {g \in holding : semaphore[g] = s}
Conserved == \A s \in Generations : slots[s] + Cardinality(Holders(s)) = MaxConcurrent

Inv == Typed /\ HoldersInside /\ CachedOrOwn /\ CallsInside /\ AnswersLast /\ Conserved

Shape == Typed /\ HoldersInside /\ CachedOrOwn /\ CallsInside /\ AnswersLast

(* No request has come yet, and there is no semaphore.                     *)
LEMMA InitInv == Init => Inv
<1> SUFFICES ASSUME Init PROVE Inv
  OBVIOUS
<1>1. Typed
  BY RetriesAssumption, PoolAssumption, FS_EmptySet DEF Init, Typed, Steps, Requests
<1>2. HoldersInside /\ CachedOrOwn /\ CallsInside /\ AnswersLast
  BY DEF Init, HoldersInside, CachedOrOwn, CallsInside, AnswersLast, Inside, Early, Requests
<1>3. Conserved
  <2> SUFFICES ASSUME NEW s \in Generations
               PROVE  slots[s] + Cardinality(Holders(s)) = MaxConcurrent
    BY DEF Conserved
  <2>1. Holders(s) = {}
    BY DEF Init, Holders
  <2> QED BY <2>1, FS_EmptySet, PoolAssumption DEF Init
<1> QED BY <1>1, <1>2, <1>3 DEF Inv

(* Steps keep types, holders and owners of semaphores in shape.            *)
LEMMA ShapeStep ==
    ASSUME Shape, [Next]_vars
    PROVE  Shape'
<1> USE RequestsAssumption, RetriesAssumption, PoolAssumption
    DEF Shape, Typed, HoldersInside, CachedOrOwn, CallsInside, AnswersLast, Steps,
        Inside, Early, Requests, limits
<1>1. ASSUME NEW r \in Requests, Arrive(r) PROVE Shape'
  BY <1>1 DEF Arrive
<1>2. ASSUME NEW r \in Reads, Read(r) PROVE Shape'
  BY <1>2 DEF Read, Running, Respond
<1>3. ASSUME NEW g \in Generations, EnforceRateLimit(g) PROVE Shape'
  BY <1>3 DEF EnforceRateLimit, Running, Respond, Continue
<1>4. ASSUME NEW g \in Generations, RequireApiKey(g) PROVE Shape'
  BY <1>4 DEF RequireApiKey, Running, Respond, Continue
<1>5. ASSUME NEW g \in Generations, LookUp(g) PROVE Shape'
  BY <1>5 DEF LookUp, Running, Continue, Keep
<1>6. ASSUME NEW g \in Generations, Build(g) PROVE Shape'
  BY <1>6 DEF Build, Running, Continue, CacheFirst
<1>7. ASSUME NEW g \in Generations, EnforceGenerationLimit(g) PROVE Shape'
  BY <1>7, FS_AddElement DEF EnforceGenerationLimit, Running, Continue, Refuse, Respond
<1>8. ASSUME NEW g \in Generations, ValidateModel(g) PROVE Shape'
  BY <1>8 DEF ValidateModel, Running, Respond, CallClaude
<1>9. ASSUME NEW g \in Generations, ClaudeAnswers(g) PROVE Shape'
  BY <1>9 DEF ClaudeAnswers, Running, Respond, CallClaude, Keep, MayRetry
<1>10. ASSUME NEW g \in Generations, Persist(g) PROVE Shape'
  BY <1>10 DEF Persist, Running, Respond, Keep
<1>11. ASSUME NEW g \in Generations, EnqueueJobs(g) PROVE Shape'
  BY <1>11 DEF EnqueueJobs, Running, Respond
<1>12. ASSUME NEW g \in Generations, Release(g) PROVE Shape'
  BY <1>12, FS_RemoveElement DEF Release
<1>13. CASE UNCHANGED vars
  BY <1>13 DEF vars
<1> QED BY <1>1, <1>2, <1>3, <1>4, <1>5, <1>6, <1>7, <1>8, <1>9, <1>10, <1>11, <1>12, <1>13
        DEF Next, Handler

(* A slot is taken or given back by exactly one holder.                    *)
LEMMA ConservedStep ==
    ASSUME Shape, Conserved, [Next]_vars
    PROVE  Conserved'
<1> SUFFICES ASSUME NEW s \in Generations
             PROVE  slots'[s] + Cardinality(Holders(s)') = MaxConcurrent
  BY DEF Conserved
<1>1. /\ IsFiniteSet(Holders(s))
      /\ slots[s] \in Nat
      /\ slots[s] + Cardinality(Holders(s)) = MaxConcurrent
      /\ Cardinality(Holders(s)) \in Nat
  <2>1. IsFiniteSet(Holders(s))
    BY FS_Subset DEF Shape, Typed, Holders
  <2> QED BY <2>1, FS_CardinalityType DEF Conserved, Shape, Typed
<1>2. CASE UNCHANGED <<slots, holding, semaphore>>
  BY <1>1, <1>2 DEF Holders
<1>3. ASSUME NEW g \in Generations, LookUp(g)
      PROVE  slots'[s] + Cardinality(Holders(s)') = MaxConcurrent
  <2>1. g \notin holding
    BY <1>3 DEF LookUp, Running, Shape, HoldersInside, Inside
  <2>2. Holders(s)' = Holders(s) /\ slots' = slots
    BY <1>3, <2>1 DEF LookUp, Holders, Shape, Typed
  <2> QED BY <1>1, <2>2
<1>4. ASSUME NEW g \in Generations, EnforceGenerationLimit(g)
      PROVE  slots'[s] + Cardinality(Holders(s)') = MaxConcurrent
  <2>1. g \notin holding
    BY <1>4 DEF EnforceGenerationLimit, Running, Shape, HoldersInside, Inside
  <2>2. CASE UNCHANGED <<slots, holding>>
    BY <1>1, <1>4, <2>2 DEF EnforceGenerationLimit, Holders
  <2>3. CASE /\ slots' = [slots EXCEPT ![semaphore[g]] = @ - 1]
             /\ holding' = holding \cup {g}
    <3>1. semaphore' = semaphore /\ g \notin Holders(s)
      BY <1>4, <2>1 DEF EnforceGenerationLimit, Holders
    <3>2. CASE semaphore[g] = s
      <4>1. Holders(s)' = Holders(s) \cup {g}
        BY <2>3, <3>1, <3>2 DEF Holders
      <4>2. slots'[s] = slots[s] - 1
        BY <2>3, <3>2 DEF Shape, Typed
      <4>3. Cardinality(Holders(s)') = Cardinality(Holders(s)) + 1
        BY <1>1, <3>1, <4>1, FS_AddElement
      <4> QED BY <1>1, <4>2, <4>3
    <3>3. CASE semaphore[g] # s
      <4>1. Holders(s)' = Holders(s)
        BY <2>3, <3>1, <3>3 DEF Holders
      <4>2. slots'[s] = slots[s]
        BY <2>3, <3>3 DEF Shape, Typed
      <4> QED BY <1>1, <4>1, <4>2
    <3> QED BY <3>2, <3>3
  <2> QED BY <1>4, <2>2, <2>3 DEF EnforceGenerationLimit
<1>5. ASSUME NEW g \in Generations, Release(g)
      PROVE  slots'[s] + Cardinality(Holders(s)') = MaxConcurrent
  <2>1. g \in holding /\ semaphore' = semaphore
    BY <1>5 DEF Release, Shape, AnswersLast, Typed, HoldersInside
  <2>2. CASE semaphore[g] = s
    <3>1. g \in Holders(s) /\ Holders(s)' = Holders(s) \ {g}
      BY <1>5, <2>1, <2>2 DEF Release, Holders
    <3>2. slots'[s] = slots[s] + 1
      BY <1>5, <2>2 DEF Release, Shape, Typed
    <3>3. Cardinality(Holders(s)') = Cardinality(Holders(s)) - 1
      BY <1>1, <3>1, FS_RemoveElement
    <3> QED BY <1>1, <3>2, <3>3
  <2>3. CASE semaphore[g] # s
    <3>1. Holders(s)' = Holders(s)
      BY <1>5, <2>1, <2>3 DEF Release, Holders
    <3>2. slots'[s] = slots[s]
      BY <1>5, <2>3 DEF Release, Shape, Typed
    <3> QED BY <1>1, <3>1, <3>2
  <2> QED BY <2>2, <2>3
<1>6. \/ UNCHANGED <<slots, holding, semaphore>>
      \/ \E g \in Generations : LookUp(g) \/ EnforceGenerationLimit(g) \/ Release(g)
  BY DEF Next, vars, limits, Handler, Arrive, Read, EnforceRateLimit, RequireApiKey,
         Build, ValidateModel, ClaudeAnswers, Persist, EnqueueJobs
<1> QED BY <1>2, <1>3, <1>4, <1>5, <1>6

-----------------------------------------------------------------------------
(* The theorems.                                                           *)

(* The invariant holds in every reachable state.                           *)
THEOREM InvHolds == Spec => []Inv
<1>1. Inv /\ [Next]_vars => Inv'
  BY ShapeStep, ConservedStep DEF Inv, Shape
<1> QED BY InitInv, <1>1, PTL DEF Spec

(* No slot is lost or given out twice (enforce_generation_limit, main.py), *)
(* whatever raises between acquire and release.                            *)
THEOREM SlotsAreConserved == Spec => []SlotsConserved
<1>1. Inv => SlotsConserved
  BY DEF Inv, Conserved, Holders, SlotsConserved, HoldersInside, Inside
<1> QED BY InvHolds, <1>1, PTL

(* GENERATE_MAX_CONCURRENCY bounds the generations under the semaphore that*)
(* is cached; any other one belongs to the generation that built it.       *)
THEOREM CapIsKept == Spec => []CapHolds
<1>1. ASSUME Inv
      PROVE  Cardinality(holding \ Private) <= MaxConcurrent
  <2>1. CASE cached = {}
    <3>1. holding \ Private = {}
      BY <2>1 DEF Private
    <3> QED BY <3>1, FS_EmptySet, PoolAssumption
  <2>2. ASSUME NEW s \in Generations, cached = {s}
        PROVE  Cardinality(holding \ Private) <= MaxConcurrent
    <3>1. holding \ Private = Holders(s)
      BY <2>2 DEF Private, Holders
    <3>2. slots[s] + Cardinality(Holders(s)) = MaxConcurrent
      BY <1>1 DEF Inv, Conserved
    <3>3. slots[s] \in Nat
      BY <1>1 DEF Inv, Typed
    <3>4. Cardinality(Holders(s)) \in Nat
      BY <1>1, FS_Subset, FS_CardinalityType DEF Inv, Typed, Holders
    <3>5. Cardinality(Holders(s)) <= MaxConcurrent
      BY <3>2, <3>3, <3>4, PoolAssumption
    <3> QED BY <3>1, <3>5
  <2> QED BY <1>1, <2>1, <2>2 DEF Inv, CachedOrOwn
<1>2. ASSUME Inv
      PROVE  \A g \in Private : semaphore[g] = g
  BY <1>2 DEF Inv, Typed, CachedOrOwn, Private
<1> QED BY InvHolds, <1>1, <1>2, PTL DEF CapHolds

(* Of a request that was refused nothing was stored (the order of checks,  *)
(* Claude and persist_poem in main.generate_poem and GenerationService).   *)
THEOREM RefusalsStoreNothing == Spec => []OnlyAnsweredPersist
<1>1. Inv => OnlyAnsweredPersist
  BY DEF Inv, AnswersLast, OnlyAnsweredPersist
<1> QED BY InvHolds, <1>1, PTL
=============================================================================
