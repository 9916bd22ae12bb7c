-------------------------- MODULE JobPipelineProofs --------------------------
(***************************************************************************)
(* The theorems about JobPipeline, for all poems, types, retry limits and  *)
(* numbers of faults, in five parts. What the rows of PostgreSQL say and   *)
(* the workers remember of them: a job and its asset never disagree, a done*)
(* asset is final, and the pipeline implements AssetLifecycle. At-least-   *)
(* once delivery: no id of an open job is lost as long as Redis keeps its  *)
(* data. The files: none of a done asset is lost unless somebody deletes   *)
(* its poem. The verdicts: as long as the counters can be read, a verdict  *)
(* is what the counter says. The render budget: a job is rendered no more  *)
(* often than its attempts and the faults account for.                     *)
(***************************************************************************)
EXTENDS JobPipeline, SequenceTheorems, FiniteSetTheorems, TLAPS

-----------------------------------------------------------------------------
(* What the commands on a Redis list do to its contents: RPUSH is Append,  *)
(* LPUSH (the second half of LMOVE ... LEFT LEFT) is Cons, LPOP is Head and*)
(* Tail, LREM with count 1 is RemoveAt.                                    *)

(* RPUSH adds its argument and nothing else.                               *)
LEMMA ContainsAppend ==
    ASSUME NEW S, NEW s \in Seq(S), NEW x \in S
    PROVE  /\ Append(s, x) \in Seq(S)
           /\ \A e : Contains(Append(s, x), e) <=> Contains(s, e) \/ e = x
  BY DEF Contains

(* LPUSH adds its argument and nothing else.                               *)
LEMMA ContainsCons ==
    ASSUME NEW S, NEW s \in Seq(S), NEW x \in S
    PROVE  /\ Cons(x, s) \in Seq(S)
           /\ \A e : Contains(Cons(x, s), e) <=> Contains(s, e) \/ e = x
<1> DEFINE c == Cons(x, s)
<1>1. /\ <<x>> \in Seq(S)
      /\ Len(<<x>>) = 1
      /\ <<x>>[1] = x
  OBVIOUS
<1>2. /\ c \in Seq(S)
      /\ Len(c) = 1 + Len(s)
      /\ \A i \in 1..(1 + Len(s)) : c[i] = IF i <= 1 THEN <<x>>[i] ELSE s[i - 1]
  BY <1>1, ConcatProperties DEF Cons
<1> HIDE DEF c
<1>3. Len(s) \in Nat
  OBVIOUS
<1>4. c[1] = x /\ \A i \in 1..Len(s) : c[i + 1] = s[i]
  BY <1>1, <1>2, <1>3
<1>5. ASSUME NEW e
      PROVE  Contains(c, e) <=> Contains(s, e) \/ e = x
  <2>1. Contains(c, e) => Contains(s, e) \/ e = x
    <3> SUFFICES ASSUME NEW i \in 1..Len(c), c[i] = e, e # x
                 PROVE  \E k \in 1..Len(s) : s[k] = e
      BY DEF Contains
    <3>1. i - 1 \in 1..Len(s) /\ c[i] = s[i - 1]
      BY <1>2, <1>3, <1>4
    <3> QED BY <3>1
  <2>2. Contains(s, e) => Contains(c, e)
    BY <1>2, <1>3, <1>4 DEF Contains
  <2>3. Contains(c, x)
    BY <1>2, <1>3, <1>4 DEF Contains
  <2> QED BY <2>1, <2>2, <2>3
<1> QED BY <1>2, <1>5 DEF c

(* LPOP takes the head and keeps the rest.                                 *)
LEMMA ContainsTail ==
    ASSUME NEW S, NEW s \in Seq(S), s # <<>>
    PROVE  /\ Tail(s) \in Seq(S)
           /\ Head(s) \in S
           /\ \A e : Contains(s, e) <=> Contains(Tail(s), e) \/ e = Head(s)
  BY DEF Contains

(* What is left in which place when one element is taken out.              *)
LEMMA RemoveAtElements ==
    ASSUME NEW S, NEW s \in Seq(S), NEW n \in 1..Len(s)
    PROVE  /\ RemoveAt(s, n) \in Seq(S)
           /\ Len(RemoveAt(s, n)) = Len(s) - 1
           /\ \A i \in 1..(Len(s) - 1) : RemoveAt(s, n)[i] = IF i < n THEN s[i] ELSE s[i + 1]
<1> DEFINE a == SubSeq(s, 1, n - 1)
           b == SubSeq(s, n + 1, Len(s))
           r == RemoveAt(s, n)
<1>1. r = a \o b
  BY DEF RemoveAt
<1>2. n \in Int /\ Len(s) \in Nat /\ 1 <= n /\ n <= Len(s) /\ \A i \in 1..Len(s) : s[i] \in S
  OBVIOUS
<1>3. /\ a \in Seq(S)
      /\ Len(a) = n - 1
      /\ \A i \in 1..(n - 1) : a[i] = s[i]
  <2>1. /\ a \in Seq(S)
        /\ Len(a) = IF 1 <= n - 1 THEN n - 1 - 1 + 1 ELSE 0
        /\ \A i \in 1..(n - 1 - 1 + 1) : a[i] = s[1 + i - 1]
    BY <1>2, SubSeqProperties
  <2> QED BY <1>2, <2>1
<1>4. /\ b \in Seq(S)
      /\ Len(b) = Len(s) - n
      /\ \A i \in 1..(Len(s) - n) : b[i] = s[n + i]
  <2>1. /\ b \in Seq(S)
        /\ Len(b) = IF n + 1 <= Len(s) THEN Len(s) - (n + 1) + 1 ELSE 0
        /\ \A i \in 1..(Len(s) - (n + 1) + 1) : b[i] = s[n + 1 + i - 1]
    BY <1>2, SubSeqProperties
  <2> QED BY <1>2, <2>1
<1> HIDE DEF a, b, r
<1>5. /\ r \in Seq(S)
      /\ Len(r) = Len(s) - 1
      /\ \A i \in 1..(Len(s) - 1) : r[i] = IF i <= n - 1 THEN a[i] ELSE b[i - (n - 1)]
  <2>1. /\ a \o b \in Seq(S)
        /\ Len(a \o b) = Len(a) + Len(b)
        /\ \A i \in 1..(Len(a) + Len(b)) :
              (a \o b)[i] = IF i <= Len(a) THEN a[i] ELSE b[i - Len(a)]
    BY <1>3, <1>4, ConcatProperties
  <2> QED BY <1>1, <1>2, <1>3, <1>4, <2>1
<1>6. \A i \in 1..(Len(s) - 1) : r[i] = IF i < n THEN s[i] ELSE s[i + 1]
  <2> TAKE i \in 1..(Len(s) - 1)
  <2>1. CASE i < n
    <3>1. i \in 1..(n - 1) /\ i <= n - 1
      BY <1>2, <2>1
    <3> QED BY <1>3, <1>5, <2>1, <3>1
  <2>2. CASE n <= i
    <3>1. i - (n - 1) \in 1..(Len(s) - n) /\ n + (i - (n - 1)) = i + 1
      BY <1>2, <2>2
    <3> QED BY <1>2, <1>4, <1>5, <2>2, <3>1
  <2> QED BY <1>2, <2>1, <2>2
<1> QED BY <1>5, <1>6 DEF r

(* LREM key 1 x takes one element out and leaves the others.               *)
LEMMA ContainsRemoveAt ==
    ASSUME NEW S, NEW s \in Seq(S), NEW n \in 1..Len(s)
    PROVE  /\ RemoveAt(s, n) \in Seq(S)
           /\ \A e : Contains(RemoveAt(s, n), e) => Contains(s, e)
           /\ \A e : e # s[n] /\ Contains(s, e) => Contains(RemoveAt(s, n), e)
<1> DEFINE r == RemoveAt(s, n)
<1>1. n \in Int /\ Len(s) \in Nat /\ 1 <= n /\ n <= Len(s)
  OBVIOUS
<1>2. /\ r \in Seq(S) /\ Len(r) = Len(s) - 1
      /\ \A i \in 1..(Len(s) - 1) : r[i] = IF i < n THEN s[i] ELSE s[i + 1]
  BY RemoveAtElements
<1> HIDE DEF r
<1>3. \A e : Contains(r, e) => Contains(s, e)
  BY <1>1, <1>2 DEF Contains
<1>4. ASSUME NEW e, e # s[n], Contains(s, e)
      PROVE  Contains(r, e)
  <2>1. PICK i \in 1..Len(s) : s[i] = e
    BY <1>4 DEF Contains
  <2>2. i # n
    BY <1>4, <2>1
  <2>3. CASE i < n
    BY <1>1, <1>2, <2>1, <2>3 DEF Contains
  <2>4. CASE i > n
    <3>1. i - 1 \in 1..Len(r) /\ r[i - 1] = s[i]
      BY <1>1, <1>2, <2>1, <2>4
    <3> QED BY <2>1, <3>1 DEF Contains
  <2> QED BY <1>1, <2>1, <2>2, <2>3, <2>4
<1> QED BY <1>2, <1>3, <1>4 DEF r

(* ToSet lists the members.                                                *)
LEMMA ToSetContains ==
    ASSUME NEW S, NEW s \in Seq(S)
    PROVE  /\ ToSet(s) \subseteq S
           /\ \A e : e \in ToSet(s) <=> Contains(s, e)
  BY DEF ToSet, Contains

-----------------------------------------------------------------------------
(* How many copies of an element a list has.                               *)

One(b) == IF b THEN 1 ELSE 0
Places(s, e) == {i \in 1..Len(s) : s[i] = e}
Copies(s, e) == Cardinality(Places(s, e))

(* A number, and zero exactly for what the list does not have.             *)
LEMMA CopiesType ==
    ASSUME NEW S, NEW s \in Seq(S), NEW e
    PROVE  /\ IsFiniteSet(Places(s, e))
           /\ Copies(s, e) \in Nat
           /\ Contains(s, e) <=> Copies(s, e) > 0
<1>1. IsFiniteSet(1..Len(s))
  <2>1. Len(s) \in Int
    OBVIOUS
  <2> QED BY <2>1, FS_Interval
<1>2. IsFiniteSet(Places(s, e))
  BY <1>1, FS_Subset DEF Places
<1>3. Copies(s, e) \in Nat /\ (Copies(s, e) = 0 <=> Places(s, e) = {})
  BY <1>2, FS_CardinalityType, FS_EmptySet DEF Copies
<1>4. Contains(s, e) <=> Places(s, e) # {}
  BY DEF Contains, Places
<1> QED BY <1>2, <1>3, <1>4

(* Places renumbered one to one are as many.                               *)
LEMMA Renumbered ==
    ASSUME NEW P, NEW Q, NEW f \in [P -> Q], IsFiniteSet(P),
           \A i, k \in P : f[i] = f[k] => i = k,
           \A m \in Q : \E i \in P : f[i] = m
    PROVE  Cardinality(Q) = Cardinality(P)
<1>1. f \in Bijection(P, Q)
  BY DEF Bijection, Injection, IsInjective, Surjection
<1>2. ExistsBijection(P, Q)
  BY <1>1 DEF ExistsBijection
<1> QED BY <1>2, FS_Bijection

(* RPUSH adds one copy.                                                    *)
LEMMA CopiesAppend ==
    ASSUME NEW S, NEW s \in Seq(S), NEW x \in S, NEW e
    PROVE  Copies(Append(s, x), e) = Copies(s, e) + One(x = e)
<1>1. PICK n \in Nat : n = Len(s)
  OBVIOUS
<1>2. /\ Len(Append(s, x)) = n + 1 /\ Append(s, x)[n + 1] = x
      /\ \A i \in 1..n : Append(s, x)[i] = s[i]
  BY <1>1
<1>3. IsFiniteSet(Places(s, e)) /\ Copies(s, e) \in Nat
  BY CopiesType
<1>4. n + 1 \notin Places(s, e)
  BY <1>1 DEF Places
<1>5. 1..(n + 1) = (1..n) \cup {n + 1}
  OBVIOUS
<1>6. CASE x = e
  <2>1. Places(Append(s, x), e) = Places(s, e) \cup {n + 1}
    BY <1>1, <1>2, <1>5, <1>6 DEF Places
  <2> QED BY <1>3, <1>4, <1>6, <2>1, FS_AddElement DEF Copies, One
<1>7. CASE x # e
  <2>1. Places(Append(s, x), e) = Places(s, e)
    BY <1>1, <1>2, <1>5, <1>7 DEF Places
  <2> QED BY <1>3, <1>7, <2>1 DEF Copies, One
<1> QED BY <1>6, <1>7

(* LREM takes one copy away.                                               *)
LEMMA CopiesRemoveAt ==
    ASSUME NEW S, NEW s \in Seq(S), NEW n \in 1..Len(s), NEW e
    PROVE  Copies(s, e) = Copies(RemoveAt(s, n), e) + One(s[n] = e)
<1>1. PICK l \in Nat : l = Len(s)
  OBVIOUS
<1>2. PICK r : r = RemoveAt(s, n)
  OBVIOUS
<1>3. /\ Len(r) = l - 1 /\ n \in 1..l
      /\ \A i \in 1..(l - 1) : r[i] = IF i < n THEN s[i] ELSE s[i + 1]
  BY <1>1, <1>2, RemoveAtElements
<1>4. IsFiniteSet(Places(s, e)) /\ Copies(s, e) \in Nat
  BY CopiesType
<1> DEFINE P == Places(s, e) \ {n}
           f == [i \in P |-> IF i < n THEN i ELSE i - 1]
<1>5. IsFiniteSet(P) /\ Cardinality(P) = Copies(s, e) - One(s[n] = e)
  <2>1. n \in Places(s, e) <=> s[n] = e
    BY <1>1, <1>3 DEF Places
  <2> QED BY <1>4, <2>1, FS_RemoveElement DEF Copies, One
<1>6. \A i \in P : i \in 1..l /\ i # n /\ s[i] = e
  BY <1>1 DEF Places
<1>7. f \in [P -> Places(r, e)]
  <2> SUFFICES ASSUME NEW i \in P
               PROVE  (IF i < n THEN i ELSE i - 1) \in Places(r, e)
    OBVIOUS
  <2>1. CASE i < n
    <3>1. i \in 1..(l - 1)
      BY <1>3, <1>6, <2>1
    <3> QED BY <1>3, <1>6, <2>1, <3>1 DEF Places
  <2>2. CASE ~(i < n)
    <3>1. i - 1 \in 1..(l - 1) /\ ~(i - 1 < n) /\ (i - 1) + 1 = i
      BY <1>3, <1>6, <2>2
    <3> QED BY <1>3, <1>6, <2>2, <3>1 DEF Places
  <2> QED BY <2>1, <2>2
<1>8. \A i, k \in P : f[i] = f[k] => i = k
  BY <1>3, <1>6
<1>9. ASSUME NEW m \in Places(r, e) PROVE \E i \in P : f[i] = m
  <2>1. m \in 1..(l - 1) /\ r[m] = e
    BY <1>3 DEF Places
  <2>2. CASE m < n
    <3>1. m \in P
      BY <1>1, <1>3, <2>1, <2>2 DEF Places
    <3> QED BY <2>2, <3>1
  <2>3. CASE ~(m < n)
    <3>1. m + 1 \in P /\ ~(m + 1 < n) /\ (m + 1) - 1 = m
      BY <1>1, <1>3, <2>1, <2>3 DEF Places
    <3> QED BY <3>1
  <2> QED BY <2>2, <2>3
<1> HIDE DEF P, f
<1>10. Cardinality(Places(r, e)) = Cardinality(P)
  BY <1>5, <1>7, <1>8, <1>9, Renumbered
<1> QED BY <1>2, <1>4, <1>5, <1>10 DEF Copies, One

(* LPOP takes the copy at the head away, LPUSH adds one there.             *)
LEMMA CopiesTail ==
    ASSUME NEW S, NEW s \in Seq(S), s # <<>>, NEW e
    PROVE  Copies(s, e) = Copies(Tail(s), e) + One(Head(s) = e)
<1>1. PICK l \in Nat : l = Len(s) /\ l # 0
  OBVIOUS
<1>2. /\ Len(Tail(s)) = l - 1 /\ Head(s) = s[1]
      /\ \A i \in 1..(l - 1) : Tail(s)[i] = s[i + 1]
  BY <1>1
<1>3. IsFiniteSet(Places(s, e)) /\ Copies(s, e) \in Nat
  BY CopiesType
<1> DEFINE P == Places(s, e) \ {1}
           f == [i \in P |-> i - 1]
<1>4. IsFiniteSet(P) /\ Cardinality(P) = Copies(s, e) - One(Head(s) = e)
  <2>1. 1 \in Places(s, e) <=> Head(s) = e
    BY <1>1, <1>2 DEF Places
  <2> QED BY <1>3, <2>1, FS_RemoveElement DEF Copies, One
<1>5. \A i \in P : i \in 1..l /\ i # 1 /\ s[i] = e
  BY <1>1 DEF Places
<1>6. f \in [P -> Places(Tail(s), e)]
  <2> SUFFICES ASSUME NEW i \in P PROVE i - 1 \in Places(Tail(s), e)
    OBVIOUS
  <2>1. i - 1 \in 1..(l - 1) /\ (i - 1) + 1 = i
    BY <1>1, <1>5
  <2> QED BY <1>2, <1>5, <2>1 DEF Places
<1>7. \A i, k \in P : f[i] = f[k] => i = k
  BY <1>5
<1>8. ASSUME NEW m \in Places(Tail(s), e) PROVE \E i \in P : f[i] = m
  <2>1. m \in 1..(l - 1) /\ Tail(s)[m] = e
    BY <1>2 DEF Places
  <2>2. m + 1 \in P /\ (m + 1) - 1 = m
    BY <1>1, <1>2, <2>1 DEF Places
  <2> QED BY <2>2
<1> HIDE DEF P, f
<1>9. Cardinality(Places(Tail(s), e)) = Cardinality(P)
  BY <1>4, <1>6, <1>7, <1>8, Renumbered
<1> QED BY <1>3, <1>4, <1>9 DEF Copies, One

(* LPUSH adds one copy.                                                    *)
LEMMA CopiesCons ==
    ASSUME NEW S, NEW s \in Seq(S), NEW x \in S, NEW e
    PROVE  Copies(Cons(x, s), e) = Copies(s, e) + One(x = e)
<1>1. PICK c : c = Cons(x, s)
  OBVIOUS
<1>2. /\ <<x>> \in Seq(S) /\ s \in Seq(S)
      /\ Len(<<x>>) = 1 /\ <<x>>[1] = x /\ Len(s) \in Nat
  OBVIOUS
<1>3. /\ c \in Seq(S) /\ Len(c) = 1 + Len(s)
      /\ \A i \in 1..(1 + Len(s)) : c[i] = IF i <= 1 THEN <<x>>[i] ELSE s[i - 1]
  BY <1>1, <1>2, ConcatProperties DEF Cons
<1>4. c # <<>> /\ Head(c) = x
  <2>1. 1 \in 1..(1 + Len(s)) /\ Len(c) # 0
    BY <1>2, <1>3
  <2> QED BY <1>2, <1>3, <2>1
<1>5. Tail(c) \in Seq(S) /\ Len(Tail(c)) = Len(s)
  BY <1>2, <1>3, <1>4
<1>6. \A i \in 1..Len(s) : Tail(c)[i] = s[i]
  <2> SUFFICES ASSUME NEW i \in 1..Len(s) PROVE Tail(c)[i] = s[i]
    OBVIOUS
  <2>1. Tail(c)[i] = c[i + 1]
    BY <1>2, <1>3, <1>4, <1>5
  <2>2. i + 1 \in 1..(1 + Len(s)) /\ ~(i + 1 <= 1) /\ (i + 1) - 1 = i
    BY <1>2
  <2> QED BY <1>3, <2>1, <2>2
<1>7. Tail(c) = s
  BY <1>2, <1>5, <1>6, SeqEqual
<1>8. Copies(c, e) = Copies(Tail(c), e) + One(Head(c) = e)
  BY <1>3, <1>4, CopiesTail
<1> QED BY <1>1, <1>4, <1>7, <1>8

-----------------------------------------------------------------------------
(* Which actions change which part of the state: the proofs about a part   *)
(* go through the actions listed for it and no others.                     *)

(* Who changes the requests.                                               *)
LEMMA RequestsChangedBy ==
    ASSUME Next
    PROVE  \/ UNCHANGED <<request, owed>>
           \/ \E p \in Poems : (\E S \in SUBSET Types : PersistPoem(p, S)) \/
                 RefreshPoem(p) \/ Enqueue(p) \/ RequestFails(p)
<1> USE DEF Goto, Restart, Escape, apiVars, dbVars, redisVars, workerVars
<1>1. ASSUME NEW p \in Poems, Api(p)
      PROVE  UNCHANGED <<request, owed>> \/ (\E S \in SUBSET Types :
             PersistPoem(p, S)) \/ RefreshPoem(p) \/ Enqueue(p) \/
             RequestFails(p)
  BY <1>1 DEF Api, EnqueueReplyLost, DeleteFiles, DeleteRows, DeleteFails
<1>2. ASSUME NEW t \in Types, Worker(t)
      PROVE  UNCHANGED <<request, owed>>
  BY <1>2 DEF Worker, Boot, Reap, ReapEnds, ScanQueue, ScanProcessing, Select,
     Push, PushEnds, Pop, PopTimesOut, Skip, Load, LoadAsset, Start,
     StartUnwritten, StaleWrite, WriteFile, RenderSucceeds, RenderFails,
     RenderUnsupported, CountFailure, Commit, Requeue, Ack, Continue, Maintain
<1>3. ASSUME NEW t \in Types, WorkerFault(t)
      PROVE  UNCHANGED <<request, owed>>
  BY <1>3 DEF WorkerFault, WorkerCrashes, RedisFails, ReplyLost, DatabaseFails
<1>4. RedisLosesData => UNCHANGED <<request, owed>>
  BY DEF RedisLosesData
<1>5. ASSUME NEW j \in Jobs, RetryExpires(j)
      PROVE  UNCHANGED <<request, owed>>
  BY <1>5 DEF RetryExpires
<1> QED BY <1>1, <1>2, <1>3, <1>4, <1>5 DEF Next

(* Who changes the deletions.                                              *)
LEMMA DeletionsChangedBy ==
    ASSUME Next
    PROVE  \/ UNCHANGED <<deletion>>
           \/ \E p \in Poems : DeleteFiles(p) \/ DeleteRows(p) \/ DeleteFails(p)
<1> USE DEF Goto, Restart, Escape, apiVars, dbVars, redisVars, workerVars
<1>1. ASSUME NEW p \in Poems, Api(p)
      PROVE  UNCHANGED <<deletion>> \/ DeleteFiles(p) \/ DeleteRows(p) \/
             DeleteFails(p)
  BY <1>1 DEF Api, PersistPoem, RefreshPoem, Enqueue, EnqueueReplyLost,
     RequestFails
<1>2. ASSUME NEW t \in Types, Worker(t)
      PROVE  UNCHANGED <<deletion>>
  BY <1>2 DEF Worker, Boot, Reap, ReapEnds, ScanQueue, ScanProcessing, Select,
     Push, PushEnds, Pop, PopTimesOut, Skip, Load, LoadAsset, Start,
     StartUnwritten, StaleWrite, WriteFile, RenderSucceeds, RenderFails,
     RenderUnsupported, CountFailure, Commit, Requeue, Ack, Continue, Maintain
<1>3. ASSUME NEW t \in Types, WorkerFault(t)
      PROVE  UNCHANGED <<deletion>>
  BY <1>3 DEF WorkerFault, WorkerCrashes, RedisFails, ReplyLost, DatabaseFails
<1>4. RedisLosesData => UNCHANGED <<deletion>>
  BY DEF RedisLosesData
<1>5. ASSUME NEW j \in Jobs, RetryExpires(j)
      PROVE  UNCHANGED <<deletion>>
  BY <1>5 DEF RetryExpires
<1> QED BY <1>1, <1>2, <1>3, <1>4, <1>5 DEF Next

(* Who changes the rows.                                                   *)
LEMMA RowsChangedBy ==
    ASSUME Next
    PROVE  \/ UNCHANGED <<job, asset, path>>
           \/ \E p \in Poems : (\E S \in SUBSET Types : PersistPoem(p, S)) \/
                 DeleteRows(p)
           \/ \E t \in Types : LoadAsset(t) \/ Start(t) \/ Commit(t) \/
                 DatabaseFails(t)
<1> USE DEF Goto, Restart, Escape, apiVars, dbVars, redisVars, workerVars
<1>1. ASSUME NEW p \in Poems, Api(p)
      PROVE  UNCHANGED <<job, asset, path>> \/ (\E S \in SUBSET Types :
             PersistPoem(p, S)) \/ DeleteRows(p)
  BY <1>1 DEF Api, RefreshPoem, Enqueue, EnqueueReplyLost, RequestFails,
     DeleteFiles, DeleteFails
<1>2. ASSUME NEW t \in Types, Worker(t)
      PROVE  UNCHANGED <<job, asset, path>> \/ LoadAsset(t) \/ Start(t) \/
             Commit(t)
  BY <1>2 DEF Worker, Boot, Reap, ReapEnds, ScanQueue, ScanProcessing, Select,
     Push, PushEnds, Pop, PopTimesOut, Skip, Load, StartUnwritten, StaleWrite,
     WriteFile, RenderSucceeds, RenderFails, RenderUnsupported, CountFailure,
     Requeue, Ack, Continue, Maintain
<1>3. ASSUME NEW t \in Types, WorkerFault(t)
      PROVE  UNCHANGED <<job, asset, path>> \/ DatabaseFails(t)
  BY <1>3 DEF WorkerFault, WorkerCrashes, RedisFails, ReplyLost
<1>4. RedisLosesData => UNCHANGED <<job, asset, path>>
  BY DEF RedisLosesData
<1>5. ASSUME NEW j \in Jobs, RetryExpires(j)
      PROVE  UNCHANGED <<job, asset, path>>
  BY <1>5 DEF RetryExpires
<1> QED BY <1>1, <1>2, <1>3, <1>4, <1>5 DEF Next

(* Who changes the data volume.                                            *)
LEMMA FilesChangedBy ==
    ASSUME Next
    PROVE  \/ UNCHANGED <<files>>
           \/ \E p \in Poems : DeleteFiles(p)
           \/ \E t \in Types : WriteFile(t)
<1> USE DEF Goto, Restart, Escape, apiVars, dbVars, redisVars, workerVars
<1>1. ASSUME NEW p \in Poems, Api(p)
      PROVE  UNCHANGED <<files>> \/ DeleteFiles(p)
  BY <1>1 DEF Api, PersistPoem, RefreshPoem, Enqueue, EnqueueReplyLost,
     RequestFails, DeleteRows, DeleteFails
<1>2. ASSUME NEW t \in Types, Worker(t)
      PROVE  UNCHANGED <<files>> \/ WriteFile(t)
  BY <1>2 DEF Worker, Boot, Reap, ReapEnds, ScanQueue, ScanProcessing, Select,
     Push, PushEnds, Pop, PopTimesOut, Skip, Load, LoadAsset, Start,
     StartUnwritten, StaleWrite, RenderSucceeds, RenderFails, RenderUnsupported,
     CountFailure, Commit, Requeue, Ack, Continue, Maintain
<1>3. ASSUME NEW t \in Types, WorkerFault(t)
      PROVE  UNCHANGED <<files>>
  BY <1>3 DEF WorkerFault, WorkerCrashes, RedisFails, ReplyLost, DatabaseFails
<1>4. RedisLosesData => UNCHANGED <<files>>
  BY DEF RedisLosesData
<1>5. ASSUME NEW j \in Jobs, RetryExpires(j)
      PROVE  UNCHANGED <<files>>
  BY <1>5 DEF RetryExpires
<1> QED BY <1>1, <1>2, <1>3, <1>4, <1>5 DEF Next

(* Who changes the Redis lists.                                            *)
LEMMA ListsChangedBy ==
    ASSUME Next
    PROVE  \/ UNCHANGED <<queue, processing>>
           \/ \E p \in Poems : Enqueue(p) \/ EnqueueReplyLost(p)
           \/ \E t \in Types : Reap(t) \/ Push(t) \/ Pop(t) \/ Requeue(t) \/
                 Ack(t) \/ ReplyLost(t)
           \/ RedisLosesData
<1> USE DEF Goto, Restart, Escape, apiVars, dbVars, redisVars, workerVars
<1>1. ASSUME NEW p \in Poems, Api(p)
      PROVE  UNCHANGED <<queue, processing>> \/ Enqueue(p) \/
             EnqueueReplyLost(p)
  BY <1>1 DEF Api, PersistPoem, RefreshPoem, RequestFails, DeleteFiles,
     DeleteRows, DeleteFails
<1>2. ASSUME NEW t \in Types, Worker(t)
      PROVE  UNCHANGED <<queue, processing>> \/ Reap(t) \/ Push(t) \/ Pop(t) \/
             Requeue(t) \/ Ack(t)
  BY <1>2 DEF Worker, Boot, ReapEnds, ScanQueue, ScanProcessing, Select,
     PushEnds, PopTimesOut, Skip, Load, LoadAsset, Start, StartUnwritten,
     StaleWrite, WriteFile, RenderSucceeds, RenderFails, RenderUnsupported,
     CountFailure, Commit, Continue, Maintain
<1>3. ASSUME NEW t \in Types, WorkerFault(t)
      PROVE  UNCHANGED <<queue, processing>> \/ ReplyLost(t)
  BY <1>3 DEF WorkerFault, WorkerCrashes, RedisFails, DatabaseFails
<1>5. ASSUME NEW j \in Jobs, RetryExpires(j)
      PROVE  UNCHANGED <<queue, processing>>
  BY <1>5 DEF RetryExpires
<1> QED BY <1>1, <1>2, <1>3, <1>5 DEF Next

(* Who changes what a worker does and holds.                               *)
LEMMA ProgramsChangedBy ==
    ASSUME Next
    PROVE  \/ UNCHANGED <<pc, cur, mem>>
           \/ \E t \in Types : Boot(t) \/ ReapEnds(t) \/ ScanQueue(t) \/
                 ScanProcessing(t) \/ Select(t) \/ PushEnds(t) \/ Pop(t) \/
                 PopTimesOut(t) \/ Skip(t) \/ Load(t) \/ LoadAsset(t) \/
                 Start(t) \/ StartUnwritten(t) \/ StaleWrite(t) \/ WriteFile(t)
                 \/ RenderSucceeds(t) \/ RenderFails(t) \/ RenderUnsupported(t)
                 \/ CountFailure(t) \/ Commit(t) \/ Requeue(t) \/ Ack(t) \/
                 Continue(t) \/ Maintain(t) \/ WorkerCrashes(t) \/ RedisFails(t)
                 \/ DatabaseFails(t)
<1> USE DEF Goto, Restart, Escape, apiVars, dbVars, redisVars, workerVars
<1>1. ASSUME NEW p \in Poems, Api(p)
      PROVE  UNCHANGED <<pc, cur, mem>>
  BY <1>1 DEF Api, PersistPoem, RefreshPoem, Enqueue, EnqueueReplyLost,
     RequestFails, DeleteFiles, DeleteRows, DeleteFails
<1>2. ASSUME NEW t \in Types, Worker(t)
      PROVE  UNCHANGED <<pc, cur, mem>> \/ Boot(t) \/ ReapEnds(t) \/
             ScanQueue(t) \/ ScanProcessing(t) \/ Select(t) \/ PushEnds(t) \/
             Pop(t) \/ PopTimesOut(t) \/ Skip(t) \/ Load(t) \/ LoadAsset(t) \/
             Start(t) \/ StartUnwritten(t) \/ StaleWrite(t) \/ WriteFile(t) \/
             RenderSucceeds(t) \/ RenderFails(t) \/ RenderUnsupported(t) \/
             CountFailure(t) \/ Commit(t) \/ Requeue(t) \/ Ack(t) \/ Continue(t)
             \/ Maintain(t)
  BY <1>2 DEF Worker, Reap, Push
<1>3. ASSUME NEW t \in Types, WorkerFault(t)
      PROVE  UNCHANGED <<pc, cur, mem>> \/ WorkerCrashes(t) \/ RedisFails(t) \/
             DatabaseFails(t)
  BY <1>3 DEF WorkerFault, ReplyLost
<1>4. RedisLosesData => UNCHANGED <<pc, cur, mem>>
  BY DEF RedisLosesData
<1>5. ASSUME NEW j \in Jobs, RetryExpires(j)
      PROVE  UNCHANGED <<pc, cur, mem>>
  BY <1>5 DEF RetryExpires
<1> QED BY <1>1, <1>2, <1>3, <1>4, <1>5 DEF Next

(* Who changes a reconciler's memory.                                      *)
LEMMA ScansChangedBy ==
    ASSUME Next
    PROVE  \/ UNCHANGED <<scan, boot>>
           \/ \E t \in Types : ScanQueue(t) \/ ScanProcessing(t) \/ Select(t) \/
                 Push(t) \/ PushEnds(t) \/ StaleWrite(t) \/ Ack(t) \/
                 WorkerCrashes(t) \/ RedisFails(t) \/ DatabaseFails(t)
<1> USE DEF Goto, Restart, Escape, apiVars, dbVars, redisVars, workerVars
<1>1. ASSUME NEW p \in Poems, Api(p)
      PROVE  UNCHANGED <<scan, boot>>
  BY <1>1 DEF Api, PersistPoem, RefreshPoem, Enqueue, EnqueueReplyLost,
     RequestFails, DeleteFiles, DeleteRows, DeleteFails
<1>2. ASSUME NEW t \in Types, Worker(t)
      PROVE  UNCHANGED <<scan, boot>> \/ ScanQueue(t) \/ ScanProcessing(t) \/
             Select(t) \/ Push(t) \/ PushEnds(t) \/ StaleWrite(t) \/ Ack(t)
  BY <1>2 DEF Worker, Boot, Reap, ReapEnds, Pop, PopTimesOut, Skip, Load,
     LoadAsset, Start, StartUnwritten, WriteFile, RenderSucceeds, RenderFails,
     RenderUnsupported, CountFailure, Commit, Requeue, Continue, Maintain
<1>3. ASSUME NEW t \in Types, WorkerFault(t)
      PROVE  UNCHANGED <<scan, boot>> \/ WorkerCrashes(t) \/ RedisFails(t) \/
             DatabaseFails(t)
  BY <1>3 DEF WorkerFault, ReplyLost
<1>4. RedisLosesData => UNCHANGED <<scan, boot>>
  BY DEF RedisLosesData
<1>5. ASSUME NEW j \in Jobs, RetryExpires(j)
      PROVE  UNCHANGED <<scan, boot>>
  BY <1>5 DEF RetryExpires
<1> QED BY <1>1, <1>2, <1>3, <1>4, <1>5 DEF Next

(* Who changes the render count.                                           *)
LEMMA RendersChangedBy ==
    ASSUME Next
    PROVE  \/ UNCHANGED <<renders>>
           \/ \E t \in Types : Start(t) \/ StartUnwritten(t)
<1> USE DEF Goto, Restart, Escape, apiVars, dbVars, redisVars, workerVars
<1>1. ASSUME NEW p \in Poems, Api(p)
      PROVE  UNCHANGED <<renders>>
  BY <1>1 DEF Api, PersistPoem, RefreshPoem, Enqueue, EnqueueReplyLost,
     RequestFails, DeleteFiles, DeleteRows, DeleteFails
<1>2. ASSUME NEW t \in Types, Worker(t)
      PROVE  UNCHANGED <<renders>> \/ Start(t) \/ StartUnwritten(t)
  BY <1>2 DEF Worker, Boot, Reap, ReapEnds, ScanQueue, ScanProcessing, Select,
     Push, PushEnds, Pop, PopTimesOut, Skip, Load, LoadAsset, StaleWrite,
     WriteFile, RenderSucceeds, RenderFails, RenderUnsupported, CountFailure,
     Commit, Requeue, Ack, Continue, Maintain
<1>3. ASSUME NEW t \in Types, WorkerFault(t)
      PROVE  UNCHANGED <<renders>>
  BY <1>3 DEF WorkerFault, WorkerCrashes, RedisFails, ReplyLost, DatabaseFails
<1>4. RedisLosesData => UNCHANGED <<renders>>
  BY DEF RedisLosesData
<1>5. ASSUME NEW j \in Jobs, RetryExpires(j)
      PROVE  UNCHANGED <<renders>>
  BY <1>5 DEF RetryExpires
<1> QED BY <1>1, <1>2, <1>3, <1>4, <1>5 DEF Next

(* Who changes the retry counters.                                         *)
LEMMA RetriesChangedBy ==
    ASSUME Next
    PROVE  \/ UNCHANGED retry
           \/ \E t \in Types : CountFailure(t) \/ ReplyLost(t)
           \/ RedisLosesData
           \/ \E j \in Jobs : RetryExpires(j)
<1> USE DEF Goto, Restart, Escape, apiVars, dbVars, redisVars, workerVars
<1>1. ASSUME NEW p \in Poems, Api(p)
      PROVE  UNCHANGED retry
  BY <1>1 DEF Api, PersistPoem, RefreshPoem, Enqueue, DeleteFiles, DeleteRows,
     EnqueueReplyLost, RequestFails, DeleteFails
<1>2. ASSUME NEW t \in Types, Worker(t)
      PROVE  UNCHANGED retry \/ CountFailure(t)
  BY <1>2 DEF Worker, Boot, Reap, ReapEnds, ScanQueue, ScanProcessing, Select,
     Push, PushEnds, Pop, PopTimesOut, Skip, Load, LoadAsset, Start,
     StartUnwritten, StaleWrite, WriteFile, RenderSucceeds, RenderFails,
     RenderUnsupported, Commit, Requeue, Ack, Continue, Maintain
<1>3. ASSUME NEW t \in Types, WorkerFault(t)
      PROVE  UNCHANGED retry \/ ReplyLost(t)
  BY <1>3 DEF WorkerFault, WorkerCrashes, RedisFails, DatabaseFails
<1> QED BY <1>1, <1>2, <1>3 DEF Next

(* Every step is free of faults or is one fault of a declared kind.        *)
LEMMA FaultsCounted ==
    ASSUME Next
    PROVE  UNCHANGED faults \/ \E kind \in Faults : Fault(kind)
<1>1. ASSUME NEW p \in Poems, Api(p)
      PROVE  UNCHANGED faults \/ Fault("api") \/ Fault("reply") \/ Fault("unlink")
  BY <1>1 DEF Api, PersistPoem, RefreshPoem, Enqueue, DeleteFiles, DeleteRows,
     EnqueueReplyLost, RequestFails, DeleteFails
<1>2. ASSUME NEW t \in Types, Worker(t)
      PROVE  UNCHANGED faults
  BY <1>2 DEF Worker, Boot, Reap, ReapEnds, ScanQueue, ScanProcessing, Select,
     Push, PushEnds, Pop, PopTimesOut, Skip, Load, LoadAsset, Start,
     StartUnwritten, StaleWrite, WriteFile, RenderSucceeds, RenderFails,
     RenderUnsupported, CountFailure, Commit, Requeue, Ack, Continue, Maintain
<1>3. ASSUME NEW t \in Types, WorkerFault(t)
      PROVE  Fault("crash") \/ Fault("redis") \/ Fault("reply") \/ Fault("db")
  BY <1>3 DEF WorkerFault, WorkerCrashes, RedisFails, ReplyLost, DatabaseFails
<1>4. RedisLosesData => Fault("flush")
  BY DEF RedisLosesData
<1>5. ASSUME NEW j \in Jobs, RetryExpires(j)
      PROVE  Fault("expire")
  BY <1>5 DEF RetryExpires
<1> QED BY <1>1, <1>2, <1>3, <1>4, <1>5 DEF Next, Faults

-----------------------------------------------------------------------------
(* Jobs and lists.                                                         *)

(* A job is a pair, and no job stands for "none".                          *)
LEMMA JobFacts ==
    /\ NoJob \notin Jobs
    /\ \A p \in Poems, t \in Types :
          <<p, t>> \in Jobs /\ <<p, t>>[1] = p /\ TypeOf(<<p, t>>) = t
    /\ \A j \in Jobs : j = <<j[1], TypeOf(j)>> /\ j[1] \in Poems /\ TypeOf(j) \in Types
  BY DEF NoJob, Jobs, TypeOf

(* A request in its enqueue loop has a type to enqueue.                    *)
LEMMA FirstOwedInTypes ==
    ASSUME NEW S \in SUBSET Types, S # {}
    PROVE  FirstOwed(S) \in S
  BY TypesAssumption DEF FirstOwed

(* An output is a job and a number.                                        *)
LEMMA FileOfType ==
    ASSUME NEW j \in Jobs, NEW n \in Nat
    PROVE  FileOf(j, n) \in Jobs \X Nat /\ FileOf(j, n)[1] = j
  BY DEF FileOf

(* LREM on a processing list leaves the ids other than the one it names.   *)
LEMMA AcknowledgeList ==
    ASSUME processing \in [Types -> Seq(Jobs)], NEW t \in Types, Acknowledge(t)
    PROVE  /\ processing' \in [Types -> Seq(Jobs)]
           /\ \A u \in Types : u # t => processing'[u] = processing[u]
           /\ \A e : Contains(processing'[t], e) => Contains(processing[t], e)
           /\ \A e : e # cur[t] /\ Contains(processing[t], e) => Contains(processing'[t], e)
<1>1. processing[t] \in Seq(Jobs)
  OBVIOUS
<1>2. CASE UNCHANGED processing
  BY <1>2
<1>3. ASSUME NEW n \in 1..Len(processing[t]),
             processing[t][n] = cur[t],
             processing' = [processing EXCEPT ![t] = RemoveAt(processing[t], n)]
      PROVE  /\ processing' \in [Types -> Seq(Jobs)]
             /\ \A u \in Types : u # t => processing'[u] = processing[u]
             /\ \A e : Contains(processing'[t], e) => Contains(processing[t], e)
             /\ \A e : e # cur[t] /\ Contains(processing[t], e) => Contains(processing'[t], e)
  <2>1. processing'[t] = RemoveAt(processing[t], n)
    BY <1>3
  <2> QED BY <1>1, <1>3, <2>1, ContainsRemoveAt
<1> QED BY <1>2, <1>3 DEF Acknowledge

-----------------------------------------------------------------------------
(* Types.                                                                  *)

HandlesJob == \A t \in Types : pc[t] \in Handling => cur[t] \in Jobs

Typed == TypeOK /\ RequestShape /\ HandlesJob

(* An enqueueing request owes an id, of a type that exists.                *)
LEMMA EnqueueFacts ==
    ASSUME Typed, NEW p \in Poems, request[p] = "enqueue"
    PROVE  /\ owed[p] \in SUBSET Types
           /\ owed[p] # {}
           /\ FirstOwed(owed[p]) \in owed[p]
           /\ FirstOwed(owed[p]) \in Types
           /\ <<p, FirstOwed(owed[p])>> \in Jobs
<1>1. owed[p] \in SUBSET Types
  BY DEF Typed, TypeOK, ApiTypes
<1>2. owed[p] # {}
  <2>1. RequestShape
    BY DEF Typed
  <2> QED BY <2>1 DEF RequestShape
<1>3. FirstOwed(owed[p]) \in owed[p]
  BY <1>1, <1>2, FirstOwedInTypes
<1> QED BY <1>1, <1>2, <1>3, JobFacts

(* The initial state has the types.                                        *)
LEMMA TypedInit == Init => Typed
<1> SUFFICES ASSUME Init PROVE Typed
  OBVIOUS
<1> USE DEF Init
<1>1. ApiTypes /\ RowTypes
  BY DEF ApiTypes, RowTypes
<1>2. ListTypes
  BY DEF ListTypes
<1>3. WorkerTypes /\ HandlesJob
  BY DEF WorkerTypes, HandlesJob, Handling, Labels
<1>4. CounterTypes
  BY BoundsAssumption DEF CounterTypes
<1>5. RequestShape
  BY JobFacts DEF RequestShape
<1> QED BY <1>1, <1>2, <1>3, <1>4, <1>5 DEF Typed, TypeOK

(* Steps keep the types of the requests.                                   *)
LEMMA ApiTypesStep == ASSUME Typed, Next PROVE ApiTypes'
<1> USE DEF Typed, TypeOK, ApiTypes
<1>1. request' \in [Poems -> {"none", "refresh", "enqueue", "answered", "failed"}]
      /\ owed' \in [Poems -> SUBSET Types]
  BY RequestsChangedBy DEF PersistPoem, RefreshPoem, Enqueue, RequestFails
<1>2. deletion' \in [Poems -> {"no", "unlinked", "aborted", "deleted"}]
  BY DeletionsChangedBy DEF DeleteFiles, DeleteRows, DeleteFails
<1> QED BY <1>1, <1>2

(* Steps keep the types of the rows.                                       *)
LEMMA RowTypesStep == ASSUME Typed, Next PROVE RowTypes'
<1> USE DEF Typed, TypeOK
<1>1. ASSUME NEW p \in Poems, NEW S \in SUBSET Types, PersistPoem(p, S)
      PROVE  <<job, asset, path>>' \in [Jobs -> JobStatus \cup {"absent"}]
                \X [Jobs -> AssetStatus \cup {"absent"}] \X [Jobs -> Nat]
  BY <1>1 DEF RowTypes, PersistPoem, JobStatus, AssetStatus
<1>2. ASSUME NEW p \in Poems, DeleteRows(p)
      PROVE  <<job, asset, path>>' \in [Jobs -> JobStatus \cup {"absent"}]
                \X [Jobs -> AssetStatus \cup {"absent"}] \X [Jobs -> Nat]
  BY <1>2 DEF RowTypes, DeleteRows
<1>3. ASSUME NEW t \in Types, LoadAsset(t)
      PROVE  <<job, asset, path>>' \in [Jobs -> JobStatus \cup {"absent"}]
                \X [Jobs -> AssetStatus \cup {"absent"}] \X [Jobs -> Nat]
  BY <1>3 DEF RowTypes, LoadAsset, JobStatus, dbVars
<1>4. ASSUME NEW j \in Jobs, NEW s \in JobStatus \cup {"absent"}, WriteStatus(j, s)
      PROVE  job' \in [Jobs -> JobStatus \cup {"absent"}]
             /\ asset' \in [Jobs -> AssetStatus \cup {"absent"}]
  BY <1>4 DEF RowTypes, WriteStatus, JobStatus, AssetStatus, AssetFor
<1>5. ASSUME NEW t \in Types, Start(t)
      PROVE  <<job, asset, path>>' \in [Jobs -> JobStatus \cup {"absent"}]
                \X [Jobs -> AssetStatus \cup {"absent"}] \X [Jobs -> Nat]
  <2>1. cur[t] \in Jobs /\ "running" \in JobStatus
    BY <1>5 DEF Start, HandlesJob, Handling, JobStatus
  <2>2. WriteStatus(cur[t], "running") /\ UNCHANGED path
    BY <1>5 DEF Start
  <2> QED BY <1>4, <2>1, <2>2 DEF RowTypes
<1>6. ASSUME NEW t \in Types, pc[t] = "commit", WriteOutcome(t)
      PROVE  <<job, asset, path>>' \in [Jobs -> JobStatus \cup {"absent"}]
                \X [Jobs -> AssetStatus \cup {"absent"}] \X [Jobs -> Nat]
  <2>1. cur[t] \in Jobs /\ mem[t] \in JobStatus \cup {"absent"}
    BY <1>6 DEF HandlesJob, Handling, WorkerTypes
  <2>2. path' \in [Jobs -> Nat]
    BY <1>6, <2>1 DEF WriteOutcome, RowTypes, CounterTypes
  <2>3. WriteStatus(cur[t], mem[t])
    BY <1>6 DEF WriteOutcome
  <2> QED BY <1>4, <2>1, <2>2, <2>3
<1>7. ASSUME NEW t \in Types, DatabaseFails(t)
      PROVE  <<job, asset, path>>' \in [Jobs -> JobStatus \cup {"absent"}]
                \X [Jobs -> AssetStatus \cup {"absent"}] \X [Jobs -> Nat]
  <2>1. CASE UNCHANGED dbVars
    BY <2>1 DEF RowTypes, dbVars
  <2>2. CASE pc[t] = "start" /\ WriteStatus(cur[t], "running") /\ UNCHANGED path
    <3>1. cur[t] \in Jobs /\ "running" \in JobStatus
      BY <2>2 DEF HandlesJob, Handling, JobStatus
    <3> QED BY <1>4, <2>2, <3>1 DEF RowTypes
  <2>3. CASE pc[t] = "commit" /\ WriteOutcome(t)
    BY <1>6, <2>3
  <2> QED BY <1>7, <2>1, <2>2, <2>3 DEF DatabaseFails
<1>8. <<job, asset, path>>' \in [Jobs -> JobStatus \cup {"absent"}]
                \X [Jobs -> AssetStatus \cup {"absent"}] \X [Jobs -> Nat]
  <2>1. CASE UNCHANGED <<job, asset, path>>
    BY <2>1 DEF RowTypes
  <2>2. ASSUME NEW t \in Types, Commit(t)
        PROVE  <<job, asset, path>>' \in [Jobs -> JobStatus \cup {"absent"}]
                \X [Jobs -> AssetStatus \cup {"absent"}] \X [Jobs -> Nat]
    BY <1>6, <2>2 DEF Commit
  <2> QED BY <1>1, <1>2, <1>3, <1>5, <1>7, <2>1, <2>2, RowsChangedBy
<1>9. files' \subseteq Jobs \X Nat
  <2>1. ASSUME NEW p \in Poems, DeleteFiles(p)
        PROVE  files' \subseteq files
    BY <2>1 DEF DeleteFiles
  <2>2. ASSUME NEW t \in Types, WriteFile(t)
        PROVE  files' \subseteq Jobs \X Nat
    <3>1. cur[t] \in Jobs /\ renders[cur[t]] \in Nat
      BY <2>2 DEF WriteFile, HandlesJob, Handling, CounterTypes
    <3>2. Output(t) \in Jobs \X Nat
      BY <3>1, FileOfType DEF Output
    <3> QED BY <2>2, <3>2 DEF WriteFile, RowTypes
  <2> QED BY <2>1, <2>2, FilesChangedBy DEF RowTypes
<1> QED BY <1>8, <1>9 DEF RowTypes

(* Steps keep the types of the lists in Redis.                             *)
LEMMA ListTypesStep == ASSUME Typed, Next PROVE ListTypes'
<1> USE DEF Typed, TypeOK
<1>1. /\ queue \in [Types -> Seq(Jobs)]
      /\ processing \in [Types -> Seq(Jobs)]
      /\ \A t \in Types : queue[t] \in Seq(Jobs) /\ processing[t] \in Seq(Jobs)
  BY DEF ListTypes
<1>2. ASSUME NEW t \in Types, NEW j \in Jobs,
             queue' = [queue EXCEPT ![t] = Append(@, j)]
      PROVE  queue' \in [Types -> Seq(Jobs)]
  BY <1>1, <1>2, ContainsAppend
<1>3. ASSUME NEW t \in Types, queue[t] # <<>>,
             queue' = [queue EXCEPT ![t] = Tail(@)], Reserve(t)
      PROVE  queue' \in [Types -> Seq(Jobs)] /\ processing' \in [Types -> Seq(Jobs)]
  <2>1. Tail(queue[t]) \in Seq(Jobs) /\ Head(queue[t]) \in Jobs
    BY <1>1, <1>3, ContainsTail
  <2>2. Append(processing[t], Head(queue[t])) \in Seq(Jobs)
    BY <1>1, <2>1, ContainsAppend
  <2> QED BY <1>1, <1>3, <2>1, <2>2 DEF Reserve
<1>4. ASSUME NEW p \in Poems, Enqueue(p) \/ EnqueueReplyLost(p)
      PROVE  ListTypes'
  <2>1. request[p] = "enqueue"
    BY <1>4 DEF Enqueue, EnqueueReplyLost
  <2>2. FirstOwed(owed[p]) \in Types /\ <<p, FirstOwed(owed[p])>> \in Jobs
    BY <2>1, EnqueueFacts
  <2>3. queue' = [queue EXCEPT ![FirstOwed(owed[p])] = Append(@, <<p, FirstOwed(owed[p])>>)]
        /\ UNCHANGED processing
    BY <1>4 DEF Enqueue, EnqueueReplyLost
  <2> QED BY <1>1, <1>2, <2>1, <2>2, <2>3 DEF ListTypes
<1>5. ASSUME NEW t \in Types, Reap(t)
      PROVE  ListTypes'
  <2>1. Tail(processing[t]) \in Seq(Jobs) /\ Head(processing[t]) \in Jobs
    BY <1>1, <1>5, ContainsTail DEF Reap
  <2>2. Cons(Head(processing[t]), queue[t]) \in Seq(Jobs)
    BY <1>1, <2>1, ContainsCons
  <2>3. /\ queue' = [queue EXCEPT ![t] = Cons(Head(processing[t]), queue[t])]
        /\ processing' = [processing EXCEPT ![t] = Tail(processing[t])]
    BY <1>5 DEF Reap
  <2> QED BY <1>1, <2>1, <2>2, <2>3 DEF ListTypes
<1>6. ASSUME NEW t \in Types, Push(t)
      PROVE  ListTypes'
  <2>1. scan[t] \subseteq Jobs
    BY DEF WorkerTypes
  <2> QED BY <1>1, <1>2, <1>6, <2>1 DEF Push, ListTypes
<1>7. ASSUME NEW t \in Types, Pop(t)
      PROVE  ListTypes'
  BY <1>3, <1>7 DEF Pop, ListTypes
<1>8. ASSUME NEW t \in Types, Requeue(t)
      PROVE  ListTypes'
  <2>1. cur[t] \in Jobs
    BY <1>8 DEF Requeue, HandlesJob, Handling
  <2> QED BY <1>1, <1>2, <1>8, <2>1 DEF Requeue, ListTypes
<1>9. ASSUME NEW t \in Types, Ack(t)
      PROVE  ListTypes'
  BY <1>1, <1>9, AcknowledgeList DEF Ack, ListTypes
<1>10. ASSUME NEW t \in Types, ReplyLost(t)
       PROVE  ListTypes'
  <2>1. CASE \E j \in scan[t] : queue' = [queue EXCEPT ![t] = Append(@, j)] /\ UNCHANGED processing
    <3>1. scan[t] \subseteq Jobs
      BY DEF WorkerTypes
    <3> QED BY <1>1, <1>2, <2>1, <3>1 DEF ListTypes
  <2>2. CASE queue[t] # <<>> /\ queue' = [queue EXCEPT ![t] = Tail(@)] /\ Reserve(t)
    BY <1>3, <2>2 DEF ListTypes
  <2>3. CASE UNCHANGED <<queue, processing>>
    BY <1>1, <2>3 DEF ListTypes
  <2>4. CASE pc[t] = "requeue" /\ queue' = [queue EXCEPT ![t] = Append(@, cur[t])]
             /\ UNCHANGED processing
    <3>1. cur[t] \in Jobs
      BY <2>4 DEF HandlesJob, Handling
    <3> QED BY <1>1, <1>2, <2>4, <3>1 DEF ListTypes
  <2>5. CASE Acknowledge(t) /\ UNCHANGED queue
    BY <1>1, <2>5, AcknowledgeList DEF ListTypes
  <2> QED BY <1>10, <2>1, <2>2, <2>3, <2>4, <2>5 DEF ReplyLost
<1>11. RedisLosesData => ListTypes'
  BY DEF RedisLosesData, ListTypes
<1> QED BY <1>1, <1>4, <1>5, <1>6, <1>7, <1>8, <1>9, <1>10, <1>11, ListsChangedBy DEF ListTypes

(* A worker that is sent back to a label keeps its types.                  *)
LEMMA RestartType ==
    ASSUME WorkerTypes, NEW t \in Types, NEW l \in Labels, Restart(t, l)
    PROVE  WorkerTypes'
  BY DEF WorkerTypes, Restart, Goto

(* The actions of a worker that start its loop or its process again.       *)
RestartsBy(t) ==
    \/ PushEnds(t) \/ StaleWrite(t) \/ Ack(t) \/ WorkerCrashes(t) \/ DatabaseFails(t)
    \/ RedisFails(t)

(* Steps keep the types of what the workers remember.                      *)
LEMMA WorkerTypesStep == ASSUME Typed, Next PROVE WorkerTypes'
<1> USE DEF Typed, TypeOK
<1>1. ASSUME NEW t \in Types, NEW l \in {"down", "pop", "check"}, Restart(t, l)
      PROVE  WorkerTypes'
  BY <1>1, RestartType DEF Labels
<1>2. ASSUME NEW t \in Types, Escape(t)
      PROVE  WorkerTypes'
  BY <1>1, <1>2 DEF Escape
<1>3. pc' \in [Types -> Labels] /\ cur' \in [Types -> Jobs \cup {NoJob}]
      /\ mem' \in [Types -> JobStatus \cup {"absent"}]
  <2> DEFINE Goal == /\ pc' \in [Types -> Labels] /\ cur' \in [Types -> Jobs \cup {NoJob}]
                     /\ mem' \in [Types -> JobStatus \cup {"absent"}]
  <2>1. ASSUME NEW t \in Types, RestartsBy(t)
        PROVE  Goal
    <3>1. CASE RedisFails(t) /\ ~Escape(t)
      BY <3>1 DEF RedisFails, WorkerTypes, Goto, Labels, JobStatus
    <3>2. CASE \E l \in {"down", "pop", "check"} : Restart(t, l)
      BY <1>1, <3>2 DEF WorkerTypes
    <3>3. CASE Escape(t)
      BY <1>2, <3>3 DEF WorkerTypes
    <3> QED BY <2>1, <3>1, <3>2, <3>3
         DEF RestartsBy, PushEnds, StaleWrite, Ack, WorkerCrashes, DatabaseFails
  <2>2. ASSUME NEW t \in Types, Pop(t)
        PROVE  Goal
    <3>1. Head(queue[t]) \in Jobs
      BY <2>2, ContainsTail DEF Pop, ListTypes
    <3> QED BY <2>2, <3>1 DEF Pop, WorkerTypes, Goto, Labels
  <2>3. ASSUME NEW t \in Types, Load(t)
        PROVE  Goal
    <3>1. cur[t] \in Jobs
      BY <2>3 DEF Load, HandlesJob, Handling
    <3> QED BY <2>3, <3>1 DEF Load, WorkerTypes, RowTypes, Goto, Labels
  <2>4. ASSUME NEW t \in Types,
               \/ Start(t) \/ RenderSucceeds(t) \/ RenderUnsupported(t) \/ CountFailure(t)
        PROVE  Goal
    BY <2>4 DEF Start, RenderSucceeds, RenderUnsupported, CountFailure,
       WorkerTypes, Goto, Labels, JobStatus
  <2>5. ASSUME NEW t \in Types,
               \/ Boot(t) \/ ReapEnds(t) \/ ScanQueue(t) \/ ScanProcessing(t) \/ Select(t)
               \/ PopTimesOut(t) \/ Skip(t) \/ LoadAsset(t) \/ StartUnwritten(t) \/ WriteFile(t)
               \/ RenderFails(t) \/ Commit(t) \/ Requeue(t) \/ Continue(t) \/ Maintain(t)
        PROVE  Goal
    BY <2>5 DEF Boot, ReapEnds, ScanQueue, ScanProcessing, Select, PopTimesOut, Skip,
       LoadAsset, StartUnwritten, WriteFile, RenderFails, Commit, Requeue, Continue,
       Maintain, WorkerTypes, Goto, Labels, AfterCommit
  <2> QED BY <2>1, <2>2, <2>3, <2>4, <2>5, ProgramsChangedBy DEF WorkerTypes, RestartsBy
<1>4. scan' \in [Types -> SUBSET Jobs] /\ boot' \in [Types -> BOOLEAN]
  <2>1. ASSUME NEW t \in Types, ScanQueue(t) \/ ScanProcessing(t)
        PROVE  scan' \in [Types -> SUBSET Jobs] /\ UNCHANGED boot
    <3>1. ToSet(queue[t]) \subseteq Jobs /\ ToSet(processing[t]) \subseteq Jobs
      BY ToSetContains DEF ListTypes
    <3> QED BY <2>1, <3>1 DEF ScanQueue, ScanProcessing, WorkerTypes
  <2>2. ASSUME NEW t \in Types, Select(t) \/ Push(t)
        PROVE  scan' \in [Types -> SUBSET Jobs] /\ UNCHANGED boot
    <3>1. JobsOfType(t) \subseteq Jobs
      BY DEF JobsOfType, Jobs
    <3> QED BY <2>2, <3>1 DEF Select, Push, WorkerTypes
  <2>3. ASSUME NEW t \in Types, RestartsBy(t)
        PROVE  scan' \in [Types -> SUBSET Jobs] /\ boot' \in [Types -> BOOLEAN]
    <3>1. CASE RedisFails(t) /\ ~Escape(t)
      BY <3>1 DEF RedisFails, WorkerTypes
    <3>2. CASE \E l \in {"down", "pop", "check"} : Restart(t, l)
      BY <1>1, <3>2 DEF WorkerTypes
    <3>3. CASE Escape(t)
      BY <1>2, <3>3 DEF WorkerTypes
    <3> QED BY <2>3, <3>1, <3>2, <3>3
         DEF RestartsBy, PushEnds, StaleWrite, Ack, WorkerCrashes, DatabaseFails
  <2> QED BY <2>1, <2>2, <2>3, ScansChangedBy DEF WorkerTypes, RestartsBy
<1> QED BY <1>3, <1>4 DEF WorkerTypes

(* Steps keep the types of the counters.                                   *)
LEMMA CounterTypesStep == ASSUME Typed, Next PROVE CounterTypes'
<1> USE DEF Typed, TypeOK, CounterTypes
<1>1. retry' \in [Jobs -> Nat]
  <2>1. ASSUME NEW t \in Types, CountFailure(t) \/ ReplyLost(t)
        PROVE  retry' \in [Jobs -> Nat]
    <3>1. retry' = retry \/ \E j \in Jobs : retry' = [retry EXCEPT ![j] = retry[j] + 1]
      BY <2>1 DEF CountFailure, ReplyLost, HandlesJob, Handling
    <3> QED BY <3>1
  <2> QED BY <2>1, RetriesChangedBy DEF RedisLosesData, RetryExpires
<1>2. renders' \in [Jobs -> Nat]
  <2>1. ASSUME NEW t \in Types, Start(t) \/ StartUnwritten(t)
        PROVE  renders' \in [Jobs -> Nat]
    <3>1. renders' = renders \/ \E j \in Jobs : renders' = [renders EXCEPT ![j] = renders[j] + 1]
      BY <2>1 DEF Start, StartUnwritten, HandlesJob, Handling
    <3> QED BY <3>1
  <2> QED BY <2>1, RendersChangedBy
<1>3. faults' \in 0..MaxFaults
  BY FaultsCounted, BoundsAssumption DEF Fault
<1> QED BY <1>1, <1>2, <1>3

(* A worker handles nothing but ids of jobs.                               *)
LEMMA HandlesJobStep == ASSUME Typed, Next PROVE HandlesJob'
<1> USE DEF Typed, TypeOK
<1> SUFFICES ASSUME NEW u \in Types, pc'[u] \in Handling
             PROVE  cur'[u] \in Jobs
  BY DEF HandlesJob
<1>1. ASSUME NEW t \in Types, NEW l \in {"down", "pop", "check"}, Restart(t, l)
      PROVE  cur'[u] \in Jobs
  BY <1>1 DEF Restart, Goto, WorkerTypes, HandlesJob, Handling
<1>2. ASSUME NEW t \in Types, RestartsBy(t)
      PROVE  cur'[u] \in Jobs
  <2>1. CASE RedisFails(t) /\ ~Escape(t)
    BY <1>2, <2>1 DEF RedisFails, WorkerTypes, Goto, HandlesJob, Handling
  <2>2. CASE \E l \in {"down", "pop", "check"} : Restart(t, l)
    BY <1>1, <2>2
  <2> QED BY <1>2, <2>1, <2>2
       DEF RestartsBy, PushEnds, StaleWrite, Ack, WorkerCrashes, DatabaseFails, Escape
<1>3. ASSUME NEW t \in Types, Pop(t)
      PROVE  cur'[u] \in Jobs
  <2>1. Head(queue[t]) \in Jobs
    BY <1>3, ContainsTail DEF Pop, ListTypes
  <2> QED BY <1>3, <2>1 DEF Pop, WorkerTypes, Goto, HandlesJob, Handling
<1>4. ASSUME NEW t \in Types,
             \/ Skip(t) \/ Load(t) \/ LoadAsset(t) \/ Start(t) \/ StartUnwritten(t)
             \/ WriteFile(t) \/ RenderSucceeds(t) \/ RenderFails(t) \/ RenderUnsupported(t)
             \/ CountFailure(t) \/ Commit(t) \/ Requeue(t)
      PROVE  cur'[u] \in Jobs
  BY <1>4 DEF Skip, Load, LoadAsset, Start, StartUnwritten, WriteFile, RenderSucceeds,
     RenderFails, RenderUnsupported, CountFailure, Commit, Requeue, AfterCommit,
     WorkerTypes, Goto, HandlesJob, Handling
<1>5. ASSUME NEW t \in Types,
             \/ Boot(t) \/ ReapEnds(t) \/ ScanQueue(t) \/ ScanProcessing(t) \/ Select(t)
             \/ PopTimesOut(t) \/ Continue(t) \/ Maintain(t)
      PROVE  cur'[u] \in Jobs
  BY <1>5 DEF Boot, ReapEnds, ScanQueue, ScanProcessing, Select, PopTimesOut, Continue,
     Maintain, WorkerTypes, Goto, HandlesJob, Handling
<1>6. CASE UNCHANGED <<pc, cur, mem>>
  BY <1>6 DEF HandlesJob
<1> QED BY <1>2, <1>3, <1>4, <1>5, <1>6, ProgramsChangedBy DEF RestartsBy

(* Rows are only written where rows are: a request that has not begun, or  *)
(* a deletion that is complete, has none.                                  *)
LEMMA RequestShapeStep == ASSUME Typed, Next PROVE RequestShape'
<1> USE DEF Typed, TypeOK
<1>1. ASSUME NEW p \in Poems
      PROVE  /\ request'[p] = "enqueue" => owed'[p] # {}
             /\ request'[p] = "none" => deletion'[p] = "no"
  <2>1. request'[p] = "enqueue" => owed'[p] # {}
    <3>0. request[p] = "enqueue" => owed[p] # {}
      BY EnqueueFacts
    <3>1. ASSUME NEW q \in Poems, Enqueue(q)
          PROVE  request'[p] = "enqueue" => owed'[p] # {}
      <4>1. CASE p = q
        <5> DEFINE t == FirstOwed(owed[q])
        <5>1. owed'[q] = owed[q] \ {t}
          BY <3>1 DEF Enqueue, ApiTypes
        <5>2. request'[q] = "enqueue" => owed[q] # {t}
          BY <3>1 DEF Enqueue, ApiTypes
        <5>3. owed[q] # {} /\ t \in owed[q]
          BY <3>1, EnqueueFacts DEF Enqueue
        <5> HIDE DEF t
        <5> QED BY <4>1, <5>1, <5>2, <5>3
      <4>2. CASE p # q
        <5>1. request'[p] = request[p] /\ owed'[p] = owed[p]
          BY <3>1, <4>2 DEF Enqueue, ApiTypes
        <5> QED BY <3>0, <5>1
      <4> QED BY <4>1, <4>2
    <3>2. ASSUME NEW q \in Poems, RefreshPoem(q)
          PROVE  request'[p] = "enqueue" => owed'[p] # {}
      <4>1. owed' = owed /\ (request'[p] = request[p] \/ p = q)
        BY <3>2 DEF RefreshPoem, ApiTypes
      <4>2. request'[q] = "enqueue" => owed[q] # {}
        BY <3>2 DEF RefreshPoem, ApiTypes
      <4> QED BY <3>0, <4>1, <4>2
    <3>3. ASSUME NEW q \in Poems, RequestFails(q)
          PROVE  request'[p] = "enqueue" => owed'[p] # {}
      BY <3>0, <3>3 DEF RequestFails, ApiTypes
    <3>4. ASSUME NEW q \in Poems, NEW S \in SUBSET Types, PersistPoem(q, S)
          PROVE  request'[p] = "enqueue" => owed'[p] # {}
      BY <3>0, <3>4 DEF PersistPoem, ApiTypes
    <3> QED BY <3>0, <3>1, <3>2, <3>3, <3>4, RequestsChangedBy
  <2>2. request'[p] = "none" => request[p] = "none"
    BY RequestsChangedBy DEF PersistPoem, RefreshPoem, Enqueue, RequestFails, ApiTypes
  <2>3. deletion'[p] = deletion[p] \/ request[p] # "none"
    BY DeletionsChangedBy DEF DeleteFiles, DeleteRows, DeleteFails, ApiTypes, Live,
       RequestShape
  <2> QED BY <2>1, <2>2, <2>3 DEF RequestShape
<1>2. ASSUME NEW j \in Jobs, request'[j[1]] = "none" \/ deletion'[j[1]] = "deleted"
      PROVE  job'[j] = "absent"
  <2>1. j[1] \in Poems
    BY JobFacts
  <2>2. CASE \E p \in Poems : DeleteRows(p)
    BY <1>2, <2>1, <2>2 DEF DeleteRows, ApiTypes, RequestShape
  <2>3. CASE \E p \in Poems, S \in SUBSET Types : PersistPoem(p, S)
    <3>1. PICK p \in Poems, S \in SUBSET Types : PersistPoem(p, S)
      BY <2>3
    <3>2. request'[p] # "none" /\ deletion'[p] = "no"
      BY <3>1 DEF PersistPoem, ApiTypes, RequestShape
    <3>3. j[1] # p /\ request'[j[1]] = request[j[1]] /\ UNCHANGED deletion
      BY <1>2, <2>1, <3>1, <3>2 DEF PersistPoem, ApiTypes
    <3> QED BY <1>2, <3>1, <3>3 DEF PersistPoem, RequestShape
  <2>4. CASE ~(\E p \in Poems : DeleteRows(p) \/ \E S \in SUBSET Types : PersistPoem(p, S))
    <3>1. request'[j[1]] = "none" => request[j[1]] = "none"
      BY <2>1, RequestsChangedBy, <2>4 DEF RefreshPoem, Enqueue, RequestFails, ApiTypes
    <3>2. deletion'[j[1]] = "deleted" => deletion[j[1]] = "deleted"
      BY <2>1, DeletionsChangedBy, <2>4 DEF DeleteFiles, DeleteFails, ApiTypes
    <3>3. job[j] = "absent"
      BY <1>2, <3>1, <3>2 DEF RequestShape
    <3>4. ASSUME NEW t \in Types, LoadAsset(t) \/ Start(t) \/ Commit(t) \/ DatabaseFails(t)
          PROVE  job'[j] = "absent"
      <4>1. CASE UNCHANGED job
        BY <3>3, <4>1
      <4>2. CASE /\ pc[t] \in Handling /\ job[cur[t]] # "absent"
                 /\ \E s \in JobStatus \cup {"absent"} : job' = [job EXCEPT ![cur[t]] = s]
        BY <3>3, <4>2 DEF HandlesJob, RowTypes
      <4> QED BY <3>4, <4>1, <4>2 DEF LoadAsset, Start, Commit, DatabaseFails, WriteStatus,
              WriteOutcome, dbVars, Handling, JobStatus, WorkerTypes
    <3> QED BY <2>4, <3>3, <3>4, RowsChangedBy
  <2> QED BY <2>2, <2>3, <2>4
<1> QED BY <1>1, <1>2 DEF RequestShape

(* The types are inductive.                                                *)
LEMMA TypedStep == Typed /\ [Next]_vars => Typed'
<1>1. ASSUME Typed, Next PROVE Typed'
  BY <1>1, ApiTypesStep, RowTypesStep, ListTypesStep, WorkerTypesStep, CounterTypesStep,
     HandlesJobStep, RequestShapeStep DEF Typed, TypeOK
<1>2. ASSUME Typed, UNCHANGED vars PROVE Typed'
  BY <1>2 DEF Typed, TypeOK, ApiTypes, RowTypes, ListTypes, WorkerTypes, CounterTypes,
     HandlesJob, RequestShape, vars, apiVars, dbVars, redisVars, workerVars
<1> QED BY <1>1, <1>2

(* The pipeline is well typed in every reachable state.                    *)
THEOREM TypedAlways == Spec => []Typed
  BY TypedInit, TypedStep, PTL DEF Spec

(* The statuses in the tables are those their CHECK constraints admit and  *)
(* the lists hold job ids, in every reachable state.                       *)
THEOREM TypeCorrect == Spec => []TypeOK
<1>1. Typed => TypeOK
  BY DEF Typed
<1> QED BY <1>1, TypedAlways, PTL

-----------------------------------------------------------------------------
(* The Redis lists, one step at a time.                                    *)

(* An id appears on a queue because a request, the reaper, the reconciler  *)
(* or a retry puts it there.                                               *)
LEMMA QueueGains ==
    ASSUME Typed, Next, NEW t \in Types, NEW j \in Jobs, Contains(queue'[t], j)
    PROVE  \/ Contains(queue[t], j) \/ Contains(processing[t], j)
           \/ \E p \in Poems : request[p] = "enqueue" /\ t = FirstOwed(owed[p]) /\ j = <<p, t>>
           \/ pc[t] = "push" /\ j \in scan[t]
           \/ pc[t] = "requeue" /\ j = cur[t]
<1> DEFINE Goal ==
      \/ Contains(queue[t], j) \/ Contains(processing[t], j)
      \/ \E p \in Poems : request[p] = "enqueue" /\ t = FirstOwed(owed[p]) /\ j = <<p, t>>
      \/ pc[t] = "push" /\ j \in scan[t]
      \/ pc[t] = "requeue" /\ j = cur[t]
<1>1. /\ queue \in [Types -> Seq(Jobs)]
      /\ processing \in [Types -> Seq(Jobs)]
      /\ \A u \in Types : queue[u] \in Seq(Jobs) /\ processing[u] \in Seq(Jobs)
  BY DEF Typed, TypeOK, ListTypes
<1>2. ASSUME NEW u \in Types, NEW k \in Jobs, queue' = [queue EXCEPT ![u] = Append(@, k)]
      PROVE  Contains(queue[t], j) \/ (t = u /\ j = k)
  BY <1>1, <1>2, ContainsAppend
<1>3. ASSUME NEW u \in Types, queue[u] # <<>>, queue' = [queue EXCEPT ![u] = Tail(@)]
      PROVE  Contains(queue[t], j)
  BY <1>1, <1>3, ContainsTail
<1>4. ASSUME NEW p \in Poems, Enqueue(p) \/ EnqueueReplyLost(p)
      PROVE  Goal
  <2> DEFINE u == FirstOwed(owed[p])
  <2>1. /\ request[p] = "enqueue"
        /\ queue' = [queue EXCEPT ![u] = Append(@, <<p, u>>)]
    BY <1>4 DEF Enqueue, EnqueueReplyLost
  <2>2. u \in Types /\ <<p, u>> \in Jobs
    BY <2>1, EnqueueFacts
  <2>3. Contains(queue[t], j) \/ (t = u /\ j = <<p, u>>)
    BY <1>2, <2>1, <2>2
  <2> QED BY <2>1, <2>3
<1>5. ASSUME NEW u \in Types, Reap(u)
      PROVE  Goal
  <2>1. /\ processing[u] # <<>>
        /\ queue' = [queue EXCEPT ![u] = Cons(Head(processing[u]), queue[u])]
    BY <1>5 DEF Reap
  <2>2. Head(processing[u]) \in Jobs /\ Contains(processing[u], Head(processing[u]))
    BY <1>1, <2>1, ContainsTail
  <2> QED BY <1>1, <2>1, <2>2, ContainsCons
<1>6. ASSUME NEW u \in Types, Push(u) \/ (pc[u] = "push" /\ ReplyLost(u))
      PROVE  Goal
  <2>1. pc[u] = "push" /\ \E k \in scan[u] : queue' = [queue EXCEPT ![u] = Append(@, k)]
    BY <1>6 DEF Push, ReplyLost
  <2>2. scan[u] \subseteq Jobs
    BY DEF Typed, TypeOK, WorkerTypes
  <2> QED BY <1>2, <2>1, <2>2
<1>7. ASSUME NEW u \in Types, Pop(u) \/ (pc[u] = "pop" /\ ReplyLost(u))
      PROVE  Goal
  BY <1>3, <1>7 DEF Pop, ReplyLost
<1>8. ASSUME NEW u \in Types, Requeue(u) \/ (pc[u] = "requeue" /\ ReplyLost(u))
      PROVE  Goal
  <2>1. pc[u] = "requeue" /\ queue' = [queue EXCEPT ![u] = Append(@, cur[u])]
    BY <1>8 DEF Requeue, ReplyLost
  <2>2. cur[u] \in Jobs
    BY <2>1 DEF Typed, HandlesJob, Handling
  <2> QED BY <1>2, <2>1, <2>2
<1>9. ASSUME NEW u \in Types, Ack(u) \/ (pc[u] \in {"count", "ack"} /\ ReplyLost(u))
      PROVE  Goal
  BY <1>9 DEF Ack, ReplyLost
<1>10. RedisLosesData => Goal
  BY DEF RedisLosesData, Contains
<1>11. \A u \in Types : ReplyLost(u) => pc[u] \in {"push", "pop", "count", "requeue", "ack"}
  BY DEF ReplyLost
<1>12. CASE UNCHANGED <<queue, processing>>
  BY <1>12
<1> QED BY <1>4, <1>5, <1>6, <1>7, <1>8, <1>9, <1>10, <1>11, <1>12, ListsChangedBy

(* An id appears on a processing list because a worker reserves it.        *)
LEMMA ProcessingGains ==
    ASSUME Typed, Next, NEW t \in Types, NEW j \in Jobs, Contains(processing'[t], j)
    PROVE  Contains(processing[t], j) \/ Contains(queue[t], j)
<1>1. /\ queue \in [Types -> Seq(Jobs)]
      /\ processing \in [Types -> Seq(Jobs)]
      /\ \A u \in Types : queue[u] \in Seq(Jobs) /\ processing[u] \in Seq(Jobs)
  BY DEF Typed, TypeOK, ListTypes
<1>2. ASSUME NEW u \in Types, queue[u] # <<>>, Reserve(u)
      PROVE  Contains(processing[t], j) \/ Contains(queue[t], j)
  <2>1. Head(queue[u]) \in Jobs /\ Contains(queue[u], Head(queue[u]))
    BY <1>1, <1>2, ContainsTail
  <2> QED BY <1>1, <1>2, <2>1, ContainsAppend DEF Reserve
<1>3. ASSUME NEW u \in Types, Reap(u)
      PROVE  Contains(processing[t], j)
  BY <1>1, <1>3, ContainsTail DEF Reap
<1>4. ASSUME NEW u \in Types, Acknowledge(u)
      PROVE  Contains(processing[t], j)
  BY <1>1, <1>4, AcknowledgeList
<1>5. CASE UNCHANGED processing
  BY <1>5
<1>6. CASE RedisLosesData
  BY <1>6 DEF RedisLosesData, Contains
<1> QED BY <1>2, <1>3, <1>4, <1>5, <1>6, ListsChangedBy
     DEF Enqueue, EnqueueReplyLost, Push, Pop, Requeue, Ack, ReplyLost

(* What a worker takes in hand was on its queue.                           *)
LEMMA CurGains ==
    ASSUME Typed, Next, NEW t \in Types, cur'[t] \in Jobs
    PROVE  cur'[t] = cur[t] \/ Contains(queue[t], cur'[t])
<1> USE DEF Typed, TypeOK
<1>1. ASSUME NEW u \in Types, Pop(u)
      PROVE  cur'[t] = cur[t] \/ Contains(queue[t], cur'[t])
  <2>1. Contains(queue[u], Head(queue[u]))
    BY <1>1, ContainsTail DEF Pop, ListTypes
  <2> QED BY <1>1, <2>1 DEF Pop, WorkerTypes
<1>2. ASSUME NEW u \in Types, NEW l, Restart(u, l)
      PROVE  cur'[t] = cur[t]
  BY <1>2, JobFacts DEF Restart, WorkerTypes
<1>3. ASSUME NEW u \in Types, RestartsBy(u)
      PROVE  cur'[t] = cur[t]
  BY <1>2, <1>3 DEF RestartsBy, PushEnds, StaleWrite, Ack, WorkerCrashes, DatabaseFails,
     RedisFails, Escape
<1>4. ASSUME NEW u \in Types,
             \/ Boot(u) \/ ReapEnds(u) \/ ScanQueue(u) \/ ScanProcessing(u) \/ Select(u)
             \/ PopTimesOut(u) \/ Skip(u) \/ Load(u) \/ LoadAsset(u) \/ Start(u)
             \/ StartUnwritten(u) \/ WriteFile(u) \/ RenderSucceeds(u) \/ RenderFails(u)
             \/ RenderUnsupported(u) \/ CountFailure(u) \/ Commit(u) \/ Requeue(u)
             \/ Continue(u) \/ Maintain(u)
      PROVE  cur'[t] = cur[t]
  BY <1>4 DEF Boot, ReapEnds, ScanQueue, ScanProcessing, Select, PopTimesOut, Skip, Load,
     LoadAsset, Start, StartUnwritten, WriteFile, RenderSucceeds, RenderFails,
     RenderUnsupported, CountFailure, Commit, Requeue, Continue, Maintain
<1>5. CASE UNCHANGED <<pc, cur, mem>>
  BY <1>5
<1> QED BY <1>1, <1>3, <1>4, <1>5, ProgramsChangedBy DEF RestartsBy

(* What the reconciler remembers is on a list or in an open row.           *)
LEMMA ScanGains ==
    ASSUME Typed, Next, NEW t \in Types, NEW j \in Jobs, j \in scan'[t]
    PROVE  \/ j \in scan[t] \/ Contains(queue[t], j) \/ Contains(processing[t], j)
           \/ TypeOf(j) = t /\ job[j] # "absent"
<1> USE DEF Typed, TypeOK
<1>1. ASSUME NEW u \in Types, ScanQueue(u) \/ ScanProcessing(u)
      PROVE  j \in scan[t] \/ Contains(queue[t], j) \/ Contains(processing[t], j)
  <2>1. /\ j \in ToSet(queue[u]) <=> Contains(queue[u], j)
        /\ j \in ToSet(processing[u]) <=> Contains(processing[u], j)
    BY ToSetContains DEF ListTypes
  <2> QED BY <1>1, <2>1 DEF ScanQueue, ScanProcessing, WorkerTypes
<1>2. ASSUME NEW u \in Types, Select(u)
      PROVE  j \in scan[t] \/ (TypeOf(j) = t /\ job[j] # "absent")
  <2>1. CASE t = u
    <3>1. j \in JobsOfType(t) /\ Eligible(job[j], boot[t])
      BY <1>2, <2>1 DEF Select, WorkerTypes
    <3> QED BY <3>1 DEF JobsOfType, TypeOf, Eligible
  <2>2. CASE t # u
    <3>1. \E S : scan' = [scan EXCEPT ![u] = S]
      BY <1>2 DEF Select
    <3> QED BY <2>2, <3>1 DEF WorkerTypes
  <2> QED BY <2>1, <2>2
<1>3. ASSUME NEW u \in Types, Push(u)
      PROVE  j \in scan[t]
  BY <1>3 DEF Push, WorkerTypes
<1>4. ASSUME NEW u \in Types, NEW l, Restart(u, l)
      PROVE  j \in scan[t]
  BY <1>4 DEF Restart, WorkerTypes
<1>5. ASSUME NEW u \in Types, RestartsBy(u)
      PROVE  j \in scan[t]
  BY <1>4, <1>5 DEF RestartsBy, PushEnds, StaleWrite, Ack, WorkerCrashes, DatabaseFails,
     RedisFails, Escape
<1>6. CASE UNCHANGED <<scan, boot>>
  BY <1>6
<1> QED BY <1>1, <1>2, <1>3, <1>5, <1>6, ScansChangedBy DEF RestartsBy

-----------------------------------------------------------------------------
(* The ids a worker sees.                                                  *)

(* Nobody holds an id at first.                                            *)
LEMMA KnownIdsInit == Init => KnownIds
<1> SUFFICES ASSUME Init, NEW t \in Types, NEW j \in Jobs PROVE ~Held(t, j)
  BY DEF KnownIds
<1> QED BY JobFacts DEF Init, Held, Contains

(* An id that moves from hand to hand stays that of a stored poem.         *)
LEMMA KnownIdsStep == ASSUME Typed, KnownIds, Next PROVE KnownIds'
<1> SUFFICES ASSUME NEW t \in Types, NEW j \in Jobs, Held(t, j)'
             PROVE  TypeOf(j) = t /\ request'[j[1]] # "none"
  BY DEF KnownIds
<1> DEFINE Known == TypeOf(j) = t /\ request[j[1]] # "none"
<1>1. Held(t, j) => Known
  BY DEF KnownIds
<1>2. Known => request'[j[1]] # "none"
  BY JobFacts, RequestsChangedBy
     DEF PersistPoem, RefreshPoem, Enqueue, RequestFails, Typed, TypeOK, ApiTypes
<1>3. Contains(queue'[t], j) => Known
  <2>1. ASSUME NEW p \in Poems, request[p] = "enqueue", j = <<p, t>>
        PROVE  Known
    BY <2>1, JobFacts
  <2> QED BY <1>1, <2>1, QueueGains DEF Held
<1>4. Contains(processing'[t], j) => Known
  BY <1>1, ProcessingGains DEF Held
<1>5. j = cur'[t] => Known
  BY <1>1, CurGains DEF Held
<1>6. j \in scan'[t] => Known
  <2>1. job[j] # "absent" => request[j[1]] # "none"
    BY DEF Typed, RequestShape
  <2> QED BY <1>1, <2>1, ScanGains DEF Held
<1> QED BY <1>2, <1>3, <1>4, <1>5, <1>6 DEF Held

-----------------------------------------------------------------------------
(* The rows and the sessions.                                              *)

RowsAndSessions == Typed /\ KnownIds /\ SessionShape /\ RowsInStep

(* What one step may do to the rows of one job.                            *)
Created(j) ==
    /\ request[j[1]] = "none" /\ request'[j[1]] # "none"
    /\ job[j] = "absent" /\ job'[j] = "queued"
    /\ asset'[j] = "pending" /\ path'[j] = path[j]
    /\ TypeOf(j) \in owed'[j[1]]
Removed(j) ==
    /\ deletion'[j[1]] = "deleted"
    /\ job'[j] = "absent" /\ asset'[j] = "absent" /\ path'[j] = 0
Begun(j) ==
    \E t \in Types :
        /\ pc[t] = "start" /\ cur[t] = j /\ pc'[t] \in {"render", "pop", "down"}
        /\ job[j] # "absent"
        /\ job'[j] = "running" /\ asset'[j] = "running" /\ path'[j] = path[j]
Ended(j) ==
    \E t \in Types :
        /\ pc[t] = "commit" /\ cur[t] = j /\ pc'[t] \in {AfterCommit(mem[t]), "pop", "down"}
        /\ job[j] # "absent"
        /\ job'[j] = mem[t] /\ asset'[j] = AssetFor(mem[t])
        /\ path'[j] = IF mem[t] = "done" THEN renders[j] ELSE path[j]
Kept(j) == job'[j] = job[j] /\ asset'[j] = asset[j] /\ path'[j] = path[j]

(* A status is written to one job and its asset, and to no other.          *)
LEMMA WriteStatusRow ==
    ASSUME RowTypes, NEW k \in Jobs, NEW j \in Jobs, NEW s, WriteStatus(k, s)
    PROVE  /\ j # k => job'[j] = job[j] /\ asset'[j] = asset[j]
           /\ j = k => job'[j] = s /\ asset'[j] = AssetFor(s)
  BY DEF RowTypes, WriteStatus

(* An outcome is written to the job in hand, and to no other.              *)
LEMMA WriteOutcomeRow ==
    ASSUME RowTypes, NEW t \in Types, cur[t] \in Jobs, NEW j \in Jobs, WriteOutcome(t)
    PROVE  /\ j # cur[t] => Kept(j)
           /\ j = cur[t] => /\ job'[j] = mem[t] /\ asset'[j] = AssetFor(mem[t])
                            /\ path'[j] = IF mem[t] = "done" THEN renders[j] ELSE path[j]
<1>1. WriteStatus(cur[t], mem[t])
  BY DEF WriteOutcome
<1>2. path' = [path EXCEPT ![cur[t]] = IF mem[t] = "done" THEN renders[cur[t]] ELSE path[cur[t]]]
  BY DEF WriteOutcome
<1> QED BY <1>1, <1>2, WriteStatusRow DEF Kept, RowTypes

(* Escape leads to the top of the loop or to the end of the process.       *)
LEMMA EscapeLabel ==
    ASSUME WorkerTypes, NEW t \in Types, Escape(t)
    PROVE  /\ pc'[t] \in {"pop", "down"}
           /\ \A u \in Types : u # t => pc'[u] = pc[u] /\ cur'[u] = cur[u] /\ mem'[u] = mem[u]
  BY DEF WorkerTypes, Escape, Restart, Goto

(* A step creates, removes, begins or ends a row, or leaves it as it is.   *)
LEMMA RowStep ==
    ASSUME Typed, RowsInStep, Next, NEW j \in Jobs
    PROVE  Kept(j) \/ Created(j) \/ Removed(j) \/ Begun(j) \/ Ended(j)
<1> USE DEF Typed, TypeOK
<1>1. CASE UNCHANGED <<job, asset, path>>
  BY <1>1 DEF Kept
<1>2. ASSUME NEW p \in Poems, NEW S \in SUBSET Types, PersistPoem(p, S)
      PROVE  Kept(j) \/ Created(j)
  <2>1. CASE j \in {p} \X S
    <3>1. j[1] = p
      BY <2>1
    <3>2. request[p] = "none" /\ request'[p] = "refresh" /\ job[j] = "absent"
      BY <1>2, <3>1 DEF PersistPoem, ApiTypes, RequestShape
    <3>3. job'[j] = "queued" /\ asset'[j] = "pending" /\ path' = path
          /\ TypeOf(j) \in owed'[j[1]]
      BY <1>2, <2>1, <3>1 DEF PersistPoem, TypeOf, ApiTypes
    <3> QED BY <3>1, <3>2, <3>3 DEF Created
  <2>2. CASE j \notin {p} \X S
    BY <1>2, <2>2 DEF PersistPoem, Kept
  <2> QED BY <2>1, <2>2
<1>3. ASSUME NEW p \in Poems, DeleteRows(p)
      PROVE  Kept(j) \/ Removed(j)
  BY <1>3 DEF DeleteRows, Kept, Removed, ApiTypes
<1>4. ASSUME NEW t \in Types, LoadAsset(t)
      PROVE  Kept(j)
  <2>1. cur[t] \in Jobs
    BY <1>4 DEF LoadAsset, HandlesJob, Handling
  <2>2. asset[cur[t]] = "absent" => job[cur[t]] = "absent"
    BY <2>1 DEF RowsInStep, RowTypes, JobStatus, AssetFor
  <2> QED BY <1>4, <2>2 DEF LoadAsset, Kept
<1>5. ASSUME NEW t \in Types, pc[t] = "start", job[cur[t]] # "absent",
             WriteStatus(cur[t], "running"), UNCHANGED path,
             pc'[t] \in {"render", "pop", "down"}
      PROVE  Kept(j) \/ Begun(j)
  <2>1. cur[t] \in Jobs
    BY <1>5 DEF HandlesJob, Handling
  <2> QED BY <1>5, <2>1, WriteStatusRow DEF Kept, Begun, AssetFor
<1>6. ASSUME NEW t \in Types, pc[t] = "commit", job[cur[t]] # "absent",
             WriteOutcome(t), pc'[t] \in {AfterCommit(mem[t]), "pop", "down"}
      PROVE  Kept(j) \/ Ended(j)
  <2>1. cur[t] \in Jobs
    BY <1>6 DEF HandlesJob, Handling
  <2> QED BY <1>6, <2>1, WriteOutcomeRow DEF Ended
<1>7. ASSUME NEW t \in Types, Start(t)
      PROVE  Kept(j) \/ Begun(j)
  <2>1. pc'[t] = "render"
    BY <1>7 DEF Start, Goto, WorkerTypes
  <2> QED BY <1>5, <1>7, <2>1 DEF Start
<1>8. ASSUME NEW t \in Types, Commit(t)
      PROVE  Kept(j) \/ Ended(j)
  <2>1. pc'[t] = AfterCommit(mem[t])
    BY <1>8 DEF Commit, Goto, WorkerTypes
  <2> QED BY <1>6, <1>8, <2>1 DEF Commit
<1>9. ASSUME NEW t \in Types, DatabaseFails(t)
      PROVE  Kept(j) \/ Begun(j) \/ Ended(j)
  <2>1. pc'[t] \in {"pop", "down"}
    BY <1>9, EscapeLabel DEF DatabaseFails
  <2>2. CASE UNCHANGED dbVars
    BY <2>2 DEF dbVars, Kept
  <2> QED BY <1>5, <1>6, <1>9, <2>1, <2>2 DEF DatabaseFails
<1> QED BY <1>1, <1>2, <1>3, <1>4, <1>7, <1>8, <1>9, RowsChangedBy

(* A worker's program is its own.                                          *)
LEMMA OthersIdle ==
    ASSUME Typed, Next, NEW u \in Types
    PROVE  \/ pc'[u] = pc[u] /\ cur'[u] = cur[u] /\ mem'[u] = mem[u]
           \/ Worker(u) \/ WorkerFault(u)
<1> USE DEF Typed, TypeOK, WorkerTypes, Goto
<1>1. ASSUME NEW t \in Types, t # u, RestartsBy(t)
      PROVE  pc'[u] = pc[u] /\ cur'[u] = cur[u] /\ mem'[u] = mem[u]
  <2>1. CASE RedisFails(t) /\ ~Escape(t)
    BY <1>1, <2>1 DEF RedisFails
  <2>2. CASE \E l : Restart(t, l)
    BY <1>1, <2>2 DEF Restart
  <2> QED BY <1>1, <2>1, <2>2
       DEF RestartsBy, PushEnds, StaleWrite, Ack, WorkerCrashes, DatabaseFails, Escape
<1>2. ASSUME NEW t \in Types, t # u,
             \/ Boot(t) \/ ReapEnds(t) \/ ScanQueue(t) \/ ScanProcessing(t) \/ Select(t)
             \/ Pop(t) \/ PopTimesOut(t) \/ Skip(t) \/ Load(t) \/ LoadAsset(t) \/ Start(t)
             \/ StartUnwritten(t) \/ WriteFile(t) \/ RenderSucceeds(t) \/ RenderFails(t)
             \/ RenderUnsupported(t) \/ CountFailure(t) \/ Commit(t) \/ Requeue(t)
             \/ Continue(t) \/ Maintain(t)
      PROVE  pc'[u] = pc[u] /\ cur'[u] = cur[u] /\ mem'[u] = mem[u]
  BY <1>2 DEF Boot, ReapEnds, ScanQueue, ScanProcessing, Select, Pop, PopTimesOut, Skip,
     Load, LoadAsset, Start, StartUnwritten, WriteFile, RenderSucceeds, RenderFails,
     RenderUnsupported, CountFailure, Commit, Requeue, Continue, Maintain
<1>3. CASE UNCHANGED <<pc, cur, mem>>
  BY <1>3
<1> QED BY <1>1, <1>2, <1>3, ProgramsChangedBy DEF RestartsBy, Worker, WorkerFault

(* The number of calls of the processor never goes down.                   *)
LEMMA RendersGrow ==
    ASSUME Typed, Next, NEW j \in Jobs
    PROVE  renders'[j] \in Nat /\ renders'[j] >= renders[j]
<1> USE DEF Typed, TypeOK, CounterTypes
<1>1. ASSUME NEW t \in Types, Start(t) \/ StartUnwritten(t)
      PROVE  renders' = renders \/ renders' = [renders EXCEPT ![cur[t]] = @ + 1]
  BY <1>1 DEF Start, StartUnwritten
<1>2. CASE UNCHANGED renders
  BY <1>2
<1> QED BY <1>1, <1>2, RendersChangedBy

(* What a session remembers stays true of its row, whoever takes the step. *)
LEMMA SessionStep ==
    ASSUME RowsAndSessions, Next, NEW u \in Types
    PROVE  SessionOf(u)'
<1> USE DEF RowsAndSessions, Typed, TypeOK
<1>1. SessionOf(u) /\ HandlesJob'
  BY HandlesJobStep DEF SessionShape
<1>2. CASE pc'[u] \notin Handling
  BY <1>2 DEF SessionOf
<1>3. CASE pc'[u] = pc[u] /\ cur'[u] = cur[u] /\ mem'[u] = mem[u] /\ pc[u] \in Handling
  <2> DEFINE j == cur[u]
  <2>1. j \in Jobs /\ request[j[1]] # "none" /\ TypeOf(j) = u
    BY <1>1, <1>3 DEF SessionOf, KnownIds, Held
  <2>2. job'[j] = job[j] \/ job'[j] = "absent"
    <3>1. ~Created(j)
      BY <2>1 DEF Created
    <3>2. ASSUME NEW t \in Types, cur[t] = j
          PROVE  t = u
      BY <2>1, <3>2 DEF KnownIds, Held
    <3>3. ~Begun(j) /\ ~Ended(j)
      BY <1>3, <3>2 DEF Begun, Ended, AfterCommit
    <3> QED BY <2>1, <3>1, <3>3, RowStep DEF Kept, Removed
  <2>3. renders'[j] \in Nat /\ renders'[j] >= renders[j] /\ renders[j] \in Nat
    BY <2>1, RendersGrow DEF CounterTypes
  <2> QED BY <1>1, <1>3, <2>1, <2>2, <2>3 DEF SessionOf, Rendered
<1>4. CASE Worker(u)
  <2>1. CASE Start(u)
    <3>1. /\ cur[u] \in Jobs /\ cur'[u] = cur[u] /\ pc'[u] = "render"
          /\ mem'[u] = "running" /\ WriteStatus(cur[u], "running")
          /\ renders' = [renders EXCEPT ![cur[u]] = @ + 1]
      BY <2>1 DEF Start, Goto, WorkerTypes, HandlesJob, Handling
    <3>2. job'[cur[u]] = "running"
      BY <3>1, WriteStatusRow
    <3>3. renders'[cur[u]] > 0
      BY <3>1 DEF CounterTypes
    <3> QED BY <3>1, <3>2, <3>3 DEF SessionOf, Rendered
  <2>2. CASE Commit(u)
    <3>1. /\ cur[u] \in Jobs /\ cur'[u] = cur[u] /\ pc'[u] = AfterCommit(mem[u])
          /\ mem[u] \in {"done", "failed", "queued"} /\ WriteOutcome(u)
      BY <1>1, <2>2 DEF Commit, Goto, WorkerTypes, SessionOf, Handling
    <3>2. job'[cur[u]] = mem[u]
      BY <3>1, WriteOutcomeRow
    <3> QED BY <3>1, <3>2 DEF SessionOf, Rendered, AfterCommit
  <2>3. CASE LoadAsset(u)
    <3>1. cur[u] \in Jobs
      BY <2>3 DEF LoadAsset, HandlesJob, Handling
    <3>2. asset[cur[u]] # "absent"
      BY <2>3, <3>1 DEF LoadAsset, RowsInStep, RowTypes, JobStatus, AssetFor
    <3>3. /\ pc[u] = "loadAsset" /\ pc'[u] = "start" /\ job' = job
          /\ cur' = cur /\ mem' = mem
      BY <2>3, <3>2 DEF LoadAsset, Goto, WorkerTypes
    <3> QED BY <1>1, <3>3 DEF SessionOf, Handling, Rendered
  <2>4. CASE Skip(u)
    <3>1. /\ pc[u] = "load" /\ pc'[u] = "ack" /\ job' = job /\ cur' = cur
          /\ job[cur[u]] # "running"
      BY <2>4 DEF Skip, Skippable, Goto, WorkerTypes, dbVars
    <3> QED BY <1>1, <3>1 DEF SessionOf, Handling, Rendered
  <2>5. CASE Load(u)
    <3>1. /\ pc[u] = "load" /\ pc'[u] = "loadAsset" /\ job' = job /\ cur' = cur
          /\ mem'[u] = job[cur[u]] /\ job[cur[u]] \notin {"absent", "done"}
      BY <2>5 DEF Load, Skippable, Goto, WorkerTypes, dbVars
    <3>2. cur[u] \in Jobs /\ job[cur[u]] \in {"queued", "running", "failed"}
      BY <1>1, <3>1 DEF SessionOf, Handling, RowTypes, JobStatus
    <3> QED BY <3>1, <3>2 DEF SessionOf, Rendered
  <2>6. CASE StartUnwritten(u)
    <3>1. /\ cur[u] \in Jobs /\ cur' = cur /\ job' = job /\ mem' = mem
          /\ job[cur[u]] = "absent" /\ mem[u] = "running"
          /\ \/ pc'[u] = "render" /\ renders' = [renders EXCEPT ![cur[u]] = @ + 1]
             \/ pc'[u] = "count"
      BY <2>6 DEF StartUnwritten, Goto, WorkerTypes, HandlesJob, Handling, dbVars
    <3> QED BY <3>1 DEF SessionOf, Rendered, CounterTypes
  <2>7. CASE WriteFile(u) \/ RenderSucceeds(u) \/ RenderFails(u) \/ RenderUnsupported(u)
             \/ CountFailure(u) \/ Requeue(u)
    <3>1. job' = job /\ cur' = cur /\ renders' = renders
      BY <2>7 DEF WriteFile, RenderSucceeds, RenderFails, RenderUnsupported, CountFailure,
         Requeue, dbVars
    <3>2. \/ pc[u] = "render" /\ pc'[u] = "written" /\ mem' = mem
          \/ pc[u] = "written" /\ pc'[u] = "commit" /\ mem'[u] = "done"
          \/ pc[u] \in {"render", "written"} /\ pc'[u] = "count" /\ mem' = mem
          \/ pc[u] \in {"render", "count"} /\ pc'[u] = "commit" /\ mem'[u] \in {"queued", "failed"}
          \/ pc[u] = "requeue" /\ pc'[u] = "ack"
      BY <2>7 DEF WriteFile, RenderSucceeds, RenderFails, RenderUnsupported, CountFailure,
         Requeue, Goto, WorkerTypes
    <3> QED BY <1>1, <3>1, <3>2 DEF SessionOf, Handling, Rendered
  <2>8. CASE Pop(u)
    <3>1. pc'[u] = "load"
      BY <2>8 DEF Pop, Goto, WorkerTypes
    <3> QED BY <1>1, <3>1 DEF SessionOf, HandlesJob, Handling, Rendered
  <2>9. CASE PushEnds(u) \/ StaleWrite(u) \/ Ack(u)
    <3>1. pc'[u] \in {"pop", "down", "check"}
      BY <2>9, EscapeLabel DEF PushEnds, StaleWrite, Ack, Restart, Goto, WorkerTypes
    <3> QED BY <1>2, <3>1 DEF Handling
  <2>10. CASE \/ Boot(u) \/ ReapEnds(u) \/ ScanQueue(u) \/ ScanProcessing(u) \/ Select(u)
              \/ PopTimesOut(u) \/ Continue(u) \/ Maintain(u)
    <3>1. pc'[u] \notin Handling
      BY <2>10 DEF Boot, ReapEnds, ScanQueue, ScanProcessing, Select, PopTimesOut, Continue,
         Maintain, Goto, WorkerTypes, Handling
    <3> QED BY <1>2, <3>1
  <2>11. CASE Reap(u) \/ Push(u)
    <3>1. pc' = pc
      BY <2>11 DEF Reap, Push, workerVars
    <3>2. pc[u] \notin Handling
      BY <2>11 DEF Reap, Push, Handling
    <3> QED BY <1>2, <3>1, <3>2
  <2> QED BY <1>4, <2>1, <2>2, <2>3, <2>4, <2>5, <2>6, <2>7, <2>8, <2>9, <2>10, <2>11
       DEF Worker
<1>5. CASE WorkerFault(u)
  <2>1. CASE WorkerCrashes(u) \/ DatabaseFails(u) \/ (RedisFails(u) /\ Escape(u))
    <3>1. pc'[u] \in {"pop", "down"}
      BY <2>1, EscapeLabel DEF WorkerCrashes, DatabaseFails, Restart, Goto, WorkerTypes
    <3> QED BY <1>2, <3>1 DEF Handling
  <2>2. CASE RedisFails(u) /\ ~Escape(u)
    <3>1. \/ pc'[u] = "check"
          \/ pc[u] = "count" /\ pc'[u] = "commit" /\ mem'[u] = "failed" /\ cur' = cur /\ job' = job
      BY <2>2 DEF RedisFails, Goto, WorkerTypes, dbVars
    <3> QED BY <1>1, <3>1 DEF SessionOf, Handling, Rendered
  <2>3. CASE ReplyLost(u)
    <3>1. pc' = pc /\ cur' = cur /\ mem' = mem
      BY <2>3 DEF ReplyLost, workerVars
    <3> QED BY <1>2, <1>3, <3>1
  <2> QED BY <1>5, <2>1, <2>2, <2>3 DEF WorkerFault
<1> QED BY <1>2, <1>3, <1>4, <1>5, OthersIdle

(* Job and asset change together.                                          *)
LEMMA RowsInStepStep == ASSUME RowsAndSessions, Next PROVE RowsInStep'
<1> USE DEF RowsAndSessions, Typed, TypeOK
<1> SUFFICES ASSUME NEW j \in Jobs
             PROVE  /\ asset'[j] = AssetFor(job'[j])
                    /\ asset'[j] = "done" <=> path'[j] # 0
  BY DEF RowsInStep
<1>1. asset[j] = AssetFor(job[j]) /\ (asset[j] = "done" <=> path[j] # 0)
      /\ job[j] \in JobStatus \cup {"absent"}
  BY DEF RowsInStep, RowTypes
<1>2. CASE Kept(j) \/ Created(j) \/ Removed(j)
  BY <1>1, <1>2 DEF Kept, Created, Removed, AssetFor
<1>3. CASE Begun(j)
  <2>1. job[j] \in {"queued", "running", "failed"}
    BY <1>3 DEF Begun, SessionShape, SessionOf, Handling
  <2> QED BY <1>1, <1>3, <2>1 DEF Begun, AssetFor
<1>4. CASE Ended(j)
  <2>1. PICK t \in Types :
          /\ pc[t] = "commit" /\ cur[t] = j /\ job[j] # "absent"
          /\ job'[j] = mem[t] /\ asset'[j] = AssetFor(mem[t])
          /\ path'[j] = IF mem[t] = "done" THEN renders[j] ELSE path[j]
    BY <1>4 DEF Ended
  <2>2. /\ mem[t] \in {"done", "failed", "queued"} /\ job[j] = "running"
        /\ mem[t] = "done" => renders[j] > 0
    BY <2>1 DEF SessionShape, SessionOf, Handling, Rendered
  <2>3. path[j] = 0 /\ renders[j] \in Nat
    BY <1>1, <2>2 DEF AssetFor, CounterTypes
  <2> QED BY <2>1, <2>2, <2>3 DEF AssetFor
<1> QED BY <1>2, <1>3, <1>4, RowStep

(* There are neither rows nor sessions at first.                           *)
LEMMA RowsAndSessionsInit == Init => RowsAndSessions
<1> SUFFICES ASSUME Init PROVE SessionShape /\ RowsInStep
  BY TypedInit, KnownIdsInit DEF RowsAndSessions
<1>1. SessionShape
  BY DEF Init, SessionShape, SessionOf, Handling
<1>2. RowsInStep
  BY DEF Init, RowsInStep, AssetFor
<1> QED BY <1>1, <1>2

(* Rows and sessions together are inductive.                               *)
LEMMA RowsAndSessionsStep == RowsAndSessions /\ [Next]_vars => RowsAndSessions'
<1>1. ASSUME RowsAndSessions, Next PROVE RowsAndSessions'
  <2>1. Typed'
    BY <1>1, TypedStep DEF RowsAndSessions
  <2>2. KnownIds'
    BY <1>1, KnownIdsStep DEF RowsAndSessions
  <2>3. SessionShape'
    BY <1>1, SessionStep DEF SessionShape
  <2> QED BY <1>1, <2>1, <2>2, <2>3, RowsInStepStep DEF RowsAndSessions
<1>2. ASSUME RowsAndSessions, UNCHANGED vars PROVE RowsAndSessions'
  <2>1. Typed'
    BY <1>2, TypedStep DEF RowsAndSessions
  <2>2. KnownIds' /\ SessionShape' /\ RowsInStep'
    BY <1>2 DEF RowsAndSessions, KnownIds, Held, SessionShape, SessionOf, Rendered,
       RowsInStep, vars, apiVars, dbVars, redisVars, workerVars
  <2> QED BY <2>1, <2>2 DEF RowsAndSessions
<1> QED BY <1>1, <1>2

(* Rows and sessions agree in every reachable state.                       *)
THEOREM RowsAndSessionsAlways == Spec => []RowsAndSessions
  BY RowsAndSessionsInit, RowsAndSessionsStep, PTL DEF Spec

(* A job and its asset tell the same story, whatever crashes, retries and  *)
(* deletions happen between the steps that write them.                     *)
THEOREM RowsAgree == Spec => []RowsInStep
<1>1. RowsAndSessions => RowsInStep
  BY DEF RowsAndSessions
<1> QED BY <1>1, RowsAndSessionsAlways, PTL

(* A done asset is final and a deleted job stays away, however many copies *)
(* of its id are left on the lists or in a worker's memory.                *)
THEOREM DoneStays == Spec => DoneIsFinal
<1>1. ASSUME RowsAndSessions, Next, NEW j \in Jobs
      PROVE  /\ job[j] = "done" =>
                   <<job'[j], path'[j]>> = <<job[j], path[j]>> \/ job'[j] = "absent"
             /\ deletion[j[1]] = "deleted" => job'[j] = "absent"
  <2>1. /\ deletion[j[1]] = "deleted" => job[j] = "absent"
        /\ request[j[1]] = "none" => deletion[j[1]] = "no"
    BY <1>1, JobFacts DEF RowsAndSessions, Typed, RequestShape
  <2>2. CASE Kept(j) \/ Created(j) \/ Removed(j)
    BY <2>1, <2>2 DEF Kept, Created, Removed
  <2>3. CASE Begun(j) \/ Ended(j)
    <3>1. job[j] \notin {"done", "absent"}
      BY <1>1, <2>3 DEF Begun, Ended, RowsAndSessions, SessionShape, SessionOf, Handling
    <3> QED BY <2>1, <3>1
  <2> QED BY <1>1, <2>2, <2>3, RowStep DEF RowsAndSessions
<1>2. RowsAndSessions /\ [Next]_vars =>
        [\A j \in Jobs :
          /\ job[j] = "done" => <<job[j], path[j]>>' = <<job[j], path[j]>> \/ job'[j] = "absent"
          /\ deletion[j[1]] = "deleted" => job'[j] = "absent"]_vars
  BY <1>1
<1> QED BY <1>2, RowsAndSessionsAlways, PTL DEF Spec, DoneIsFinal

-----------------------------------------------------------------------------
(* The pipeline implements AssetLifecycle.                                 *)

(* A pipeline without poems is a life cycle that has not begun.            *)
LEMMA LifecycleInit == Init => Lifecycle!Init
  BY JobFacts DEF Init, Lifecycle!Init, Seen, UrlOf

(* To store a poem is to create its assets.                                *)
LEMMA LifecyclePersist ==
    ASSUME RowsAndSessions, NEW p \in Poems, NEW S \in SUBSET Types, PersistPoem(p, S)
    PROVE  Lifecycle!Next
<1> USE DEF RowsAndSessions, Typed, TypeOK
<1> DEFINE A == {p} \X S
<1>1. A \in SUBSET Jobs
  BY DEF Jobs
<1>2. ASSUME NEW j \in A
      PROVE  Seen(j) = "new" /\ Seen(j)' = "pending"
  <2>1. j \in Jobs /\ j[1] = p
    BY <1>1
  <2>2. job[j] = "absent" /\ deletion[p] = "no"
    BY <2>1 DEF PersistPoem, RequestShape
  <2>3. asset[j] = "absent"
    BY <2>1, <2>2 DEF RowsInStep, AssetFor
  <2>4. asset'[j] = "pending"
    BY <2>1 DEF PersistPoem
  <2> QED BY <2>1, <2>2, <2>3, <2>4 DEF Seen
<1>3. ASSUME NEW j \in Jobs, j \notin A
      PROVE  Seen(j)' = Seen(j)
  BY <1>3 DEF PersistPoem, Seen
<1>4. ASSUME NEW j \in Jobs
      PROVE  UrlOf(j)' = UrlOf(j)
  BY DEF PersistPoem, UrlOf
<1> HIDE DEF A
<1>5. Lifecycle!Create(A)
  BY <1>1, <1>2, <1>3, <1>4 DEF Lifecycle!Create
<1> QED BY <1>1, <1>5 DEF Lifecycle!Next

(* To delete the rows of a poem is to delete its assets.                   *)
LEMMA LifecycleDelete ==
    ASSUME RowsAndSessions, NEW p \in Poems, DeleteRows(p)
    PROVE  Lifecycle!Next
<1> USE DEF RowsAndSessions, Typed, TypeOK
<1> DEFINE A == JobsOf(p)
<1>1. A \in SUBSET Jobs /\ \A j \in Jobs : j \in A <=> j[1] = p
  BY DEF JobsOf
<1>2. ASSUME NEW j \in Jobs, j[1] = p
      PROVE  Seen(j)' = "gone" /\ UrlOf(j)' = "null"
  BY <1>2 DEF DeleteRows, Seen, UrlOf, ApiTypes
<1>3. ASSUME NEW j \in Jobs, j[1] # p
      PROVE  Seen(j)' = Seen(j) /\ UrlOf(j)' = UrlOf(j)
  BY <1>3, JobFacts DEF DeleteRows, Seen, UrlOf, ApiTypes
<1> HIDE DEF A
<1>4. Lifecycle!Delete(A)
  BY <1>1, <1>2, <1>3 DEF Lifecycle!Delete
<1> QED BY <1>1, <1>4 DEF Lifecycle!Next

(* The attempt at job k begins, or begins once more.                       *)
LEMMA LifecycleBegin ==
    ASSUME RowsAndSessions, NEW t \in Types, NEW k \in Jobs, cur[t] = k,
           pc[t] = "start", job[k] # "absent",
           WriteStatus(k, "running"), UNCHANGED <<path, deletion>>
    PROVE  [Lifecycle!Next]_(Lifecycle!vars)
<1> USE DEF RowsAndSessions, Typed, TypeOK
<1>1. job[k] \in {"queued", "running", "failed"}
  BY DEF SessionShape, SessionOf, Handling
<1>2. Seen(k) \in {"pending", "running", "failed"} /\ Seen(k)' = "running"
  <2>1. asset[k] \in {"pending", "running", "failed"}
    BY <1>1 DEF RowsInStep, AssetFor
  <2>2. asset'[k] = "running"
    BY <1>1, WriteStatusRow DEF AssetFor
  <2> QED BY <2>1, <2>2 DEF Seen
<1>3. ASSUME NEW j \in Jobs, j # k
      PROVE  Seen(j)' = Seen(j)
  BY <1>1, <1>3, WriteStatusRow DEF Seen
<1>4. ASSUME NEW j \in Jobs
      PROVE  UrlOf(j)' = UrlOf(j)
  BY DEF UrlOf
<1>5. CASE Seen(k) = "running"
  BY <1>1, <1>2, <1>3, <1>4, <1>5 DEF Lifecycle!vars
<1>6. CASE Seen(k) # "running"
  <2>1. Lifecycle!Begin(k)
    BY <1>1, <1>2, <1>3, <1>4, <1>6 DEF Lifecycle!Begin
  <2> QED BY <2>1 DEF Lifecycle!Next
<1> QED BY <1>5, <1>6

(* The attempt at job k ends in one of three ways.                         *)
LEMMA LifecycleEnd ==
    ASSUME RowsAndSessions, NEW t \in Types, NEW k \in Jobs, cur[t] = k,
           pc[t] = "commit", job[k] # "absent", WriteOutcome(t), UNCHANGED deletion
    PROVE  Lifecycle!Next
<1> USE DEF RowsAndSessions, Typed, TypeOK
<1>1. /\ job[k] = "running" /\ mem[t] \in {"done", "failed", "queued"}
      /\ mem[t] = "done" => renders[k] > 0
  BY DEF SessionShape, SessionOf, Handling, Rendered
<1>2. Seen(k) = "running"
  BY <1>1 DEF RowsInStep, AssetFor, Seen
<1>3. /\ asset'[k] = AssetFor(mem[t])
      /\ path'[k] = IF mem[t] = "done" THEN renders[k] ELSE path[k]
  BY <1>1, WriteOutcomeRow
<1>4. ASSUME NEW j \in Jobs, j # k
      PROVE  Seen(j)' = Seen(j) /\ UrlOf(j)' = UrlOf(j)
  BY <1>1, <1>4, WriteOutcomeRow DEF Seen, UrlOf, Kept
<1>5. CASE mem[t] = "done"
  <2>1. Seen(k)' = "done" /\ UrlOf(k)' = "given"
    BY <1>1, <1>3, <1>5 DEF Seen, UrlOf, AssetFor, CounterTypes
  <2>2. Lifecycle!Succeed(k)
    BY <1>1, <1>2, <1>4, <2>1 DEF Lifecycle!Succeed
  <2> QED BY <2>2 DEF Lifecycle!Next
<1>6. CASE mem[t] = "queued"
  <2>1. Seen(k)' = "pending" /\ UrlOf(k)' = UrlOf(k)
    BY <1>3, <1>6 DEF Seen, UrlOf, AssetFor
  <2>2. Lifecycle!Retry(k)
    BY <1>1, <1>2, <1>4, <2>1 DEF Lifecycle!Retry
  <2> QED BY <2>2 DEF Lifecycle!Next
<1>7. CASE mem[t] = "failed"
  <2>1. Seen(k)' = "failed" /\ UrlOf(k)' = UrlOf(k)
    BY <1>3, <1>7 DEF Seen, UrlOf, AssetFor
  <2>2. Lifecycle!GiveUp(k)
    BY <1>1, <1>2, <1>4, <2>1 DEF Lifecycle!GiveUp
  <2> QED BY <2>2 DEF Lifecycle!Next
<1> QED BY <1>1, <1>5, <1>6, <1>7

(* Every other step leaves what a client sees as it is.                    *)
LEMMA LifecycleStutters ==
    ASSUME Typed, UNCHANGED <<job, asset, path>>,
           \A p \in Poems : deletion'[p] = "deleted" <=> deletion[p] = "deleted"
    PROVE  UNCHANGED Lifecycle!vars
<1>1. ASSUME NEW j \in Jobs
      PROVE  Seen(j)' = Seen(j) /\ UrlOf(j)' = UrlOf(j)
  <2>1. deletion'[j[1]] = "deleted" <=> deletion[j[1]] = "deleted"
    BY JobFacts
  <2> QED BY <2>1 DEF Seen, UrlOf
<1> QED BY <1>1 DEF Lifecycle!vars

(* Every step is one of the life cycle, or one that no client can see.     *)
LEMMA LifecycleStep == RowsAndSessions /\ [Next]_vars => [Lifecycle!Next]_(Lifecycle!vars)
<1> SUFFICES ASSUME RowsAndSessions, [Next]_vars
             PROVE  [Lifecycle!Next]_(Lifecycle!vars)
  OBVIOUS
<1> USE DEF RowsAndSessions
<1>1. ASSUME NEW p \in Poems, NEW S \in SUBSET Types, PersistPoem(p, S)
      PROVE  Lifecycle!Next
  BY <1>1, LifecyclePersist
<1>2. ASSUME NEW p \in Poems, DeleteRows(p)
      PROVE  Lifecycle!Next
  BY <1>2, LifecycleDelete
<1>3. ASSUME NEW t \in Types, Start(t)
      PROVE  [Lifecycle!Next]_(Lifecycle!vars)
  <2>1. cur[t] \in Jobs /\ UNCHANGED deletion
    BY <1>3 DEF Start, Typed, HandlesJob, Handling, apiVars
  <2> QED BY <1>3, <2>1, LifecycleBegin DEF Start
<1>4. ASSUME NEW t \in Types, Commit(t)
      PROVE  Lifecycle!Next
  <2>1. cur[t] \in Jobs /\ UNCHANGED deletion
    BY <1>4 DEF Commit, Typed, HandlesJob, Handling, apiVars
  <2> QED BY <1>4, <2>1, LifecycleEnd DEF Commit
<1>5. ASSUME Next, UNCHANGED <<job, asset, path>>, ~(\E p \in Poems : DeleteRows(p))
      PROVE  UNCHANGED Lifecycle!vars
  <2>1. ASSUME NEW p \in Poems
        PROVE  deletion'[p] = "deleted" <=> deletion[p] = "deleted"
    BY <1>5, DeletionsChangedBy DEF DeleteFiles, DeleteFails, Live, Typed, TypeOK, ApiTypes
  <2> QED BY <1>5, <2>1, LifecycleStutters
<1>6. ASSUME NEW t \in Types, LoadAsset(t)
      PROVE  UNCHANGED Lifecycle!vars
  <2>1. cur[t] \in Jobs
    BY <1>6 DEF LoadAsset, Typed, HandlesJob, Handling
  <2>2. asset[cur[t]] = "absent" => job[cur[t]] = "absent"
    BY <2>1 DEF RowsInStep, Typed, TypeOK, RowTypes, JobStatus, AssetFor
  <2>3. UNCHANGED <<job, asset, path, deletion>>
    BY <1>6, <2>2 DEF LoadAsset, apiVars
  <2> QED BY <2>3, LifecycleStutters
<1>7. ASSUME NEW t \in Types, DatabaseFails(t)
      PROVE  [Lifecycle!Next]_(Lifecycle!vars)
  <2>1. UNCHANGED deletion
    BY <1>7 DEF DatabaseFails, apiVars
  <2>2. CASE UNCHANGED dbVars
    BY <2>1, <2>2, LifecycleStutters DEF dbVars
  <2>3. CASE /\ pc[t] = "start" /\ job[cur[t]] # "absent"
             /\ WriteStatus(cur[t], "running") /\ UNCHANGED path
    <3>1. cur[t] \in Jobs
      BY <2>3 DEF Typed, HandlesJob, Handling
    <3> QED BY <2>1, <2>3, <3>1, LifecycleBegin
  <2>4. CASE pc[t] = "commit" /\ job[cur[t]] # "absent" /\ WriteOutcome(t)
    <3>1. cur[t] \in Jobs
      BY <2>4 DEF Typed, HandlesJob, Handling
    <3> QED BY <2>1, <2>4, <3>1, LifecycleEnd
  <2> QED BY <1>7, <2>2, <2>3, <2>4 DEF DatabaseFails
<1>8. CASE UNCHANGED vars
  BY <1>8, LifecycleStutters DEF vars, apiVars, dbVars
<1> QED BY <1>1, <1>2, <1>3, <1>4, <1>5, <1>6, <1>7, <1>8, RowsChangedBy

(* Seen from the asset rows, the requests, the queue, the workers and the  *)
(* faults are a behaviour of AssetLifecycle.                               *)
THEOREM PipelineImplementsLifecycle == Spec => ImplementsLifecycle
  BY LifecycleInit, LifecycleStep, RowsAndSessionsAlways, PTL
     DEF Spec, ImplementsLifecycle, Lifecycle!Spec

-----------------------------------------------------------------------------
(* What the lists lose in one step, and what they keep.                    *)

(* An id leaves a queue only towards the processing list.                  *)
LEMMA QueueLoses ==
    ASSUME Typed, Next, "flush" \notin FaultKinds,
           NEW t \in Types, NEW j \in Jobs, Contains(queue[t], j)
    PROVE  Contains(queue'[t], j) \/ (pc[t] = "pop" /\ Contains(processing'[t], j))
<1> DEFINE Goal == Contains(queue'[t], j) \/ (pc[t] = "pop" /\ Contains(processing'[t], j))
<1>1. /\ queue \in [Types -> Seq(Jobs)]
      /\ processing \in [Types -> Seq(Jobs)]
      /\ \A u \in Types : queue[u] \in Seq(Jobs) /\ processing[u] \in Seq(Jobs)
  BY DEF Typed, TypeOK, ListTypes
<1>2. ASSUME NEW u \in Types, NEW k \in Jobs, queue' = [queue EXCEPT ![u] = Append(@, k)]
      PROVE  Goal
  BY <1>1, <1>2, ContainsAppend
<1>3. ASSUME NEW u \in Types, pc[u] = "pop", queue[u] # <<>>,
             queue' = [queue EXCEPT ![u] = Tail(@)], Reserve(u)
      PROVE  Goal
  <2>1. /\ Head(queue[u]) \in Jobs
        /\ Contains(queue[u], j) <=> Contains(Tail(queue[u]), j) \/ j = Head(queue[u])
    BY <1>1, <1>3, ContainsTail
  <2>2. Contains(processing'[u], Head(queue[u]))
    BY <1>1, <1>3, <2>1, ContainsAppend DEF Reserve
  <2>3. queue'[t] = IF t = u THEN Tail(queue[u]) ELSE queue[t]
    BY <1>1, <1>3
  <2> QED BY <1>3, <2>1, <2>2, <2>3
<1>4. ASSUME NEW p \in Poems, Enqueue(p) \/ EnqueueReplyLost(p)
      PROVE  Goal
  <2> DEFINE u == FirstOwed(owed[p])
  <2>1. /\ request[p] = "enqueue"
        /\ queue' = [queue EXCEPT ![u] = Append(@, <<p, u>>)]
    BY <1>4 DEF Enqueue, EnqueueReplyLost
  <2>2. u \in Types /\ <<p, u>> \in Jobs
    BY <2>1, EnqueueFacts
  <2> QED BY <1>2, <2>1, <2>2
<1>5. ASSUME NEW u \in Types, Reap(u)
      PROVE  Goal
  <2>1. /\ processing[u] # <<>>
        /\ queue' = [queue EXCEPT ![u] = Cons(Head(processing[u]), queue[u])]
    BY <1>5 DEF Reap
  <2>2. Head(processing[u]) \in Jobs
    BY <1>1, <2>1, ContainsTail
  <2>3. Contains(Cons(Head(processing[u]), queue[u]), j) \/ ~Contains(queue[u], j)
    BY <1>1, <2>2, ContainsCons
  <2>4. queue'[t] = IF t = u THEN Cons(Head(processing[u]), queue[u]) ELSE queue[t]
    BY <1>1, <2>1
  <2> QED BY <2>3, <2>4
<1>6. ASSUME NEW u \in Types, Push(u) \/ (pc[u] = "push" /\ ReplyLost(u))
      PROVE  Goal
  <2>1. \E k \in scan[u] : queue' = [queue EXCEPT ![u] = Append(@, k)]
    BY <1>6 DEF Push, ReplyLost
  <2>2. scan[u] \subseteq Jobs
    BY DEF Typed, TypeOK, WorkerTypes
  <2> QED BY <1>2, <2>1, <2>2
<1>7. ASSUME NEW u \in Types, Pop(u) \/ (pc[u] = "pop" /\ ReplyLost(u))
      PROVE  Goal
  BY <1>3, <1>7 DEF Pop, ReplyLost
<1>8. ASSUME NEW u \in Types, Requeue(u) \/ (pc[u] = "requeue" /\ ReplyLost(u))
      PROVE  Goal
  <2>1. pc[u] = "requeue" /\ queue' = [queue EXCEPT ![u] = Append(@, cur[u])]
    BY <1>8 DEF Requeue, ReplyLost
  <2>2. cur[u] \in Jobs
    BY <2>1 DEF Typed, HandlesJob, Handling
  <2> QED BY <1>2, <2>1, <2>2
<1>9. ASSUME NEW u \in Types, Ack(u) \/ (pc[u] \in {"count", "ack"} /\ ReplyLost(u))
      PROVE  Goal
  BY <1>9 DEF Ack, ReplyLost
<1>10. ~RedisLosesData
  BY DEF RedisLosesData, Fault
<1>11. \A u \in Types : ReplyLost(u) => pc[u] \in {"push", "pop", "count", "requeue", "ack"}
  BY DEF ReplyLost
<1>12. CASE UNCHANGED <<queue, processing>>
  BY <1>12
<1> QED BY <1>4, <1>5, <1>6, <1>7, <1>8, <1>9, <1>10, <1>11, <1>12, ListsChangedBy

(* An id leaves a processing list towards the queue, in the hands of the   *)
(* reaper, or because its worker acknowledges it.                          *)
LEMMA ProcessingLoses ==
    ASSUME Typed, Next, "flush" \notin FaultKinds,
           NEW t \in Types, NEW j \in Jobs, Contains(processing[t], j)
    PROVE  \/ Contains(processing'[t], j)
           \/ pc[t] = "reap" /\ Contains(queue'[t], j)
           \/ pc[t] = "ack" /\ cur[t] = j
<1> DEFINE Goal == \/ Contains(processing'[t], j)
                   \/ pc[t] = "reap" /\ Contains(queue'[t], j)
                   \/ pc[t] = "ack" /\ cur[t] = j
<1>1. /\ queue \in [Types -> Seq(Jobs)]
      /\ processing \in [Types -> Seq(Jobs)]
      /\ \A u \in Types : queue[u] \in Seq(Jobs) /\ processing[u] \in Seq(Jobs)
  BY DEF Typed, TypeOK, ListTypes
<1>2. ASSUME NEW u \in Types, queue[u] # <<>>, Reserve(u)
      PROVE  Goal
  <2>1. Head(queue[u]) \in Jobs
    BY <1>1, <1>2, ContainsTail
  <2> QED BY <1>1, <1>2, <2>1, ContainsAppend DEF Reserve
<1>3. ASSUME NEW u \in Types, Reap(u)
      PROVE  Goal
  <2>1. /\ pc[u] = "reap" /\ processing[u] # <<>>
        /\ queue' = [queue EXCEPT ![u] = Cons(Head(processing[u]), queue[u])]
        /\ processing' = [processing EXCEPT ![u] = Tail(processing[u])]
    BY <1>3 DEF Reap
  <2>2. /\ Head(processing[u]) \in Jobs
        /\ Contains(processing[u], j) <=> Contains(Tail(processing[u]), j) \/ j = Head(processing[u])
    BY <1>1, <2>1, ContainsTail
  <2>3. Contains(queue'[u], Head(processing[u]))
    <3>1. Contains(Cons(Head(processing[u]), queue[u]), Head(processing[u]))
      BY <1>1, <2>2, ContainsCons
    <3>2. queue'[u] = Cons(Head(processing[u]), queue[u])
      BY <1>1, <2>1
    <3> QED BY <3>1, <3>2
  <2>4. processing'[t] = IF t = u THEN Tail(processing[u]) ELSE processing[t]
    BY <1>1, <2>1
  <2> QED BY <2>1, <2>2, <2>3, <2>4
<1>4. ASSUME NEW u \in Types, pc[u] = "ack", Acknowledge(u)
      PROVE  Goal
  <2>1. /\ \A v \in Types : v # u => processing'[v] = processing[v]
        /\ \A e : e # cur[u] /\ Contains(processing[u], e) => Contains(processing'[u], e)
    BY <1>1, <1>4, AcknowledgeList
  <2>2. CASE u # t
    BY <2>1, <2>2
  <2>3. CASE u = t
    BY <1>4, <2>1, <2>3
  <2> QED BY <2>2, <2>3
<1>5. CASE UNCHANGED processing
  BY <1>5
<1>6. ~RedisLosesData
  BY DEF RedisLosesData, Fault
<1> QED BY <1>2, <1>3, <1>4, <1>5, <1>6, ListsChangedBy
     DEF Enqueue, EnqueueReplyLost, Push, Pop, Requeue, Ack, ReplyLost

(* So an id leaves both lists by the acknowledgement of its worker only.   *)
LEMMA ParkedLoses ==
    ASSUME Typed, Next, "flush" \notin FaultKinds, NEW j \in Jobs, Parked(j), ~Parked(j)'
    PROVE  /\ pc[TypeOf(j)] = "ack" /\ cur[TypeOf(j)] = j
           /\ ~Contains(queue[TypeOf(j)], j)
  BY JobFacts, QueueLoses, ProcessingLoses DEF Parked

-----------------------------------------------------------------------------
(* Where a worker's program comes from.                                    *)

(* A worker enters the handling of an id by popping it, and nothing else.  *)
LEMMA HandlingComes ==
    ASSUME Typed, Next, NEW t \in Types, pc'[t] \in Handling
    PROVE  Pop(t) \/ (pc[t] \in Handling /\ cur'[t] = cur[t])
<1> USE DEF Typed, TypeOK, WorkerTypes
<1>1. CASE pc'[t] = pc[t] /\ cur'[t] = cur[t] /\ mem'[t] = mem[t]
  BY <1>1
<1>2. CASE Worker(t)
  <2>1. CASE PushEnds(t) \/ StaleWrite(t) \/ Ack(t)
    <3>1. pc'[t] \in {"pop", "down", "check"}
      BY <2>1, EscapeLabel DEF PushEnds, StaleWrite, Ack, Restart, Goto
    <3> QED BY <3>1 DEF Handling
  <2>2. CASE \/ Boot(t) \/ ReapEnds(t) \/ ScanQueue(t) \/ ScanProcessing(t) \/ Select(t)
             \/ PopTimesOut(t) \/ Continue(t) \/ Maintain(t)
    <3>1. pc'[t] \in {"reap", "scanQueue", "scanProcessing", "select", "push", "check", "pop"}
      BY <2>2 DEF Boot, ReapEnds, ScanQueue, ScanProcessing, Select, PopTimesOut, Continue,
         Maintain, Goto
    <3> QED BY <3>1 DEF Handling
  <2>3. CASE \/ Skip(t) \/ Load(t) \/ LoadAsset(t) \/ Start(t) \/ StartUnwritten(t)
             \/ WriteFile(t) \/ RenderSucceeds(t) \/ RenderFails(t) \/ RenderUnsupported(t)
             \/ CountFailure(t) \/ Commit(t) \/ Requeue(t)
    BY <2>3 DEF Skip, Load, LoadAsset, Start, StartUnwritten, WriteFile, RenderSucceeds,
       RenderFails, RenderUnsupported, CountFailure, Commit, Requeue, Handling
  <2>4. CASE Reap(t) \/ Push(t)
    BY <2>4 DEF Reap, Push, workerVars
  <2> QED BY <1>2, <2>1, <2>2, <2>3, <2>4 DEF Worker
<1>3. CASE WorkerFault(t)
  <2>1. CASE WorkerCrashes(t) \/ DatabaseFails(t) \/ (RedisFails(t) /\ Escape(t))
    <3>1. pc'[t] \in {"pop", "down"}
      BY <2>1, EscapeLabel DEF WorkerCrashes, DatabaseFails, Restart, Goto
    <3> QED BY <3>1 DEF Handling
  <2>2. CASE RedisFails(t) /\ ~Escape(t)
    <3>1. pc'[t] = "check" \/ (pc[t] = "count" /\ cur' = cur)
      BY <2>2 DEF RedisFails, Goto
    <3> QED BY <3>1 DEF Handling
  <2>3. CASE ReplyLost(t)
    BY <2>3 DEF ReplyLost, workerVars
  <2> QED BY <1>3, <2>1, <2>2, <2>3 DEF WorkerFault
<1> QED BY <1>1, <1>2, <1>3, OthersIdle

(* A worker comes to its ack by skipping the id, by committing an outcome  *)
(* that is no retry, or by putting the id on the queue again.              *)
LEMMA AckComes ==
    ASSUME RowsAndSessions, Next, NEW t \in Types, pc'[t] = "ack"
    PROVE  \/ pc[t] = "ack" /\ cur'[t] = cur[t]
           \/ Skip(t) \/ (Commit(t) /\ mem[t] # "queued") \/ Requeue(t)
<1> USE DEF RowsAndSessions, Typed, TypeOK, WorkerTypes
<1>1. CASE pc'[t] = pc[t] /\ cur'[t] = cur[t] /\ mem'[t] = mem[t]
  BY <1>1
<1>2. CASE Worker(t)
  <2>1. CASE PushEnds(t) \/ StaleWrite(t) \/ Ack(t)
    <3>1. pc'[t] \in {"pop", "down", "check"}
      BY <2>1, EscapeLabel DEF PushEnds, StaleWrite, Ack, Restart, Goto
    <3> QED BY <3>1
  <2>2. CASE \/ Boot(t) \/ ReapEnds(t) \/ ScanQueue(t) \/ ScanProcessing(t) \/ Select(t)
             \/ Pop(t) \/ PopTimesOut(t) \/ Continue(t) \/ Maintain(t) \/ Load(t) \/ Start(t)
             \/ StartUnwritten(t) \/ WriteFile(t) \/ RenderSucceeds(t) \/ RenderFails(t)
             \/ RenderUnsupported(t) \/ CountFailure(t)
    BY <2>2 DEF Boot, ReapEnds, ScanQueue, ScanProcessing, Select, Pop, PopTimesOut, Continue,
       Maintain, Load, Start, StartUnwritten, WriteFile, RenderSucceeds, RenderFails,
       RenderUnsupported, CountFailure, Goto
  <2>3. CASE LoadAsset(t)
    <3>1. cur[t] \in Jobs
      BY <2>3 DEF LoadAsset, HandlesJob, Handling
    <3>2. asset[cur[t]] # "absent"
      BY <2>3, <3>1 DEF LoadAsset, RowsInStep, RowTypes, JobStatus, AssetFor
    <3> QED BY <2>3, <3>2 DEF LoadAsset, Goto
  <2>4. CASE Commit(t)
    BY <2>4 DEF Commit, AfterCommit, Goto
  <2>5. CASE Reap(t) \/ Push(t)
    BY <2>5 DEF Reap, Push, workerVars
  <2> QED BY <1>2, <2>1, <2>2, <2>3, <2>4, <2>5 DEF Worker
<1>3. CASE WorkerFault(t)
  <2>1. CASE WorkerCrashes(t) \/ DatabaseFails(t) \/ (RedisFails(t) /\ Escape(t))
    <3>1. pc'[t] \in {"pop", "down"}
      BY <2>1, EscapeLabel DEF WorkerCrashes, DatabaseFails, Restart, Goto
    <3> QED BY <3>1
  <2>2. CASE RedisFails(t) /\ ~Escape(t)
    BY <2>2 DEF RedisFails, Goto
  <2>3. CASE ReplyLost(t)
    BY <2>3 DEF ReplyLost, workerVars
  <2> QED BY <1>3, <2>1, <2>2, <2>3 DEF WorkerFault
<1> QED BY <1>1, <1>2, <1>3, OthersIdle

-----------------------------------------------------------------------------
(* No open job is lost.                                                    *)

Delivered == RowsAndSessions /\ InFlight /\ RunningIsParked /\ QueuedIsParkedOrOwed

(* The id in a worker's hands is one of its own type, and its row exists   *)
(* or was deleted: no request is about to create it.                       *)
LEMMA CurKnown ==
    ASSUME RowsAndSessions, NEW t \in Types, pc[t] \in Handling
    PROVE  /\ cur[t] \in Jobs /\ TypeOf(cur[t]) = t
           /\ request[cur[t][1]] # "none" /\ ~Created(cur[t])
  BY DEF RowsAndSessions, Typed, HandlesJob, KnownIds, Held, Created

(* An id in a worker's hands stays where the worker can be expected to     *)
(* leave it.                                                               *)
LEMMA InFlightStep == ASSUME Delivered, Next PROVE InFlight'
<1> USE DEF Delivered
<1> SUFFICES ASSUME "flush" \notin FaultKinds, NEW t \in Types
             PROVE  /\ pc'[t] \in Handling \ {"ack"} => Contains(processing'[t], cur'[t])
                    /\ pc'[t] = "ack" /\ job'[cur'[t]] = "queued" => Contains(queue'[t], cur'[t])
  BY DEF InFlight
<1>0. Typed /\ queue \in [Types -> Seq(Jobs)] /\ processing \in [Types -> Seq(Jobs)]
  BY DEF RowsAndSessions, Typed, TypeOK, ListTypes
<1>1. ASSUME pc'[t] \in Handling \ {"ack"}
      PROVE  Contains(processing'[t], cur'[t])
  <2>1. CASE Pop(t)
    <3>1. queue[t] \in Seq(Jobs) /\ queue[t] # <<>> /\ processing[t] \in Seq(Jobs)
      BY <1>0, <2>1 DEF Pop
    <3>2. Head(queue[t]) \in Jobs
      BY <3>1, ContainsTail
    <3>3. /\ processing'[t] = Append(processing[t], Head(queue[t]))
          /\ cur'[t] = Head(queue[t])
      BY <1>0, <2>1 DEF Pop, Reserve, Typed, TypeOK, WorkerTypes
    <3> QED BY <3>1, <3>2, <3>3, ContainsAppend
  <2>2. CASE pc[t] \in Handling /\ cur'[t] = cur[t]
    <3>1. pc[t] # "ack"
      <4>1. ~Worker(t) \/ pc[t] # "ack"
        BY <1>0, <1>1 DEF Worker, Boot, Reap, ReapEnds, ScanQueue, ScanProcessing, Select, Push,
           PushEnds, Pop, PopTimesOut, Skip, Load, LoadAsset, Start, StartUnwritten, StaleWrite,
           WriteFile, RenderSucceeds, RenderFails, RenderUnsupported, CountFailure, Commit,
           Requeue, Ack, Continue, Maintain, Restart, Goto, Typed, TypeOK, WorkerTypes, Handling
      <4>2. ~WorkerFault(t) \/ pc[t] # "ack"
        <5> SUFFICES ASSUME WorkerFault(t), pc[t] = "ack" PROVE FALSE
          OBVIOUS
        <5>1. CASE WorkerCrashes(t) \/ DatabaseFails(t) \/ Escape(t)
          <6>1. pc'[t] \in {"pop", "down"}
            BY <1>0, <5>1, EscapeLabel
               DEF WorkerCrashes, DatabaseFails, Restart, Goto, Typed, TypeOK, WorkerTypes
          <6> QED BY <1>1, <6>1 DEF Handling
        <5>2. CASE ReplyLost(t)
          BY <1>1, <5>2 DEF ReplyLost, workerVars
        <5> QED BY <5>1, <5>2 DEF WorkerFault, RedisFails
      <4> QED BY <1>0, <1>1, <4>1, <4>2, OthersIdle
    <3>2. cur[t] \in Jobs /\ Contains(processing[t], cur[t])
      BY <2>2, <3>1, CurKnown DEF InFlight
    <3>3. pc[t] # "reap"
      BY <2>2 DEF Handling
    <3> QED BY <1>0, <2>2, <3>1, <3>2, <3>3, ProcessingLoses
  <2> QED BY <1>0, <1>1, <2>1, <2>2, HandlingComes
<1>2. ASSUME pc'[t] = "ack", job'[cur'[t]] = "queued"
      PROVE  Contains(queue'[t], cur'[t])
  <2>1. CASE pc[t] = "ack" /\ cur'[t] = cur[t]
    <3>1. cur[t] \in Jobs /\ ~Created(cur[t])
      BY <2>1, CurKnown DEF Handling
    <3>2. ASSUME NEW u \in Types, pc[u] \in Handling, cur[u] = cur[t]
          PROVE  u = t
      BY <2>1, <3>2, CurKnown DEF Handling
    <3>3. ~Begun(cur[t]) /\ ~Ended(cur[t])
      BY <2>1, <3>2 DEF Begun, Ended, Handling
    <3>4. job[cur[t]] = "queued"
      BY <1>2, <2>1, <3>1, <3>3, RowStep DEF RowsAndSessions, Kept, Removed
    <3>5. Contains(queue[t], cur[t])
      BY <2>1, <3>4 DEF InFlight
    <3> QED BY <1>0, <2>1, <3>1, <3>5, QueueLoses
  <2>2. CASE Skip(t)
    BY <1>2, <2>2 DEF Skip, Skippable, dbVars
  <2>3. CASE Commit(t) /\ mem[t] # "queued"
    <3>1. cur[t] \in Jobs /\ cur' = cur /\ WriteOutcome(t)
      BY <2>3, CurKnown DEF Commit, Handling
    <3>2. job'[cur[t]] = mem[t]
      BY <1>0, <3>1, WriteOutcomeRow DEF Typed, TypeOK
    <3> QED BY <1>2, <2>3, <3>1, <3>2
  <2>4. CASE Requeue(t)
    <3>1. /\ cur[t] \in Jobs /\ cur' = cur /\ queue[t] \in Seq(Jobs)
          /\ queue'[t] = Append(queue[t], cur[t])
      BY <1>0, <2>4, CurKnown DEF Requeue, Handling
    <3> QED BY <3>1, ContainsAppend
  <2> QED BY <1>2, <2>1, <2>2, <2>3, <2>4, AckComes
<1> QED BY <1>1, <1>2

(* A job becomes running, or is running, only while its id is on a list.   *)
LEMMA RunningIsParkedStep == ASSUME Delivered, Next PROVE RunningIsParked'
<1> USE DEF Delivered
<1> SUFFICES ASSUME "flush" \notin FaultKinds, NEW j \in Jobs, job'[j] = "running"
             PROVE  Parked(j)'
  BY DEF RunningIsParked
<1>1. Typed
  BY DEF RowsAndSessions
<1>2. CASE job[j] = "running"
  <2>1. Parked(j)
    BY <1>2 DEF RunningIsParked
  <2>2. ~(pc[TypeOf(j)] = "ack" /\ cur[TypeOf(j)] = j)
    BY <1>2, JobFacts DEF RowsAndSessions, SessionShape, SessionOf, Handling
  <2> QED BY <1>1, <2>1, <2>2, ParkedLoses
<1>3. CASE Begun(j)
  <2>1. PICK t \in Types : pc[t] = "start" /\ cur[t] = j
    BY <1>3 DEF Begun
  <2>2. TypeOf(j) = t /\ Contains(processing[t], j)
    BY <2>1, CurKnown DEF InFlight, Handling
  <2> QED BY <1>1, <2>1, <2>2, ParkedLoses DEF Parked
<1>4. ~Ended(j)
  BY DEF Ended, RowsAndSessions, SessionShape, SessionOf, Handling
<1> QED BY <1>2, <1>3, <1>4, RowStep DEF RowsAndSessions, Kept, Created, Removed

(* A job becomes queued, or is queued, only while somebody is to deliver   *)
(* it.                                                                     *)
LEMMA QueuedIsParkedOrOwedStep == ASSUME Delivered, Next PROVE QueuedIsParkedOrOwed'
<1> USE DEF Delivered
<1> SUFFICES ASSUME "flush" \notin FaultKinds, NEW j \in Jobs, job'[j] = "queued"
             PROVE  \/ Parked(j)' \/ TypeOf(j) \in owed'[j[1]] \/ request'[j[1]] = "failed"
  BY DEF QueuedIsParkedOrOwed
<1>1. Typed
  BY DEF RowsAndSessions
<1>2. j[1] \in Poems /\ TypeOf(j) \in Types /\ j = <<j[1], TypeOf(j)>>
  BY JobFacts
<1>3. CASE job[j] = "queued" /\ Parked(j)
  <2>1. pc[TypeOf(j)] = "ack" /\ cur[TypeOf(j)] = j => Contains(queue[TypeOf(j)], j)
    BY <1>2, <1>3 DEF InFlight
  <2> QED BY <1>1, <1>3, <2>1, ParkedLoses
<1>4. CASE job[j] = "queued" /\ (TypeOf(j) \in owed[j[1]] \/ request[j[1]] = "failed")
  <2>1. request[j[1]] # "none"
    BY <1>1, <1>4 DEF Typed, RequestShape
  <2>2. ASSUME NEW p \in Poems, Enqueue(p)
        PROVE  \/ Parked(j)' \/ TypeOf(j) \in owed'[j[1]] \/ request'[j[1]] = "failed"
    <3> DEFINE t == FirstOwed(owed[p])
    <3>1. /\ request[p] = "enqueue"
          /\ queue' = [queue EXCEPT ![t] = Append(@, <<p, t>>)]
          /\ owed' = [owed EXCEPT ![p] = @ \ {t}]
      BY <2>2 DEF Enqueue
    <3>2. t \in Types /\ <<p, t>> \in Jobs
      BY <1>1, <3>1, EnqueueFacts
    <3>3. Contains(queue'[t], <<p, t>>)
      BY <1>1, <3>1, <3>2, ContainsAppend DEF Typed, TypeOK, ListTypes
    <3>4. p # j[1] => owed'[j[1]] = owed[j[1]] /\ request'[j[1]] = request[j[1]]
      BY <1>1, <1>2, <2>2, <3>1 DEF Enqueue, Typed, TypeOK, ApiTypes
    <3>5. p = j[1] => owed'[j[1]] = owed[j[1]] \ {t} /\ request[j[1]] # "failed"
      BY <1>1, <3>1 DEF Typed, TypeOK, ApiTypes
    <3> HIDE DEF t
    <3> QED BY <1>2, <1>4, <3>3, <3>4, <3>5 DEF Parked
  <2>3. ASSUME NEW p \in Poems, RefreshPoem(p) \/ RequestFails(p)
        PROVE  \/ TypeOf(j) \in owed'[j[1]] \/ request'[j[1]] = "failed"
    BY <1>1, <1>2, <1>4, <2>3 DEF RefreshPoem, RequestFails, Typed, TypeOK, ApiTypes
  <2>4. ASSUME NEW p \in Poems, NEW S \in SUBSET Types, PersistPoem(p, S)
        PROVE  \/ TypeOf(j) \in owed'[j[1]] \/ request'[j[1]] = "failed"
    BY <1>1, <1>2, <1>4, <2>1, <2>4 DEF PersistPoem, Typed, TypeOK, ApiTypes
  <2> QED BY <1>4, <2>2, <2>3, <2>4, RequestsChangedBy
<1>5. CASE Created(j)
  BY <1>5 DEF Created
<1>6. CASE Ended(j)
  <2>1. PICK t \in Types : pc[t] = "commit" /\ cur[t] = j
    BY <1>6 DEF Ended
  <2>2. TypeOf(j) = t /\ Contains(processing[t], j)
    BY <2>1, CurKnown DEF InFlight, Handling
  <2> QED BY <1>1, <2>1, <2>2, ParkedLoses DEF Parked
<1>7. job[j] = "queued" => \/ Parked(j) \/ TypeOf(j) \in owed[j[1]] \/ request[j[1]] = "failed"
  BY DEF QueuedIsParkedOrOwed
<1> QED BY <1>3, <1>4, <1>5, <1>6, <1>7, RowStep DEF RowsAndSessions, Kept, Removed, Begun

(* There are no jobs to deliver at first.                                  *)
LEMMA DeliveredInit == Init => Delivered
<1> SUFFICES ASSUME Init PROVE InFlight /\ RunningIsParked /\ QueuedIsParkedOrOwed
  BY RowsAndSessionsInit DEF Delivered
<1> QED BY DEF Init, InFlight, RunningIsParked, QueuedIsParkedOrOwed, Handling

(* Delivery is inductive.                                                  *)
LEMMA DeliveredStep == Delivered /\ [Next]_vars => Delivered'
<1>1. ASSUME Delivered, Next PROVE Delivered'
  BY <1>1, RowsAndSessionsStep, InFlightStep, RunningIsParkedStep, QueuedIsParkedOrOwedStep
     DEF Delivered
<1>2. ASSUME Delivered, UNCHANGED vars PROVE Delivered'
  <2>1. RowsAndSessions'
    BY <1>2, RowsAndSessionsStep DEF Delivered
  <2>2. InFlight' /\ RunningIsParked' /\ QueuedIsParkedOrOwed'
    BY <1>2 DEF Delivered, InFlight, RunningIsParked, QueuedIsParkedOrOwed, Parked,
       vars, apiVars, dbVars, redisVars, workerVars
  <2> QED BY <2>1, <2>2 DEF Delivered
<1> QED BY <1>1, <1>2

(* No id of an open job is ever lost, as long as Redis keeps its data.     *)
THEOREM DeliveredAlways == Spec => []Delivered
  BY DeliveredInit, DeliveredStep, PTL DEF Spec

(* As long as Redis keeps its data, a job the database calls RUNNING is on *)
(* one of its lists, whatever crashed in the middle of it.                 *)
THEOREM RunningJobsAreParked == Spec => []RunningIsParked
<1>1. Delivered => RunningIsParked
  BY DEF Delivered
<1> QED BY <1>1, DeliveredAlways, PTL

(* ... and a QUEUED one is on a list, about to be enqueued, or left behind *)
(* by a request that failed.                                               *)
THEOREM QueuedJobsAreParkedOrOwed == Spec => []QueuedIsParkedOrOwed
<1>1. Delivered => QueuedIsParkedOrOwed
  BY DEF Delivered
<1> QED BY <1>1, DeliveredAlways, PTL

-----------------------------------------------------------------------------
(* The data volume.                                                        *)

(* Only the deletion of its own poem takes a file away.                    *)
LEMMA FilesLose ==
    ASSUME Typed, Next, NEW j \in Jobs, NEW n, FileOf(j, n) \in files, deletion'[j[1]] = "no"
    PROVE  FileOf(j, n) \in files' /\ deletion[j[1]] = "no"
<1> USE DEF Typed, TypeOK, ApiTypes
<1>0. j[1] \in Poems
  BY JobFacts
<1>1. deletion[j[1]] = "no"
  BY <1>0, DeletionsChangedBy DEF DeleteFiles, DeleteRows, DeleteFails
<1>2. ASSUME NEW p \in Poems, DeleteFiles(p)
      PROVE  FileOf(j, n) \in files'
  <2>1. p # j[1]
    BY <1>2 DEF DeleteFiles
  <2>2. ASSUME NEW k \in JobsOf(p), NEW m
        PROVE  FileOf(k, m) # FileOf(j, n)
    BY <2>1 DEF JobsOf, FileOf
  <2>3. FileOf(j, n) \notin {FileOf(k, path[k]) : k \in {i \in JobsOf(p) : path[i] # 0}}
    BY <2>2
  <2> QED BY <1>2, <2>3 DEF DeleteFiles
<1>3. ASSUME NEW t \in Types, WriteFile(t)
      PROVE  FileOf(j, n) \in files'
  BY <1>3 DEF WriteFile
<1> QED BY <1>1, <1>2, <1>3, FilesChangedBy

(* A render becomes finished when its file is written, and stays so.       *)
LEMMA RenderedComes ==
    ASSUME RowsAndSessions, Next, NEW t \in Types, Rendered(t)'
    PROVE  /\ cur'[t] = cur[t] /\ cur[t] \in Jobs /\ renders'[cur[t]] = renders[cur[t]]
           /\ WriteFile(t) \/ Rendered(t)
<1> USE DEF RowsAndSessions, Typed, TypeOK, WorkerTypes
<1>1. pc'[t] \in Handling
  BY DEF Rendered, Handling
<1>2. pc[t] \in Handling /\ cur'[t] = cur[t]
  <2>1. ~Pop(t)
    BY DEF Pop, Goto, Rendered
  <2> QED BY <1>1, <2>1, HandlingComes
<1>3. cur[t] \in Jobs
  BY <1>2 DEF HandlesJob
<1>4. WriteFile(t) \/ Rendered(t)
  <2>1. CASE pc'[t] = pc[t] /\ cur'[t] = cur[t] /\ mem'[t] = mem[t]
    BY <2>1 DEF Rendered
  <2>2. CASE Worker(t)
    <3>1. CASE PushEnds(t) \/ StaleWrite(t) \/ Ack(t)
      <4>1. pc'[t] \in {"pop", "down", "check"}
        BY <3>1, EscapeLabel DEF PushEnds, StaleWrite, Ack, Restart, Goto
      <4> QED BY <4>1 DEF Rendered
    <3>2. CASE \/ Skip(t) \/ Load(t) \/ LoadAsset(t) \/ Start(t) \/ StartUnwritten(t)
               \/ RenderFails(t) \/ Commit(t) \/ Requeue(t) \/ Pop(t) \/ Boot(t) \/ ReapEnds(t)
               \/ ScanQueue(t) \/ ScanProcessing(t) \/ Select(t) \/ PopTimesOut(t)
               \/ Continue(t) \/ Maintain(t)
      <4>1. pc'[t] \notin {"written", "commit"}
        BY <3>2 DEF Skip, Load, LoadAsset, Start, StartUnwritten, RenderFails, Commit,
           AfterCommit, Requeue, Pop, Boot, ReapEnds, ScanQueue, ScanProcessing, Select,
           PopTimesOut, Continue, Maintain, Goto
      <4> QED BY <4>1 DEF Rendered
    <3>3. CASE RenderUnsupported(t) \/ CountFailure(t)
      <4>1. pc'[t] = "commit" /\ mem'[t] # "done"
        BY <3>3 DEF RenderUnsupported, CountFailure, Goto
      <4> QED BY <4>1 DEF Rendered
    <3>4. CASE RenderSucceeds(t)
      BY <3>4 DEF RenderSucceeds, Rendered
    <3>5. CASE Reap(t) \/ Push(t)
      BY <3>5 DEF Reap, Push, workerVars, Rendered
    <3> QED BY <2>2, <3>1, <3>2, <3>3, <3>4, <3>5 DEF Worker
  <2>3. CASE WorkerFault(t)
    <3>1. CASE WorkerCrashes(t) \/ DatabaseFails(t) \/ (RedisFails(t) /\ Escape(t))
      <4>1. pc'[t] \in {"pop", "down"}
        BY <3>1, EscapeLabel DEF WorkerCrashes, DatabaseFails, Restart, Goto
      <4> QED BY <4>1 DEF Rendered
    <3>2. CASE RedisFails(t) /\ ~Escape(t)
      <4>1. pc'[t] = "check" \/ (pc'[t] = "commit" /\ mem'[t] = "failed")
        BY <3>2 DEF RedisFails, Goto
      <4> QED BY <4>1 DEF Rendered
    <3>3. CASE ReplyLost(t)
      BY <3>3 DEF ReplyLost, workerVars, Rendered
    <3> QED BY <2>3, <3>1, <3>2, <3>3 DEF WorkerFault
  <2> QED BY <2>1, <2>2, <2>3, OthersIdle
<1>5. renders'[cur[t]] = renders[cur[t]]
  <2>1. ASSUME NEW u \in Types, Start(u) \/ StartUnwritten(u)
        PROVE  renders'[cur[t]] = renders[cur[t]]
    <3>1. pc[u] = "start"
      BY <2>1 DEF Start, StartUnwritten
    <3>2. pc[t] # "start"
      BY <1>4 DEF WriteFile, Rendered
    <3>3. cur[u] # cur[t]
      BY <1>2, <3>1, <3>2, CurKnown DEF Handling
    <3> QED BY <1>3, <2>1, <3>3 DEF Start, StartUnwritten, CounterTypes
  <2> QED BY <2>1, RendersChangedBy
<1> QED BY <1>2, <1>3, <1>4, <1>5

Stored == RowsAndSessions /\ OutputKept /\ DoneHasFile

(* The file of a finished render stays until the worker commits, deletions *)
(* excepted.                                                               *)
LEMMA OutputKeptStep == ASSUME Stored, Next PROVE OutputKept'
<1> SUFFICES ASSUME NEW t \in Types, Rendered(t)', deletion'[cur'[t][1]] = "no"
             PROVE  FileOf(cur'[t], renders'[cur'[t]]) \in files'
  BY DEF OutputKept, Output
<1>1. /\ cur'[t] = cur[t] /\ cur[t] \in Jobs /\ renders'[cur[t]] = renders[cur[t]]
      /\ WriteFile(t) \/ Rendered(t)
  BY RenderedComes DEF Stored
<1>2. CASE WriteFile(t)
  BY <1>1, <1>2 DEF WriteFile, Output
<1>3. CASE Rendered(t) /\ deletion[cur[t][1]] = "no"
  <2>1. FileOf(cur[t], renders[cur[t]]) \in files
    BY <1>3 DEF Stored, OutputKept, Output
  <2> QED BY <1>1, <2>1, FilesLose DEF Stored, RowsAndSessions
<1>4. deletion[cur[t][1]] = "no"
  BY <1>1, JobFacts, DeletionsChangedBy
     DEF DeleteFiles, DeleteRows, DeleteFails, Stored, RowsAndSessions, Typed, TypeOK, ApiTypes
<1> QED BY <1>1, <1>2, <1>3, <1>4

(* A commit of done finds its file there, and nothing but a deletion takes *)
(* it away.                                                                *)
LEMMA DoneHasFileStep == ASSUME Stored, Next PROVE DoneHasFile'
<1> USE DEF Stored
<1> SUFFICES ASSUME NEW j \in Jobs, job'[j] = "done", deletion'[j[1]] = "no"
             PROVE  FileOf(j, path'[j]) \in files'
  BY DEF DoneHasFile
<1>1. Typed
  BY DEF RowsAndSessions
<1>2. deletion[j[1]] = "no"
  BY <1>1, JobFacts, DeletionsChangedBy
     DEF DeleteFiles, DeleteRows, DeleteFails, Typed, TypeOK, ApiTypes
<1>3. CASE Kept(j)
  <2>1. FileOf(j, path[j]) \in files
    BY <1>2, <1>3 DEF Kept, DoneHasFile
  <2> QED BY <1>1, <1>3, <2>1, FilesLose DEF Kept
<1>4. CASE Ended(j)
  <2>1. PICK t \in Types : /\ pc[t] = "commit" /\ cur[t] = j /\ job'[j] = mem[t]
                           /\ path'[j] = IF mem[t] = "done" THEN renders[j] ELSE path[j]
    BY <1>4 DEF Ended
  <2>2. FileOf(j, renders[j]) \in files
    BY <1>2, <2>1 DEF OutputKept, Output, Rendered
  <2> QED BY <1>1, <2>1, <2>2, FilesLose
<1> QED BY <1>3, <1>4, RowStep DEF RowsAndSessions, Created, Removed, Begun

(* No asset is done at first.                                              *)
LEMMA StoredInit == Init => Stored
<1> SUFFICES ASSUME Init PROVE OutputKept /\ DoneHasFile
  BY RowsAndSessionsInit DEF Stored
<1> QED BY DEF Init, OutputKept, DoneHasFile, Rendered

(* The invariant about files is inductive.                                 *)
LEMMA StoredStep == Stored /\ [Next]_vars => Stored'
<1>1. ASSUME Stored, Next PROVE Stored'
  BY <1>1, RowsAndSessionsStep, OutputKeptStep, DoneHasFileStep DEF Stored
<1>2. ASSUME Stored, UNCHANGED vars PROVE Stored'
  <2>1. RowsAndSessions'
    BY <1>2, RowsAndSessionsStep DEF Stored
  <2>2. OutputKept' /\ DoneHasFile'
    BY <1>2 DEF Stored, OutputKept, Output, Rendered, DoneHasFile, FileOf,
       vars, apiVars, dbVars, workerVars
  <2> QED BY <2>1, <2>2 DEF Stored
<1> QED BY <1>1, <1>2

(* A done asset nobody began to delete has its file on the data volume,    *)
(* whatever retries, duplicates and other deletions went on around it.     *)
THEOREM DoneAssetsHaveFiles == Spec => []DoneHasFile
<1>1. Stored => DoneHasFile
  BY DEF Stored
<1> QED BY <1>1, StoredInit, StoredStep, PTL DEF Spec

-----------------------------------------------------------------------------
(* The retry counter and the verdict.                                      *)

(* Redis keeps the lists and the counters; and it answers, too.            *)
Steady == FaultKinds \cap {"flush", "expire"} = {}
Reliable == FaultKinds \cap {"flush", "expire", "redis"} = {}

(* Nothing was counted for a poem before it was asked for.                 *)
Untouched ==
    \A j \in Jobs : request[j[1]] = "none" => retry[j] = 0 /\ renders[j] = 0

(* What a worker is about to commit agrees with the counter already.       *)
VerdictPending ==
    Reliable =>
        \A t \in Types : pc[t] = "commit" =>
            /\ mem[t] = "queued" => retry[cur[t]] <= MaxRetries
            /\ mem[t] = "failed" /\ t = "image" => retry[cur[t]] > MaxRetries

Judged == RowsAndSessions /\ Untouched /\ VerdictPending /\ VerdictMatchesCounter

(* A worker comes to its commit with the outcome of the render, or with    *)
(* that of the failure count, which takes Redis.                           *)
LEMMA CommitComes ==
    ASSUME RowsAndSessions, Next, NEW t \in Types, pc'[t] = "commit"
    PROVE  /\ cur[t] \in Jobs /\ cur'[t] = cur[t] /\ pc[t] \in Handling
           /\ \/ pc[t] = "commit" /\ mem'[t] = mem[t]
              \/ RenderSucceeds(t) \/ RenderUnsupported(t) \/ CountFailure(t)
              \/ RedisFails(t)
<1> USE DEF RowsAndSessions, Typed, TypeOK, WorkerTypes
<1>1. pc[t] \in Handling /\ cur'[t] = cur[t]
  <2>1. ~Pop(t)
    BY DEF Pop, Goto
  <2> QED BY <2>1, HandlingComes DEF Handling
<1>2. cur[t] \in Jobs
  BY <1>1 DEF HandlesJob
<1>3. CASE pc'[t] = pc[t] /\ cur'[t] = cur[t] /\ mem'[t] = mem[t]
  BY <1>1, <1>2, <1>3
<1>4. CASE Worker(t)
  <2>1. CASE PushEnds(t) \/ StaleWrite(t) \/ Ack(t)
    <3>1. pc'[t] \in {"pop", "down", "check"}
      BY <2>1, EscapeLabel DEF PushEnds, StaleWrite, Ack, Restart, Goto
    <3> QED BY <3>1
  <2>2. CASE \/ Skip(t) \/ Load(t) \/ LoadAsset(t) \/ Start(t) \/ StartUnwritten(t)
             \/ WriteFile(t) \/ RenderFails(t) \/ Commit(t) \/ Requeue(t) \/ Pop(t) \/ Boot(t)
             \/ ReapEnds(t) \/ ScanQueue(t) \/ ScanProcessing(t) \/ Select(t)
             \/ PopTimesOut(t) \/ Continue(t) \/ Maintain(t)
    <3>1. pc'[t] # "commit"
      BY <2>2 DEF Skip, Load, LoadAsset, Start, StartUnwritten, WriteFile, RenderFails, Commit,
         AfterCommit, Requeue, Pop, Boot, ReapEnds, ScanQueue, ScanProcessing, Select,
         PopTimesOut, Continue, Maintain, Goto
    <3> QED BY <3>1
  <2>3. CASE Reap(t) \/ Push(t)
    BY <1>1, <1>2, <2>3 DEF Reap, Push, workerVars
  <2> QED BY <1>1, <1>2, <1>4, <2>1, <2>2, <2>3 DEF Worker
<1>5. CASE WorkerFault(t)
  <2>1. CASE WorkerCrashes(t) \/ DatabaseFails(t)
    <3>1. pc'[t] \in {"pop", "down"}
      BY <2>1, EscapeLabel DEF WorkerCrashes, DatabaseFails, Restart, Goto
    <3> QED BY <3>1
  <2>2. CASE ReplyLost(t)
    BY <1>1, <1>2, <2>2 DEF ReplyLost, workerVars
  <2> QED BY <1>1, <1>2, <1>5, <2>1, <2>2 DEF WorkerFault
<1> QED BY <1>3, <1>4, <1>5, OthersIdle

(* Without loss of data the counter of a job only grows, and only while a  *)
(* worker counts a failure of it.                                          *)
LEMMA RetryGrows ==
    ASSUME RowsAndSessions, Next, Steady, NEW j \in Jobs
    PROVE  /\ retry'[j] \in Nat /\ retry[j] \in Nat /\ retry'[j] >= retry[j]
           /\ retry'[j] = retry[j] \/ \E t \in Types : pc[t] = "count" /\ cur[t] = j
<1> USE DEF RowsAndSessions, Typed, TypeOK, CounterTypes
<1>1. ASSUME NEW t \in Types, pc[t] = "count", retry' = [retry EXCEPT ![cur[t]] = @ + 1]
      PROVE  /\ retry'[j] \in Nat /\ retry[j] \in Nat /\ retry'[j] >= retry[j]
             /\ retry'[j] = retry[j] \/ cur[t] = j
  BY <1>1
<1>2. CASE UNCHANGED retry
  BY <1>2
<1>3. ASSUME NEW t \in Types, CountFailure(t)
      PROVE  pc[t] = "count" /\ retry' = [retry EXCEPT ![cur[t]] = @ + 1]
  BY <1>3 DEF CountFailure
<1>4. ASSUME NEW t \in Types, ReplyLost(t)
      PROVE  \/ UNCHANGED retry
             \/ pc[t] = "count" /\ retry' = [retry EXCEPT ![cur[t]] = @ + 1]
  BY <1>4 DEF ReplyLost
<1>5. ~RedisLosesData /\ \A k \in Jobs : ~RetryExpires(k)
  BY DEF Steady, RedisLosesData, RetryExpires, Fault
<1> QED BY <1>1, <1>2, <1>3, <1>4, <1>5, RetriesChangedBy

(* A worker that handles a job knows that its poem was asked for.          *)
LEMMA HandledIsKnown ==
    ASSUME RowsAndSessions, NEW t \in Types, NEW j \in Jobs, cur[t] = j
    PROVE  request[j[1]] # "none" /\ TypeOf(j) = t
  BY DEF RowsAndSessions, KnownIds, Held

(* Nothing is counted for a poem that nobody asked for.                    *)
LEMMA UntouchedStep == ASSUME RowsAndSessions, Untouched, Next PROVE Untouched'
<1> USE DEF RowsAndSessions, Typed, TypeOK, CounterTypes
<1> SUFFICES ASSUME NEW j \in Jobs, request'[j[1]] = "none"
             PROVE  retry'[j] = 0 /\ renders'[j] = 0
  BY DEF Untouched
<1>1. j[1] \in Poems
  BY JobFacts
<1>2. request[j[1]] = "none"
  BY <1>1, RequestsChangedBy
     DEF PersistPoem, RefreshPoem, Enqueue, RequestFails, ApiTypes
<1>3. retry[j] = 0 /\ renders[j] = 0
  BY <1>2 DEF Untouched
<1>4. \A t \in Types : cur[t] # j
  BY <1>2, HandledIsKnown
<1>5. retry'[j] = 0
  <2>1. ASSUME NEW t \in Types, CountFailure(t) \/ ReplyLost(t)
        PROVE  retry'[j] = retry[j]
    <3>1. retry' = retry \/ retry' = [retry EXCEPT ![cur[t]] = @ + 1]
      BY <2>1 DEF CountFailure, ReplyLost
    <3> QED BY <1>4, <3>1
  <2>2. RedisLosesData => retry'[j] = 0
    BY DEF RedisLosesData
  <2>3. ASSUME NEW k \in Jobs, RetryExpires(k)
        PROVE  retry'[j] = retry[j] \/ retry'[j] = 0
    BY <2>3 DEF RetryExpires
  <2> QED BY <1>3, <2>1, <2>2, <2>3, RetriesChangedBy
<1>6. renders'[j] = 0
  <2>1. ASSUME NEW t \in Types, Start(t) \/ StartUnwritten(t)
        PROVE  renders'[j] = renders[j]
    <3>1. renders' = renders \/ renders' = [renders EXCEPT ![cur[t]] = @ + 1]
      BY <2>1 DEF Start, StartUnwritten
    <3> QED BY <1>4, <3>1
  <2> QED BY <1>3, <2>1, RendersChangedBy
<1> QED BY <1>5, <1>6

(* The counter is read before the outcome is decided, and nobody else      *)
(* counts for the job between the decision and the commit.                 *)
LEMMA VerdictPendingStep == ASSUME Judged, Next PROVE VerdictPending'
<1> SUFFICES ASSUME Reliable, NEW t \in Types, pc'[t] = "commit"
             PROVE  /\ mem'[t] = "queued" => retry'[cur'[t]] <= MaxRetries
                    /\ mem'[t] = "failed" /\ t = "image" => retry'[cur'[t]] > MaxRetries
  BY DEF VerdictPending
<1> USE DEF Judged, RowsAndSessions, Typed, TypeOK, WorkerTypes, CounterTypes
<1>1. PICK j \in Jobs : /\ j = cur[t] /\ cur'[t] = j
                        /\ \/ pc[t] = "commit" /\ mem'[t] = mem[t]
                           \/ RenderSucceeds(t) \/ RenderUnsupported(t) \/ CountFailure(t)
                           \/ RedisFails(t)
  BY CommitComes
<1>2. /\ retry'[j] \in Nat /\ retry[j] \in Nat
      /\ retry'[j] = retry[j] \/ \E u \in Types : pc[u] = "count" /\ cur[u] = j
  BY RetryGrows DEF Reliable, Steady
<1>3. ~RedisFails(t)
  BY DEF RedisFails, Fault, Reliable
<1>4. CASE pc[t] = "commit" /\ mem'[t] = mem[t]
  <2>1. \A u \in Types : cur[u] = j => u = t
    BY <1>1, HandledIsKnown
  <2>2. retry'[j] = retry[j]
    BY <1>2, <1>4, <2>1
  <2> QED BY <1>1, <1>4, <2>2 DEF VerdictPending
<1>5. CASE RenderSucceeds(t) \/ RenderUnsupported(t)
  <2>1. mem'[t] = "done" \/ (t = "audio" /\ mem'[t] = "failed")
    BY <1>5 DEF RenderSucceeds, RenderUnsupported
  <2> QED BY <2>1
<1>6. CASE CountFailure(t)
  <2>1. retry'[j] = retry[j] + 1
        /\ mem'[t] = IF retry[j] + 1 <= MaxRetries THEN "queued" ELSE "failed"
    BY <1>1, <1>6 DEF CountFailure, Retryable
  <2> QED BY <1>1, <1>2, <2>1, BoundsAssumption
<1> QED BY <1>1, <1>3, <1>4, <1>5, <1>6

(* The verdict is written as it was decided.                               *)
LEMMA VerdictStep == ASSUME Judged, Next PROVE VerdictMatchesCounter'
<1> SUFFICES ASSUME Reliable, NEW j \in Jobs
             PROVE  /\ job'[j] = "queued" => retry'[j] <= MaxRetries
                    /\ job'[j] = "failed" /\ TypeOf(j) = "image" => retry'[j] > MaxRetries
  BY DEF VerdictMatchesCounter, Reliable
<1> USE DEF Judged, RowsAndSessions, Typed, TypeOK, WorkerTypes, CounterTypes
<1>1. /\ retry'[j] \in Nat /\ retry[j] \in Nat /\ retry'[j] >= retry[j]
      /\ retry'[j] = retry[j] \/ \E t \in Types : pc[t] = "count" /\ cur[t] = j
  BY RetryGrows DEF Reliable, Steady
<1>2. /\ job[j] = "queued" => retry[j] <= MaxRetries
      /\ job[j] = "failed" /\ TypeOf(j) = "image" => retry[j] > MaxRetries
  BY DEF VerdictMatchesCounter, Reliable
<1>3. CASE Kept(j)
  <2>1. ASSUME job[j] = "queued" PROVE retry'[j] = retry[j]
    BY <1>1, <2>1 DEF SessionShape, SessionOf, Handling
  <2>2. job[j] = "failed" => retry'[j] = retry[j]
    BY <1>1 DEF SessionShape, SessionOf, Handling
  <2> QED BY <1>1, <1>2, <1>3, <2>1, <2>2 DEF Kept
<1>4. CASE Created(j)
  <2>1. retry[j] = 0 /\ \A t \in Types : cur[t] # j
    BY <1>4, HandledIsKnown DEF Created, Untouched
  <2> QED BY <1>1, <1>4, <2>1, BoundsAssumption DEF Created
<1>5. CASE Ended(j)
  <2>1. PICK t \in Types : pc[t] = "commit" /\ cur[t] = j /\ job'[j] = mem[t]
    BY <1>5 DEF Ended
  <2>2. TypeOf(j) = t /\ \A u \in Types : cur[u] = j => u = t
    BY <2>1, HandledIsKnown
  <2>3. retry'[j] = retry[j]
    BY <1>1, <2>1, <2>2
  <2> QED BY <2>1, <2>2, <2>3 DEF VerdictPending
<1>6. CASE Begun(j) \/ Removed(j)
  BY <1>6 DEF Begun, Removed
<1> QED BY <1>3, <1>4, <1>5, <1>6, RowStep

(* Nothing is counted, and nothing decided, when the system starts.        *)
LEMMA JudgedInit == Init => Judged
<1> SUFFICES ASSUME Init PROVE Untouched /\ VerdictPending /\ VerdictMatchesCounter
  BY RowsAndSessionsInit DEF Judged
<1> QED BY DEF Init, Untouched, VerdictPending, VerdictMatchesCounter

(* No step parts a verdict from its counter.                               *)
LEMMA JudgedStep == Judged /\ [Next]_vars => Judged'
<1>1. ASSUME Judged, Next PROVE Judged'
  BY <1>1, RowsAndSessionsStep, UntouchedStep, VerdictPendingStep, VerdictStep DEF Judged
<1>2. ASSUME Judged, UNCHANGED vars PROVE Judged'
  <2>1. RowsAndSessions'
    BY <1>2, RowsAndSessionsStep DEF Judged
  <2>2. Untouched' /\ VerdictPending' /\ VerdictMatchesCounter'
    BY <1>2 DEF Judged, Untouched, VerdictPending, VerdictMatchesCounter,
       vars, apiVars, dbVars, redisVars, workerVars
  <2> QED BY <2>1, <2>2 DEF Judged
<1> QED BY <1>1, <1>2

(* The invariant of the verdicts holds.                                    *)
THEOREM JudgedAlways == Spec => []Judged
  BY JudgedInit, JudgedStep, PTL DEF Spec

(* The verdict in the database and the counter in Redis agree, as long as  *)
(* the counter can be read: a waiting job has attempts left, an image job  *)
(* that was given up has none.                                             *)
THEOREM VerdictsAgree == Spec => []VerdictMatchesCounter
<1>1. Judged => VerdictMatchesCounter
  BY DEF Judged
<1> QED BY <1>1, JudgedAlways, PTL

-----------------------------------------------------------------------------
(* The render budget. What is left of a job's budget is held by the copies *)
(* of its id: each of them may cost one render more, and so may a copy     *)
(* that is still to come.                                                  *)

(* The API has not enqueued the id, yet or any more.                       *)
Owes(j) == TypeOf(j) \in owed[j[1]]

(* A job that waits is on a list or was never enqueued.                    *)
QueuedIsDue ==
    "flush" \notin FaultKinds => \A j \in Jobs : job[j] = "queued" => Parked(j) \/ Owes(j)

(* The reconciler may push a copy beside the API's: it has chosen the job, *)
(* or has not seen its id on the lists, or would not if it began now.      *)
Unseen(j) ==
    LET t == TypeOf(j) IN
    /\ job[j] \in {"queued", "running"} /\ j \notin scan[t]
    /\ pc[t] = "select" \/ (pc[t] = "scanProcessing" /\ ~Contains(processing[t], j))
Extra(j) ==
    \/ pc[TypeOf(j)] = "push" /\ j \in scan[TypeOf(j)]
    \/ Unseen(j)
    \/ Owes(j) /\ job[j] = "queued" /\ ~Parked(j)

(* The worker will push a copy for another attempt.                        *)
Promised(j) ==
    LET t == TypeOf(j) IN
    cur[t] = j /\ (pc[t] = "requeue" \/ (pc[t] = "commit" /\ mem[t] = "queued"))
Left(j) == IF retry[j] <= MaxRetries THEN MaxRetries - retry[j] ELSE 0

(* The copy in the worker's hands has had its render.                      *)
Spending == {"render", "written", "count", "commit", "requeue", "ack"}
Spent(j) ==
    LET t == TypeOf(j) IN
    cur[t] = j /\ pc[t] \in Spending /\ Contains(processing[t], j)

Used(j) ==
    renders[j] + Copies(queue[TypeOf(j)], j) + Copies(processing[TypeOf(j)], j)
    + One(Owes(j)) + One(Extra(j)) + One(Promised(j)) + Left(j) - One(Spent(j))

(* Once the rows are gone only a worker that begins the render without     *)
(* writing to them costs one more.                                         *)
Beginning(j) == cur[TypeOf(j)] = j /\ pc[TypeOf(j)] = "start"

Budgeted(j) ==
    IF job[j] = "absent" THEN renders[j] + One(Beginning(j)) <= MaxRetries + 2 + faults
    ELSE Used(j) <= MaxRetries + 2 + faults
Frugal == Steady => \A j \in Jobs : Budgeted(j)

Thrifty == Delivered /\ Untouched /\ QueuedIsDue /\ Frugal

(* The terms are numbers.                                                  *)
Terms(j) ==
    /\ renders[j] \in Nat /\ faults \in Nat /\ Left(j) \in Nat
    /\ Copies(queue[TypeOf(j)], j) \in Nat
    /\ Copies(processing[TypeOf(j)], j) \in Nat
    /\ One(Owes(j)) \in 0..1 /\ One(Extra(j)) \in 0..1
    /\ One(Promised(j)) \in 0..1 /\ One(Spent(j)) \in 0..1
    /\ Contains(queue[TypeOf(j)], j) <=> Copies(queue[TypeOf(j)], j) > 0
    /\ Contains(processing[TypeOf(j)], j) <=> Copies(processing[TypeOf(j)], j) > 0

(* The terms are numbers in every state of the right types.                *)
LEMMA TermsTyped == Typed => \A j \in Jobs : Terms(j)
<1> SUFFICES ASSUME Typed, NEW j \in Jobs PROVE Terms(j)
  OBVIOUS
<1>1. TypeOf(j) \in Types
  BY JobFacts
<1>2. queue[TypeOf(j)] \in Seq(Jobs) /\ processing[TypeOf(j)] \in Seq(Jobs)
  BY <1>1 DEF Typed, TypeOK, ListTypes
<1>3. renders[j] \in Nat /\ retry[j] \in Nat /\ faults \in Nat
  BY BoundsAssumption DEF Typed, TypeOK, CounterTypes
<1>4. Left(j) \in Nat
  BY <1>3, BoundsAssumption DEF Left
<1>5. \A b : One(b) \in 0..1
  BY DEF One
<1> QED BY <1>2, <1>3, <1>4, <1>5, CopiesType DEF Terms

(* And so they are in the next state.                                      *)
LEMMA TermsTypedNext == Typed' => (\A j \in Jobs : Terms(j))'
  BY TermsTyped, PTL

(* A waiting job stays on a list or to be enqueued.                        *)
LEMMA QueuedIsDueStep == ASSUME Delivered, QueuedIsDue, Next PROVE QueuedIsDue'
<1> USE DEF Delivered
<1> SUFFICES ASSUME "flush" \notin FaultKinds, NEW j \in Jobs, job'[j] = "queued"
             PROVE  Parked(j)' \/ TypeOf(j) \in owed'[j[1]]
  BY DEF QueuedIsDue, Owes
<1>1. Typed
  BY DEF RowsAndSessions
<1>2. j[1] \in Poems /\ TypeOf(j) \in Types /\ j = <<j[1], TypeOf(j)>>
  BY JobFacts
<1>3. CASE job[j] = "queued" /\ Parked(j)
  <2>1. pc[TypeOf(j)] = "ack" /\ cur[TypeOf(j)] = j => Contains(queue[TypeOf(j)], j)
    BY <1>2, <1>3 DEF InFlight
  <2> QED BY <1>1, <1>3, <2>1, ParkedLoses
<1>4. CASE job[j] = "queued" /\ TypeOf(j) \in owed[j[1]]
  <2>1. request[j[1]] # "none"
    BY <1>1, <1>4 DEF Typed, RequestShape
  <2>2. ASSUME NEW p \in Poems, Enqueue(p)
        PROVE  Parked(j)' \/ TypeOf(j) \in owed'[j[1]]
    <3> DEFINE t == FirstOwed(owed[p])
    <3>1. /\ request[p] = "enqueue"
          /\ queue' = [queue EXCEPT ![t] = Append(@, <<p, t>>)]
          /\ owed' = [owed EXCEPT ![p] = @ \ {t}]
      BY <2>2 DEF Enqueue
    <3>2. t \in Types /\ <<p, t>> \in Jobs
      BY <1>1, <3>1, EnqueueFacts
    <3>3. Contains(queue'[t], <<p, t>>)
      BY <1>1, <3>1, <3>2, ContainsAppend DEF Typed, TypeOK, ListTypes
    <3>4. p # j[1] => owed'[j[1]] = owed[j[1]]
      BY <1>1, <1>2, <2>2, <3>1 DEF Enqueue, Typed, TypeOK, ApiTypes
    <3>5. p = j[1] => owed'[j[1]] = owed[j[1]] \ {t}
      BY <1>1, <3>1 DEF Typed, TypeOK, ApiTypes
    <3> HIDE DEF t
    <3> QED BY <1>2, <1>4, <3>3, <3>4, <3>5 DEF Parked
  <2>3. ASSUME NEW p \in Poems, RefreshPoem(p) \/ RequestFails(p)
        PROVE  TypeOf(j) \in owed'[j[1]]
    BY <1>4, <2>3 DEF RefreshPoem, RequestFails
  <2>4. ASSUME NEW p \in Poems, NEW S \in SUBSET Types, PersistPoem(p, S)
        PROVE  TypeOf(j) \in owed'[j[1]]
    BY <1>1, <1>2, <1>4, <2>1, <2>4 DEF PersistPoem, Typed, TypeOK, ApiTypes
  <2> QED BY <1>4, <2>2, <2>3, <2>4, RequestsChangedBy
<1>5. CASE Created(j)
  BY <1>5 DEF Created
<1>6. CASE Ended(j)
  <2>1. PICK t \in Types : pc[t] = "commit" /\ cur[t] = j
    BY <1>6 DEF Ended
  <2>2. TypeOf(j) = t /\ Contains(processing[t], j)
    BY <2>1, CurKnown DEF InFlight, Handling
  <2> QED BY <1>1, <2>1, <2>2, ParkedLoses DEF Parked
<1>7. job[j] = "queued" => Parked(j) \/ TypeOf(j) \in owed[j[1]]
  BY DEF QueuedIsDue, Owes
<1> QED BY <1>3, <1>4, <1>5, <1>6, <1>7, RowStep DEF RowsAndSessions, Kept, Removed, Begun

(* What a worker leaves alone of the other worker and its jobs.            *)
LEMMA OthersLeave ==
    ASSUME RowsAndSessions, NEW u \in Types, Worker(u) \/ WorkerFault(u),
           NEW j \in Jobs, TypeOf(j) # u
    PROVE  LET t == TypeOf(j) IN
           /\ pc'[t] = pc[t] /\ cur'[t] = cur[t] /\ mem'[t] = mem[t] /\ scan'[t] = scan[t]
           /\ queue'[t] = queue[t] /\ processing'[t] = processing[t] /\ UNCHANGED owed
           /\ retry'[j] = retry[j] /\ renders'[j] = renders[j]
<1> DEFINE t == TypeOf(j)
<1>0. t \in Types /\ cur[u] # j
  BY JobFacts, HandledIsKnown
<1> HIDE DEF t
<1> USE DEF RowsAndSessions, Typed, TypeOK, WorkerTypes, ListTypes, CounterTypes, Goto
<1>1. UNCHANGED owed
  BY DEF Worker, WorkerFault, Boot, Reap, ReapEnds, ScanQueue, ScanProcessing, Select, Push,
     PushEnds, Pop, PopTimesOut, Skip, Load, LoadAsset, Start, StartUnwritten, StaleWrite,
     WriteFile, RenderSucceeds, RenderFails, RenderUnsupported, CountFailure, Commit, Requeue,
     Ack, Continue, Maintain, WorkerCrashes, RedisFails, ReplyLost, DatabaseFails, apiVars
<1>2. pc'[t] = pc[t] /\ cur'[t] = cur[t] /\ mem'[t] = mem[t] /\ scan'[t] = scan[t]
  <2>1. CASE RestartsBy(u)
    <3>1. CASE RedisFails(u) /\ ~Escape(u)
      BY <1>0, <3>1 DEF RedisFails, t
    <3>2. CASE \E l : Restart(u, l)
      BY <1>0, <3>2 DEF Restart, t
    <3> QED BY <2>1, <3>1, <3>2
         DEF RestartsBy, PushEnds, StaleWrite, Ack, WorkerCrashes, DatabaseFails, Escape
  <2>2. CASE \/ Boot(u) \/ ReapEnds(u) \/ ScanQueue(u) \/ ScanProcessing(u) \/ Select(u)
             \/ Reap(u) \/ Push(u) \/ ReplyLost(u)
             \/ Pop(u) \/ PopTimesOut(u) \/ Skip(u) \/ Load(u) \/ LoadAsset(u) \/ Start(u)
             \/ StartUnwritten(u) \/ WriteFile(u) \/ RenderSucceeds(u) \/ RenderFails(u)
             \/ RenderUnsupported(u) \/ CountFailure(u) \/ Commit(u) \/ Requeue(u)
             \/ Continue(u) \/ Maintain(u)
    BY <1>0, <2>2 DEF Boot, ReapEnds, ScanQueue, ScanProcessing, Select, Reap, Push, ReplyLost,
       Pop, PopTimesOut, Skip, Load, LoadAsset, Start, StartUnwritten, WriteFile,
       RenderSucceeds, RenderFails, RenderUnsupported, CountFailure, Commit, Requeue,
       Continue, Maintain, workerVars, t
  <2> QED BY <2>1, <2>2 DEF RestartsBy, Worker, WorkerFault
<1>3. queue'[t] = queue[t] /\ processing'[t] = processing[t]
  <2>1. CASE Acknowledge(u) /\ UNCHANGED queue
    BY <1>0, <2>1, AcknowledgeList DEF t
  <2> QED BY <1>0, <2>1
       DEF Worker, WorkerFault, Boot, Reap, ReapEnds, ScanQueue, ScanProcessing, Select, Push,
     PushEnds, Pop, PopTimesOut, Skip, Load, LoadAsset, Start, StartUnwritten, StaleWrite,
     WriteFile, RenderSucceeds, RenderFails, RenderUnsupported, CountFailure, Commit, Requeue,
     Ack, Continue, Maintain, WorkerCrashes, RedisFails, ReplyLost, DatabaseFails, redisVars,
     Reserve, t
<1>4. retry'[j] = retry[j] /\ renders'[j] = renders[j]
  <2>1. CASE ReplyLost(u) \/ CountFailure(u)
    <3>1. retry' = retry \/ retry' = [retry EXCEPT ![cur[u]] = @ + 1]
      BY <2>1 DEF ReplyLost, CountFailure
    <3> QED BY <1>0, <2>1, <3>1 DEF ReplyLost, CountFailure
  <2>2. CASE Start(u) \/ StartUnwritten(u)
    <3>1. renders' = renders \/ renders' = [renders EXCEPT ![cur[u]] = @ + 1]
      BY <2>2 DEF Start, StartUnwritten
    <3> QED BY <1>0, <2>2, <3>1 DEF Start, StartUnwritten, redisVars
  <2> QED BY <2>1, <2>2
       DEF Worker, WorkerFault, Boot, Reap, ReapEnds, ScanQueue, ScanProcessing, Select, Push,
     PushEnds, Pop, PopTimesOut, Skip, Load, LoadAsset, StaleWrite, WriteFile, RenderSucceeds,
     RenderFails, RenderUnsupported, Commit, Requeue, Ack, Continue, Maintain, WorkerCrashes,
     RedisFails, DatabaseFails, redisVars
<1> QED BY <1>1, <1>2, <1>3, <1>4 DEF t

(* Where a reconciler's program comes from.                                *)
LEMMA ScannerComes ==
    ASSUME RowsAndSessions, Next, NEW t \in Types,
           pc'[t] \in {"scanProcessing", "select", "push"}
    PROVE  \/ pc'[t] = pc[t] /\ scan'[t] = scan[t]
           \/ pc'[t] = pc[t] /\ Push(t)
           \/ ScanQueue(t) \/ ScanProcessing(t) \/ Select(t)
<1> USE DEF RowsAndSessions, Typed, TypeOK, WorkerTypes
<1>1. CASE Worker(t)
  <2>1. CASE PushEnds(t) \/ StaleWrite(t) \/ Ack(t)
    <3>1. pc'[t] \in {"pop", "down", "check"}
      BY <2>1, EscapeLabel DEF PushEnds, StaleWrite, Ack, Restart, Goto
    <3> QED BY <3>1
  <2>2. CASE \/ Boot(t) \/ ReapEnds(t) \/ Pop(t) \/ PopTimesOut(t) \/ Skip(t) \/ Load(t)
             \/ LoadAsset(t) \/ Start(t) \/ StartUnwritten(t) \/ WriteFile(t)
             \/ RenderSucceeds(t) \/ RenderFails(t) \/ RenderUnsupported(t)
             \/ CountFailure(t) \/ Commit(t) \/ Requeue(t) \/ Continue(t) \/ Maintain(t)
    <3>1. pc'[t] \notin {"scanProcessing", "select", "push"}
      BY <2>2 DEF Boot, ReapEnds, Pop, PopTimesOut, Skip, Load, LoadAsset, Start,
         StartUnwritten, WriteFile, RenderSucceeds, RenderFails, RenderUnsupported,
         CountFailure, Commit, AfterCommit, Requeue, Continue, Maintain, Goto
    <3> QED BY <3>1
  <2>3. CASE Reap(t) \/ Push(t)
    BY <2>3 DEF Reap, Push, workerVars
  <2> QED BY <1>1, <2>1, <2>2, <2>3 DEF Worker
<1>2. CASE WorkerFault(t)
  <2>1. CASE WorkerCrashes(t) \/ DatabaseFails(t) \/ RedisFails(t)
    <3>1. pc'[t] \in {"pop", "down", "check", "commit"}
      BY <2>1, EscapeLabel DEF WorkerCrashes, DatabaseFails, RedisFails, Restart, Goto
    <3> QED BY <3>1
  <2>2. CASE ReplyLost(t)
    BY <2>2 DEF ReplyLost, workerVars
  <2> QED BY <1>2, <2>1, <2>2 DEF WorkerFault
<1>3. CASE ~Worker(t) /\ ~WorkerFault(t)
  <2>1. pc'[t] = pc[t]
    BY <1>3, OthersIdle
  <2>2. CASE UNCHANGED scan
    BY <2>1, <2>2
  <2>3. ASSUME NEW u \in Types, u # t, Worker(u) \/ WorkerFault(u)
        PROVE  scan'[t] = scan[t]
    <3>1. CASE RestartsBy(u)
      <4>1. CASE RedisFails(u) /\ ~Escape(u)
        BY <2>3, <4>1 DEF RedisFails
      <4>2. CASE \E l : Restart(u, l)
        BY <2>3, <4>2 DEF Restart
      <4> QED BY <3>1, <4>1, <4>2
           DEF RestartsBy, PushEnds, StaleWrite, Ack, WorkerCrashes, DatabaseFails, Escape
    <3>2. CASE ScanQueue(u) \/ ScanProcessing(u) \/ Select(u) \/ Push(u) \/ UNCHANGED scan
      BY <2>3, <3>2 DEF ScanQueue, ScanProcessing, Select, Push
    <3> QED BY <3>1, <3>2, <2>3
         DEF RestartsBy, Worker, WorkerFault, Boot, Reap, ReapEnds, Pop, PopTimesOut, Skip, Load,
       LoadAsset, Start, StartUnwritten, WriteFile, RenderSucceeds, RenderFails,
       RenderUnsupported, CountFailure, Commit, Requeue, Continue, Maintain, ReplyLost,
       workerVars
  <2> QED BY <1>3, <2>1, <2>2, <2>3, ScansChangedBy DEF Worker, WorkerFault
<1> QED BY <1>1, <1>2, <1>3

(* No step makes the reconciler a threat that was none before.             *)
LEMMA ExtraKept ==
    ASSUME Delivered, QueuedIsDue, Next, "flush" \notin FaultKinds,
           NEW j \in Jobs, job[j] # "absent", job'[j] # "absent", Extra(j)'
    PROVE  Extra(j)
<1> DEFINE t == TypeOf(j)
<1> USE DEF Delivered
<1>0. t \in Types /\ j[1] \in Poems /\ RowsAndSessions /\ Typed
  BY JobFacts DEF RowsAndSessions
<1>1. Kept(j) \/ Begun(j) \/ Ended(j)
  BY <1>0, RowStep DEF RowsAndSessions, Created, Removed
<1>2. \A u \in Types : cur[u] = j => u = t
  BY <1>0, HandledIsKnown
<1>3. pc[t] \in {"select", "scanProcessing", "push"} => Kept(j)
  <2>1. Begun(j) \/ Ended(j) => pc[t] \in {"start", "commit"}
    BY <1>2 DEF Begun, Ended
  <2> QED BY <1>1, <2>1
<1> HIDE DEF t
<1>4. CASE pc'[t] = "push" /\ j \in scan'[t]
  <2>1. CASE pc[t] = "push" /\ j \in scan[t]
    BY <2>1 DEF Extra, t
  <2>2. CASE Push(t)
    <3>1. pc[t] = "push" /\ scan'[t] \subseteq scan[t]
      BY <1>0, <2>2 DEF Push, Typed, TypeOK, WorkerTypes
    <3> QED BY <1>4, <3>1 DEF Extra, t
  <2>3. CASE Select(t)
    <3>1. pc[t] = "select" /\ j \notin scan[t] /\ job[j] \in {"queued", "running"}
      BY <1>0, <1>4, <2>3 DEF Select, Eligible, Typed, TypeOK, WorkerTypes
    <3> QED BY <3>1 DEF Extra, Unseen, t
  <2>4. ~ScanQueue(t) /\ ~ScanProcessing(t)
    BY <1>0, <1>4 DEF ScanQueue, ScanProcessing, Goto, Typed, TypeOK, WorkerTypes
  <2> QED BY <1>0, <1>4, <2>1, <2>2, <2>3, <2>4, ScannerComes
<1>5. CASE Unseen(j)'
  <2>0. /\ job'[j] \in {"queued", "running"} /\ j \notin scan'[t]
        /\ pc'[t] = "select" \/ (pc'[t] = "scanProcessing" /\ ~Contains(processing'[t], j))
    BY <1>5 DEF Unseen, t
  <2>1. CASE pc'[t] = pc[t] /\ scan'[t] = scan[t]
    <3>1. job[j] = job'[j]
      BY <1>3, <2>0, <2>1 DEF Kept
    <3>2. pc[t] = "scanProcessing" /\ Contains(processing[t], j) => Contains(processing'[t], j)
      BY <1>0, ProcessingLoses
    <3> QED BY <2>0, <2>1, <3>1, <3>2 DEF Extra, Unseen, t
  <2>2. CASE ScanProcessing(t)
    <3>1. /\ pc[t] = "scanProcessing" /\ job'[j] = job[j]
          /\ j \notin scan[t] /\ j \notin ToSet(processing[t])
      BY <1>0, <2>0, <2>2 DEF ScanProcessing, dbVars, Typed, TypeOK, WorkerTypes
    <3>2. ~Contains(processing[t], j)
      BY <1>0, <3>1, ToSetContains DEF Typed, TypeOK, ListTypes
    <3> QED BY <2>0, <3>1, <3>2 DEF Extra, Unseen, t
  <2>3. CASE ScanQueue(t)
    <3>1. /\ pc'[t] = "scanProcessing" /\ job'[j] = job[j] /\ processing' = processing
          /\ j \notin ToSet(queue[t])
      BY <1>0, <2>0, <2>3
         DEF ScanQueue, Goto, dbVars, redisVars, Typed, TypeOK, WorkerTypes
    <3>2. ~Parked(j)
      BY <1>0, <2>0, <3>1, ToSetContains DEF Parked, Typed, TypeOK, ListTypes, t
    <3>3. job[j] = "queued" /\ Owes(j)
      BY <2>0, <3>1, <3>2 DEF RunningIsParked, QueuedIsDue
    <3> QED BY <3>2, <3>3 DEF Extra
  <2>4. ~Select(t) /\ ~(Push(t) /\ pc'[t] = pc[t])
    BY <1>0, <2>0 DEF Select, Push, Goto, Typed, TypeOK, WorkerTypes
  <2> QED BY <1>0, <2>0, <2>1, <2>2, <2>3, <2>4, ScannerComes
<1>6. CASE Owes(j)' /\ job'[j] = "queued" /\ ~Parked(j)'
  <2>1. Owes(j)
    <3>1. request[j[1]] # "none"
      BY <1>0 DEF Typed, RequestShape
    <3>2. TypeOf(j) \in owed'[j[1]]
      BY <1>6 DEF Owes
    <3>3. TypeOf(j) \in owed[j[1]]
      BY <1>0, <3>1, <3>2, RequestsChangedBy
         DEF PersistPoem, RefreshPoem, Enqueue, RequestFails, Typed, TypeOK, ApiTypes
    <3> QED BY <3>3 DEF Owes
  <2>2. ~Ended(j)
    <3> SUFFICES ASSUME Ended(j) PROVE FALSE
      OBVIOUS
    <3>1. PICK u \in Types : pc[u] = "commit" /\ cur[u] = j
      BY DEF Ended
    <3>2. TypeOf(j) = u /\ Contains(processing[u], j)
      BY <1>0, <3>1, CurKnown DEF InFlight, Handling
    <3> QED BY <1>0, <1>6, <3>1, <3>2, ParkedLoses DEF Parked
  <2>3. job[j] = "queued"
    BY <1>1, <1>6, <2>2 DEF Kept, Begun
  <2>4. ~Parked(j)
    BY <1>0, <1>6, <2>3, ParkedLoses DEF InFlight, t
  <2> QED BY <2>1, <2>3, <2>4 DEF Extra
<1> QED BY <1>4, <1>5, <1>6 DEF Extra, t

(* A step pays for what it adds: the cost of a job rises by no more than   *)
(* the faults do.                                                          *)
Affordable(j) == Used(j)' + faults <= Used(j) + faults'

(* Two states of one job whose lists hold as many copies.                  *)
Moved(j) ==
    LET t == TypeOf(j) IN
    Copies(queue'[t], j) + Copies(processing'[t], j)
        = Copies(queue[t], j) + Copies(processing[t], j)

(* What every step keeps of the terms of a job whose rows exist.           *)
Prepared(j) ==
    /\ Terms(j) /\ Terms(j)' /\ faults' >= faults
    /\ Left(j)' <= Left(j)
    /\ Extra(j)' => Extra(j)

(* In a steady pipeline every step keeps them.                             *)
LEMMA PreparedStep ==
    ASSUME Delivered, QueuedIsDue, Steady, Next,
           NEW j \in Jobs, job[j] # "absent", job'[j] # "absent"
    PROVE  Prepared(j)
<1> USE DEF Delivered
<1>1. Typed /\ Typed'
  BY RowsAndSessionsStep DEF RowsAndSessions
<1>3. Terms(j) /\ Terms(j)'
  BY <1>1, TermsTypedNext, TermsTyped
<1>4. faults' >= faults
  <2>1. faults \in Nat
    BY <1>3 DEF Terms
  <2> QED BY <2>1, FaultsCounted DEF Fault
<1>5. Left(j)' <= Left(j)
  <2>1. retry'[j] \in Nat /\ retry[j] \in Nat /\ retry'[j] >= retry[j]
    BY RetryGrows
  <2> QED BY <2>1, BoundsAssumption DEF Left
<1>6. Extra(j)' => Extra(j)
  <2>1. "flush" \notin FaultKinds
    BY DEF Steady
  <2> QED BY <2>1, ExtraKept
<1> QED BY <1>3, <1>4, <1>5, <1>6 DEF Prepared

(* A step that calls no processor and counts no failure, after which no    *)
(* more copies are promised, costs nothing if the worker keeps what it     *)
(* has spent, and one fault at most if it does not.                        *)
LEMMA Quiet ==
    ASSUME NEW j \in Jobs, Prepared(j), Moved(j), renders'[j] = renders[j],
           Owes(j)' => Owes(j), Promised(j)' => Promised(j),
           faults' = faults => (Spent(j) => Spent(j)')
    PROVE  Affordable(j)
<1>1. /\ One(Owes(j))' <= One(Owes(j)) /\ One(Extra(j))' <= One(Extra(j))
      /\ One(Promised(j))' <= One(Promised(j))
      /\ faults' = faults => One(Spent(j)) <= One(Spent(j))'
  BY DEF One, Prepared
<1> QED BY <1>1 DEF Affordable, Used, Moved, Prepared, Terms

(* Enqueueing pays with what the request owed.                             *)
LEMMA ApiAffords ==
    ASSUME RowsAndSessions, NEW p \in Poems, Api(p),
           NEW j \in Jobs, Prepared(j), job[j] # "absent"
    PROVE  Affordable(j)
<1> DEFINE t == TypeOf(j)
<1>0. /\ t \in Types /\ j[1] \in Poems /\ request[j[1]] # "none" /\ j = <<j[1], t>>
      /\ owed \in [Poems -> SUBSET Types] /\ queue \in [Types -> Seq(Jobs)] /\ Typed
  BY JobFacts DEF RowsAndSessions, Typed, TypeOK, ApiTypes, ListTypes, RequestShape
<1>1. UNCHANGED <<workerVars, processing, renders>>
  BY DEF Api, PersistPoem, RefreshPoem, Enqueue, DeleteFiles, DeleteRows, EnqueueReplyLost,
     RequestFails, DeleteFails, redisVars
<1> HIDE DEF t
<1>2. (Promised(j)' <=> Promised(j)) /\ (Spent(j)' <=> Spent(j))
  BY <1>1 DEF Promised, Spent, workerVars
<1>3. CASE UNCHANGED queue /\ (Owes(j)' => Owes(j))
  <2>1. Moved(j)
    BY <1>1, <1>3 DEF Moved
  <2> QED BY <1>1, <1>2, <1>3, <2>1, Quiet
<1>4. CASE Enqueue(p) \/ EnqueueReplyLost(p)
  <2> DEFINE u == FirstOwed(owed[p])
  <2>1. /\ request[p] = "enqueue"
        /\ queue' = [queue EXCEPT ![u] = Append(@, <<p, u>>)]
    BY <1>4 DEF Enqueue, EnqueueReplyLost
  <2>2. u \in Types /\ <<p, u>> \in Jobs /\ u \in owed[p]
    BY <1>0, <2>1, EnqueueFacts
  <2> HIDE DEF u
  <2>3. Copies(queue'[t], j) = Copies(queue[t], j) + One(<<p, u>> = j)
    <3>1. CASE u = t
      <4>1. queue[t] \in Seq(Jobs) /\ queue'[t] = Append(queue[t], <<p, u>>)
        BY <1>0, <2>1, <3>1
      <4> QED BY <2>2, <4>1, CopiesAppend
    <3>2. CASE u # t
      <4>1. queue'[t] = queue[t] /\ <<p, u>> # j
        BY <1>0, <2>1, <2>2, <3>2
      <4> QED BY <4>1 DEF One, Prepared, Terms, t
    <3> QED BY <3>1, <3>2
  <2>4. Copies(processing'[t], j) = Copies(processing[t], j)
    BY <1>1
  <2>5. CASE <<p, u>> # j /\ Enqueue(p)
    <3>1. Moved(j)
      BY <2>3, <2>4, <2>5 DEF Moved, One, t, Prepared, Terms
    <3>2. Owes(j)' => Owes(j)
      BY <1>0, <2>5 DEF Owes, Enqueue, u
    <3> QED BY <1>1, <1>2, <3>1, <3>2, Quiet
  <2>6. CASE <<p, u>> = j /\ Enqueue(p)
    <3>1. p = j[1] /\ u = t
      BY <2>2, <2>6, JobFacts DEF t
    <3>2. Owes(j) /\ ~Owes(j)'
      BY <1>0, <2>2, <2>6, <3>1 DEF Owes, Enqueue, t, u
    <3>3. faults' = faults /\ renders' = renders
      BY <2>6 DEF Enqueue
    <3>4. /\ Copies(queue'[t], j) = Copies(queue[t], j) + 1
          /\ One(Owes(j)) = 1 /\ One(Owes(j))' = 0
          /\ One(Extra(j))' <= One(Extra(j))
          /\ One(Promised(j))' = One(Promised(j)) /\ One(Spent(j))' = One(Spent(j))
      BY <1>2, <2>3, <2>6, <3>2 DEF One, Prepared
    <3> QED BY <2>4, <3>3, <3>4 DEF Affordable, Used, Prepared, Terms, t
  <2>7. CASE EnqueueReplyLost(p)
    <3>1. (Owes(j)' <=> Owes(j)) /\ faults' = faults + 1 /\ renders' = renders
      BY <2>7 DEF EnqueueReplyLost, Fault, apiVars, Owes
    <3>2. /\ One(Owes(j))' = One(Owes(j)) /\ One(Extra(j))' <= One(Extra(j))
          /\ One(Promised(j))' = One(Promised(j)) /\ One(Spent(j))' = One(Spent(j))
          /\ One(<<p, u>> = j) <= 1 /\ One(<<p, u>> = j) \in Nat
      BY <1>2, <3>1 DEF One, Prepared
    <3> QED BY <2>3, <2>4, <3>1, <3>2 DEF Affordable, Used, Prepared, Terms, t
  <2> QED BY <1>4, <2>5, <2>6, <2>7
<1>5. CASE \E S \in SUBSET Types : PersistPoem(p, S)
  <2>1. UNCHANGED queue /\ (Owes(j)' => Owes(j))
    BY <1>0, <1>5 DEF PersistPoem, Owes, redisVars
  <2> QED BY <1>3, <2>1
<1>6. CASE \/ RefreshPoem(p) \/ DeleteFiles(p) \/ DeleteRows(p) \/ RequestFails(p)
           \/ DeleteFails(p)
  <2>1. UNCHANGED queue /\ (Owes(j)' => Owes(j))
    BY <1>6 DEF RefreshPoem, DeleteFiles, DeleteRows, RequestFails, DeleteFails, Owes, redisVars
  <2> QED BY <1>3, <2>1
<1> QED BY <1>4, <1>5, <1>6 DEF Api

(* The steps of its worker that touch neither the lists nor a counter.     *)
Local(t) ==
    \/ Boot(t) \/ ReapEnds(t) \/ ScanQueue(t) \/ ScanProcessing(t) \/ Select(t)
    \/ PushEnds(t) \/ PopTimesOut(t) \/ Skip(t) \/ Load(t) \/ LoadAsset(t) \/ StaleWrite(t)
    \/ WriteFile(t) \/ RenderSucceeds(t) \/ RenderFails(t) \/ RenderUnsupported(t)
    \/ Commit(t) \/ Continue(t) \/ Maintain(t)

(* They promise no copy and forget nothing that was spent.                 *)
LEMMA LocalAffords ==
    ASSUME RowsAndSessions, NEW j \in Jobs, Prepared(j), Local(TypeOf(j)), job[j] # "absent"
    PROVE  Affordable(j)
<1> DEFINE t == TypeOf(j)
<1>0. t \in Types /\ WorkerTypes /\ Local(t)
  BY JobFacts DEF RowsAndSessions, Typed, TypeOK
<1>1. UNCHANGED <<queue, processing, renders, faults, owed>>
  BY <1>0 DEF Local, Boot, ReapEnds, ScanQueue, ScanProcessing, Select, PushEnds, PopTimesOut,
     Skip, Load, LoadAsset, StaleWrite, WriteFile, RenderSucceeds, RenderFails,
     RenderUnsupported, Commit, Continue, Maintain, redisVars, apiVars
<1> HIDE DEF t
<1>2. Promised(j)' => Promised(j)
  <2> SUFFICES ASSUME cur'[t] = j, pc'[t] = "requeue" \/ (pc'[t] = "commit" /\ mem'[t] = "queued")
               PROVE  cur[t] = j /\ pc[t] = "commit" /\ mem[t] = "queued"
    BY DEF Promised, t
  <2>1. CASE PushEnds(t) \/ StaleWrite(t)
    <3>1. pc'[t] \in {"pop", "down"}
      BY <1>0, <2>1, EscapeLabel DEF PushEnds, StaleWrite, Restart, Goto, WorkerTypes
    <3> QED BY <3>1
  <2>2. CASE Commit(t)
    BY <1>0, <2>2 DEF Commit, AfterCommit, Goto, WorkerTypes
  <2>3. CASE \/ Boot(t) \/ ReapEnds(t) \/ ScanQueue(t) \/ ScanProcessing(t) \/ Select(t)
             \/ PopTimesOut(t) \/ Skip(t) \/ Load(t) \/ LoadAsset(t) \/ WriteFile(t)
             \/ RenderFails(t) \/ Continue(t) \/ Maintain(t)
    BY <1>0, <2>3 DEF Boot, ReapEnds, ScanQueue, ScanProcessing, Select, PopTimesOut, Skip,
       Load, LoadAsset, WriteFile, RenderFails, Continue, Maintain, Goto, WorkerTypes
  <2>4. CASE RenderSucceeds(t) \/ RenderUnsupported(t)
    BY <1>0, <2>4 DEF RenderSucceeds, RenderUnsupported, Goto, WorkerTypes
  <2> QED BY <1>0, <2>1, <2>2, <2>3, <2>4 DEF Local
<1>3. Spent(j) => Spent(j)'
  <2> SUFFICES ASSUME cur[t] = j, pc[t] \in Spending
               PROVE  cur'[t] = j /\ pc'[t] \in Spending
    BY <1>1 DEF Spent, t
  <2>1. CASE WriteFile(t) \/ RenderSucceeds(t) \/ RenderFails(t) \/ RenderUnsupported(t)
    BY <1>0, <2>1 DEF WriteFile, RenderSucceeds, RenderFails, RenderUnsupported, Goto,
       WorkerTypes, Spending
  <2>2. CASE Commit(t)
    BY <1>0, <2>2 DEF Commit, AfterCommit, Goto, WorkerTypes, Spending
  <2>3. CASE StaleWrite(t)
    BY <2>3 DEF StaleWrite
  <2> QED BY <1>0, <2>1, <2>2, <2>3
       DEF Local, Boot, ReapEnds, ScanQueue, ScanProcessing, Select, PushEnds, PopTimesOut, Skip,
     Load, LoadAsset, Continue, Maintain, Spending
<1>4. Moved(j) /\ (Owes(j)' => Owes(j)) /\ renders'[j] = renders[j]
  BY <1>1 DEF Moved, Owes
<1> QED BY <1>2, <1>3, <1>4, Quiet

(* A copy that is moved from one list to the other remains one.            *)
LEMMA MoveAffords ==
    ASSUME RowsAndSessions, NEW j \in Jobs, Prepared(j),
           LET t == TypeOf(j) IN Reap(t) \/ Pop(t) \/ (pc[t] = "pop" /\ ReplyLost(t))
    PROVE  Affordable(j)
<1> DEFINE t == TypeOf(j)
<1>0. /\ t \in Types /\ WorkerTypes
      /\ queue[t] \in Seq(Jobs) /\ processing[t] \in Seq(Jobs)
      /\ queue \in [Types -> Seq(Jobs)] /\ processing \in [Types -> Seq(Jobs)]
      /\ Reap(t) \/ Pop(t) \/ (pc[t] = "pop" /\ ReplyLost(t))
  BY JobFacts DEF RowsAndSessions, Typed, TypeOK, ListTypes
<1> HIDE DEF t
<1>1. renders'[j] = renders[j] /\ (Owes(j)' => Owes(j))
  BY <1>0 DEF Reap, Pop, ReplyLost, apiVars, Owes
<1>2. ~Spent(j) /\ ~Promised(j)'
  BY <1>0 DEF Reap, Pop, ReplyLost, Goto, workerVars, WorkerTypes, Spent, Promised, Spending, t
<1>3. CASE Reap(t)
  <2>1. /\ processing[t] # <<>>
        /\ queue'[t] = Cons(Head(processing[t]), queue[t]) /\ processing'[t] = Tail(processing[t])
    BY <1>0, <1>3 DEF Reap
  <2>2. Head(processing[t]) \in Jobs
    BY <1>0, <2>1, ContainsTail
  <2>3. Copies(queue'[t], j) = Copies(queue[t], j) + One(Head(processing[t]) = j)
    BY <1>0, <2>1, <2>2, CopiesCons
  <2>4. Copies(processing[t], j) = Copies(processing'[t], j) + One(Head(processing[t]) = j)
    BY <1>0, <2>1, CopiesTail
  <2>5. Moved(j)
    <3>1. Copies(queue[t], j) \in Nat /\ Copies(processing'[t], j) \in Nat
      BY DEF Prepared, Terms, t
    <3>2. One(Head(processing[t]) = j) \in Nat
      BY DEF One
    <3> QED BY <2>3, <2>4, <3>1, <3>2 DEF Moved, t
  <2> QED BY <1>1, <1>2, <2>5, Quiet
<1>4. CASE Pop(t) \/ (pc[t] = "pop" /\ ReplyLost(t))
  <2>1. /\ queue[t] # <<>>
        /\ queue'[t] = Tail(queue[t]) /\ processing'[t] = Append(processing[t], Head(queue[t]))
    BY <1>0, <1>4 DEF Pop, ReplyLost, Reserve
  <2>2. Head(queue[t]) \in Jobs
    BY <1>0, <2>1, ContainsTail
  <2>3. Copies(processing'[t], j) = Copies(processing[t], j) + One(Head(queue[t]) = j)
    BY <1>0, <2>1, <2>2, CopiesAppend
  <2>4. Copies(queue[t], j) = Copies(queue'[t], j) + One(Head(queue[t]) = j)
    BY <1>0, <2>1, CopiesTail
  <2>5. Moved(j)
    <3>1. Copies(queue'[t], j) \in Nat /\ Copies(processing[t], j) \in Nat
      BY DEF Prepared, Terms, t
    <3>2. One(Head(queue[t]) = j) \in Nat
      BY DEF One
    <3> QED BY <2>3, <2>4, <3>1, <3>2 DEF Moved, t
  <2> QED BY <1>1, <1>2, <2>5, Quiet
<1> QED BY <1>0, <1>3, <1>4

(* An id on the tail of a list is one copy more of the job it is of.       *)
LEMMA AppendedCopies ==
    ASSUME Typed, NEW t \in Types, NEW k \in Jobs, queue' = [queue EXCEPT ![t] = Append(@, k)],
           NEW j \in Jobs, TypeOf(j) = t
    PROVE  Copies(queue'[t], j) = Copies(queue[t], j) + One(k = j)
<1>1. queue[t] \in Seq(Jobs) /\ queue'[t] = Append(queue[t], k)
  BY DEF Typed, TypeOK, ListTypes
<1> QED BY <1>1, CopiesAppend

(* The copies of an id that its worker, or the worker of another id of the *)
(* same type, acknowledges.                                                *)
LEMMA AcknowledgedCopies ==
    ASSUME Typed, NEW j \in Jobs, Prepared(j), Acknowledge(TypeOf(j))
    PROVE  LET t == TypeOf(j) IN
           \/ Copies(processing'[t], j) = Copies(processing[t], j)
              /\ (cur[t] = j => ~Contains(processing[t], j))
           \/ Copies(processing'[t], j) = Copies(processing[t], j) - 1
              /\ cur[t] = j /\ Contains(processing[t], j)
<1> DEFINE t == TypeOf(j)
<1>0. /\ t \in Types /\ processing[t] \in Seq(Jobs) /\ processing \in [Types -> Seq(Jobs)]
      /\ Acknowledge(t) /\ Copies(processing[t], j) \in Nat /\ Copies(processing'[t], j) \in Nat
  BY JobFacts DEF Typed, TypeOK, ListTypes, Prepared, Terms
<1> HIDE DEF t
<1>1. CASE ~Contains(processing[t], cur[t]) /\ UNCHANGED processing
  BY <1>1 DEF t
<1>2. ASSUME NEW n \in 1..Len(processing[t]), processing[t][n] = cur[t],
             processing' = [processing EXCEPT ![t] = RemoveAt(processing[t], n)]
      PROVE  \/ Copies(processing'[t], j) = Copies(processing[t], j) /\ cur[t] # j
             \/ Copies(processing'[t], j) = Copies(processing[t], j) - 1
                /\ cur[t] = j /\ Contains(processing[t], j)
  <2>1. processing'[t] = RemoveAt(processing[t], n)
    BY <1>0, <1>2
  <2>2. Copies(processing[t], j) = Copies(RemoveAt(processing[t], n), j) + One(processing[t][n] = j)
    BY <1>0, CopiesRemoveAt
  <2>3. Contains(processing[t], cur[t])
    BY <1>2 DEF Contains
  <2>4. Copies(processing[t], j) = Copies(processing'[t], j) + One(cur[t] = j)
    BY <1>2, <2>1, <2>2
  <2>5. Copies(processing[t], j) \in Nat /\ Copies(processing'[t], j) \in Nat
    BY <1>0
  <2>6. CASE cur[t] = j
    BY <2>3, <2>4, <2>5, <2>6 DEF One
  <2>7. CASE cur[t] # j
    BY <2>4, <2>5, <2>7 DEF One
  <2> QED BY <2>6, <2>7
<1> QED BY <1>0, <1>1, <1>2 DEF Acknowledge, t

(* The reconciler's copy was counted when it became possible, that of a    *)
(* retry when it was promised.                                             *)
LEMMA PushAffords ==
    ASSUME RowsAndSessions, NEW j \in Jobs, Prepared(j), Push(TypeOf(j))
    PROVE  Affordable(j)
<1> DEFINE t == TypeOf(j)
<1>0. /\ t \in Types /\ WorkerTypes /\ Typed /\ Push(t)
      /\ scan \in [Types -> SUBSET Jobs]
  BY JobFacts DEF RowsAndSessions, Typed, TypeOK, WorkerTypes
<1> HIDE DEF t
<1>1. PICK k \in scan[t] : /\ queue' = [queue EXCEPT ![t] = Append(@, k)]
                           /\ scan' = [scan EXCEPT ![t] = @ \ {k}]
  BY <1>0 DEF Push
<1>2. /\ UNCHANGED <<processing, owed, pc, cur, mem>> /\ renders'[j] = renders[j]
      /\ faults' = faults /\ pc[t] = "push"
  BY <1>0 DEF Push, apiVars
<1>3. k \in Jobs
  BY <1>0
<1>4. Copies(queue'[t], j) = Copies(queue[t], j) + One(k = j)
  BY <1>0, <1>1, <1>3, AppendedCopies DEF t
<1>5. /\ Owes(j)' <=> Owes(j)
      /\ ~Promised(j) /\ ~Promised(j)' /\ ~Spent(j) /\ ~Spent(j)'
  BY <1>2 DEF Owes, Promised, Spent, Spending, t
<1>6. CASE k = j
  <2>1. Extra(j)
    BY <1>1, <1>2, <1>6 DEF Extra, t
  <2>2. ~Extra(j)'
    <3>1. j \notin scan'[t]
      BY <1>0, <1>1, <1>6
    <3>2. Contains(queue'[t], j)
      BY <1>4, <1>6 DEF Prepared, Terms, One, t
    <3> QED BY <1>2, <3>1, <3>2 DEF Extra, Unseen, Parked, t
  <2>3. /\ One(Extra(j)) = 1 /\ One(Extra(j))' = 0 /\ One(k = j) = 1
        /\ One(Owes(j))' = One(Owes(j)) /\ One(Promised(j))' = One(Promised(j))
        /\ One(Spent(j))' = One(Spent(j))
    BY <1>5, <1>6, <2>1, <2>2 DEF One
  <2> QED BY <1>2, <1>4, <2>3 DEF Affordable, Used, Prepared, Terms, t
<1>7. CASE k # j
  <2>1. Moved(j)
    BY <1>2, <1>4, <1>7 DEF Moved, One, Prepared, Terms, t
  <2> QED BY <1>2, <1>5, <2>1, Quiet
<1> QED BY <1>6, <1>7

(* The copy that a retry adds was promised when the counter was raised.    *)
LEMMA RequeueAffords ==
    ASSUME RowsAndSessions, NEW j \in Jobs, Prepared(j), Requeue(TypeOf(j))
    PROVE  Affordable(j)
<1> DEFINE t == TypeOf(j)
<1>0. t \in Types /\ WorkerTypes /\ Typed /\ Requeue(t)
  BY JobFacts DEF RowsAndSessions, Typed, TypeOK
<1> HIDE DEF t
<1>1. /\ UNCHANGED <<processing, owed, cur, mem>> /\ renders'[j] = renders[j]
      /\ faults' = faults /\ pc[t] = "requeue" /\ pc'[t] = "ack"
      /\ queue' = [queue EXCEPT ![t] = Append(@, cur[t])]
  BY <1>0 DEF Requeue, Goto, apiVars, WorkerTypes
<1>2. cur[t] \in Jobs
  BY <1>0, <1>1 DEF Typed, HandlesJob, Handling
<1>3. Copies(queue'[t], j) = Copies(queue[t], j) + One(cur[t] = j)
  BY <1>0, <1>1, <1>2, AppendedCopies DEF t
<1>4. (Owes(j)' <=> Owes(j)) /\ (Spent(j)' <=> Spent(j)) /\ ~Promised(j)'
  BY <1>1 DEF Owes, Promised, Spent, Spending, t
<1>5. Promised(j) <=> cur[t] = j
  BY <1>1 DEF Promised, t
<1>6. /\ One(Owes(j))' = One(Owes(j)) /\ One(Spent(j))' = One(Spent(j))
      /\ One(Promised(j))' = 0 /\ One(Promised(j)) = One(cur[t] = j)
      /\ One(Extra(j))' <= One(Extra(j))
  BY <1>4, <1>5 DEF One, Prepared
<1>7. /\ processing' = processing /\ renders'[j] = renders[j] /\ faults' = faults
      /\ One(cur[t] = j) \in Nat
  BY <1>1 DEF One
<1> QED BY <1>3, <1>6, <1>7 DEF Affordable, Used, Prepared, Terms, t

(* The call of the processor is paid by the copy it was popped with.       *)
LEMMA StartAffords ==
    ASSUME Delivered, "flush" \notin FaultKinds,
           NEW j \in Jobs, Prepared(j), Start(TypeOf(j)) \/ StartUnwritten(TypeOf(j)),
           job[j] # "absent"
    PROVE  Affordable(j)
<1> DEFINE t == TypeOf(j)
<1>0. /\ t \in Types /\ WorkerTypes /\ Typed
      /\ Start(t) \/ StartUnwritten(t)
  BY JobFacts DEF Delivered, RowsAndSessions, Typed, TypeOK
<1> HIDE DEF t
<1>1. /\ UNCHANGED <<queue, processing, owed, cur, faults>>
      /\ pc[t] = "start" /\ pc'[t] \in {"render", "count"}
  <2>1. CASE Start(t)
    BY <1>0, <2>1 DEF Start, Goto, redisVars, apiVars, WorkerTypes
  <2>2. CASE StartUnwritten(t)
    BY <1>0, <2>2 DEF StartUnwritten, Goto, redisVars, apiVars, WorkerTypes
  <2> QED BY <1>0, <2>1, <2>2
<1>2. /\ Owes(j)' <=> Owes(j)
      /\ ~Promised(j) /\ ~Promised(j)' /\ ~Spent(j)
  BY <1>1 DEF Owes, Promised, Spent, Spending, t
<1>3. renders'[j] = renders[j] \/ (renders'[j] = renders[j] + 1 /\ Start(t) /\ cur[t] = j)
  <2>1. renders \in [Jobs -> Nat]
    BY <1>0 DEF Typed, TypeOK, CounterTypes
  <2>2. CASE Start(t)
    BY <2>1, <2>2 DEF Start
  <2>3. CASE StartUnwritten(t)
    BY <2>1, <2>3 DEF StartUnwritten
  <2> QED BY <1>0, <2>2, <2>3
<1>4. CASE renders'[j] = renders[j]
  <2>1. Moved(j)
    BY <1>1 DEF Moved
  <2> QED BY <1>2, <1>4, <2>1, Quiet
<1>5. CASE renders'[j] = renders[j] + 1 /\ cur[t] = j
  <2>1. Contains(processing[t], j)
    <3>1. pc[t] \in Handling \ {"ack"} /\ InFlight
      BY <1>1 DEF Delivered, Handling
    <3> QED BY <1>0, <1>5, <3>1 DEF InFlight
  <2>2. Spent(j)'
    BY <1>1, <1>5, <2>1 DEF Spent, Spending, t
  <2>3. /\ One(Owes(j))' = One(Owes(j)) /\ One(Promised(j))' = One(Promised(j))
        /\ One(Spent(j)) = 0 /\ One(Spent(j))' = 1 /\ One(Extra(j))' <= One(Extra(j))
    BY <1>2, <2>2 DEF One, Prepared
  <2>4. queue' = queue /\ processing' = processing /\ faults' = faults
    BY <1>1
  <2> QED BY <1>5, <2>3, <2>4 DEF Affordable, Used, Prepared, Terms
<1> QED BY <1>3, <1>4, <1>5

(* A failure that is retried turns an attempt that is left into a promise. *)
LEMMA CountAffords ==
    ASSUME RowsAndSessions, NEW j \in Jobs, Prepared(j), CountFailure(TypeOf(j))
    PROVE  Affordable(j)
<1> DEFINE t == TypeOf(j)
<1>0. t \in Types /\ WorkerTypes /\ Typed /\ CountFailure(t)
  BY JobFacts DEF RowsAndSessions, Typed, TypeOK
<1> HIDE DEF t
<1>1. /\ UNCHANGED <<queue, processing, owed, cur, faults, renders>>
      /\ pc[t] = "count" /\ pc'[t] = "commit"
  BY <1>0 DEF CountFailure, Goto, apiVars, WorkerTypes
<1>2. (Owes(j)' <=> Owes(j)) /\ ~Promised(j) /\ (Spent(j)' <=> Spent(j))
  BY <1>1 DEF Owes, Promised, Spent, Spending, t
<1>3. CASE ~Promised(j)'
  <2>1. Moved(j)
    BY <1>1 DEF Moved
  <2> QED BY <1>1, <1>2, <1>3, <2>1, Quiet
<1>4. CASE Promised(j)'
  <2>1. cur[t] = j /\ mem'[t] = "queued" /\ retry[j] \in Nat
    BY <1>0, <1>1, <1>4 DEF Promised, t, Typed, TypeOK, CounterTypes
  <2>2. retry'[j] = retry[j] + 1 /\ retry[j] + 1 <= MaxRetries
    BY <1>0, <2>1 DEF CountFailure, Retryable, Typed, TypeOK, WorkerTypes, CounterTypes
  <2>3. Left(j)' = Left(j) - 1
    BY <2>1, <2>2, BoundsAssumption DEF Left
  <2>4. /\ One(Owes(j))' = One(Owes(j)) /\ One(Spent(j))' = One(Spent(j))
        /\ One(Promised(j))' = 1 /\ One(Promised(j)) = 0 /\ One(Extra(j))' <= One(Extra(j))
    BY <1>2, <1>4 DEF One, Prepared
  <2> QED BY <1>1, <2>3, <2>4 DEF Affordable, Used, Prepared, Terms
<1> QED BY <1>3, <1>4

(* The acknowledgement takes the copy away that the render was paid with.  *)
LEMMA AckAffords ==
    ASSUME RowsAndSessions, NEW j \in Jobs, Prepared(j), Ack(TypeOf(j))
    PROVE  Affordable(j)
<1> DEFINE t == TypeOf(j)
<1>0. t \in Types /\ WorkerTypes /\ Typed /\ Ack(t)
  BY JobFacts DEF RowsAndSessions, Typed, TypeOK
<1>1. /\ UNCHANGED <<queue, owed, faults, renders>>
      /\ pc[t] = "ack" /\ pc'[t] = "check"
  BY <1>0 DEF Ack, Restart, Goto, apiVars, WorkerTypes
<1>2. \/ Copies(processing'[t], j) = Copies(processing[t], j)
         /\ (cur[t] = j => ~Contains(processing[t], j))
      \/ Copies(processing'[t], j) = Copies(processing[t], j) - 1
         /\ cur[t] = j /\ Contains(processing[t], j)
  BY <1>0, AcknowledgedCopies DEF Ack
<1> HIDE DEF t
<1>3. (Owes(j)' <=> Owes(j)) /\ ~Promised(j) /\ ~Promised(j)' /\ ~Spent(j)'
  BY <1>1 DEF Owes, Promised, Spent, Spending, t
<1>4. Spent(j) => Copies(processing'[t], j) = Copies(processing[t], j) - 1
  BY <1>1, <1>2 DEF Spent, t
<1>5. One(Spent(j)) <= Copies(processing[t], j) - Copies(processing'[t], j)
  BY <1>2, <1>4 DEF One, Prepared, Terms, t
<1>6. /\ One(Owes(j))' = One(Owes(j)) /\ One(Promised(j))' = One(Promised(j))
      /\ One(Spent(j))' = 0 /\ One(Extra(j))' <= One(Extra(j))
  BY <1>3 DEF One, Prepared
<1>7. queue' = queue /\ renders' = renders /\ faults' = faults
  BY <1>1
<1> QED BY <1>5, <1>6, <1>7 DEF Affordable, Used, Prepared, Terms, t

(* A fault costs one render at most: a copy that is there twice, or the    *)
(* loss of what the worker had done with the copy in its hands.            *)
LEMMA FaultAffords ==
    ASSUME RowsAndSessions, NEW j \in Jobs, Prepared(j), WorkerFault(TypeOf(j))
    PROVE  Affordable(j)
<1> DEFINE t == TypeOf(j)
<1>0. t \in Types /\ WorkerTypes /\ Typed /\ WorkerFault(t)
  BY JobFacts DEF RowsAndSessions, Typed, TypeOK
<1> HIDE DEF t
<1>1. faults \in Nat /\ faults' = faults + 1
  BY <1>0 DEF WorkerFault, WorkerCrashes, RedisFails, ReplyLost, DatabaseFails, Fault,
     Prepared, Terms
<1>2. UNCHANGED <<owed, renders>>
  BY <1>0 DEF WorkerFault, WorkerCrashes, RedisFails, ReplyLost, DatabaseFails, apiVars
<1>3. Owes(j)' <=> Owes(j)
  BY <1>2 DEF Owes
<1>4. CASE ~ReplyLost(t)
  <2>1. UNCHANGED <<queue, processing>>
    BY <1>0, <1>4 DEF WorkerFault, WorkerCrashes, RedisFails, DatabaseFails, redisVars
  <2>2. ~Promised(j)'
    <3>1. CASE WorkerCrashes(t) \/ DatabaseFails(t) \/ (RedisFails(t) /\ Escape(t))
      <4>1. pc'[t] \in {"pop", "down"}
        BY <1>0, <3>1, EscapeLabel
           DEF WorkerCrashes, DatabaseFails, Restart, Goto, WorkerTypes
      <4> QED BY <4>1 DEF Promised, t
    <3>2. CASE RedisFails(t) /\ ~Escape(t)
      <4>1. pc'[t] = "check" \/ (pc'[t] = "commit" /\ mem'[t] = "failed")
        BY <1>0, <3>2 DEF RedisFails, Goto, WorkerTypes
      <4> QED BY <4>1 DEF Promised, t
    <3> QED BY <1>0, <1>4, <3>1, <3>2 DEF WorkerFault
  <2>3. Moved(j)
    BY <2>1 DEF Moved
  <2> QED BY <1>1, <1>2, <1>3, <2>2, <2>3, Quiet
<1>5. CASE ReplyLost(t)
  <2>1. UNCHANGED <<pc, cur, mem>> /\ pc[t] \in {"push", "pop", "count", "requeue", "ack"}
    BY <1>5 DEF ReplyLost, workerVars
  <2>2. Promised(j)' <=> Promised(j)
    BY <2>1 DEF Promised
  <2>3. CASE pc[t] = "pop"
    BY <1>5, <2>3, MoveAffords DEF t
  <2>4. CASE pc[t] = "count"
    <3>1. UNCHANGED <<queue, processing>>
      BY <1>5, <2>4 DEF ReplyLost
    <3>2. Moved(j)
      BY <3>1 DEF Moved
    <3> QED BY <1>1, <1>2, <1>3, <2>2, <3>2, Quiet
  <2>5. CASE pc[t] \in {"push", "requeue"}
    <3>1. PICK k \in Jobs : queue' = [queue EXCEPT ![t] = Append(@, k)]
      <4>1. scan[t] \subseteq Jobs /\ (pc[t] = "requeue" => cur[t] \in Jobs)
        BY <1>0 DEF Typed, HandlesJob, Handling, WorkerTypes
      <4> QED BY <1>5, <2>5, <4>1 DEF ReplyLost
    <3>2. UNCHANGED processing
      BY <1>5, <2>5 DEF ReplyLost
    <3>3. Copies(queue'[t], j) = Copies(queue[t], j) + One(k = j)
      BY <1>0, <3>1, AppendedCopies DEF t
    <3>4. Spent(j)' <=> Spent(j)
      BY <2>1, <3>2 DEF Spent
    <3>5. /\ One(Owes(j))' = One(Owes(j)) /\ One(Promised(j))' = One(Promised(j))
          /\ One(Spent(j))' = One(Spent(j)) /\ One(Extra(j))' <= One(Extra(j))
          /\ One(k = j) \in 0..1
      BY <1>3, <2>2, <3>4 DEF One, Prepared
    <3>6. processing' = processing /\ renders' = renders
      BY <1>2, <3>2
    <3> QED BY <1>1, <3>3, <3>5, <3>6 DEF Affordable, Used, Prepared, Terms, t
  <2>6. CASE pc[t] = "ack"
    <3>1. Acknowledge(t) /\ UNCHANGED queue
      BY <1>5, <2>6 DEF ReplyLost
    <3>2. Copies(processing'[t], j) <= Copies(processing[t], j)
      <4>1. Copies(processing[t], j) \in Nat
        BY DEF Prepared, Terms, t
      <4> QED BY <1>0, <3>1, <4>1, AcknowledgedCopies DEF t
    <3>3. /\ One(Owes(j))' = One(Owes(j)) /\ One(Promised(j))' = One(Promised(j))
          /\ One(Extra(j))' <= One(Extra(j))
      BY <1>3, <2>2 DEF One, Prepared
    <3>4. queue' = queue /\ renders' = renders
      BY <1>2, <3>1
    <3> QED BY <1>1, <3>2, <3>3, <3>4 DEF Affordable, Used, Prepared, Terms, t
  <2> QED BY <2>1, <2>3, <2>4, <2>5, <2>6
<1> QED BY <1>4, <1>5

(* No step costs more than its fault.                                      *)
LEMMA AffordableStep ==
    ASSUME Delivered, QueuedIsDue, Steady, Next,
           NEW j \in Jobs, job[j] # "absent", job'[j] # "absent"
    PROVE  Affordable(j)
<1>1. Prepared(j) /\ RowsAndSessions /\ "flush" \notin FaultKinds
  BY PreparedStep DEF Delivered, Steady
<1>2. ASSUME NEW p \in Poems, Api(p)
      PROVE  Affordable(j)
  BY <1>1, <1>2, ApiAffords
<1>3. ASSUME NEW u \in Types, u # TypeOf(j), Worker(u) \/ WorkerFault(u)
      PROVE  Affordable(j)
  <2> DEFINE t == TypeOf(j)
  <2>1. /\ pc'[t] = pc[t] /\ cur'[t] = cur[t] /\ mem'[t] = mem[t]
        /\ queue'[t] = queue[t] /\ processing'[t] = processing[t] /\ UNCHANGED owed
        /\ renders'[j] = renders[j]
    BY <1>1, <1>3, OthersLeave
  <2>2. /\ Moved(j) /\ (Owes(j)' <=> Owes(j)) /\ (Promised(j)' <=> Promised(j))
        /\ Spent(j)' <=> Spent(j)
    BY <2>1 DEF Moved, Owes, Promised, Spent
  <2> QED BY <1>1, <2>1, <2>2, Quiet
<1>4. ASSUME Worker(TypeOf(j))
      PROVE  Affordable(j)
  <2>1. CASE Local(TypeOf(j))
    BY <1>1, <2>1, LocalAffords
  <2>2. CASE Reap(TypeOf(j)) \/ Pop(TypeOf(j))
    BY <1>1, <2>2, MoveAffords
  <2>3. CASE Push(TypeOf(j)) \/ Requeue(TypeOf(j))
    BY <1>1, <2>3, PushAffords, RequeueAffords
  <2>4. CASE Start(TypeOf(j)) \/ StartUnwritten(TypeOf(j))
    BY <1>1, <2>4, StartAffords
  <2>5. CASE CountFailure(TypeOf(j)) \/ Ack(TypeOf(j))
    BY <1>1, <2>5, CountAffords, AckAffords
  <2> QED BY <1>4, <2>1, <2>2, <2>3, <2>4, <2>5 DEF Worker, Local
<1>5. ASSUME WorkerFault(TypeOf(j))
      PROVE  Affordable(j)
  BY <1>1, <1>5, FaultAffords
<1>6. ~RedisLosesData /\ \A k \in Jobs : ~RetryExpires(k)
  BY DEF Steady, RedisLosesData, RetryExpires, Fault
<1> QED BY <1>2, <1>3, <1>4, <1>5, <1>6 DEF Next

(* A worker comes to the start of a render with the asset it has found.    *)
LEMMA StartComes ==
    ASSUME RowsAndSessions, Next, NEW t \in Types, pc'[t] = "start"
    PROVE  /\ cur'[t] = cur[t]
           /\ pc[t] = "start" \/ (cur[t] \in Jobs /\ job[cur[t]] # "absent")
<1> USE DEF RowsAndSessions, Typed, TypeOK, WorkerTypes
<1>1. pc[t] \in Handling /\ cur'[t] = cur[t]
  <2>1. ~Pop(t)
    BY DEF Pop, Goto
  <2> QED BY <2>1, HandlingComes DEF Handling
<1>2. cur[t] \in Jobs
  BY <1>1 DEF HandlesJob
<1>3. CASE pc'[t] = pc[t]
  BY <1>1, <1>3
<1>4. CASE Worker(t)
  <2>1. CASE PushEnds(t) \/ StaleWrite(t) \/ Ack(t)
    <3>1. pc'[t] \in {"pop", "down", "check"}
      BY <2>1, EscapeLabel DEF PushEnds, StaleWrite, Ack, Restart, Goto
    <3> QED BY <3>1
  <2>2. CASE \/ Skip(t) \/ Load(t) \/ Start(t) \/ StartUnwritten(t)
             \/ WriteFile(t) \/ RenderSucceeds(t) \/ RenderUnsupported(t) \/ CountFailure(t)
             \/ RenderFails(t) \/ Commit(t) \/ Requeue(t) \/ Pop(t) \/ Boot(t)
             \/ ReapEnds(t) \/ ScanQueue(t) \/ ScanProcessing(t) \/ Select(t)
             \/ PopTimesOut(t) \/ Continue(t) \/ Maintain(t)
    <3>1. pc'[t] # "start"
      BY <2>2 DEF Skip, Load, Start, StartUnwritten, WriteFile, RenderSucceeds,
         RenderUnsupported, CountFailure, RenderFails, Commit, AfterCommit, Requeue, Pop, Boot,
         ReapEnds, ScanQueue, ScanProcessing, Select, PopTimesOut, Continue, Maintain, Goto
    <3> QED BY <3>1
  <2>3. CASE LoadAsset(t)
    <3>1. asset[cur[t]] # "absent" => job[cur[t]] # "absent"
      BY <1>2 DEF RowsInStep, AssetFor
    <3>2. asset[cur[t]] # "absent" \/ job[cur[t]] # "absent"
      BY <2>3 DEF LoadAsset
    <3> QED BY <1>1, <1>2, <3>1, <3>2
  <2>4. CASE Reap(t) \/ Push(t)
    BY <1>3, <2>4 DEF Reap, Push, workerVars
  <2> QED BY <1>4, <2>1, <2>2, <2>3, <2>4 DEF Worker
<1>5. CASE WorkerFault(t)
  <2>1. CASE WorkerCrashes(t) \/ DatabaseFails(t) \/ RedisFails(t)
    <3>1. pc'[t] \in {"pop", "down", "check", "commit"}
      BY <2>1, EscapeLabel DEF WorkerCrashes, DatabaseFails, RedisFails, Restart, Goto
    <3> QED BY <3>1
  <2>2. CASE ReplyLost(t)
    BY <1>3, <2>2 DEF ReplyLost, workerVars
  <2> QED BY <1>5, <2>1, <2>2 DEF WorkerFault
<1> QED BY <1>3, <1>4, <1>5, OthersIdle

(* A deleted job costs the render that was beginning and no other.         *)
LEMMA AbsentStep ==
    ASSUME Delivered, Next, NEW j \in Jobs, job[j] = "absent", job'[j] = "absent",
           renders[j] + One(Beginning(j)) <= MaxRetries + 2 + faults
    PROVE  renders'[j] + One(Beginning(j))' <= MaxRetries + 2 + faults'
<1> DEFINE t == TypeOf(j)
<1>0. /\ t \in Types /\ RowsAndSessions /\ WorkerTypes
      /\ renders \in [Jobs -> Nat] /\ faults \in Nat /\ renders[j] \in Nat
  BY JobFacts, BoundsAssumption DEF Delivered, RowsAndSessions, Typed, TypeOK, CounterTypes
<1> HIDE DEF t
<1>1. faults' \in Nat /\ faults' >= faults
  BY <1>0, FaultsCounted DEF Fault
<1>2. One(Beginning(j)) \in 0..1 /\ One(Beginning(j))' \in 0..1
  BY DEF One
<1>3. CASE renders'[j] = renders[j]
  <2>1. Beginning(j)' => Beginning(j)
    <3> SUFFICES ASSUME cur'[t] = j, pc'[t] = "start" PROVE cur[t] = j /\ pc[t] = "start"
      BY DEF Beginning, t
    <3> QED BY <1>0, StartComes
  <2>2. One(Beginning(j))' <= One(Beginning(j))
    BY <2>1 DEF One
  <2> QED BY <1>0, <1>1, <1>2, <1>3, <2>2, BoundsAssumption
<1>4. ASSUME NEW u \in Types, Start(u) \/ StartUnwritten(u), renders'[j] # renders[j]
      PROVE  renders'[j] + One(Beginning(j))' <= MaxRetries + 2 + faults'
  <2>1. cur[u] = j /\ pc[u] = "start" /\ renders'[j] = renders[j] + 1
    <3>1. pc[u] = "start"
      BY <1>4 DEF Start, StartUnwritten
    <3>2. renders' = renders \/ renders' = [renders EXCEPT ![cur[u]] = @ + 1]
      BY <1>4 DEF Start, StartUnwritten
    <3> QED BY <1>0, <1>4, <3>1, <3>2
  <2>2. u = t
    BY <1>0, <2>1, HandledIsKnown DEF t
  <2>3. StartUnwritten(u)
    BY <1>4, <2>1 DEF Start
  <2>4. pc'[u] \in {"render", "count"}
    BY <1>0, <2>3 DEF StartUnwritten, Goto, WorkerTypes
  <2>5. Beginning(j) /\ ~Beginning(j)'
    BY <2>1, <2>2, <2>4 DEF Beginning, t
  <2>6. One(Beginning(j)) = 1 /\ One(Beginning(j))' = 0
    BY <2>5 DEF One
  <2> QED BY <1>0, <1>1, <2>1, <2>6, BoundsAssumption
<1> QED BY <1>3, <1>4, RendersChangedBy

(* Only the deletion of its poem takes a job away, and what the worker has *)
(* in its hands was counted as a copy.                                     *)
LEMMA RemovedStep ==
    ASSUME Delivered, Steady, Next, NEW j \in Jobs, job[j] # "absent", job'[j] = "absent",
           Used(j) <= MaxRetries + 2 + faults
    PROVE  renders'[j] + One(Beginning(j))' <= MaxRetries + 2 + faults'
<1> DEFINE t == TypeOf(j)
<1>0. t \in Types /\ j[1] \in Poems /\ RowsAndSessions /\ Typed
  BY JobFacts DEF Delivered, RowsAndSessions
<1>1. Removed(j)
  <2>1. Kept(j) \/ Created(j) \/ Removed(j) \/ Begun(j) \/ Ended(j)
    BY <1>0, RowStep DEF RowsAndSessions
  <2>2. ~Ended(j)
    BY <1>0 DEF Ended, RowsAndSessions, SessionShape, SessionOf, Handling
  <2> QED BY <2>1, <2>2 DEF Kept, Created, Begun
<1>2. deletion[j[1]] # "deleted"
  BY <1>0 DEF Typed, RequestShape
<1>3. PICK p \in Poems : DeleteRows(p)
  BY <1>0, <1>1, <1>2, DeletionsChangedBy
     DEF Removed, DeleteFiles, DeleteFails, Typed, TypeOK, ApiTypes
<1>4. UNCHANGED <<pc, cur, renders, faults>>
  BY <1>3 DEF DeleteRows, workerVars
<1>5. One(Beginning(j))' = One(Beginning(j))
  BY <1>4 DEF Beginning
<1>6. Terms(j)
  BY <1>0, TermsTyped
<1> HIDE DEF t
<1>7. Beginning(j) => Contains(processing[t], j) /\ ~Spent(j)
  <2> SUFFICES ASSUME cur[t] = j, pc[t] = "start"
               PROVE  Contains(processing[t], j) /\ ~Spent(j)
    BY DEF Beginning, t
  <2>1. pc[t] \in Handling \ {"ack"} /\ InFlight /\ "flush" \notin FaultKinds
    BY DEF Delivered, Handling, Steady
  <2> QED BY <1>0, <2>1 DEF InFlight, Spent, Spending, t
<1>8. Spent(j) => Contains(processing[t], j)
  BY DEF Spent, t
<1>9. One(Beginning(j)) + One(Spent(j)) <= Copies(processing[t], j)
  BY <1>6, <1>7, <1>8 DEF One, Terms, t
<1>10. One(Beginning(j)) \in 0..1
  BY DEF One
<1>11. renders[j] + One(Beginning(j)) <= Used(j)
  BY <1>6, <1>9, <1>10 DEF Used, Terms, t
<1>12. Used(j) \in Int /\ renders[j] \in Nat /\ faults \in Nat
  BY <1>6 DEF Used, Terms
<1> QED BY <1>4, <1>5, <1>10, <1>11, <1>12, BoundsAssumption

(* A new job has its attempts, a copy that is owed, and one it may get.    *)
LEMMA CreatedStep ==
    ASSUME Delivered, Untouched, Next, NEW j \in Jobs, job[j] = "absent", job'[j] # "absent"
    PROVE  Used(j)' <= MaxRetries + 2 + faults'
<1> DEFINE t == TypeOf(j)
<1>0. t \in Types /\ j[1] \in Poems /\ RowsAndSessions /\ Typed /\ Typed'
  BY JobFacts, RowsAndSessionsStep DEF Delivered, RowsAndSessions
<1>1. Created(j)
  BY <1>0, RowStep DEF RowsAndSessions, Kept, Removed, Begun, Ended
<1>2. \E S \in SUBSET Types : PersistPoem(j[1], S)
  BY <1>0, <1>1, RequestsChangedBy
     DEF Created, RefreshPoem, Enqueue, RequestFails, PersistPoem, Typed, TypeOK, ApiTypes
<1>3. UNCHANGED <<redisVars, workerVars, renders, faults>>
  BY <1>2 DEF PersistPoem
<1> HIDE DEF t
<1>4. renders'[j] = 0 /\ retry'[j] = 0
  BY <1>1, <1>3 DEF Created, Untouched, redisVars
<1>5. ~Contains(queue[t], j) /\ ~Contains(processing[t], j) /\ cur[t] # j
  BY <1>0, <1>1 DEF Created, RowsAndSessions, KnownIds, Held
<1>6. Terms(j)'
  BY <1>0, TermsTypedNext
<1>7. Copies(queue[t], j)' = 0 /\ Copies(processing[t], j)' = 0
  <2>1. queue' = queue /\ processing' = processing
    BY <1>3 DEF redisVars
  <2> QED BY <1>5, <1>6, <2>1 DEF Terms, t
<1>8. ~Promised(j)' /\ ~Spent(j)'
  BY <1>3, <1>5 DEF Promised, Spent, workerVars, t
<1>9. One(Promised(j))' = 0 /\ One(Spent(j))' = 0
  BY <1>8 DEF One
<1>10. Left(j)' = MaxRetries
  BY <1>4, BoundsAssumption DEF Left
<1> QED BY <1>4, <1>6, <1>7, <1>9, <1>10, BoundsAssumption DEF Used, Terms, t

(* No step overdraws the budget.                                           *)
LEMMA FrugalStep == ASSUME Thrifty, Next PROVE Frugal'
<1> SUFFICES ASSUME Steady, NEW j \in Jobs PROVE Budgeted(j)'
  BY DEF Frugal, Steady
<1>1. Delivered /\ Untouched /\ QueuedIsDue /\ Budgeted(j)
  BY DEF Thrifty, Frugal
<1>2. CASE job[j] = "absent" /\ job'[j] = "absent"
  BY <1>1, <1>2, AbsentStep DEF Budgeted
<1>3. CASE job[j] # "absent" /\ job'[j] = "absent"
  BY <1>1, <1>3, RemovedStep DEF Budgeted
<1>4. CASE job[j] = "absent" /\ job'[j] # "absent"
  BY <1>1, <1>4, CreatedStep DEF Budgeted
<1>5. CASE job[j] # "absent" /\ job'[j] # "absent"
  <2>1. Affordable(j) /\ Used(j) <= MaxRetries + 2 + faults
    BY <1>1, <1>5, AffordableStep DEF Budgeted
  <2>2. Typed /\ Typed'
    BY <1>1, RowsAndSessionsStep DEF Delivered, RowsAndSessions
  <2>3. Terms(j) /\ Terms(j)'
    BY <2>2, TermsTyped, TermsTypedNext
  <2>4. Used(j) \in Int /\ Used(j)' \in Int /\ faults \in Nat /\ faults' \in Nat
    BY <2>3 DEF Used, Terms
  <2>5. Used(j)' <= MaxRetries + 2 + faults'
    BY <2>1, <2>4, BoundsAssumption DEF Affordable
  <2> QED BY <1>5, <2>5 DEF Budgeted
<1> QED BY <1>2, <1>3, <1>4, <1>5

(* Nothing is spent when the system starts.                                *)
LEMMA ThriftyInit == Init => Thrifty
<1> SUFFICES ASSUME Init PROVE Untouched /\ QueuedIsDue /\ Frugal
  BY DeliveredInit DEF Thrifty
<1>1. Untouched /\ QueuedIsDue
  BY DEF Init, Untouched, QueuedIsDue
<1>2. ASSUME NEW j \in Jobs PROVE Budgeted(j)
  <2>1. job[j] = "absent" /\ renders[j] = 0 /\ faults = 0 /\ pc[TypeOf(j)] = "down"
    BY JobFacts DEF Init
  <2>2. One(Beginning(j)) = 0
    BY <2>1 DEF One, Beginning
  <2> QED BY <2>1, <2>2, BoundsAssumption DEF Budgeted
<1> QED BY <1>1, <1>2 DEF Frugal

(* The budget is an invariant.                                             *)
LEMMA ThriftyStep == Thrifty /\ [Next]_vars => Thrifty'
<1>1. ASSUME Thrifty, Next PROVE Thrifty'
  <2>1. Delivered' /\ Untouched' /\ QueuedIsDue'
    BY <1>1, DeliveredStep, UntouchedStep, QueuedIsDueStep DEF Thrifty, Delivered
  <2> QED BY <1>1, <2>1, FrugalStep DEF Thrifty
<1>2. ASSUME Thrifty, UNCHANGED vars PROVE Thrifty'
  <2>1. Delivered'
    BY <1>2, DeliveredStep DEF Thrifty
  <2>2. Untouched' /\ QueuedIsDue'
    BY <1>2 DEF Thrifty, Untouched, QueuedIsDue, Parked, Owes,
       vars, apiVars, dbVars, redisVars
  <2>3. ASSUME Steady, NEW j \in Jobs PROVE Budgeted(j)'
    <3>1. /\ job' = job /\ queue' = queue /\ processing' = processing /\ renders' = renders
          /\ faults' = faults /\ UNCHANGED <<owed, pc, cur, mem, scan, retry>>
      BY <1>2 DEF vars, apiVars, dbVars, redisVars, workerVars
    <3>2. /\ Owes(j)' <=> Owes(j)
          /\ Promised(j)' <=> Promised(j)
          /\ Spent(j)' <=> Spent(j)
          /\ Beginning(j)' <=> Beginning(j)
          /\ Extra(j)' <=> Extra(j)
      BY <3>1 DEF Owes, Promised, Spent, Beginning, Extra, Unseen, Parked
    <3>3. Left(j)' = Left(j)
      BY <3>1 DEF Left
    <3>4. /\ One(Owes(j))' = One(Owes(j)) /\ One(Promised(j))' = One(Promised(j))
          /\ One(Spent(j))' = One(Spent(j)) /\ One(Beginning(j))' = One(Beginning(j))
          /\ One(Extra(j))' = One(Extra(j))
      BY <3>2 DEF One
    <3> QED BY <1>2, <2>3, <3>1, <3>3, <3>4 DEF Thrifty, Frugal, Budgeted, Used
  <2> QED BY <2>1, <2>2, <2>3 DEF Thrifty, Frugal, Steady
<1> QED BY <1>1, <1>2

(* The GPU works a bounded number of times for one job, whatever is lost,  *)
(* repeated or interleaved around it: the attempts it is allowed, one for  *)
(* the duplicate that the reconciler and a slow request may create, and    *)
(* one per fault.                                                          *)
THEOREM RendersAreBudgeted == Spec => []RenderBudget
<1>1. Thrifty => RenderBudget
  <2> SUFFICES ASSUME Thrifty, Steady, NEW j \in Jobs
               PROVE  renders[j] <= MaxRetries + 2 + faults
    BY DEF RenderBudget, Steady
  <2>1. Terms(j) /\ Budgeted(j)
    BY TermsTyped DEF Thrifty, Frugal, Delivered, RowsAndSessions
  <2>2. One(Beginning(j)) \in 0..1
    BY DEF One
  <2>3. One(Spent(j)) <= Copies(processing[TypeOf(j)], j)
    BY <2>1 DEF One, Spent, Terms
  <2> QED BY <2>1, <2>2, <2>3, BoundsAssumption DEF Budgeted, Used, Terms
<1> QED BY <1>1, ThriftyInit, ThriftyStep, PTL DEF Spec

-----------------------------------------------------------------------------
(* A deletion takes the file of a done asset along.                        *)

(* A job that was done with its n-th attempt is out of every worker's      *)
(* reach: an id in hand is about to be skipped or acknowledged. Its rows   *)
(* keep pointing to the file of that attempt until the deletion, and the   *)
(* file is gone once the deletion has begun.                               *)
Aside(j, n) ==
    /\ request[j[1]] # "none"
    /\ job[j] \in {"done", "absent"}
    /\ deletion[j[1]] # "deleted" => job[j] = "done"
    /\ job[j] = "done" => path[j] = n
    /\ \A t \in Types : pc[t] \in Handling /\ cur[t] = j => pc[t] \in {"load", "ack"}
    /\ deletion[j[1]] # "no" => FileOf(j, n) \notin files

(* A done job nobody began to delete is one of these.                      *)
LEMMA DoneIsAside ==
    ASSUME RowsAndSessions, NEW j \in Jobs, job[j] = "done", deletion[j[1]] = "no"
    PROVE  Aside(j, path[j])
<1>1. request[j[1]] # "none"
  BY DEF RowsAndSessions, Typed, RequestShape
<1>2. ASSUME NEW t \in Types, pc[t] \in Handling, cur[t] = j
      PROVE  pc[t] \in {"load", "ack"}
  BY <1>2 DEF RowsAndSessions, SessionShape, SessionOf, Handling
<1> QED BY <1>1, <1>2 DEF Aside

(* Nobody writes to its rows but the deletion.                             *)
LEMMA AsideRow ==
    ASSUME RowsAndSessions, Next, NEW j \in Jobs, NEW n, Aside(j, n)
    PROVE  Kept(j) \/ Removed(j)
<1>1. ~Created(j)
  BY DEF Aside, Created
<1>2. ~Begun(j) /\ ~Ended(j)
  BY DEF Aside, Begun, Ended, Handling
<1> QED BY <1>1, <1>2, RowStep DEF RowsAndSessions

(* No worker takes it up again.                                            *)
LEMMA AsideWorkers ==
    ASSUME RowsAndSessions, Next, NEW j \in Jobs, NEW n, Aside(j, n),
           NEW t \in Types, pc'[t] \in Handling, cur'[t] = j
    PROVE  pc'[t] \in {"load", "ack"}
<1> USE DEF RowsAndSessions, Typed, TypeOK, WorkerTypes
<1>1. CASE Pop(t)
  BY <1>1 DEF Pop, Goto
<1>2. CASE pc[t] \in Handling /\ cur'[t] = cur[t]
  <2>1. pc[t] \in {"load", "ack"} /\ cur[t] = j /\ job[j] \in {"done", "absent"}
    BY <1>2 DEF Aside
  <2>2. CASE pc'[t] = pc[t] /\ cur'[t] = cur[t] /\ mem'[t] = mem[t]
    BY <2>1, <2>2
  <2>3. CASE Worker(t)
    <3>1. Skip(t) \/ Load(t) \/ Ack(t)
      BY <2>1, <2>3 DEF Worker, Boot, Reap, ReapEnds, ScanQueue, ScanProcessing, Select, Push,
         PushEnds, Pop, PopTimesOut, LoadAsset, Start, StartUnwritten, StaleWrite, WriteFile,
         RenderSucceeds, RenderFails, RenderUnsupported, CountFailure, Commit, Requeue,
         Continue, Maintain
    <3>2. ~Load(t)
      BY <2>1 DEF Load, Skippable
    <3>3. pc'[t] \in {"ack", "check"}
      BY <3>1, <3>2 DEF Skip, Ack, Restart, Goto
    <3> QED BY <3>3 DEF Handling
  <2>4. CASE WorkerFault(t)
    <3>1. pc'[t] \in {"pop", "down", "check"} \/ pc' = pc
      BY <2>1, <2>4, EscapeLabel
         DEF WorkerFault, WorkerCrashes, RedisFails, ReplyLost, DatabaseFails, Restart, Goto,
             workerVars
    <3> QED BY <2>1, <3>1 DEF Handling
  <2> QED BY <2>2, <2>3, <2>4, OthersIdle
<1> QED BY <1>1, <1>2, HandlingComes

(* Its file is unlinked when its deletion begins, and not written again.   *)
LEMMA AsideFile ==
    ASSUME "unlink" \notin FaultKinds, RowsAndSessions, Next,
           NEW j \in Jobs, NEW n, Aside(j, n), deletion'[j[1]] # "no"
    PROVE  FileOf(j, n) \notin files'
<1> USE DEF RowsAndSessions, Typed, TypeOK
<1>0. j \in JobsOf(j[1]) /\ j[1] \in Poems
  BY JobFacts DEF JobsOf
<1>1. ASSUME DeleteFiles(j[1])
      PROVE  FileOf(j, n) \notin files'
  <2>1. job[j] = "done" /\ path[j] = n
    BY <1>1 DEF DeleteFiles, Aside
  <2>2. path[j] # 0
    BY <2>1 DEF RowsInStep, AssetFor
  <2>3. FileOf(j, n) \in {FileOf(k, path[k]) : k \in {i \in JobsOf(j[1]) : path[i] # 0}}
    BY <1>0, <2>1, <2>2
  <2> QED BY <1>1, <2>3 DEF DeleteFiles, Fault
<1>2. ASSUME ~DeleteFiles(j[1])
      PROVE  FileOf(j, n) \notin files
  <2>1. deletion[j[1]] # "no"
    BY <1>0, <1>2, DeletionsChangedBy DEF DeleteFiles, DeleteRows, DeleteFails, ApiTypes
  <2> QED BY <2>1 DEF Aside
<1>3. ASSUME NEW p \in Poems, DeleteFiles(p)
      PROVE  files' \subseteq files
  BY <1>3 DEF DeleteFiles
<1>4. ASSUME NEW t \in Types, WriteFile(t)
      PROVE  files' \subseteq files \cup {Output(t)} /\ Output(t) # FileOf(j, n)
  <2>1. cur[t] # j
    BY <1>4 DEF WriteFile, Aside, Handling
  <2> QED BY <1>4, <2>1 DEF WriteFile, Output, FileOf
<1> QED BY <1>1, <1>2, <1>3, <1>4, FilesChangedBy

(* What is aside stays aside.                                              *)
LEMMA AsideStep ==
    ASSUME "unlink" \notin FaultKinds, NEW j \in Jobs, NEW n
    PROVE  RowsAndSessions /\ Aside(j, n) /\ [Next]_vars => Aside(j, n)'
<1>1. ASSUME RowsAndSessions, Aside(j, n), Next PROVE Aside(j, n)'
  <2>1. Kept(j) \/ Removed(j)
    BY <1>1, AsideRow
  <2>2. /\ job'[j] \in {"done", "absent"}
        /\ job'[j] = "done" => path'[j] = n
        /\ deletion'[j[1]] # "deleted" => job'[j] = "done"
    <3>1. deletion'[j[1]] # "deleted" => deletion[j[1]] # "deleted"
      BY <1>1, JobFacts, DeletionsChangedBy
         DEF DeleteFiles, DeleteRows, DeleteFails, RowsAndSessions, Typed, TypeOK, ApiTypes
    <3> QED BY <1>1, <2>1, <3>1 DEF Aside, Kept, Removed
  <2>3. request'[j[1]] # "none"
    BY <1>1, JobFacts, RequestsChangedBy
       DEF Aside, PersistPoem, RefreshPoem, Enqueue, RequestFails,
           RowsAndSessions, Typed, TypeOK, ApiTypes
  <2>4. \A t \in Types : pc'[t] \in Handling /\ cur'[t] = j => pc'[t] \in {"load", "ack"}
    BY <1>1, AsideWorkers
  <2>5. deletion'[j[1]] # "no" => FileOf(j, n) \notin files'
    BY <1>1, AsideFile
  <2> QED BY <2>2, <2>3, <2>4, <2>5 DEF Aside, FileOf
<1>2. ASSUME Aside(j, n), UNCHANGED vars PROVE Aside(j, n)'
  BY <1>2 DEF Aside, FileOf, vars, apiVars, dbVars, workerVars
<1> QED BY <1>1, <1>2

(* Deleting a poem takes along the file of every asset that was done       *)
(* before anyone began to delete it, if it can be unlinked, whatever       *)
(* copies of its id are still on the lists and however often the deletion  *)
(* had to be tried.                                                        *)
THEOREM DeletionTakesFiles == Spec => DeletionUnlinks
<1>1. ASSUME "unlink" \notin FaultKinds, NEW j \in Jobs, NEW n \in RenderNumbers
      PROVE  Spec => [](job[j] = "done" /\ path[j] = n /\ deletion[j[1]] = "no" =>
                          [](deletion[j[1]] = "deleted" => FileOf(j, n) \notin files))
  <2>1. RowsAndSessions /\ job[j] = "done" /\ path[j] = n /\ deletion[j[1]] = "no" => Aside(j, n)
    BY <1>1, DoneIsAside
  <2>2. RowsAndSessions /\ Aside(j, n) /\ [Next]_vars => Aside(j, n)'
    BY <1>1, AsideStep
  <2>3. Aside(j, n) => (deletion[j[1]] = "deleted" => FileOf(j, n) \notin files)
    BY DEF Aside
  <2> QED BY <2>1, <2>2, <2>3, RowsAndSessionsAlways, PTL DEF Spec
<1> QED BY <1>1 DEF DeletionUnlinks
=============================================================================
