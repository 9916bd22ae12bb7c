------------------------- MODULE RateLimitingProofs -------------------------
(***************************************************************************)
(* The theorems about RateLimiting, for any limit, any window and any      *)
(* callers: the counter in Redis, and the table of one process.            *)
(***************************************************************************)
EXTENDS RateLimiting, FiniteSetTheorems, WellFoundedInduction, TLAPS

-----------------------------------------------------------------------------
(* What is kept of a list of hits or keys (Without), by an induction over  *)
(* its length that is stated for a set.                                    *)

(* append() adds its argument and nothing else.                               *)
LEMMA ContainsAppend ==
    ASSUME NEW S, NEW s \in Seq(S), NEW x \in S
    PROVE  /\ Append(s, x) \in Seq(S)
           /\ \A e : Contains(Append(s, x), e) <=> Contains(s, e) \/ e = x
  BY DEF Contains

(* ToSet lists the members.                                                *)
LEMMA ToSetContains ==
    ASSUME NEW S, NEW s \in Seq(S)
    PROVE  /\ ToSet(s) \subseteq S
           /\ \A e : e \in ToSet(s) <=> Contains(s, e)
  BY DEF ToSet, Contains

(* Induction over the natural numbers, for a set of them: the library's    *)
(* theorem is about an operator.                                           *)
LEMMA SetInduction ==
  ASSUME NEW G, 0 \in G, \A n \in Nat : n \in G => n + 1 \in G
  PROVE  Nat \subseteq G
<1> DEFINE B == Nat \ G
           R == {ss \in Nat \X Nat : ss[1] < ss[2]}
<1>1. IsWellFoundedOn(R, Nat)
  BY NatLessThanWellFounded DEF OpToRel
<1>2. SUFFICES ASSUME B # {} PROVE FALSE
  OBVIOUS
<1>3. PICK x \in B : \A y \in B : ~(<<y, x>> \in R)
  <2> B \subseteq Nat
    OBVIOUS
  <2> HIDE DEF B, R
  <2> QED BY <1>1, <1>2, WFMin
<1>4. x \in Nat /\ x # 0
  OBVIOUS
<1>5. x - 1 \in B
  <2>1. x - 1 \in Nat /\ (x - 1) + 1 = x
    BY <1>4
  <2>2. CASE x - 1 \in G
    BY <2>1, <2>2
  <2> QED BY <2>1, <2>2
<1>6. <<x - 1, x>> \in R
  BY <1>4, <1>5
<1> QED BY <1>3, <1>5, <1>6

(* A set of natural numbers that is not empty has a least member.          *)
LEMMA LeastMember ==
  ASSUME NEW S, S \subseteq Nat, S # {}
  PROVE  \E m \in S : \A n \in S : m <= n
<1> DEFINE R == {ss \in Nat \X Nat : ss[1] < ss[2]}
<1>1. IsWellFoundedOn(R, Nat)
  BY NatLessThanWellFounded DEF OpToRel
<1>2. PICK m \in S : \A n \in S : ~(<<n, m>> \in R)
  <2> HIDE DEF R
  <2> QED BY <1>1, WFMin
<1>3. ASSUME NEW n \in S PROVE m <= n
  <2>1. n \in Nat /\ m \in Nat
    OBVIOUS
  <2>2. ~(n < m)
    BY <1>2, <2>1
  <2> QED BY <2>1, <2>2
<1> QED BY <1>3

(* The recursion of Without has a solution.                                *)
Unfolded(f, ks, S, N) ==
    [n \in 0..N |-> IF n = 0 THEN <<>>
                    ELSE IF ks[n] \in S THEN f[n - 1] ELSE Append(f[n - 1], ks[n])]

(* It is the function that is built up from 0 to N.                        *)
LEMMA WithoutExists ==
    ASSUME NEW ks, NEW S, NEW N \in Nat
    PROVE  \E f : f = Unfolded(f, ks, S, N)
<1> USE DEF Unfolded
<1> DEFINE Solves(f, m) == f = Unfolded(f, ks, S, m)
           G == {m \in Nat : \E f : Solves(f, m)}
<1>1. 0 \in G
  <2> DEFINE f == [n \in 0..0 |-> <<>>]
  <2>1. f = [n \in 0..0 |-> IF n = 0 THEN <<>>
                    ELSE IF ks[n] \in S THEN f[n - 1] ELSE Append(f[n - 1], ks[n])]
    OBVIOUS
  <2> QED BY <2>1
<1>2. ASSUME NEW m \in Nat, m \in G PROVE m + 1 \in G
  <2>1. PICK f : Solves(f, m)
    BY <1>2
  <2> DEFINE e == IF ks[m + 1] \in S THEN f[m] ELSE Append(f[m], ks[m + 1])
             h == [n \in 0..(m + 1) |-> IF n = m + 1 THEN e ELSE f[n]]
             g == [n \in 0..(m + 1) |-> IF n = 0 THEN <<>>
                    ELSE IF ks[n] \in S THEN h[n - 1] ELSE Append(h[n - 1], ks[n])]
  <2>2. ASSUME NEW n \in 0..(m + 1) PROVE h[n] = g[n]
    <3>1. CASE n = m + 1
      <4>1. h[n] = e /\ h[n - 1] = f[m]
        BY <3>1
      <4> QED BY <3>1, <4>1
    <3>2. CASE n # m + 1 /\ n # 0
      <4>1. h[n] = f[n] /\ h[n - 1] = f[n - 1] /\ n \in 0..m /\ n - 1 \in 0..m
        BY <3>2
      <4>2. f[n] = IF ks[n] \in S THEN f[n - 1] ELSE Append(f[n - 1], ks[n])
        BY <2>1, <3>2, <4>1
      <4> QED BY <3>2, <4>1, <4>2
    <3>3. CASE n = 0
      <4>1. h[n] = f[n] /\ 0 \in 0..m
        BY <3>3
      <4> QED BY <2>1, <3>3, <4>1
    <3> QED BY <3>1, <3>2, <3>3
  <2>3. h = g
    BY <2>2
  <2> HIDE DEF h
  <2>4. Solves(h, m + 1)
    BY <2>3
  <2> HIDE DEF Solves
  <2> QED BY <2>4
<1> HIDE DEF G
<1>3. N \in G
  BY <1>1, <1>2, SetInduction
<1> QED BY <1>3 DEF G

(* What it computes, element by element.                                   *)
LEMMA WithoutUnfolds ==
    ASSUME NEW ks, NEW S, Len(ks) \in Nat
    PROVE  \E f : /\ Without(ks, S) = f[Len(ks)]
                  /\ f[0] = <<>>
                  /\ \A n \in 0..(Len(ks) - 1) :
                        f[n + 1] = IF ks[n + 1] \in S THEN f[n] ELSE Append(f[n], ks[n + 1])
<1> DEFINE w == CHOOSE f : f = Unfolded(f, ks, S, Len(ks))
<1>1. Without(ks, S) = w[Len(ks)]
  BY DEF Without, Unfolded
<1>2. w = Unfolded(w, ks, S, Len(ks))
  <2>1. \E f : f = Unfolded(f, ks, S, Len(ks))
    BY WithoutExists
  <2> QED BY <2>1
<1> HIDE DEF w
<1>3. w[0] = <<>>
  BY <1>2 DEF Unfolded
<1>4. ASSUME NEW n \in 0..(Len(ks) - 1)
      PROVE  w[n + 1] = IF ks[n + 1] \in S THEN w[n] ELSE Append(w[n], ks[n + 1])
  <2>1. n + 1 \in 0..Len(ks) /\ n + 1 # 0 /\ (n + 1) - 1 = n
    OBVIOUS
  <2> QED BY <1>2, <2>1 DEF Unfolded
<1> QED BY <1>1, <1>3, <1>4

(* It keeps the order of what it keeps, and keeps the last elements in     *)
(* their places, counted from the end, when it keeps each of them.         *)
LEMMA WithoutElements ==
    ASSUME NEW T, NEW ks \in Seq(T), NEW S
    PROVE  /\ Without(ks, S) \in Seq(T)
           /\ Len(Without(ks, S)) <= Len(ks)
           /\ \A e : Contains(Without(ks, S), e) <=> Contains(ks, e) /\ e \notin S
           /\ \A i \in 1..Len(ks) : ks[i] \in S => Len(Without(ks, S)) < Len(ks)
<1>0. Len(ks) \in Nat
  OBVIOUS
<1>1. PICK f : /\ Without(ks, S) = f[Len(ks)]
               /\ f[0] = <<>>
               /\ \A n \in 0..(Len(ks) - 1) :
                     f[n + 1] = IF ks[n + 1] \in S THEN f[n] ELSE Append(f[n], ks[n + 1])
  BY <1>0, WithoutUnfolds
<1> DEFINE Q(n) == /\ f[n] \in Seq(T)
                   /\ Len(f[n]) <= n
                   /\ \A e : Contains(f[n], e) <=> (\E i \in 1..n : ks[i] = e) /\ e \notin S
                   /\ \A i \in 1..n : ks[i] \in S => Len(f[n]) < n
           G == {n \in Nat : n <= Len(ks) => Q(n)}
<1>2. 0 \in G
  <2>1. f[0] \in Seq(T) /\ Len(f[0]) = 0 /\ 1..0 = {}
    BY <1>1
  <2>2. Q(0)
    BY <1>1, <2>1 DEF Contains
  <2> HIDE DEF Q
  <2> QED BY <2>2
<1>3. ASSUME NEW n \in Nat, n \in G PROVE n + 1 \in G
  <2> SUFFICES ASSUME n + 1 <= Len(ks) PROVE Q(n + 1)
    OBVIOUS
  <2> DEFINE x == ks[n + 1]
  <2>1. Q(n) /\ n \in 0..(Len(ks) - 1) /\ Len(ks) \in Nat /\ x \in T
    BY <1>3
  <2>2. CASE x \in S
    <3>1. f[n + 1] = f[n]
      BY <1>1, <2>1, <2>2
    <3>2. \A e : e \notin S => ((\E i \in 1..(n + 1) : ks[i] = e) <=> (\E i \in 1..n : ks[i] = e))
      BY <2>1, <2>2
    <3> QED BY <2>1, <2>2, <3>1, <3>2
  <2>3. CASE x \notin S
    <3>1. f[n + 1] = Append(f[n], x)
      BY <1>1, <2>1, <2>3
    <3>2. f[n + 1] \in Seq(T) /\ Len(f[n + 1]) = Len(f[n]) + 1 /\ Len(f[n]) \in Nat
      BY <2>1, <3>1
    <3>3. \A e : Contains(f[n + 1], e) <=> Contains(f[n], e) \/ e = x
      BY <2>1, <3>1, ContainsAppend
    <3>4. \A e : (\E i \in 1..(n + 1) : ks[i] = e) <=> (\E i \in 1..n : ks[i] = e) \/ e = x
      BY <2>1
    <3>5. \A e : Contains(f[n + 1], e) <=> (\E i \in 1..(n + 1) : ks[i] = e) /\ e \notin S
      BY <2>1, <2>3, <3>3, <3>4
    <3>6. \A i \in 1..(n + 1) : ks[i] \in S => Len(f[n + 1]) < n + 1
      <4> SUFFICES ASSUME NEW i \in 1..(n + 1), ks[i] \in S PROVE Len(f[n + 1]) < n + 1
        OBVIOUS
      <4>1. i \in 1..n
        BY <2>3
      <4> QED BY <2>1, <3>2, <4>1
    <3> QED BY <2>1, <3>2, <3>5, <3>6
  <2> QED BY <2>2, <2>3
<1> HIDE DEF G
<1>4. Len(ks) \in G /\ Len(ks) \in Nat
  BY <1>2, <1>3, SetInduction
<1>5. Q(Len(ks))
  BY <1>4 DEF G
<1> HIDE DEF Q
<1> QED BY <1>1, <1>4, <1>5 DEF Q, Contains

(* A list that has no element twice.                                       *)
Unrepeated(s) == \A i, j \in 1..Len(s) : s[i] = s[j] => i = j

(* What Without leaves has no element twice that the list had once.        *)
LEMMA WithoutDistinct ==
    ASSUME NEW T, NEW ks \in Seq(T), NEW S, Unrepeated(ks)
    PROVE  Unrepeated(Without(ks, S))
<1>0. Len(ks) \in Nat
  OBVIOUS
<1>1. PICK f : /\ Without(ks, S) = f[Len(ks)]
               /\ f[0] = <<>>
               /\ \A n \in 0..(Len(ks) - 1) :
                     f[n + 1] = IF ks[n + 1] \in S THEN f[n] ELSE Append(f[n], ks[n + 1])
  BY <1>0, WithoutUnfolds
<1> DEFINE Q(n) == /\ f[n] \in Seq(T)
                   /\ \A i \in 1..Len(f[n]) : \E j \in 1..n : f[n][i] = ks[j]
                   /\ Unrepeated(f[n])
           G == {n \in Nat : n <= Len(ks) => Q(n)}
<1>2. 0 \in G
  <2>1. f[0] \in Seq(T) /\ Len(f[0]) = 0 /\ 1..0 = {}
    BY <1>1
  <2>2. Q(0)
    BY <1>1, <2>1 DEF Unrepeated
  <2> HIDE DEF Q
  <2> QED BY <2>2
<1>3. ASSUME NEW n \in Nat, n \in G PROVE n + 1 \in G
  <2> SUFFICES ASSUME n + 1 <= Len(ks) PROVE Q(n + 1)
    OBVIOUS
  <2> DEFINE x == ks[n + 1]
  <2>1. Q(n) /\ n \in 0..(Len(ks) - 1) /\ Len(ks) \in Nat /\ x \in T
    BY <1>3
  <2>2. CASE f[n + 1] = f[n]
    BY <2>1, <2>2
  <2>3. CASE f[n + 1] = Append(f[n], x)
    <3>1. /\ f[n + 1] \in Seq(T) /\ Len(f[n + 1]) = Len(f[n]) + 1 /\ Len(f[n]) \in Nat
          /\ f[n + 1][Len(f[n]) + 1] = x
          /\ \A i \in 1..Len(f[n]) : f[n + 1][i] = f[n][i]
      BY <2>1, <2>3
    <3>2. ASSUME NEW i \in 1..Len(f[n + 1]) PROVE \E j \in 1..(n + 1) : f[n + 1][i] = ks[j]
      <4>1. CASE i = Len(f[n]) + 1
        BY <2>1, <3>1, <4>1
      <4>2. CASE i \in 1..Len(f[n])
        <5>1. PICK j \in 1..n : f[n][i] = ks[j]
          BY <2>1, <4>2
        <5> QED BY <2>1, <3>1, <4>2, <5>1
      <4> QED BY <3>1, <4>1, <4>2
    <3>3. \A i \in 1..Len(f[n]) : f[n][i] # x
      <4> SUFFICES ASSUME NEW i \in 1..Len(f[n]), f[n][i] = x PROVE FALSE
        OBVIOUS
      <4>1. PICK j \in 1..n : x = ks[j]
        BY <2>1
      <4>2. j \in 1..Len(ks) /\ n + 1 \in 1..Len(ks) /\ j # n + 1
        BY <2>1
      <4> QED BY <4>1, <4>2 DEF Unrepeated
    <3>4. ASSUME NEW i \in 1..Len(f[n + 1]), NEW j \in 1..Len(f[n + 1]), f[n + 1][i] = f[n + 1][j]
          PROVE  i = j
      <4>1. CASE i \in 1..Len(f[n]) /\ j \in 1..Len(f[n])
        BY <2>1, <3>1, <3>4, <4>1 DEF Unrepeated
      <4>2. \A k \in 1..Len(f[n + 1]) : k \in 1..Len(f[n]) \/ k = Len(f[n]) + 1
        BY <2>1, <3>1
      <4>3. CASE i = Len(f[n]) + 1 \/ j = Len(f[n]) + 1
        BY <3>1, <3>3, <3>4, <4>2, <4>3
      <4> QED BY <4>1, <4>2, <4>3
    <3>5. Unrepeated(f[n + 1])
      BY <3>4 DEF Unrepeated
    <3> QED BY <3>1, <3>2, <3>5
  <2> QED BY <1>1, <2>1, <2>2, <2>3
<1> HIDE DEF G
<1>4. Len(ks) \in G
  BY <1>2, <1>3, SetInduction
<1>5. Q(Len(ks))
  BY <1>4 DEF G
<1> QED BY <1>1, <1>5

(* It keeps the last d elements in their places, counted from the end, when*)
(* it keeps each of them.                                                  *)
LEMMA WithoutSuffix ==
    ASSUME NEW T, NEW ks \in Seq(T), NEW S, NEW d \in 0..Len(ks),
           \A e \in 0..(d - 1) : ks[Len(ks) - e] \notin S
    PROVE  /\ d <= Len(Without(ks, S))
           /\ \A e \in 0..(d - 1) :
                 Without(ks, S)[Len(Without(ks, S)) - e] = ks[Len(ks) - e]
<1>0. Len(ks) \in Nat
  OBVIOUS
<1>1. PICK f : /\ Without(ks, S) = f[Len(ks)]
               /\ f[0] = <<>>
               /\ \A n \in 0..(Len(ks) - 1) :
                     f[n + 1] = IF ks[n + 1] \in S THEN f[n] ELSE Append(f[n], ks[n + 1])
  BY <1>0, WithoutUnfolds
<1> DEFINE Kept(n, c) == \A e \in 0..(c - 1) : ks[n - e] \notin S
           Q(n) == /\ f[n] \in Seq(T)
                   /\ \A c \in 0..n : Kept(n, c) =>
                         /\ c <= Len(f[n])
                         /\ \A e \in 0..(c - 1) : f[n][Len(f[n]) - e] = ks[n - e]
           G == {n \in Nat : n <= Len(ks) => Q(n)}
<1>2. 0 \in G
  <2>1. f[0] \in Seq(T) /\ Len(f[0]) = 0 /\ 1..0 = {}
    BY <1>1
  <2>2. Q(0)
    BY <1>1, <2>1
  <2> HIDE DEF Q
  <2> QED BY <2>2
<1>3. ASSUME NEW n \in Nat, n \in G PROVE n + 1 \in G
  <2> SUFFICES ASSUME n + 1 <= Len(ks) PROVE Q(n + 1)
    OBVIOUS
  <2> DEFINE x == ks[n + 1]
  <2>0. Q(n)
    <3> HIDE DEF Q
    <3> QED BY <1>0, <1>3
  <2>1. Q(n) /\ n \in 0..(Len(ks) - 1) /\ x \in T
    <3>1. n \in 0..(Len(ks) - 1) /\ x \in T
      BY <1>0, <1>3
    <3> QED BY <2>0, <3>1
  <2>2. CASE x \in S
    <3>1. f[n + 1] = f[n]
      BY <1>1, <2>1, <2>2
    <3>2. ASSUME NEW c \in 0..(n + 1), Kept(n + 1, c) PROVE c = 0
      <4>1. c # 0 => 0 \in 0..(c - 1) /\ (n + 1) - 0 = n + 1
        OBVIOUS
      <4> QED BY <2>2, <3>2, <4>1
    <3>3. f[n + 1] \in Seq(T) /\ Len(f[n + 1]) \in Nat
      BY <2>1, <3>1
    <3>4. ASSUME NEW c \in 0..(n + 1), Kept(n + 1, c)
          PROVE  /\ c <= Len(f[n + 1])
                 /\ \A e \in 0..(c - 1) : f[n + 1][Len(f[n + 1]) - e] = ks[(n + 1) - e]
      <4>1. c = 0
        BY <3>2, <3>4
      <4> QED BY <3>3, <4>1
    <3> QED BY <3>3, <3>4
  <2>3. CASE x \notin S
    <3>1. f[n + 1] = Append(f[n], x)
      BY <1>1, <2>1, <2>3
    <3>2. /\ f[n + 1] \in Seq(T) /\ Len(f[n + 1]) = Len(f[n]) + 1 /\ Len(f[n]) \in Nat
          /\ f[n + 1][Len(f[n]) + 1] = x
          /\ \A i \in 1..Len(f[n]) : f[n + 1][i] = f[n][i]
      BY <2>1, <3>1
    <3>3. ASSUME NEW c \in 0..(n + 1), Kept(n + 1, c)
          PROVE  /\ c <= Len(f[n + 1])
                 /\ \A e \in 0..(c - 1) : f[n + 1][Len(f[n + 1]) - e] = ks[(n + 1) - e]
      <4>1. CASE c = 0
        BY <3>2, <4>1
      <4>2. CASE c # 0
        <5>1. ASSUME NEW e \in 0..(c - 2) PROVE ks[n - e] \notin S
          <6>1. e + 1 \in 0..(c - 1) /\ (n + 1) - (e + 1) = n - e
            OBVIOUS
          <6> QED BY <3>3, <6>1
        <5>2. c - 1 \in 0..n /\ (c - 1) - 1 = c - 2
          BY <4>2
        <5>3. Kept(n, c - 1)
          BY <5>1, <5>2
        <5>4. /\ c - 1 <= Len(f[n])
              /\ \A e \in 0..(c - 2) : f[n][Len(f[n]) - e] = ks[n - e]
          BY <2>1, <5>2, <5>3
        <5>5. ASSUME NEW e \in 0..(c - 1)
              PROVE  f[n + 1][Len(f[n + 1]) - e] = ks[(n + 1) - e]
          <6>1. CASE e = 0
            BY <3>2, <6>1
          <6>2. CASE e # 0
            <7>1. /\ e - 1 \in 0..(c - 2) /\ n - (e - 1) = (n + 1) - e
                  /\ Len(f[n]) - (e - 1) = Len(f[n + 1]) - e
                  /\ Len(f[n]) - (e - 1) \in 1..Len(f[n])
              BY <3>2, <5>4, <6>2
            <7> QED BY <3>2, <5>4, <7>1
          <6> QED BY <6>1, <6>2
        <5> QED BY <3>2, <5>4, <5>5
      <4> QED BY <4>1, <4>2
    <3> QED BY <3>2, <3>3
  <2> QED BY <2>2, <2>3
<1> HIDE DEF G
<1>4. Len(ks) \in G /\ Len(ks) \in Nat
  BY <1>2, <1>3, SetInduction
<1> HIDE DEF Q
<1>5. Q(Len(ks))
  BY <1>4 DEF G
<1> QED BY <1>1, <1>5 DEF Q

-----------------------------------------------------------------------------
(* The invariant of the shared limiter.                                    *)

Opens(w) == w * Window
Closes(w) == (w + 1) * Window

(* The callers of a window that still have a command to send, and those    *)
(* among them that owe the EXPIRE.                                         *)
Pending(w) == {r \in Requests : /\ check[r].pc \in {"incr", "expire"}
                                /\ Redis!WindowIndex(check[r].now) = w}
Owing(w) == {r \in Pending(w) : check[r].pc = "expire"}

SharedTyped ==
    /\ Redis!TypeOK
    /\ \A w \in Redis!Windows : IsFiniteSet(Owing(w))

(* A caller is never further from its clock than MaxDelay.                 *)
OnTime ==
    \A r \in Requests : check[r].pc \in {"incr", "expire"} =>
        check[r].now <= time /\ time <= check[r].now + RedisDelay

(* Redis drops a counter after its window has closed, never late, and it   *)
(* was told when by a caller of the window.                                *)
Expiries ==
    \A w \in Redis!Windows :
        /\ ttl[w] > time
        /\ ttl[w] >= Closes(w) + Second
        /\ ttl[w] = Redis!Never \/ ttl[w] <= Closes(w) + Window + Second + RedisDelay

(* Until the counter of a window may expire nobody comes late, and each    *)
(* caller that was let in or owes the EXPIRE was counted. From then on the *)
(* late ones may be let in on top, each of them once.                      *)
EachCounted ==
    \A w \in Redis!Windows :
        /\ granted[w] + Cardinality(Owing(w)) <= MaxRequests + late[w]
        /\ ~Redis!Closed(w) => /\ late[w] = 0
                               /\ granted[w] + Cardinality(Owing(w)) <= counter[w]

(* The counter has counted nothing else, up to the limit, but for faults.  *)
NothingElseCounted ==
    \A w \in Redis!Windows :
        \/ counter[w] <= granted[w] + Cardinality(Owing(w)) + faults
        \/ MaxRequests <= granted[w] + Cardinality(Owing(w)) + faults

(* Each counter that nothing will ever drop goes back to a fault.          *)
Orphans == {w \in Redis!Windows : counter[w] # 0 /\ ttl[w] = Redis!Never /\ Owing(w) = {}}
OrphansAreFaults == Cardinality(Orphans) <= faults

SharedInv == SharedTyped /\ OnTime /\ Expiries /\ EachCounted /\ NothingElseCounted
             /\ OrphansAreFaults

-----------------------------------------------------------------------------
(* Windows.                                                                *)

(* The window of an instant opens before it and closes after it.           *)
LEMMA WindowOf ==
    ASSUME NEW t \in Nat
    PROVE  LET w == Redis!WindowIndex(t) IN
           w \in Nat /\ Opens(w) <= t /\ t < Closes(w)
<1>1. Window \in Nat \ {0}
  BY TimeAssumption
<1>2. t \div Window \in Nat
  BY <1>1
<1>3. (t \div Window) * Window <= t /\ t < (t \div Window + 1) * Window
  BY <1>1
<1> QED BY <1>2, <1>3 DEF Redis!WindowIndex, Opens, Closes

(* The constants, and the windows of a behaviour.                          *)
LEMMA SharedConstants ==
    /\ MaxRequests \in Nat \ {0} /\ MaxFaults \in Nat
    /\ Second \in Nat \ {0} /\ RedisDelay \in Nat /\ RedisClock \in Nat
    /\ Window \in Nat \ {0} /\ Second <= Window
    /\ Redis!Never \in Nat
    /\ Redis!Never = RedisClock + 2 * Window + RedisDelay + 1
<1>1. /\ MaxRequests \in Nat \ {0} /\ MaxFaults \in Nat
      /\ Second \in Nat \ {0} /\ RedisDelay \in Nat /\ RedisClock \in Nat
      /\ Window \in Nat \ {0} /\ Window % Second = 0
  BY RedisConstants DEF Redis!RedisAssumption
<1>2. Second <= Window
  <2> SUFFICES ASSUME Window < Second PROVE FALSE
    BY <1>1
  <2>1. Window % Second = Window
    BY <1>1
  <2> QED BY <1>1, <2>1
<1> QED BY <1>1, <1>2 DEF Redis!Never

(* The windows up to the bound of the clock, and when they open and close. *)
LEMMA WindowBounds ==
    /\ IsFiniteSet(Redis!Windows)
    /\ \A w \in Redis!Windows :
          /\ w \in Nat /\ Opens(w) \in Nat /\ Closes(w) \in Nat
          /\ Closes(w) = Opens(w) + Window
          /\ Opens(w) <= RedisClock
    /\ \A t \in 0..RedisClock : Redis!WindowIndex(t) \in Redis!Windows
<1> USE SharedConstants
<1> DEFINE last == RedisClock \div Window
<1>1. last \in Nat /\ last * Window <= RedisClock /\ RedisClock < (last + 1) * Window
  BY WindowOf DEF Redis!WindowIndex, Opens, Closes
<1>2. Redis!Windows = 0..last
  BY DEF Redis!Windows
<1> HIDE DEF last
<1>3. IsFiniteSet(Redis!Windows)
  BY <1>1, <1>2, FS_Interval
<1>4. ASSUME NEW w \in Redis!Windows
      PROVE  /\ w \in Nat /\ Opens(w) \in Nat /\ Closes(w) \in Nat
             /\ Closes(w) = Opens(w) + Window
             /\ Opens(w) <= RedisClock
  <2>1. w \in Nat /\ w <= last
    BY <1>1, <1>2
  <2>2. w * Window <= last * Window /\ w * Window \in Nat /\ (w + 1) * Window = w * Window + Window
    BY <2>1, <1>1
  <2>3. last * Window \in Nat
    BY <1>1
  <2> QED BY <2>1, <2>2, <2>3, <1>1 DEF Opens, Closes
<1>5. ASSUME NEW t \in 0..RedisClock
      PROVE  Redis!WindowIndex(t) \in Redis!Windows
  <2> DEFINE w == Redis!WindowIndex(t)
  <2>1. w \in Nat /\ w * Window <= t
    BY WindowOf DEF Opens
  <2> HIDE DEF w
  <2>2. w <= last
    <3> SUFFICES ASSUME last + 1 <= w PROVE FALSE
      BY <2>1, <1>1
    <3>1. (last + 1) * Window <= w * Window
      BY <2>1, <1>1
    <3>2. w * Window \in Nat /\ (last + 1) * Window \in Nat
      BY <2>1, <1>1
    <3> QED BY <2>1, <1>1, <3>1, <3>2
  <2> QED BY <2>1, <2>2, <1>1, <1>2 DEF w
<1> QED BY <1>3, <1>4, <1>5

(* The window of a caller.                                                 *)
LEMMA CallersWindow ==
    ASSUME SharedTyped, NEW r \in Requests, check[r].pc \in {"incr", "expire"}
    PROVE  LET w == Redis!WindowIndex(check[r].now) IN
           /\ check[r].now \in 0..RedisClock
           /\ w \in Redis!Windows
           /\ r \in Pending(w)
           /\ Opens(w) <= check[r].now /\ check[r].now < Closes(w)
           /\ check[r] = [pc |-> check[r].pc, now |-> check[r].now]
           /\ \A v : r \in Pending(v) => v = w
<1>1. check[r] \in [pc : {"incr", "expire", "allowed", "open", "dead"}, now : 0..RedisClock]
  BY DEF SharedTyped, Redis!TypeOK, Redis!Calls, Redis!NoCall, Redis!Instants
<1>2. check[r].now \in 0..RedisClock
  BY <1>1
<1> QED BY <1>1, <1>2, SharedConstants, WindowBounds, WindowOf DEF Pending

-----------------------------------------------------------------------------
(* The steps of the shared limiter.                                        *)

(* What a step of a caller does to the callers that owe the EXPIRE, of its *)
(* window and of another.                                                  *)
LEMMA CallMoves ==
    ASSUME SharedTyped, NEW r \in Requests, check[r].pc \in {"incr", "expire"},
           NEW c, check' = [check EXCEPT ![r] = c],
           \/ c = [pc |-> "expire", now |-> check[r].now]
           \/ c.pc \notin {"incr", "expire"},
           NEW v \in Redis!Windows
    PROVE  /\ Pending(v)' \subseteq Pending(v)
           /\ v # Redis!WindowIndex(check[r].now) => Owing(v)' = Owing(v)
           /\ v = Redis!WindowIndex(check[r].now) =>
                  \/ c.pc = "expire" /\ Owing(v)' = Owing(v) \cup {r}
                  \/ c.pc # "expire" /\ Owing(v)' = Owing(v) \ {r}
<1>1. PICK w : w = Redis!WindowIndex(check[r].now)
  OBVIOUS
<1>2. r \in Pending(v) => v = w
  BY <1>1, CallersWindow
<1>3. check'[r] = c /\ \A q \in Requests \ {r} : check'[q] = check[q]
  BY DEF SharedTyped, Redis!TypeOK
<1>4. c.pc = "expire" => Redis!WindowIndex(check'[r].now) = w
  BY <1>1, <1>3
<1>5. Pending(v)' \subseteq Pending(v) /\ (v # w => Owing(v)' = Owing(v))
  BY <1>1, <1>2, <1>3, <1>4 DEF Pending, Owing
<1>6. ASSUME v = w
      PROVE  \/ c.pc = "expire" /\ Owing(v)' = Owing(v) \cup {r}
             \/ c.pc # "expire" /\ Owing(v)' = Owing(v) \ {r}
  <2>1. ASSUME NEW q \in Requests \ {r}
        PROVE  q \in Owing(v)' <=> q \in Owing(v)
    BY <1>3, <2>1 DEF Pending, Owing
  <2>2. r \in Owing(v)' <=> c.pc = "expire"
    BY <1>3, <1>4, <1>6 DEF Pending, Owing
  <2>3. Owing(v) \subseteq Requests /\ Owing(v)' \subseteq Requests
    BY DEF Pending, Owing
  <2> QED BY <2>1, <2>2, <2>3
<1> QED BY <1>1, <1>5, <1>6

(* What an INCR comes to.                                                  *)
LEMMA Incrs ==
    ASSUME SharedTyped, NEW r \in Requests, Redis!Incr(r)
    PROVE  LET w == Redis!WindowIndex(check[r].now) IN
           /\ check[r].pc = "incr"
           /\ counter' = [counter EXCEPT ![w] = @ + 1]
           /\ late' = [late EXCEPT ![w] = IF Redis!Closed(w) THEN @ + 1 ELSE @]
           /\ UNCHANGED <<time, ttl, faults>>
           /\ \E c : /\ check' = [check EXCEPT ![r] = c]
                     /\ \/ /\ counter[w] = 0 /\ granted' = granted
                           /\ c = [pc |-> "expire", now |-> check[r].now]
                        \/ /\ counter[w] # 0 /\ counter[w] + 1 <= MaxRequests
                           /\ granted' = [granted EXCEPT ![w] = @ + 1]
                           /\ c = [pc |-> "allowed", now |-> check[r].now]
                        \/ /\ counter[w] + 1 > MaxRequests /\ granted' = granted
                           /\ c = [pc |-> "refused", now |-> check[r].now,
                                   retryAfter |-> Redis!RetryAfter(check[r].now)]
<1> DEFINE w == Redis!WindowIndex(check[r].now)
<1>1. /\ check[r].pc = "incr" /\ counter' = [counter EXCEPT ![w] = counter[w] + 1]
      /\ late' = [late EXCEPT ![w] = IF Redis!Closed(w) THEN @ + 1 ELSE @]
      /\ UNCHANGED <<time, ttl, faults>>
      /\ IF counter[w] + 1 = 1
         THEN check' = [check EXCEPT ![r].pc = "expire"] /\ UNCHANGED granted
         ELSE Redis!Verdict(r, counter[w] + 1)
  BY DEF Redis!Incr, Redis!First
<1>2. /\ w \in Redis!Windows /\ check[r] = [pc |-> check[r].pc, now |-> check[r].now]
  BY <1>1, CallersWindow
<1>3. counter[w] \in Nat /\ DOMAIN check = Requests
  BY <1>2 DEF SharedTyped, Redis!TypeOK
<1>4. CASE counter[w] = 0
  <2>1. check' = [check EXCEPT ![r].pc = "expire"] /\ granted' = granted
    BY <1>1, <1>4
  <2>2. [check[r] EXCEPT !.pc = "expire"] = [pc |-> "expire", now |-> check[r].now]
    BY <1>2
  <2>3. check' = [check EXCEPT ![r] = [pc |-> "expire", now |-> check[r].now]]
    BY <2>1, <2>2, <1>3
  <2> QED BY <1>1, <1>4, <2>1, <2>3
<1>5. CASE counter[w] # 0
  <2>1. Redis!Verdict(r, counter[w] + 1)
    BY <1>1, <1>3, <1>5
  <2> QED BY <1>1, <1>3, <2>1, SharedConstants DEF Redis!Verdict, Redis!Allowed
<1> QED BY <1>4, <1>5

(* What an EXPIRE comes to.                                                *)
LEMMA ExpireGrants ==
    ASSUME SharedTyped, NEW r \in Requests, Redis!Expire(r)
    PROVE  LET w == Redis!WindowIndex(check[r].now) IN
           /\ check[r].pc = "expire"
           /\ ttl' = [ttl EXCEPT ![w] = IF counter[w] = 0 THEN @ ELSE Redis!ExpiryFrom(time)]
           /\ check' = [check EXCEPT ![r] = [pc |-> "allowed", now |-> check[r].now]]
           /\ granted' = [granted EXCEPT ![w] = @ + 1]
           /\ UNCHANGED <<time, counter, late, faults>>
  BY SharedConstants DEF Redis!Expire, Redis!Verdict, Redis!Allowed

(* What a fault comes to: the caller gives up or sends its command again,  *)
(* the command took effect or not.                                             *)
LEMMA FaultsCost ==
    ASSUME SharedTyped, NEW r \in Requests,
           Redis!RedisFails(r) \/ Redis!ReplyLost(r) \/ Redis!Crash(r)
    PROVE  LET w == Redis!WindowIndex(check[r].now) IN
           /\ check[r].pc \in {"incr", "expire"}
           /\ faults' = faults + 1 /\ faults' \in 0..MaxFaults
           /\ UNCHANGED <<time, granted, late>>
           /\ \/ check' = check
              \/ \E pc \in {"open", "dead"} :
                    check' = [check EXCEPT ![r] = [pc |-> pc, now |-> check[r].now]]
           /\ \/ UNCHANGED <<counter, ttl>>
              \/ /\ check[r].pc = "incr"
                 /\ counter' = [counter EXCEPT ![w] = @ + 1] /\ ttl' = ttl
              \/ ttl' = [ttl EXCEPT ![w] = Redis!ExpiryFrom(time)] /\ counter' = counter
<1> DEFINE w == Redis!WindowIndex(check[r].now)
<1>1. check[r].pc \in {"incr", "expire"}
  BY DEF Redis!RedisFails, Redis!ReplyLost, Redis!Crash
<1>2. check[r] = [pc |-> check[r].pc, now |-> check[r].now] /\ DOMAIN check = Requests
  BY <1>1, CallersWindow DEF SharedTyped, Redis!TypeOK
<1>3. ASSUME NEW pc, check' = [check EXCEPT ![r].pc = pc]
      PROVE  check' = [check EXCEPT ![r] = [pc |-> pc, now |-> check[r].now]]
  <2>1. [check[r] EXCEPT !.pc = pc] = [pc |-> pc, now |-> check[r].now]
    BY <1>2
  <2> QED BY <1>2, <1>3, <2>1
<1>4. faults' = faults + 1 /\ faults' \in 0..MaxFaults
  BY SharedConstants
     DEF Redis!RedisFails, Redis!ReplyLost, Redis!Crash, Redis!Fault, SharedTyped, Redis!TypeOK
<1>5. CASE Redis!RedisFails(r)
  BY <1>1, <1>3, <1>4, <1>5 DEF Redis!RedisFails
<1>6. CASE Redis!ReplyLost(r)
  <2>1. CASE check[r].pc = "incr"
    BY <1>1, <1>4, <1>6, <2>1 DEF Redis!ReplyLost
  <2>2. CASE check[r].pc = "expire"
    <3>1. /\ UNCHANGED <<time, check, granted, late, counter>>
          /\ ttl' = [ttl EXCEPT ![w] = IF counter[w] = 0 THEN @ ELSE Redis!ExpiryFrom(time)]
      BY <1>6, <2>2 DEF Redis!ReplyLost
    <3>2. ttl' = ttl \/ ttl' = [ttl EXCEPT ![w] = Redis!ExpiryFrom(time)]
      BY <3>1 DEF SharedTyped, Redis!TypeOK
    <3> QED BY <1>1, <1>4, <3>1, <3>2
  <2> QED BY <1>1, <2>1, <2>2
<1>7. CASE Redis!Crash(r)
  BY <1>1, <1>3, <1>4, <1>7 DEF Redis!Crash
<1> QED BY <1>5, <1>6, <1>7

(* A refused caller waits at least a second, and at most one more than the *)
(* window has.                                                             *)
LEMMA WaitsAtMost ==
    ASSUME NEW now \in Nat
    PROVE  Redis!RetryAfter(now) \in 1..(Window \div Second + 1)
<1> USE SharedConstants
<1> DEFINE left == Window - (now % Window)
<1>1. left \in Nat /\ left <= Window
  OBVIOUS
<1> HIDE DEF left
<1>2. /\ left \div Second \in Nat /\ Window \div Second \in Nat
      /\ (left \div Second) * Second <= left
      /\ Window < (Window \div Second + 1) * Second
  BY <1>1
<1>3. left \div Second <= Window \div Second
  <2> SUFFICES ASSUME Window \div Second + 1 <= left \div Second PROVE FALSE
    BY <1>2
  <2>1. (Window \div Second + 1) * Second <= (left \div Second) * Second
    BY <1>2
  <2>2. (Window \div Second + 1) * Second \in Nat /\ (left \div Second) * Second \in Nat
    BY <1>2
  <2> QED BY <1>1, <1>2, <2>1, <2>2
<1> QED BY <1>2, <1>3 DEF Redis!RetryAfter, left

(* Each step leaves every variable with a value of its kind.               *)
LEMMA SharedTypedStep ==
    ASSUME SharedTyped, Redis!Next
    PROVE  SharedTyped'
<1> USE SharedConstants
<1>1. /\ time \in 0..RedisClock /\ counter \in [Redis!Windows -> Nat]
      /\ ttl \in [Redis!Windows -> 0..Redis!Never] /\ check \in [Requests -> Redis!Calls]
      /\ granted \in [Redis!Windows -> Nat] /\ late \in [Redis!Windows -> Nat]
      /\ faults \in 0..MaxFaults
      /\ \A w \in Redis!Windows : IsFiniteSet(Owing(w))
  BY DEF SharedTyped, Redis!TypeOK, Redis!Instants
<1>2. ASSUME time' \in 0..RedisClock, counter' \in [Redis!Windows -> Nat],
             ttl' \in [Redis!Windows -> 0..Redis!Never], check' \in [Requests -> Redis!Calls],
             granted' \in [Redis!Windows -> Nat], late' \in [Redis!Windows -> Nat],
             faults' \in 0..MaxFaults,
             \A w \in Redis!Windows : IsFiniteSet(Owing(w)')
      PROVE  SharedTyped'
  BY <1>2 DEF SharedTyped, Redis!TypeOK, Redis!Instants
<1>3. CASE Redis!Tick
  <2>1. UNCHANGED <<check, granted, late, faults>>
    BY <1>3 DEF Redis!Tick
  <2>2. \A w : Owing(w)' = Owing(w)
    BY <2>1 DEF Owing, Pending
  <2> QED BY <1>1, <1>2, <1>3, <2>1, <2>2 DEF Redis!Tick
<1>4. ASSUME NEW r \in Requests, Redis!ReadClock(r)
      PROVE  SharedTyped'
  <2>1. check' \in [Requests -> Redis!Calls]
    BY <1>1, <1>4 DEF Redis!ReadClock, Redis!Calls, Redis!Instants
  <2>2. \A q \in Requests : check'[q].pc = "expire" <=> check[q].pc = "expire"
    BY <1>1, <1>4 DEF Redis!ReadClock, Redis!NoCall
  <2>3. \A q \in Requests : check[q].pc = "expire" => check'[q] = check[q]
    BY <1>1, <1>4 DEF Redis!ReadClock, Redis!NoCall
  <2>4. \A w \in Redis!Windows : Owing(w)' = Owing(w)
    BY <2>2, <2>3 DEF Owing, Pending
  <2> QED BY <1>1, <1>2, <1>4, <2>1, <2>4 DEF Redis!ReadClock
<1>5. ASSUME NEW r \in Requests, check[r].pc \in {"incr", "expire"},
             NEW c \in Redis!Calls, check' = [check EXCEPT ![r] = c],
             \/ c = [pc |-> "expire", now |-> check[r].now]
             \/ c.pc \notin {"incr", "expire"}
      PROVE  /\ check' \in [Requests -> Redis!Calls]
             /\ \A w \in Redis!Windows : IsFiniteSet(Owing(w)')
  <2>1. ASSUME NEW v \in Redis!Windows
        PROVE  IsFiniteSet(Owing(v)')
    <3>1. IsFiniteSet(Owing(v) \cup {r}) /\ IsFiniteSet(Owing(v) \ {r})
      BY <1>1, FS_AddElement, FS_RemoveElement
    <3>2. \/ Owing(v)' = Owing(v)
          \/ Owing(v)' = Owing(v) \cup {r}
          \/ Owing(v)' = Owing(v) \ {r}
      BY <1>5, CallMoves
    <3> QED BY <1>1, <3>1, <3>2
  <2>2. Redis!WindowIndex(check[r].now) \in Redis!Windows
    BY <1>5, CallersWindow
  <2> QED BY <1>1, <1>5, <2>1, <2>2
<1>6. ASSUME NEW now \in 0..RedisClock
      PROVE  /\ \A pc \in {"incr", "expire", "allowed", "open", "dead"} :
                    [pc |-> pc, now |-> now] \in Redis!Calls
             /\ [pc |-> "refused", now |-> now, retryAfter |-> Redis!RetryAfter(now)]
                    \in Redis!Calls
  BY WaitsAtMost DEF Redis!Calls, Redis!Instants
<1>7. ASSUME NEW r \in Requests, check[r].pc \in {"incr", "expire"}
      PROVE  /\ check[r].now \in 0..RedisClock
             /\ Redis!WindowIndex(check[r].now) \in Redis!Windows
  BY <1>7, CallersWindow
<1>8. ASSUME NEW r \in Requests, Redis!Incr(r)
      PROVE  SharedTyped'
  <2>1. PICK c : /\ check' = [check EXCEPT ![r] = c]
                 /\ c \in {[pc |-> "expire", now |-> check[r].now],
                           [pc |-> "allowed", now |-> check[r].now],
                           [pc |-> "refused", now |-> check[r].now,
                            retryAfter |-> Redis!RetryAfter(check[r].now)]}
    BY <1>8, Incrs
  <2>2. /\ check[r].pc = "incr" /\ granted' \in [Redis!Windows -> Nat]
        /\ counter' \in [Redis!Windows -> Nat] /\ late' \in [Redis!Windows -> Nat]
        /\ UNCHANGED <<time, ttl, faults>>
    BY <1>1, <1>7, <1>8, Incrs
  <2>3. c \in Redis!Calls
    BY <1>6, <1>7, <2>1, <2>2
  <2> QED BY <1>1, <1>2, <1>5, <2>1, <2>2, <2>3
<1>9. ASSUME NEW r \in Requests, Redis!Expire(r)
      PROVE  SharedTyped'
  <2>1. /\ check[r].pc = "expire" /\ granted' \in [Redis!Windows -> Nat]
        /\ ttl' \in [Redis!Windows -> 0..Redis!Never]
        /\ check' = [check EXCEPT ![r] = [pc |-> "allowed", now |-> check[r].now]]
        /\ UNCHANGED <<time, counter, late, faults>>
    BY <1>1, <1>7, <1>9, ExpireGrants DEF Redis!ExpiryFrom
  <2>2. [pc |-> "allowed", now |-> check[r].now] \in Redis!Calls
    BY <1>6, <1>7, <2>1
  <2> QED BY <1>1, <1>2, <1>5, <2>1, <2>2
<1>10. ASSUME NEW r \in Requests, Redis!RedisFails(r) \/ Redis!ReplyLost(r) \/ Redis!Crash(r)
       PROVE  SharedTyped'
  <2>1. /\ check[r].pc \in {"incr", "expire"} /\ faults' \in 0..MaxFaults
        /\ counter' \in [Redis!Windows -> Nat] /\ UNCHANGED <<time, granted, late>>
        /\ ttl' \in [Redis!Windows -> 0..Redis!Never]
    BY <1>1, <1>7, <1>10, FaultsCost DEF Redis!ExpiryFrom
  <2>2. CASE check' = check
    <3>1. \A w : Owing(w)' = Owing(w)
      BY <2>2 DEF Owing, Pending
    <3> QED BY <1>1, <1>2, <2>1, <2>2, <3>1
  <2>3. ASSUME NEW pc \in {"open", "dead"},
               check' = [check EXCEPT ![r] = [pc |-> pc, now |-> check[r].now]]
        PROVE  SharedTyped'
    <3>1. [pc |-> pc, now |-> check[r].now] \in Redis!Calls
      BY <1>6, <1>7, <2>1
    <3> QED BY <1>1, <1>2, <1>5, <2>1, <2>3, <3>1
  <2> QED BY <1>10, <2>2, <2>3, FaultsCost
<1> QED BY <1>3, <1>4, <1>8, <1>9, <1>10 DEF Redis!Next

(* The steps of a caller take no time, and leave it in its window.         *)
Command(r) == \/ Redis!Incr(r) \/ Redis!Expire(r)
              \/ Redis!RedisFails(r) \/ Redis!ReplyLost(r) \/ Redis!Crash(r)

(* Neither the time nor the clock of a pending caller changes by a command *)
(* and an expiry is set from the time of the EXPIRE.                       *)
LEMMA CommandsKeepTime ==
    ASSUME SharedTyped, NEW r \in Requests, Command(r)
    PROVE  /\ time' = time
           /\ check[r].pc \in {"incr", "expire"}
           /\ \A q \in Requests : check'[q].pc \in {"incr", "expire"} =>
                 check[q].pc \in {"incr", "expire"} /\ check'[q].now = check[q].now
           /\ \A v \in Redis!Windows :
                 \/ ttl'[v] = ttl[v]
                 \/ v = Redis!WindowIndex(check[r].now) /\ ttl'[v] = Redis!ExpiryFrom(time)
<1>1. check \in [Requests -> Redis!Calls] /\ ttl \in [Redis!Windows -> 0..Redis!Never]
  BY DEF SharedTyped, Redis!TypeOK
<1>2. CASE Redis!Incr(r)
  <2>1. check[r].pc = "incr" /\ UNCHANGED <<time, ttl>>
    BY <1>2, Incrs
  <2>2. PICK c : /\ check' = [check EXCEPT ![r] = c]
                 /\ \/ c = [pc |-> "expire", now |-> check[r].now]
                    \/ c.pc \notin {"incr", "expire"}
    BY <1>2, Incrs
  <2> QED BY <1>1, <2>1, <2>2
<1>3. CASE Redis!Expire(r)
  BY <1>1, <1>3, ExpireGrants
<1>4. CASE Redis!RedisFails(r) \/ Redis!ReplyLost(r) \/ Redis!Crash(r)
  <2>1. /\ check[r].pc \in {"incr", "expire"} /\ time' = time
        /\ \/ check' = check
           \/ \E pc \in {"open", "dead"} :
                 check' = [check EXCEPT ![r] = [pc |-> pc, now |-> check[r].now]]
    BY <1>4, FaultsCost
  <2>2. \A v \in Redis!Windows :
            \/ ttl'[v] = ttl[v]
            \/ v = Redis!WindowIndex(check[r].now) /\ ttl'[v] = Redis!ExpiryFrom(time)
    BY <1>1, <1>4, FaultsCost
  <2> QED BY <1>1, <2>1, <2>2
<1> QED BY <1>2, <1>3, <1>4 DEF Command

(* No step takes a caller further from its clock than MaxDelay.            *)
LEMMA OnTimeStep ==
    ASSUME SharedTyped, OnTime, Redis!Next
    PROVE  OnTime'
<1>1. time \in Nat /\ RedisDelay \in Nat /\ DOMAIN check = Requests
  BY SharedConstants DEF SharedTyped, Redis!TypeOK, Redis!Instants
<1>2. ASSUME NEW q \in Requests, check[q].pc \in {"incr", "expire"}
      PROVE  check[q].now \in Nat
  <2>1. check[q].now \in 0..RedisClock
    BY <1>2, CallersWindow
  <2> QED BY <2>1, SharedConstants
<1>3. CASE Redis!Tick
  BY <1>1, <1>2, <1>3 DEF Redis!Tick, OnTime
<1>4. ASSUME NEW r \in Requests, Redis!ReadClock(r) PROVE OnTime'
  BY <1>1, <1>4 DEF Redis!ReadClock, OnTime
<1>5. ASSUME NEW r \in Requests, Command(r) PROVE OnTime'
  BY <1>5, CommandsKeepTime DEF OnTime
<1> QED BY <1>3, <1>4, <1>5 DEF Redis!Next, Command

(* No step sets an expiry before the window has closed, or long after.     *)
LEMMA ExpiriesStep ==
    ASSUME SharedTyped, OnTime, Expiries, Redis!Next
    PROVE  Expiries'
<1> USE SharedConstants
<1>1. time \in 0..RedisClock /\ ttl \in [Redis!Windows -> 0..Redis!Never]
  BY DEF SharedTyped, Redis!TypeOK, Redis!Instants
<1>2. \A v \in Redis!Windows : /\ ttl[v] \in Int /\ Closes(v) \in Nat
                               /\ Closes(v) <= RedisClock + Window
  BY <1>1, WindowBounds
<1>3. CASE Redis!Tick
  <2> SUFFICES ASSUME NEW w \in Redis!Windows
               PROVE  /\ ttl'[w] > time'
                      /\ ttl'[w] >= Closes(w) + Second
                      /\ \/ ttl'[w] = Redis!Never
                         \/ ttl'[w] <= Closes(w) + Window + Second + RedisDelay
    BY DEF Expiries, Closes
  <2>1. time' = time + 1 /\ time < RedisClock
        /\ ttl'[w] = IF ttl[w] <= time + 1 THEN Redis!Never ELSE ttl[w]
    BY <1>3 DEF Redis!Tick
  <2> QED BY <1>1, <1>2, <2>1 DEF Expiries
<1>4. ASSUME NEW r \in Requests, Redis!ReadClock(r) PROVE Expiries'
  BY <1>4 DEF Redis!ReadClock, Expiries, Closes
<1>5. ASSUME NEW r \in Requests, Command(r) PROVE Expiries'
  <2> SUFFICES ASSUME NEW w \in Redis!Windows
               PROVE  /\ ttl'[w] > time
                      /\ ttl'[w] >= Closes(w) + Second
                      /\ \/ ttl'[w] = Redis!Never
                         \/ ttl'[w] <= Closes(w) + Window + Second + RedisDelay
    BY <1>5, CommandsKeepTime DEF Expiries, Closes
  <2>1. CASE ttl'[w] = ttl[w]
    BY <2>1 DEF Expiries
  <2>2. CASE w = Redis!WindowIndex(check[r].now) /\ ttl'[w] = Redis!ExpiryFrom(time)
    <3>1. check[r].pc \in {"incr", "expire"}
      BY <1>5, CommandsKeepTime
    <3>2. /\ check[r].now \in 0..RedisClock
          /\ Opens(w) <= check[r].now /\ check[r].now < Closes(w)
      BY <2>2, <3>1, CallersWindow
    <3>5. Closes(w) = Opens(w) + Window /\ Opens(w) \in Nat
      BY WindowBounds
    <3>3. check[r].now <= time /\ time <= check[r].now + RedisDelay
      BY <3>1 DEF OnTime
    <3>4. ttl'[w] = time + Window + Second
      BY <2>2 DEF Redis!ExpiryFrom
    <3> QED BY <1>1, <1>2, <3>2, <3>3, <3>4, <3>5
  <2> QED BY <1>5, <2>1, <2>2, CommandsKeepTime
<1> QED BY <1>3, <1>4, <1>5 DEF Redis!Next, Command

(* What a command does to the accounts of a window: nothing, or it counts  *)
(* a caller that then owes the EXPIRE, is let in or refused; an EXPIRE lets*)
(* its caller in; a fault may count a caller once more, or lose it.        *)
LEMMA CommandCounts ==
    ASSUME SharedTyped, NEW r \in Requests, Command(r), NEW v \in Redis!Windows,
           NEW n, n = Cardinality(Owing(v)), NEW m, m = Cardinality(Owing(v)')
    PROVE  /\ n \in Nat /\ m \in Nat /\ counter[v] \in Nat /\ granted[v] \in Nat
           /\ faults \in Nat /\ faults' \in Nat /\ faults <= faults'
           /\ Pending(v)' \subseteq Pending(v)
           /\ \/ counter'[v] = counter[v] /\ granted'[v] = granted[v] /\ m = n
              \/ /\ r \in Pending(v)
                 /\ \/ /\ Redis!Incr(r) /\ counter[v] = 0 /\ counter'[v] = 1
                       /\ granted'[v] = granted[v] /\ m = n + 1
                    \/ /\ Redis!Incr(r)
                       /\ counter[v] + 1 <= MaxRequests /\ counter'[v] = counter[v] + 1
                       /\ granted'[v] = granted[v] + 1 /\ m = n
                    \/ /\ counter[v] + 1 > MaxRequests /\ counter'[v] = counter[v] + 1
                       /\ granted'[v] = granted[v] /\ m = n
                    \/ /\ counter'[v] = counter[v]
                       /\ granted'[v] = granted[v] + 1 /\ m = n - 1
                    \/ /\ faults' = faults + 1
                       /\ counter'[v] \in {counter[v], counter[v] + 1}
                       /\ granted'[v] = granted[v] /\ m \in {n, n - 1}
                       /\ counter'[v] = counter[v] \/ m = n
<1> DEFINE w == Redis!WindowIndex(check[r].now)
<1>1. /\ counter \in [Redis!Windows -> Nat] /\ granted \in [Redis!Windows -> Nat]
      /\ check \in [Requests -> Redis!Calls] /\ faults \in Nat
      /\ IsFiniteSet(Owing(v))
  BY DEF SharedTyped, Redis!TypeOK
<1>2. check[r].pc \in {"incr", "expire"}
  BY CommandsKeepTime
<1>3. w \in Redis!Windows /\ r \in Pending(w)
  BY <1>2, CallersWindow
<1>4. /\ n \in Nat
      /\ Cardinality(Owing(v) \ {r}) = IF r \in Owing(v) THEN n - 1 ELSE n
      /\ Cardinality(Owing(v) \cup {r}) = IF r \in Owing(v) THEN n ELSE n + 1
  BY <1>1, FS_CardinalityType, FS_AddElement, FS_RemoveElement
<1>5. check[r].pc = "incr" => r \notin Owing(v)
  BY DEF Owing
<1>6. check[r].pc = "expire" /\ v = w => r \in Owing(v)
  BY <1>3 DEF Owing
<1>7. r \in Owing(v) => n >= 1
  <2>1. Owing(v) # {} => n # 0
    BY <1>1, FS_EmptySet
  <2> QED BY <1>4, <2>1
<1>8. CASE Redis!Incr(r)
  <2>1. PICK c : /\ check' = [check EXCEPT ![r] = c]
                 /\ \/ /\ counter[w] = 0 /\ granted' = granted
                       /\ c = [pc |-> "expire", now |-> check[r].now]
                    \/ /\ counter[w] + 1 <= MaxRequests
                       /\ granted' = [granted EXCEPT ![w] = @ + 1]
                       /\ c.pc = "allowed"
                    \/ /\ counter[w] + 1 > MaxRequests /\ granted' = granted
                       /\ c.pc = "refused"
    BY <1>8, Incrs
  <2>2. counter' = [counter EXCEPT ![w] = @ + 1] /\ faults' = faults /\ check[r].pc = "incr"
    BY <1>8, Incrs
  <2>3. /\ Pending(v)' \subseteq Pending(v)
        /\ v # w => Owing(v)' = Owing(v)
        /\ v = w => \/ c.pc = "expire" /\ Owing(v)' = Owing(v) \cup {r}
                    \/ c.pc # "expire" /\ Owing(v)' = Owing(v) \ {r}
    BY <1>2, <2>1, CallMoves
  <2>4. m = IF v = w /\ c.pc = "expire" THEN n + 1 ELSE n
    BY <1>4, <1>5, <2>2, <2>3
  <2>5. CASE v # w
    BY <1>1, <1>4, <2>1, <2>2, <2>3, <2>4, <2>5
  <2>6. CASE v = w
    BY <1>1, <1>3, <1>4, <1>8, <2>1, <2>2, <2>3, <2>4, <2>6
  <2> QED BY <2>5, <2>6
<1>9. CASE Redis!Expire(r)
  <2>1. /\ check[r].pc = "expire" /\ UNCHANGED <<counter, faults>>
        /\ check' = [check EXCEPT ![r] = [pc |-> "allowed", now |-> check[r].now]]
        /\ granted' = [granted EXCEPT ![w] = @ + 1]
    BY <1>9, ExpireGrants
  <2>2. /\ Pending(v)' \subseteq Pending(v)
        /\ v # w => Owing(v)' = Owing(v)
        /\ v = w => Owing(v)' = Owing(v) \ {r}
    <3>1. PICK c : c = [pc |-> "allowed", now |-> check[r].now]
      OBVIOUS
    <3>2. c.pc = "allowed" /\ check' = [check EXCEPT ![r] = c]
      BY <2>1, <3>1
    <3> QED BY <1>2, <3>2, CallMoves
  <2>3. m = IF v = w THEN n - 1 ELSE n
    BY <1>4, <1>6, <2>1, <2>2
  <2> QED BY <1>1, <1>3, <1>4, <1>6, <1>7, <2>1, <2>2, <2>3
<1>10. CASE Redis!RedisFails(r) \/ Redis!ReplyLost(r) \/ Redis!Crash(r)
  <2>1. /\ faults' = faults + 1 /\ granted' = granted
        /\ \/ check' = check
           \/ \E pc \in {"open", "dead"} :
                 check' = [check EXCEPT ![r] = [pc |-> pc, now |-> check[r].now]]
        /\ \/ counter' = counter
           \/ check[r].pc = "incr" /\ counter' = [counter EXCEPT ![w] = @ + 1]
    BY <1>10, FaultsCost
  <2>2. /\ Pending(v)' \subseteq Pending(v)
        /\ v # w => Owing(v)' = Owing(v)
        /\ Owing(v)' = Owing(v) \/ Owing(v)' = Owing(v) \ {r}
    <3>1. CASE check' = check
      BY <3>1 DEF Owing, Pending
    <3>2. ASSUME NEW pc \in {"open", "dead"},
                 check' = [check EXCEPT ![r] = [pc |-> pc, now |-> check[r].now]]
          PROVE  /\ Pending(v)' \subseteq Pending(v)
                 /\ v # w => Owing(v)' = Owing(v)
                 /\ Owing(v)' = Owing(v) \/ Owing(v)' = Owing(v) \ {r}
      <4>1. PICK c : c = [pc |-> pc, now |-> check[r].now]
        OBVIOUS
      <4>2. c.pc = pc /\ check' = [check EXCEPT ![r] = c]
        BY <3>2, <4>1
      <4> QED BY <1>2, <3>2, <4>2, CallMoves
    <3> QED BY <2>1, <3>1, <3>2
  <2>3. m \in Nat /\ m \in {n, n - 1} /\ (v # w => m = n) /\ (check[r].pc = "incr" => m = n)
    <3>1. CASE Owing(v)' = Owing(v)
      BY <1>4, <3>1
    <3>2. CASE v = w /\ Owing(v)' = Owing(v) \ {r}
      BY <1>4, <1>5, <1>7, <3>2
    <3> QED BY <2>2, <3>1, <3>2
  <2> QED BY <1>1, <1>3, <1>4, <2>1, <2>2, <2>3
<1> QED BY <1>8, <1>9, <1>10 DEF Command

(* Time and arrivals let nobody in.                                        *)
LEMMA AccountsKept ==
    ASSUME SharedTyped, Redis!Tick \/ \E r \in Requests : Redis!ReadClock(r)
    PROVE  /\ UNCHANGED <<granted, late, faults>>
           /\ \A v : Owing(v)' = Owing(v)
<1>1. UNCHANGED <<granted, late, faults>>
  BY DEF Redis!Tick, Redis!ReadClock
<1>2. CASE Redis!Tick
  <2>1. check' = check
    BY <1>2 DEF Redis!Tick
  <2> QED BY <1>1, <2>1 DEF Owing, Pending
<1>3. ASSUME NEW r \in Requests, Redis!ReadClock(r)
      PROVE  \A v : Owing(v)' = Owing(v)
  <2>1. check \in [Requests -> Redis!Calls]
    BY DEF SharedTyped, Redis!TypeOK
  <2>2. /\ check[r].pc = "idle" /\ check'[r].pc = "incr"
        /\ \A q \in Requests \ {r} : check'[q] = check[q]
    BY <1>3, <2>1 DEF Redis!ReadClock, Redis!NoCall
  <2> QED BY <2>2 DEF Owing, Pending
<1> QED BY <1>1, <1>2, <1>3

(* A command counts its caller as late in its window, if that has closed,  *)
(* and nobody else.                                                        *)
LEMMA LateCounts ==
    ASSUME SharedTyped, NEW r \in Requests, Command(r), NEW v \in Redis!Windows
    PROVE  /\ late[v] \in Nat /\ late'[v] \in Nat
           /\ late'[v] = late[v] \/ (late'[v] = late[v] + 1 /\ Redis!Closed(v))
           /\ Redis!Incr(r) /\ r \in Pending(v) /\ Redis!Closed(v) => late'[v] = late[v] + 1
<1>1. late \in [Redis!Windows -> Nat]
  BY DEF SharedTyped, Redis!TypeOK
<1>2. CASE Redis!Incr(r)
  <2>1. PICK w : w = Redis!WindowIndex(check[r].now)
    OBVIOUS
  <2>2. late' = [late EXCEPT ![w] = IF Redis!Closed(w) THEN @ + 1 ELSE @]
    BY <1>2, <2>1, Incrs
  <2>3. r \in Pending(v) => v = w
    BY <2>1 DEF Pending
  <2> HIDE <1>2
  <2> QED BY <1>1, <2>2, <2>3
<1>3. CASE ~Redis!Incr(r)
  <2>1. late' = late
    BY <1>3, ExpireGrants, FaultsCost DEF Command
  <2> QED BY <1>1, <1>3, <2>1
<1> QED BY <1>2, <1>3

(* A caller is counted before it is let in, and its counter stays until    *)
(* the window has been closed for a second: only who comes later is let in *)
(* on top.                                                                 *)
LEMMA EachCountedStep ==
    ASSUME SharedTyped, Expiries, EachCounted, Redis!Next
    PROVE  EachCounted'
<1> USE SharedConstants
<1> SUFFICES ASSUME NEW w \in Redis!Windows
             PROVE  /\ granted'[w] + Cardinality(Owing(w)') <= MaxRequests + late'[w]
                    /\ ~Redis!Closed(w)' =>
                           /\ late'[w] = 0
                           /\ granted'[w] + Cardinality(Owing(w)') <= counter'[w]
  BY DEF EachCounted
<1>1. /\ time \in Nat /\ counter[w] \in Nat /\ granted[w] \in Nat /\ ttl[w] \in Nat
      /\ late[w] \in Nat /\ IsFiniteSet(Owing(w)) /\ Closes(w) \in Nat
  BY WindowBounds DEF SharedTyped, Redis!TypeOK, Redis!Instants
<1>2. PICK n : n = Cardinality(Owing(w))
  OBVIOUS
<1>3. n \in Nat
  BY <1>1, <1>2, FS_CardinalityType
<1>4. /\ granted[w] + n <= MaxRequests + late[w]
      /\ ~Redis!Closed(w) => late[w] = 0 /\ granted[w] + n <= counter[w]
  BY <1>2 DEF EachCounted
<1>5. CASE Redis!Tick
  <2>1. /\ time' = time + 1
        /\ counter'[w] = IF ttl[w] <= time + 1 THEN 0 ELSE counter[w]
    BY <1>5 DEF Redis!Tick
  <2>2. granted' = granted /\ late' = late /\ Cardinality(Owing(w)') = n
    BY <1>2, <1>5, AccountsKept
  <2>3. ttl[w] >= Closes(w) + Second
    BY DEF Expiries
  <2>4. /\ Redis!Closed(w)' <=> time' >= Closes(w) + Second
        /\ Redis!Closed(w) <=> time >= Closes(w) + Second
    BY DEF Redis!Closed, Closes
  <2> QED BY <1>1, <1>3, <1>4, <2>1, <2>2, <2>3, <2>4
<1>6. ASSUME NEW r \in Requests, Redis!ReadClock(r)
      PROVE  /\ granted'[w] + Cardinality(Owing(w)') <= MaxRequests + late'[w]
             /\ ~Redis!Closed(w)' =>
                    /\ late'[w] = 0
                    /\ granted'[w] + Cardinality(Owing(w)') <= counter'[w]
  <2>1. /\ granted' = granted /\ late' = late /\ Cardinality(Owing(w)') = n
        /\ time' = time /\ counter' = counter
    BY <1>2, <1>6, AccountsKept DEF Redis!ReadClock
  <2>2. Redis!Closed(w)' <=> Redis!Closed(w)
    BY <2>1 DEF Redis!Closed
  <2> QED BY <1>4, <2>1, <2>2
<1>7. ASSUME NEW r \in Requests, Command(r)
      PROVE  /\ granted'[w] + Cardinality(Owing(w)') <= MaxRequests + late'[w]
             /\ ~Redis!Closed(w)' =>
                    /\ late'[w] = 0
                    /\ granted'[w] + Cardinality(Owing(w)') <= counter'[w]
  <2>1. PICK m : m = Cardinality(Owing(w)')
    OBVIOUS
  <2>2. Redis!Closed(w)' <=> Redis!Closed(w)
    BY <1>7, CommandsKeepTime DEF Redis!Closed
  <2> DEFINE counts == Redis!Incr(r) /\ r \in Pending(w)
  <2>4. /\ late'[w] \in Nat
        /\ late'[w] = late[w] \/ (late'[w] = late[w] + 1 /\ Redis!Closed(w))
        /\ counts /\ Redis!Closed(w) => late'[w] = late[w] + 1
    BY <1>7, LateCounts
  <2>5. /\ n \in Nat /\ m \in Nat
        /\ \/ counter'[w] = counter[w] /\ granted'[w] = granted[w] /\ m = n
           \/ /\ counts /\ counter[w] = 0 /\ counter'[w] = 1
              /\ granted'[w] = granted[w] /\ m = n + 1
           \/ /\ counts
              /\ counter[w] + 1 <= MaxRequests /\ counter'[w] = counter[w] + 1
              /\ granted'[w] = granted[w] + 1 /\ m = n
           \/ /\ counter[w] + 1 > MaxRequests /\ counter'[w] = counter[w] + 1
              /\ granted'[w] = granted[w] /\ m = n
           \/ /\ counter'[w] = counter[w]
              /\ granted'[w] = granted[w] + 1 /\ m = n - 1
           \/ /\ counter'[w] \in {counter[w], counter[w] + 1}
              /\ granted'[w] = granted[w] /\ m \in {n, n - 1}
    BY <1>2, <1>7, <2>1, CommandCounts
  <2> HIDE <1>7 DEF counts
  <2> QED BY <1>1, <1>4, <2>1, <2>2, <2>4, <2>5
<1> QED BY <1>5, <1>6, <1>7 DEF Redis!Next, Command

(* What is counted and not let in was refused, or cost a fault.            *)
LEMMA NothingElseStep ==
    ASSUME SharedTyped, NothingElseCounted, Redis!Next
    PROVE  NothingElseCounted'
<1> USE SharedConstants
<1> SUFFICES ASSUME NEW w \in Redis!Windows
             PROVE  \/ counter'[w] <= granted'[w] + Cardinality(Owing(w)') + faults'
                    \/ MaxRequests <= granted'[w] + Cardinality(Owing(w)') + faults'
  BY DEF NothingElseCounted
<1>1. /\ counter[w] \in Nat /\ granted[w] \in Nat /\ faults \in Nat
      /\ IsFiniteSet(Owing(w))
  BY DEF SharedTyped, Redis!TypeOK
<1>2. PICK n : n = Cardinality(Owing(w))
  OBVIOUS
<1>3. n \in Nat
  BY <1>1, <1>2, FS_CardinalityType
<1>4. counter[w] <= granted[w] + n + faults \/ MaxRequests <= granted[w] + n + faults
  BY <1>2 DEF NothingElseCounted
<1>5. CASE Redis!Tick \/ \E r \in Requests : Redis!ReadClock(r)
  <2>1. counter'[w] = counter[w] \/ counter'[w] = 0
    BY <1>5 DEF Redis!Tick, Redis!ReadClock
  <2>2. granted' = granted /\ faults' = faults /\ Cardinality(Owing(w)') = n
    BY <1>2, <1>5, AccountsKept
  <2> QED BY <1>1, <1>3, <1>4, <2>1, <2>2
<1>6. ASSUME NEW r \in Requests, Command(r)
      PROVE  \/ counter'[w] <= granted'[w] + Cardinality(Owing(w)') + faults'
             \/ MaxRequests <= granted'[w] + Cardinality(Owing(w)') + faults'
  <2>1. PICK m : m = Cardinality(Owing(w)')
    OBVIOUS
  <2>2. /\ m \in Nat /\ faults' \in Nat /\ faults <= faults'
        /\ \/ counter'[w] = counter[w] /\ granted'[w] = granted[w] /\ m = n
           \/ counter[w] = 0 /\ counter'[w] = 1 /\ granted'[w] = granted[w] /\ m = n + 1
           \/ counter'[w] = counter[w] + 1 /\ granted'[w] = granted[w] + 1 /\ m = n
           \/ /\ counter[w] + 1 > MaxRequests /\ counter'[w] = counter[w] + 1
              /\ granted'[w] = granted[w] /\ m = n
           \/ counter'[w] = counter[w] /\ granted'[w] = granted[w] + 1 /\ m = n - 1
           \/ /\ faults' = faults + 1 /\ counter'[w] \in {counter[w], counter[w] + 1}
              /\ granted'[w] = granted[w] /\ m \in {n, n - 1}
              /\ counter'[w] = counter[w] \/ m = n
    BY <1>2, <1>6, <2>1, CommandCounts
  <2> HIDE <1>6
  <2> QED BY <1>1, <1>3, <1>4, <2>1, <2>2
<1> QED BY <1>5, <1>6 DEF Redis!Next, Command

(* Only a fault leaves a counter that nobody will give an expiry, and one  *)
(* fault leaves one.                                                       *)
LEMMA OrphansStep ==
    ASSUME SharedTyped, OrphansAreFaults, Redis!Next
    PROVE  OrphansAreFaults'
<1> USE SharedConstants
<1>1. /\ time \in 0..RedisClock /\ faults \in Nat
      /\ counter \in [Redis!Windows -> Nat] /\ ttl \in [Redis!Windows -> 0..Redis!Never]
  BY DEF SharedTyped, Redis!TypeOK, Redis!Instants
<1>2. IsFiniteSet(Orphans) /\ Cardinality(Orphans) \in Nat
  <2>1. Orphans \subseteq Redis!Windows
    BY DEF Orphans
  <2>2. IsFiniteSet(Orphans)
    BY <2>1, WindowBounds, FS_Subset
  <2> QED BY <2>2, FS_CardinalityType
<1>3. Orphans' \subseteq Orphans /\ faults' = faults => OrphansAreFaults'
  <2> SUFFICES ASSUME Orphans' \subseteq Orphans, faults' = faults
               PROVE  Cardinality(Orphans') <= faults
    BY DEF OrphansAreFaults
  <2>1. Cardinality(Orphans') <= Cardinality(Orphans) /\ IsFiniteSet(Orphans')
    BY <1>2, FS_Subset
  <2>2. Cardinality(Orphans') \in Nat
    BY <2>1, FS_CardinalityType
  <2> QED BY <1>1, <1>2, <2>1, <2>2 DEF OrphansAreFaults
<1>4. ASSUME NEW w, Orphans' \subseteq Orphans \cup {w}, faults' = faults + 1
      PROVE  OrphansAreFaults'
  <2>1. /\ IsFiniteSet(Orphans \cup {w})
        /\ Cardinality(Orphans \cup {w}) <= Cardinality(Orphans) + 1
        /\ Cardinality(Orphans \cup {w}) \in Nat
    <3>1. IsFiniteSet(Orphans \cup {w})
      BY <1>2, FS_AddElement
    <3>2. Cardinality(Orphans \cup {w}) \in {Cardinality(Orphans), Cardinality(Orphans) + 1}
      BY <1>2, FS_AddElement
    <3> QED BY <1>2, <3>1, <3>2
  <2>2. Cardinality(Orphans') <= Cardinality(Orphans \cup {w}) /\ IsFiniteSet(Orphans')
    BY <1>4, <2>1, FS_Subset
  <2>3. Cardinality(Orphans') \in Nat
    BY <2>2, FS_CardinalityType
  <2> QED BY <1>1, <1>2, <1>4, <2>1, <2>2, <2>3 DEF OrphansAreFaults
<1>5. Redis!Windows' = Redis!Windows /\ Redis!Never' = Redis!Never
  BY DEF Redis!Windows, Redis!Never
<1>6. CASE Redis!Tick \/ \E r \in Requests : Redis!ReadClock(r)
  <2>1. faults' = faults /\ \A v : Owing(v)' = Owing(v)
    BY <1>6, AccountsKept
  <2>2. ASSUME NEW v \in Redis!Windows, counter'[v] # 0
        PROVE  counter[v] # 0 /\ ttl'[v] = ttl[v]
    BY <1>1, <1>6, <2>2 DEF Redis!Tick, Redis!ReadClock
  <2>3. Orphans' \subseteq Orphans
    BY <1>5, <2>1, <2>2 DEF Orphans
  <2> QED BY <1>3, <2>1, <2>3
<1>7. ASSUME NEW r \in Requests, Redis!Incr(r)
      PROVE  OrphansAreFaults'
  <2>1. PICK w : w = Redis!WindowIndex(check[r].now)
    OBVIOUS
  <2>2. PICK c : /\ check' = [check EXCEPT ![r] = c]
                 /\ \/ /\ counter[w] = 0
                       /\ c = [pc |-> "expire", now |-> check[r].now]
                    \/ counter[w] # 0 /\ c.pc \in {"allowed", "refused"}
    BY <1>7, <2>1, Incrs
  <2>3. /\ check[r].pc = "incr" /\ w \in Redis!Windows
        /\ counter' = [counter EXCEPT ![w] = @ + 1] /\ UNCHANGED <<ttl, faults>>
    BY <1>7, <2>1, Incrs, CallersWindow
  <2>4. ASSUME NEW v \in Redis!Windows, Owing(v)' = {}
        PROVE  /\ v # w => Owing(v) = {}
               /\ v = w => counter[w] # 0 /\ Owing(v) = {}
    <3>1. /\ v # w => Owing(v)' = Owing(v)
          /\ v = w => \/ c.pc = "expire" /\ Owing(v)' = Owing(v) \cup {r}
                      \/ c.pc # "expire" /\ Owing(v)' = Owing(v) \ {r}
      BY <2>1, <2>2, <2>3, CallMoves
    <3>2. r \notin Owing(v)
      BY <2>3 DEF Owing
    <3> QED BY <2>2, <2>4, <3>1, <3>2
  <2>5. \A v \in Redis!Windows : v # w => counter'[v] = counter[v]
    BY <1>1, <2>3
  <2>6. Orphans' \subseteq Orphans
    BY <1>5, <2>3, <2>4, <2>5 DEF Orphans
  <2> QED BY <1>3, <2>3, <2>6
<1>8. ASSUME NEW r \in Requests, Redis!Expire(r)
      PROVE  OrphansAreFaults'
  <2>1. PICK w : w = Redis!WindowIndex(check[r].now)
    OBVIOUS
  <2>2. PICK c : c = [pc |-> "allowed", now |-> check[r].now]
    OBVIOUS
  <2>3. /\ check[r].pc = "expire" /\ w \in Redis!Windows
        /\ check' = [check EXCEPT ![r] = c] /\ c.pc = "allowed"
        /\ ttl' = [ttl EXCEPT ![w] = IF counter[w] = 0 THEN @ ELSE Redis!ExpiryFrom(time)]
        /\ UNCHANGED <<counter, faults>>
    BY <1>8, <2>1, <2>2, ExpireGrants, CallersWindow
  <2>4. ASSUME NEW v \in Redis!Windows, v # w
        PROVE  Owing(v)' = Owing(v) /\ ttl'[v] = ttl[v]
    BY <1>1, <2>1, <2>3, <2>4, CallMoves
  <2>5. counter[w] # 0 => ttl'[w] # Redis!Never
    BY <1>1, <2>3 DEF Redis!ExpiryFrom
  <2>6. Orphans' \subseteq Orphans
    BY <1>5, <2>3, <2>4, <2>5 DEF Orphans
  <2> QED BY <1>3, <2>3, <2>6
<1>9. ASSUME NEW r \in Requests, Redis!RedisFails(r) \/ Redis!ReplyLost(r) \/ Redis!Crash(r)
      PROVE  OrphansAreFaults'
  <2>1. PICK w : w = Redis!WindowIndex(check[r].now)
    OBVIOUS
  <2>2. /\ check[r].pc \in {"incr", "expire"} /\ faults' = faults + 1
        /\ \/ check' = check
           \/ \E pc \in {"open", "dead"} :
                 check' = [check EXCEPT ![r] = [pc |-> pc, now |-> check[r].now]]
        /\ \A v \in Redis!Windows : v # w => counter'[v] = counter[v] /\ ttl'[v] = ttl[v]
    BY <1>1, <1>9, <2>1, FaultsCost
  <2>3. ASSUME NEW v \in Redis!Windows, v # w
        PROVE  Owing(v)' = Owing(v)
    <3>1. CASE check' = check
      BY <3>1 DEF Owing, Pending
    <3>2. ASSUME NEW pc \in {"open", "dead"},
                 check' = [check EXCEPT ![r] = [pc |-> pc, now |-> check[r].now]]
          PROVE  Owing(v)' = Owing(v)
      <4>1. PICK c : c = [pc |-> pc, now |-> check[r].now]
        OBVIOUS
      <4>2. /\ c.pc \notin {"incr", "expire"} /\ check' = [check EXCEPT ![r] = c]
            /\ check[r].pc \in {"incr", "expire"} /\ v # Redis!WindowIndex(check[r].now)
        BY <2>1, <2>2, <2>3, <3>2, <4>1
      <4> QED BY <4>2, CallMoves
    <3> QED BY <2>2, <3>1, <3>2
  <2>4. Orphans' \subseteq Orphans \cup {w}
    BY <1>5, <2>2, <2>3 DEF Orphans
  <2> QED BY <1>4, <2>2, <2>4
<1> QED BY <1>6, <1>7, <1>8, <1>9 DEF Redis!Next

(* Before the first call.                                                  *)
LEMMA SharedInitInv == Redis!Init => SharedInv
<1> USE SharedConstants
<1> SUFFICES ASSUME Redis!Init PROVE SharedInv
  OBVIOUS
<1>1. /\ time = 0 /\ faults = 0
      /\ \A w \in Redis!Windows : counter[w] = 0 /\ ttl[w] = Redis!Never /\ granted[w] = 0
                                  /\ late[w] = 0
      /\ \A r \in Requests : check[r].pc = "idle"
  BY DEF Redis!Init, Redis!NoCall
<1>2. \A w : Owing(w) = {}
  BY <1>1 DEF Owing, Pending
<1>3. SharedTyped
  <2>1. Redis!TypeOK
    BY DEF Redis!Init, Redis!TypeOK, Redis!Instants, Redis!Calls
  <2> QED BY <1>2, <2>1, FS_EmptySet DEF SharedTyped
<1>4. OnTime
  BY <1>1 DEF OnTime
<1>5. Expiries
  BY <1>1, WindowBounds DEF Expiries
<1>6. EachCounted /\ NothingElseCounted
  <2>1. \A w : Cardinality(Owing(w)) = 0
    BY <1>2, FS_EmptySet
  <2> QED BY <1>1, <2>1 DEF EachCounted, NothingElseCounted
<1>7. OrphansAreFaults
  <2>1. Orphans = {}
    BY <1>1 DEF Orphans
  <2> QED BY <1>1, <2>1, FS_EmptySet DEF OrphansAreFaults
<1> QED BY <1>3, <1>4, <1>5, <1>6, <1>7 DEF SharedInv

(* Each step of the callers, of time and of the faults keeps it.           *)
LEMMA SharedInvStep ==
    ASSUME SharedInv, Redis!Next
    PROVE  SharedInv'
  BY SharedTypedStep, OnTimeStep, ExpiriesStep, EachCountedStep, NothingElseStep, OrphansStep
     DEF SharedInv

-----------------------------------------------------------------------------
(* The theorems of the shared limiter.                                     *)

(* The invariant of the shared limiter holds in every reachable state.     *)
THEOREM SharedInvHolds == LimitingSpec => []SharedInv
<1>1. LimitingInit => SharedInv
  BY SharedInitInv DEF LimitingInit
<1>2. ASSUME SharedInv, [LimitingNext]_<<REDIS_URL, vars, redisVars>>
      PROVE  SharedInv'
  <2>1. CASE Redis!Next
    BY <1>2, <2>1, SharedInvStep
  <2>2. CASE UNCHANGED redisVars
    <3>1. /\ Orphans' = Orphans
          /\ \A w : Owing(w)' = Owing(w) /\ Pending(w)' = Pending(w)
      BY <2>2 DEF redisVars, Orphans, Owing, Pending, Redis!Windows, Redis!Never
    <3>2. /\ SharedTyped' /\ OnTime' /\ Expiries'
      BY <1>2, <2>2, <3>1
         DEF SharedInv, SharedTyped, OnTime, Expiries, redisVars, Closes,
             Redis!TypeOK, Redis!Instants, Redis!Calls, Redis!Windows, Redis!Never
    <3>3. EachCounted' /\ NothingElseCounted' /\ OrphansAreFaults'
      BY <1>2, <2>2, <3>1
         DEF SharedInv, EachCounted, NothingElseCounted, OrphansAreFaults, redisVars,
             Redis!Closed, Redis!Windows
    <3> QED BY <3>2, <3>3 DEF SharedInv
  <2> QED BY <1>2, <2>1, <2>2 DEF LimitingNext, InMemory, Shared
<1> QED BY <1>1, <1>2, PTL DEF LimitingSpec

(* The instance counts as this module does.                                *)
LEMMA SameCardinality ==
    ASSUME NEW S
    PROVE  Redis!Cardinality(S) = Cardinality(S)
  BY DEF Redis!Cardinality, Cardinality

(* However the INCR and EXPIRE of the processes interleave, whatever fails *)
(* and however long the client backs off, the shared counter lets no more  *)
(* than max_requests of a window in (RedisRateLimiter.check), but for one  *)
(* for each caller whose INCR came when the counter may have expired.      *)
THEOREM WindowsAreLimited == LimitingSpec => []WindowLimit
<1>1. ASSUME SharedInv, NEW w \in Redis!Windows
      PROVE  granted[w] <= MaxRequests + late[w]
  <2>1. /\ granted[w] \in Nat /\ late[w] \in Nat /\ MaxRequests \in Nat
        /\ Cardinality(Owing(w)) \in Nat
    BY <1>1, SharedConstants, FS_CardinalityType DEF SharedInv, SharedTyped, Redis!TypeOK
  <2>2. granted[w] + Cardinality(Owing(w)) <= MaxRequests + late[w]
    BY <1>1 DEF SharedInv, EachCounted
  <2> QED BY <2>1, <2>2
<1>2. SharedInv => WindowLimit
  BY <1>1 DEF WindowLimit, Redis!WindowLimit
<1> QED BY SharedInvHolds, <1>2, PTL

(* A counter that is there long after its window is the price of a fault:  *)
(* the EXPIRE of RedisRateLimiter.check was never sent.                    *)
THEOREM LeaksCostFaults == LimitingSpec => []LeaksAreFaults
<1>1. ASSUME SharedInv
      PROVE  LeaksAreFaults
  <2> USE SharedConstants
  <2>1. Redis!Leaked \subseteq Orphans
    <3> SUFFICES ASSUME NEW w \in Redis!Windows, counter[w] # 0,
                        time > (w + 1) * Window + Window + Second + RedisDelay
                 PROVE  ttl[w] = Redis!Never /\ Owing(w) = {}
      BY DEF Redis!Leaked, Orphans
    <3>1. /\ time \in Nat /\ Closes(w) \in Nat /\ ttl[w] \in Nat
          /\ time > Closes(w) + Window + Second + RedisDelay
      BY <1>1, WindowBounds
         DEF SharedInv, SharedTyped, Redis!TypeOK, Redis!Instants, Closes
    <3>2. ttl[w] = Redis!Never
      BY <1>1, <3>1 DEF SharedInv, Expiries
    <3>3. ASSUME NEW r \in Owing(w) PROVE FALSE
      <4>1. r \in Requests /\ check[r].pc = "expire" /\ r \in Pending(w)
        BY <3>3 DEF Owing, Pending
      <4>2. check[r].now \in 0..RedisClock /\ check[r].now < Closes(w)
        BY <1>1, <4>1, CallersWindow DEF SharedInv
      <4>3. time <= check[r].now + RedisDelay
        BY <1>1, <4>1 DEF SharedInv, OnTime
      <4> QED BY <3>1, <4>2, <4>3
    <3> QED BY <3>2, <3>3
  <2>2. IsFiniteSet(Orphans)
    <3>1. Orphans \subseteq Redis!Windows
      BY DEF Orphans
    <3> QED BY <3>1, WindowBounds, FS_Subset
  <2>3. Cardinality(Redis!Leaked) <= Cardinality(Orphans) /\ IsFiniteSet(Redis!Leaked)
    BY <2>1, <2>2, FS_Subset
  <2>4. Cardinality(Redis!Leaked) \in Nat /\ Cardinality(Orphans) \in Nat
    BY <2>2, <2>3, FS_CardinalityType
  <2>5. faults \in Nat
    BY <1>1 DEF SharedInv, SharedTyped, Redis!TypeOK
  <2>6. Cardinality(Orphans) <= faults
    BY <1>1 DEF SharedInv, OrphansAreFaults
  <2>7. Cardinality(Redis!Leaked) <= faults
    BY <2>3, <2>4, <2>5, <2>6
  <2> QED BY <2>7, SameCardinality DEF LeaksAreFaults, Redis!LeaksAreFaults
<1> QED BY SharedInvHolds, <1>1, PTL

(* RedisRateLimiter.check refuses nobody before the limit of its window is *)
(* used up, but for the admissions that faults cost.                       *)
THEOREM RefusalsAreDue == LimitingSpec => NoSpuriousRefusal
<1> USE SharedConstants
<1>1. ASSUME SharedInv, [LimitingNext]_<<REDIS_URL, vars, redisVars>>,
             NEW r \in Requests, check'[r].pc = "refused", check[r].pc = "incr",
             NEW w, w = Redis!WindowIndex(check[r].now)
      PROVE  Cardinality(Owing(w)) + granted[w] + faults >= MaxRequests
  <2>1. SharedTyped /\ NothingElseCounted
    BY <1>1 DEF SharedInv
  <2>2. check \in [Requests -> Redis!Calls]
    BY <2>1 DEF SharedTyped, Redis!TypeOK
  <2>3. Redis!Incr(r)
    <3>1. check' # check
      BY <1>1
    <3>2. Redis!Next
      BY <1>1, <3>1 DEF LimitingNext, InMemory, Shared, redisVars
    <3>3. PICK q \in Requests : Redis!ReadClock(q) \/ Command(q)
      BY <3>1, <3>2 DEF Redis!Next, Redis!Tick, Command
    <3>4. q = r
      <4> SUFFICES ASSUME q # r PROVE check'[r] = check[r]
        BY <1>1
      <4>1. CASE Redis!ReadClock(q)
        BY <2>2, <4>1 DEF Redis!ReadClock
      <4>2. CASE Redis!Incr(q)
        BY <2>1, <2>2, <4>2, Incrs
      <4>3. CASE Redis!Expire(q)
        BY <2>1, <2>2, <4>3, ExpireGrants
      <4>4. CASE Redis!RedisFails(q) \/ Redis!ReplyLost(q) \/ Redis!Crash(q)
        BY <2>1, <2>2, <4>4, FaultsCost
      <4> QED BY <3>3, <4>1, <4>2, <4>3, <4>4 DEF Command
    <3>5. ~Redis!ReadClock(r)
      BY <1>1, <2>2 DEF Redis!ReadClock, Redis!NoCall
    <3>6. ~Redis!Expire(r)
      BY <1>1 DEF Redis!Expire
    <3>7. ~(Redis!RedisFails(r) \/ Redis!ReplyLost(r) \/ Redis!Crash(r))
      BY <1>1, <2>1, <2>2, FaultsCost
    <3> QED BY <3>3, <3>4, <3>5, <3>6, <3>7 DEF Command
  <2>4. w \in Redis!Windows
    BY <1>1, <2>1, CallersWindow
  <2>5. counter[w] >= MaxRequests
    <3>1. PICK c : /\ check' = [check EXCEPT ![r] = c]
                   /\ c.pc = "refused" => counter[w] + 1 > MaxRequests
      BY <1>1, <2>1, <2>3, Incrs
    <3>2. counter[w] \in Nat
      BY <2>1, <2>4 DEF SharedTyped, Redis!TypeOK
    <3> QED BY <1>1, <2>2, <3>1, <3>2
  <2>6. /\ counter[w] \in Nat /\ granted[w] \in Nat /\ faults \in Nat
        /\ IsFiniteSet(Owing(w))
    BY <2>1, <2>4 DEF SharedTyped, Redis!TypeOK
  <2>7. Cardinality(Owing(w)) \in Nat
    BY <2>6, FS_CardinalityType
  <2> QED BY <2>1, <2>4, <2>5, <2>6, <2>7 DEF NothingElseCounted
<1>2. SharedInv /\ [LimitingNext]_<<REDIS_URL, vars, redisVars>> =>
        [\A r \in Requests : LET w == Redis!WindowIndex(check[r].now) IN
            (check'[r].pc = "refused" /\ check[r].pc = "incr") =>
                Redis!Cardinality(Redis!Owing(w)) + granted[w] + faults >= MaxRequests]_(Redis!vars)
  <2>1. \A w : Redis!Owing(w) = Owing(w)
    BY DEF Redis!Owing, Owing, Pending
  <2> QED BY <1>1, <2>1, SameCardinality
<1> QED BY SharedInvHolds, <1>2, PTL DEF LimitingSpec, NoSpuriousRefusal, Redis!NoSpuriousRefusal

-----------------------------------------------------------------------------
(* The invariant of the limiter in memory.                                 *)

(* A thread is never further from its clock than MaxDelay.                 *)
Waiting ==
    \A th \in Threads : call[th].pc = "waiting" =>
        /\ call[th].now <= clock /\ clock <= call[th].now + MaxDelay

(* The buckets: of past hits, of no more than the limit, of distinct keys, *)
(* and none of them empty.                                                 *)
Buckets ==
    /\ \A k \in Keys : /\ Len(hits[k]) <= MaxRequests
                       /\ \A i \in 1..Len(hits[k]) : hits[k][i] <= clock
    /\ Unrepeated(order)
    /\ \A k \in Keys : Contains(order, k) => hits[k] # <<>>

(* Whoever was let in less than a window ago is remembered: the last hits  *)
(* of a key are those of its last admissions, in the same order.           *)
Remembers(ts, ad, t) ==
    /\ \A i, j \in 1..Len(ad) : i <= j => ad[i] <= ad[j]
    /\ \A i \in 1..Len(ad) : ad[i] <= t
    /\ \A d \in 0..(Len(ad) - 1) : t - ad[Len(ad) - d] < Window - MaxDelay =>
          d < Len(ts) /\ ad[Len(ad) - d] <= ts[Len(ts) - d] + MaxDelay
Remembered == \A k \in Keys : Remembers(hits[k], admitted[k], clock)

LocalInv == TypeOK /\ Waiting /\ Buckets /\ KeysBounded /\ Remembered /\ LimitHolds

-----------------------------------------------------------------------------
(* The steps of the limiter in memory.                                     *)

(* The hits of a window are some of the bucket's, none of them aged.       *)
LEMMA LiveHits ==
    ASSUME NEW ts \in Seq(Nat), NEW now \in Nat
    PROVE  /\ Live(ts, now) \in Seq(Nat)
           /\ Len(Live(ts, now)) <= Len(ts)
           /\ \A i \in 1..Len(Live(ts, now)) :
                 /\ now - Live(ts, now)[i] < Window
                 /\ \E j \in 1..Len(ts) : Live(ts, now)[i] = ts[j]
<1> DEFINE aged == {t \in ToSet(ts) : now - t >= Window}
           live == Without(ts, aged)
<1>1. /\ live \in Seq(Nat) /\ Len(live) <= Len(ts)
      /\ \A e : Contains(live, e) <=> Contains(ts, e) /\ e \notin aged
  BY WithoutElements
<1> HIDE DEF live
<1>2. ASSUME NEW i \in 1..Len(live)
      PROVE  now - live[i] < Window /\ \E j \in 1..Len(ts) : live[i] = ts[j]
  <2>1. Contains(live, live[i]) /\ live[i] \in Nat
    BY <1>1 DEF Contains
  <2>2. Contains(ts, live[i]) /\ live[i] \notin aged
    BY <1>1, <2>1
  <2>3. \E j \in 1..Len(ts) : live[i] = ts[j]
    BY <2>2 DEF Contains
  <2>4. live[i] \in ToSet(ts)
    BY <2>2, ToSetContains
  <2>5. ~(now - live[i] >= Window)
    BY <2>2, <2>4
  <2> QED BY <2>1, <2>3, <2>5, TimeAssumption
<1> QED BY <1>1, <1>2 DEF Live, live

(* A place counted from the end of a list.                                 *)
LEMMA FromTheEnd ==
    ASSUME NEW S, NEW s \in Seq(S), NEW e \in 0..(Len(s) - 1)
    PROVE  Len(s) - e \in 1..Len(s) /\ s[Len(s) - e] \in S
<1>1. Len(s) \in Nat
  OBVIOUS
<1>2. Len(s) - e \in 1..Len(s)
  BY <1>1
<1> QED BY <1>2

(* A hit no more than MaxDelay older than a recent admission is live.      *)
LEMMA RecentTimes ==
    ASSUME NEW t \in Nat, NEW now \in Nat, now <= t,
           NEW x \in Nat, NEW y \in Nat, t - x < Window - MaxDelay, x <= y + MaxDelay
    PROVE  now - y < Window
BY TimeAssumption

(* An admission after a recent one is recent, and so are the hits of both. *)
LEMMA RecentHits ==
    ASSUME NEW ts \in Seq(Nat), NEW ad \in Seq(Nat), NEW t \in Nat, Remembers(ts, ad, t),
           NEW now \in Nat, now <= t,
           NEW d \in 0..(Len(ad) - 1), t - ad[Len(ad) - d] < Window - MaxDelay,
           NEW e \in 0..d
    PROVE  /\ e \in 0..(Len(ts) - 1)
           /\ now - ts[Len(ts) - e] < Window
<1>1. PICK n \in Nat : n = Len(ad)
  OBVIOUS
<1>2. PICK m \in Nat : m = Len(ts)
  OBVIOUS
<1>3. e \in 0..(n - 1) /\ d \in 0..(n - 1)
  BY <1>1
<1>4. /\ n - e \in 1..n /\ ad[n - e] \in Nat
      /\ n - d \in 1..n /\ ad[n - d] \in Nat
  BY <1>1, <1>3, FromTheEnd
<1>5. n - d <= n - e
  BY <1>3
<1>6. ad[n - d] <= ad[n - e]
  BY <1>1, <1>4, <1>5 DEF Remembers
<1>7. t - ad[n - e] < Window - MaxDelay
  <2>1. \A x, y \in Nat : t - x < Window - MaxDelay /\ x <= y => t - y < Window - MaxDelay
    BY TimeAssumption
  <2> QED BY <1>1, <1>4, <1>6, <2>1
<1>8. e < m /\ ad[n - e] <= ts[m - e] + MaxDelay
  BY <1>1, <1>2, <1>3, <1>7 DEF Remembers
<1>9. e \in 0..(m - 1)
  BY <1>3, <1>8
<1>10. ts[m - e] \in Nat
  BY <1>2, <1>9, FromTheEnd
<1>11. now - ts[m - e] < Window
  BY <1>4, <1>7, <1>8, <1>10, RecentTimes
<1> QED BY <1>2, <1>9, <1>11

(* A hit of a recent admission is still in the window, and as many hits    *)
(* come after it as before.                                                *)
LEMMA RecentIsLive ==
    ASSUME NEW ts \in Seq(Nat), NEW ad \in Seq(Nat), NEW t \in Nat, Remembers(ts, ad, t),
           NEW now \in Nat, now <= t,
           NEW d \in 0..(Len(ad) - 1), t - ad[Len(ad) - d] < Window - MaxDelay
    PROVE  /\ d < Len(Live(ts, now))
           /\ Live(ts, now)[Len(Live(ts, now)) - d] = ts[Len(ts) - d]
<1>1. PICK aged : aged = {x \in ToSet(ts) : now - x >= Window}
  OBVIOUS
<1>2. PICK m \in Nat : m = Len(ts)
  OBVIOUS
<1>3. \A e \in 0..d : e \in 0..(m - 1) /\ now - ts[m - e] < Window
  BY <1>2, RecentHits
<1>4. \A e \in 0..d : ts[m - e] \notin aged
  <2> SUFFICES ASSUME NEW e \in 0..d, now - ts[m - e] >= Window PROVE FALSE
    BY <1>1
  <2>1. ts[m - e] \in Nat
    BY <1>2, <1>3, FromTheEnd
  <2>2. \A x \in Nat : ~(now - x < Window /\ now - x >= Window)
    BY TimeAssumption
  <2> QED BY <1>3, <2>1, <2>2
<1>5. PICK c \in Nat : c = d + 1
  OBVIOUS
<1>6. d \in Nat /\ d \in 0..d /\ c - 1 = d /\ c \in 0..m
  <2>1. d \in 0..(m - 1)
    BY <1>3
  <2> QED BY <1>5, <2>1
<1>7. /\ c <= Len(Without(ts, aged))
      /\ \A e \in 0..d :
            Without(ts, aged)[Len(Without(ts, aged)) - e] = ts[m - e]
  BY <1>2, <1>4, <1>6, WithoutSuffix
<1>8. PICK l \in Nat : l = Len(Without(ts, aged))
  <2>1. Without(ts, aged) \in Seq(Nat)
    BY WithoutElements
  <2> QED BY <2>1
<1>9. d < l
  BY <1>5, <1>6, <1>7, <1>8
<1> QED BY <1>1, <1>2, <1>6, <1>7, <1>8, <1>9 DEF Live

(* A bucket stays in order as time passes, when only its live hits are     *)
(* kept, and when a thread adds its own to them.                           *)
LEMMA RecentLater ==
    ASSUME NEW ts \in Seq(Nat), NEW ad \in Seq(Nat), NEW t \in Nat, Remembers(ts, ad, t)
    PROVE  Remembers(ts, ad, t + 1)
<1> USE TimeAssumption
<1>1. Len(ad) \in Nat /\ \A i \in 1..Len(ad) : ad[i] \in Nat
  OBVIOUS
<1>2. ASSUME NEW d \in 0..(Len(ad) - 1), (t + 1) - ad[Len(ad) - d] < Window - MaxDelay
      PROVE  d < Len(ts) /\ ad[Len(ad) - d] <= ts[Len(ts) - d] + MaxDelay
  <2>1. Len(ad) - d \in 1..Len(ad)
    BY <1>1
  <2>2. t - ad[Len(ad) - d] < Window - MaxDelay
    BY <1>1, <1>2, <2>1
  <2> QED BY <2>2 DEF Remembers
<1>3. \A i \in 1..Len(ad) : ad[i] <= t + 1
  BY <1>1 DEF Remembers
<1> QED BY <1>2, <1>3 DEF Remembers

(* To forget hits that are out of the window loses none that counts.       *)
LEMMA RecentFiltered ==
    ASSUME NEW ts \in Seq(Nat), NEW ad \in Seq(Nat), NEW t \in Nat, Remembers(ts, ad, t),
           NEW now \in Nat, now <= t
    PROVE  Remembers(Live(ts, now), ad, t)
<1>1. ASSUME NEW d \in 0..(Len(ad) - 1), t - ad[Len(ad) - d] < Window - MaxDelay
      PROVE  /\ d < Len(Live(ts, now))
             /\ ad[Len(ad) - d] <= Live(ts, now)[Len(Live(ts, now)) - d] + MaxDelay
  <2>1. /\ d < Len(Live(ts, now))
        /\ Live(ts, now)[Len(Live(ts, now)) - d] = ts[Len(ts) - d]
    BY <1>1, RecentIsLive
  <2>2. ad[Len(ad) - d] <= ts[Len(ts) - d] + MaxDelay
    BY <1>1 DEF Remembers
  <2> QED BY <2>1, <2>2
<1> QED BY <1>1 DEF Remembers

(* A hit that is added is remembered.                                      *)
LEMMA RecentAdded ==
    ASSUME NEW ts \in Seq(Nat), NEW ad \in Seq(Nat), NEW t \in Nat, Remembers(ts, ad, t),
           NEW now \in Nat, t <= now + MaxDelay
    PROVE  Remembers(Append(ts, now), Append(ad, t), t)
<1> USE TimeAssumption
<1> DEFINE tt == Append(ts, now)
           aa == Append(ad, t)
<1>1. /\ Len(ts) \in Nat /\ Len(ad) \in Nat
      /\ Len(aa) = Len(ad) + 1 /\ aa[Len(ad) + 1] = t /\ \A i \in 1..Len(ad) : aa[i] = ad[i]
      /\ Len(tt) = Len(ts) + 1 /\ tt[Len(ts) + 1] = now /\ \A i \in 1..Len(ts) : tt[i] = ts[i]
      /\ \A i \in 1..Len(ad) : ad[i] \in Nat
  OBVIOUS
<1> HIDE DEF tt, aa
<1>2. \A i \in 1..Len(aa) : i \in 1..Len(ad) \/ i = Len(ad) + 1
  BY <1>1
<1>3. \A i \in 1..Len(aa) : aa[i] <= t
  BY <1>1, <1>2 DEF Remembers
<1>4. ASSUME NEW i \in 1..Len(aa), NEW j \in 1..Len(aa), i <= j
      PROVE  aa[i] <= aa[j]
  <2>1. CASE j = Len(ad) + 1
    BY <1>1, <1>3, <2>1
  <2>2. CASE j \in 1..Len(ad)
    <3>1. i \in 1..Len(ad)
      BY <1>1, <1>4, <2>2
    <3> QED BY <1>1, <1>4, <2>2, <3>1 DEF Remembers
  <2> QED BY <1>2, <2>1, <2>2
<1>5. ASSUME NEW d \in 0..(Len(aa) - 1), t - aa[Len(aa) - d] < Window - MaxDelay
      PROVE  d < Len(tt) /\ aa[Len(aa) - d] <= tt[Len(tt) - d] + MaxDelay
  <2>1. CASE d = 0
    <3>1. Len(aa) - d = Len(ad) + 1 /\ Len(tt) - d = Len(ts) + 1 /\ d < Len(tt)
      BY <1>1, <2>1
    <3> QED BY <1>1, <3>1
  <2>2. CASE d # 0
    <3>1. /\ d - 1 \in 0..(Len(ad) - 1) /\ Len(aa) - d = Len(ad) - (d - 1)
          /\ Len(ad) - (d - 1) \in 1..Len(ad)
      BY <1>1, <2>2
    <3>2. aa[Len(aa) - d] = ad[Len(ad) - (d - 1)]
      BY <1>1, <3>1
    <3>3. d - 1 < Len(ts) /\ ad[Len(ad) - (d - 1)] <= ts[Len(ts) - (d - 1)] + MaxDelay
      BY <1>5, <3>1, <3>2 DEF Remembers
    <3>4. /\ Len(tt) - d = Len(ts) - (d - 1) /\ Len(ts) - (d - 1) \in 1..Len(ts)
          /\ d < Len(tt)
      <4>1. PICK m \in Nat : m = Len(ts)
        OBVIOUS
      <4>2. d \in Nat /\ d - 1 \in 0..(m - 1) /\ Len(tt) = m + 1
        BY <1>1, <2>2, <3>3, <4>1
      <4>3. (m + 1) - d = m - (d - 1) /\ m - (d - 1) \in 1..m /\ d < m + 1
        BY <4>2
      <4> QED BY <4>1, <4>2, <4>3
    <3>5. tt[Len(tt) - d] = ts[Len(ts) - (d - 1)]
      BY <1>1, <3>4
    <3> QED BY <3>2, <3>3, <3>4, <3>5
  <2> QED BY <2>1, <2>2
<1> QED BY <1>3, <1>4, <1>5 DEF Remembers, tt, aa

-----------------------------------------------------------------------------
(* Eviction.                                                               *)

(* Some bucket is the oldest of several, and is among the oldest ones.     *)
LEMMA SomeAreOldest ==
    ASSUME NEW h \in [Keys -> Seq(Nat)], NEW ks \in Seq(Keys), ks # <<>>, Unrepeated(ks),
           \A k \in Keys : Contains(ks, k) => h[k] # <<>>,
           NEW n \in Nat \ {0}
    PROVE  \E k \in Keys : Contains(ks, k) /\ k \in Oldest(h, ks, n)
<1>1. /\ 1 \in 1..Len(ks)
      /\ \A i \in 1..Len(ks) : ks[i] \in Keys /\ Last(h[ks[i]]) \in Nat
  BY DEF Contains, Last
<1> DEFINE lasts == {Last(h[ks[i]]) : i \in 1..Len(ks)}
<1>2. PICK v \in lasts : \A x \in lasts : v <= x
  <2>1. lasts \subseteq Nat /\ lasts # {}
    BY <1>1
  <2> HIDE DEF lasts
  <2> QED BY <2>1, LeastMember
<1>3. v \in Nat /\ \A i \in 1..Len(ks) : v <= Last(h[ks[i]])
  BY <1>1, <1>2
<1> DEFINE places == {i \in 1..Len(ks) : Last(h[ks[i]]) = v}
<1>4. PICK m \in places : \A i \in places : m <= i
  <2>1. places \subseteq Nat /\ places # {}
    OBVIOUS
  <2> HIDE DEF places
  <2> QED BY <2>1, LeastMember
<1>5. m \in 1..Len(ks) /\ Last(h[ks[m]]) = v /\ ks[m] \in Keys /\ Contains(ks, ks[m])
  BY <1>1 DEF Contains
<1>6. ASSUME NEW j \in ToSet(ks), Older(h, ks, j, ks[m]) PROVE FALSE
  <2>1. PICK i \in 1..Len(ks) : j = ks[i]
    BY ToSetContains DEF Contains
  <2>2. ~(Last(h[j]) < Last(h[ks[m]]))
    BY <1>1, <1>3, <1>5, <2>1
  <2>3. PICK a, b \in 1..Len(ks) : a < b /\ ks[a] = j /\ ks[b] = ks[m]
    BY <1>6, <2>2 DEF Older
  <2>4. b = m
    BY <1>5, <2>3 DEF Unrepeated
  <2>5. Last(h[j]) = Last(h[ks[m]])
    BY <1>6, <2>2 DEF Older
  <2>6. a \in places
    BY <1>5, <2>3, <2>5
  <2> QED BY <1>4, <1>5, <2>3, <2>4, <2>6
<1>7. {j \in ToSet(ks) : Older(h, ks, j, ks[m])} = {}
  BY <1>6
<1>8. Cardinality({}) = 0
  BY FS_EmptySet
<1>9. ks[m] \in ToSet(ks)
  BY <1>5, ToSetContains
<1>10. Cardinality({j \in ToSet(ks) : Older(h, ks, j, ks[m])}) < n
  <2>1. 0 < n
    OBVIOUS
  <2> QED BY <1>7, <1>8, <2>1
<1> HIDE DEF places, lasts
<1> QED BY <1>5, <1>9, <1>10 DEF Oldest

(* _evict brings the buckets down to their bound; the ones it takes are    *)
(* aged but for those it has to drop.                                      *)
LEMMA Evicts ==
    ASSUME NEW h \in [Keys -> Seq(Nat)], NEW ks \in Seq(Keys), Unrepeated(ks),
           \A k \in Keys : Contains(ks, k) => h[k] # <<>>,
           Len(ks) <= MaxKeys + 1, NEW now
    PROVE  LET out == Evict(h, ks, now) IN
           /\ out.dropped \subseteq out.gone
           /\ \A j \in out.gone \ out.dropped : now - Last(h[j]) >= Window
           /\ Len(Without(ks, out.gone)) <= MaxKeys
<1> DEFINE expired == IF Len(ks) > MaxKeys THEN Expired(h, ks, now) ELSE {}
           rest == Without(ks, expired)
           dropped == IF Len(rest) > MaxKeys THEN Oldest(h, rest, Len(rest) - MaxKeys) ELSE {}
           gone == expired \cup dropped
<1>1. Evict(h, ks, now) = [gone |-> gone, dropped |-> dropped]
  BY DEF Evict
<1>2. \A j \in gone \ dropped : now - Last(h[j]) >= Window
  BY DEF Expired
<1> HIDE DEF expired
<1>3. /\ rest \in Seq(Keys) /\ Len(rest) <= Len(ks) /\ Unrepeated(rest)
      /\ \A k : Contains(rest, k) => Contains(ks, k)
  BY WithoutElements, WithoutDistinct
<1>4. MaxKeys \in Nat /\ Len(ks) \in Nat /\ Len(rest) \in Nat
  BY <1>3, LimitAssumption
<1> HIDE DEF rest
<1>5. CASE Len(rest) <= MaxKeys
  <2>1. gone = expired
    BY <1>4, <1>5
  <2>2. Len(Without(ks, gone)) <= MaxKeys
    BY <1>5, <2>1 DEF rest
  <2>3. dropped \subseteq gone
    OBVIOUS
  <2> HIDE DEF gone, dropped
  <2> QED BY <1>1, <1>2, <2>2, <2>3
<1>6. CASE Len(rest) > MaxKeys
  <2>1. Len(rest) - MaxKeys \in Nat \ {0} /\ rest # <<>>
    BY <1>3, <1>4, <1>6
  <2>2. PICK k \in Keys : Contains(rest, k) /\ k \in Oldest(h, rest, Len(rest) - MaxKeys)
    BY <1>3, <2>1, SomeAreOldest
  <2>3. k \in gone /\ Contains(ks, k)
    BY <1>3, <1>6, <2>2
  <2> HIDE DEF gone, dropped
  <2>4. Len(Without(ks, gone)) < Len(ks) /\ Without(ks, gone) \in Seq(Keys)
    BY <2>3, WithoutElements DEF Contains
  <2>5. Len(Without(ks, gone)) <= MaxKeys
    <3>1. Len(Without(ks, gone)) \in Nat
      BY <2>4
    <3> QED BY <1>4, <2>4, <3>1
  <2> QED BY <1>1, <1>2, <2>5 DEF gone
<1> QED BY <1>4, <1>5, <1>6

-----------------------------------------------------------------------------
(* Steps.                                                                  *)

(* What the invariant says of a thread that waits for the lock, and of the *)
(* bucket it asks for.                                                     *)
LEMMA Waits ==
    ASSUME LocalInv, NEW th \in Threads, call[th].pc = "waiting"
    PROVE  /\ call[th].key \in Keys /\ call[th].now \in Stamps
           /\ call[th].now \in Nat /\ clock \in Nat
           /\ call[th].now <= clock /\ clock <= call[th].now + MaxDelay
<1>1. call[th] \in Calls
  BY DEF LocalInv, TypeOK
<1>2. call[th].key \in Keys /\ call[th].now \in Stamps
  BY <1>1 DEF Calls, NoCall
<1>3. clock \in Nat /\ call[th].now \in Nat
  BY <1>2, TimeAssumption DEF LocalInv, TypeOK, Stamps
<1> QED BY <1>2, <1>3 DEF LocalInv, Waiting

(* Lists of stamps are lists of numbers.                                   *)
LEMMA StampLists ==
    ASSUME NEW s \in Seq(Stamps)
    PROVE  s \in Seq(Nat)
<1>1. Stamps \subseteq Nat
  BY DEF Stamps
<1>2. Len(s) \in Nat /\ s \in [1..Len(s) -> Stamps]
  OBVIOUS
<1>3. s \in [1..Len(s) -> Nat]
  BY <1>1, <1>2
<1> QED BY <1>2, <1>3

(* The hits of a window are stamps when the bucket's are.                  *)
LEMMA LiveStamps ==
    ASSUME NEW ts \in Seq(Stamps), NEW now
    PROVE  Live(ts, now) \in Seq(Stamps)
BY WithoutElements DEF Live

(* Nobody is told to wait longer than a thread's delay after the window.   *)
LEMMA WaitIsBounded ==
    ASSUME NEW left \in Nat, left <= Window + MaxDelay
    PROVE  left \div Second + 1 \in 1..((Window + MaxDelay) \div Second + 1)
<1>1. Second \in Nat \ {0} /\ Window + MaxDelay \in Nat
  BY TimeAssumption
<1>2. PICK most \in Nat : most = Window + MaxDelay
  BY <1>1
<1>3. /\ left \div Second \in Nat /\ most \div Second \in Nat
      /\ (left \div Second) * Second <= left
      /\ most < (most \div Second + 1) * Second
  BY <1>1
<1>4. left \div Second <= most \div Second
  <2> SUFFICES ASSUME most \div Second + 1 <= left \div Second PROVE FALSE
    BY <1>3
  <2>1. (most \div Second + 1) * Second <= (left \div Second) * Second
    BY <1>1, <1>3
  <2>2. (most \div Second + 1) * Second \in Nat /\ (left \div Second) * Second \in Nat
    BY <1>1, <1>3
  <2> QED BY <1>2, <1>3, <2>1, <2>2
<1> QED BY <1>2, <1>3, <1>4

(* A wait of what is left of a hit's window outlasts that window.          *)
LEMMA LongEnough ==
    ASSUME NEW now \in Nat, NEW first \in Nat, NEW left \in Int, NEW x \in Nat,
           left = Window - (now - first), left <= x
    PROVE  now + x - first >= Window
BY TimeAssumption

(* What a refused caller is told, and that it is long enough.              *)
LEMMA Told ==
    ASSUME NEW ts \in Seq(Nat), NEW t \in Nat, NEW now \in Nat,
           now <= t, t <= now + MaxDelay, \A i \in 1..Len(ts) : ts[i] <= t,
           Full(Live(ts, now))
    PROVE  LET live == Live(ts, now) IN
           /\ RetryAfter(live, now) \in 1..((Window + MaxDelay) \div Second + 1)
           /\ live # <<>>
           /\ now + RetryAfter(live, now) * Second - live[1] >= Window
<1>1. PICK live : live = Live(ts, now)
  OBVIOUS
<1>2. live \in Seq(Nat) /\ live # <<>>
  <2>1. live \in Seq(Nat) /\ Len(live) >= MaxRequests /\ MaxRequests >= 1
    BY <1>1, LiveHits, LimitAssumption DEF Full
  <2>2. Len(live) # 0
    BY <2>1, LimitAssumption
  <2> QED BY <2>1, <2>2
<1>3. 1 \in 1..Len(live) /\ Head(live) = live[1]
  BY <1>2
<1>4. PICK first \in Nat : first = live[1] /\ first <= t /\ now - first < Window
  <2>1. live[1] \in Nat
    BY <1>2, <1>3
  <2>2. now - live[1] < Window /\ \E j \in 1..Len(ts) : live[1] = ts[j]
    BY <1>1, <1>3, LiveHits
  <2> QED BY <2>1, <2>2
<1>5. PICK left \in Int : left = Window - (now - first)
  BY TimeAssumption
<1>6. left \in Nat /\ left <= Window + MaxDelay
  BY <1>4, <1>5, TimeAssumption
<1>7. RetryAfter(live, now) = left \div Second + 1
  BY <1>3, <1>4, <1>5 DEF RetryAfter
<1>8. left <= (left \div Second + 1) * Second /\ (left \div Second + 1) * Second \in Nat
  BY <1>6, TimeAssumption
<1>9. now + RetryAfter(live, now) * Second - first >= Window
  <2>1. PICK x \in Nat : x = (left \div Second + 1) * Second /\ left <= x
    BY <1>8
  <2>2. now + x - first >= Window
    BY <1>5, <2>1, LongEnough
  <2> QED BY <1>7, <2>1, <2>2
<1>10. RetryAfter(live, now) \in 1..((Window + MaxDelay) \div Second + 1)
  BY <1>6, <1>7, WaitIsBounded
<1> QED BY <1>1, <1>2, <1>4, <1>9, <1>10

(* Time passes, and no thread is kept from the lock beyond its delay.      *)
LEMMA TickStep == LocalInv /\ Tick => LocalInv'
<1> SUFFICES ASSUME LocalInv, Tick PROVE LocalInv'
  OBVIOUS
<1> USE TimeAssumption
<1>1. clock \in Nat /\ clock' = clock + 1 /\ clock' \in Stamps
  BY DEF LocalInv, TypeOK, Stamps, Tick
<1>2. TypeOK' /\ KeysBounded' /\ LimitHolds'
  BY <1>1 DEF LocalInv, TypeOK, KeysBounded, LimitHolds, Tick
<1>3. Waiting'
  <2> SUFFICES ASSUME NEW th \in Threads, call[th].pc = "waiting"
               PROVE  call[th].now <= clock + 1 /\ clock + 1 <= call[th].now + MaxDelay
    BY <1>1 DEF Waiting, Tick
  <2>1. call[th].now \in Nat /\ call[th].now <= clock
    BY Waits
  <2>2. clock < call[th].now + MaxDelay
    BY DEF Tick
  <2> QED BY <1>1, <2>1, <2>2
<1>4. Buckets'
  <2>1. ASSUME NEW k \in Keys, NEW i \in 1..Len(hits[k]) PROVE hits[k][i] <= clock + 1
    <3>1. hits[k] \in Seq(Nat)
      BY StampLists DEF LocalInv, TypeOK
    <3>2. hits[k][i] \in Nat /\ hits[k][i] <= clock
      BY <3>1 DEF LocalInv, Buckets
    <3> QED BY <1>1, <3>2
  <2> QED BY <1>1, <2>1 DEF LocalInv, Buckets, Tick
<1>5. Remembered'
  <2> SUFFICES ASSUME NEW k \in Keys PROVE Remembers(hits[k], admitted[k], clock + 1)
    BY <1>1 DEF Remembered, Tick
  <2>1. hits[k] \in Seq(Nat) /\ admitted[k] \in Seq(Nat)
    BY StampLists DEF LocalInv, TypeOK
  <2> QED BY <1>1, <2>1, RecentLater DEF LocalInv, Remembered
<1> QED BY <1>2, <1>3, <1>4, <1>5 DEF LocalInv

(* A request comes.                                                        *)
LEMMA ReadClockStep ==
    ASSUME LocalInv, NEW th \in Threads, NEW k \in Keys, ReadClock(th, k)
    PROVE  LocalInv'
<1> DEFINE c == [pc |-> "waiting", key |-> k, now |-> clock]
<1>1. call' = [call EXCEPT ![th] = c] /\ UNCHANGED <<clock, hits, order, admitted>>
  BY DEF ReadClock
<1>2. c \in Calls /\ call \in [Threads -> Calls] /\ clock \in Nat
  BY DEF LocalInv, TypeOK, Calls, Stamps
<1>3. TypeOK'
  <2>1. call' \in [Threads -> Calls]
    BY <1>1, <1>2
  <2> QED BY <1>1, <2>1 DEF LocalInv, TypeOK
<1>4. Waiting'
  <2> SUFFICES ASSUME NEW q \in Threads, call'[q].pc = "waiting"
               PROVE  call'[q].now <= clock /\ clock <= call'[q].now + MaxDelay
    BY <1>1 DEF Waiting
  <2>1. CASE q = th
    <3>1. call'[q].now = clock
      BY <1>1, <1>2, <2>1
    <3> QED BY <1>2, <3>1, TimeAssumption
  <2>2. CASE q # th
    <3>1. call'[q] = call[q]
      BY <1>1, <1>2, <2>2
    <3> QED BY <3>1 DEF LocalInv, Waiting
  <2> QED BY <2>1, <2>2
<1>5. Buckets' /\ KeysBounded' /\ Remembered' /\ LimitHolds'
  BY <1>1 DEF LocalInv, Buckets, KeysBounded, Remembered, LimitHolds
<1> QED BY <1>3, <1>4, <1>5 DEF LocalInv

(* The call of a thread that has its answer no longer waits.               *)
LEMMA Answered ==
    ASSUME LocalInv, NEW th \in Threads, NEW c \in Calls, c.pc # "waiting",
           call' = [call EXCEPT ![th] = c], clock' = clock
    PROVE  Waiting' /\ call' \in [Threads -> Calls]
<1>1. call \in [Threads -> Calls]
  BY DEF LocalInv, TypeOK
<1>2. ASSUME NEW q \in Threads, call'[q].pc = "waiting"
      PROVE  call'[q] = call[q]
  BY <1>1, <1>2
<1> QED BY <1>1, <1>2 DEF LocalInv, Waiting

(* A request over the limit.                                               *)
LEMMA RefuseStep ==
    ASSUME LocalInv, NEW th \in Threads, Refuse(th)
    PROVE  LocalInv'
<1>1. PICK k \in Keys : k = call[th].key
  BY Waits DEF Refuse
<1>2. PICK now \in Stamps : /\ now = call[th].now /\ now \in Nat /\ clock \in Nat
                            /\ now <= clock /\ clock <= now + MaxDelay
  BY Waits DEF Refuse
<1>3. PICK live : live = Live(hits[k], now)
  OBVIOUS
<1>4. PICK c : c = [pc |-> "refused", key |-> k, now |-> now,
                    retryAfter |-> RetryAfter(live, now)]
  OBVIOUS
<1>5. /\ Full(live)
      /\ hits' = [hits EXCEPT ![k] = live]
      /\ call' = [call EXCEPT ![th] = c]
      /\ UNCHANGED <<clock, order, admitted>>
  BY <1>1, <1>2, <1>3, <1>4 DEF Refuse
<1>6. /\ hits \in [Keys -> Seq(Stamps)] /\ hits[k] \in Seq(Nat) /\ live \in Seq(Stamps)
      /\ \A i \in 1..Len(hits[k]) : hits[k][i] <= clock
      /\ Len(hits[k]) <= MaxRequests
  BY <1>3, StampLists, LiveStamps DEF LocalInv, TypeOK, Buckets
<1>7. /\ live # <<>> /\ Len(live) <= Len(hits[k])
      /\ \A i \in 1..Len(live) : \E j \in 1..Len(hits[k]) : live[i] = hits[k][j]
      /\ RetryAfter(live, now) \in 1..((Window + MaxDelay) \div Second + 1)
  <2>1. Full(Live(hits[k], now))
    BY <1>3, <1>5
  <2>2. /\ RetryAfter(live, now) \in 1..((Window + MaxDelay) \div Second + 1)
        /\ live # <<>>
    BY <1>2, <1>3, <1>6, <2>1, Told
  <2> QED BY <1>2, <1>3, <1>6, <2>2, LiveHits
<1>8. c \in Calls /\ c.pc # "waiting"
  BY <1>4, <1>7 DEF Calls
<1>9. Waiting' /\ call' \in [Threads -> Calls]
  BY <1>5, <1>8, Answered
<1>10. TypeOK'
  <2>1. hits' \in [Keys -> Seq(Stamps)]
    BY <1>5, <1>6
  <2> QED BY <1>5, <1>9, <2>1 DEF LocalInv, TypeOK
<1>11. Buckets'
  <2> SUFFICES ASSUME NEW j \in Keys
               PROVE  /\ Len(hits'[j]) <= MaxRequests
                      /\ \A i \in 1..Len(hits'[j]) : hits'[j][i] <= clock
                      /\ Contains(order, j) => hits'[j] # <<>>
    BY <1>5 DEF LocalInv, Buckets
  <2>1. CASE j = k
    <3>1. hits'[j] = live
      BY <1>5, <1>6, <2>1
    <3>2. Len(live) <= MaxRequests
      BY <1>6, <1>7, LimitAssumption
    <3>3. \A i \in 1..Len(live) : live[i] <= clock
      BY <1>6, <1>7
    <3> QED BY <1>7, <3>1, <3>2, <3>3
  <2>2. CASE j # k
    <3>1. hits'[j] = hits[j]
      BY <1>5, <1>6, <2>2
    <3> QED BY <3>1 DEF LocalInv, Buckets
  <2> QED BY <2>1, <2>2
<1>12. Remembered'
  <2> SUFFICES ASSUME NEW j \in Keys PROVE Remembers(hits'[j], admitted[j], clock)
    BY <1>5 DEF Remembered
  <2>1. CASE j = k
    <3>1. hits'[j] = Live(hits[k], now)
      BY <1>3, <1>5, <1>6, <2>1
    <3>2. admitted[k] \in Seq(Nat) /\ Remembers(hits[k], admitted[k], clock)
      BY StampLists DEF LocalInv, TypeOK, Remembered
    <3>3. Remembers(Live(hits[k], now), admitted[k], clock)
      BY <1>2, <1>6, <3>2, RecentFiltered
    <3> QED BY <2>1, <3>1, <3>3
  <2>2. CASE j # k
    <3>1. hits'[j] = hits[j]
      BY <1>5, <1>6, <2>2
    <3> QED BY <3>1 DEF LocalInv, Remembered
  <2> QED BY <2>1, <2>2
<1>13. KeysBounded' /\ LimitHolds'
  BY <1>5 DEF LocalInv, KeysBounded, LimitHolds
<1> QED BY <1>9, <1>10, <1>11, <1>12, <1>13 DEF LocalInv

(* Once the newest hit of a bucket has aged out, no admission is recent.   *)
LEMMA RecentForgotten ==
    ASSUME NEW ts \in Seq(Nat), NEW ad \in Seq(Nat), NEW t \in Nat, Remembers(ts, ad, t),
           NEW now \in Nat, now <= t, now - Last(ts) >= Window
    PROVE  Remembers(<<>>, ad, t)
<1>1. ASSUME NEW d \in 0..(Len(ad) - 1), t - ad[Len(ad) - d] < Window - MaxDelay
      PROVE  FALSE
  <2>1. 0 \in 0..d /\ Len(ts) \in Nat /\ Len(ts) - 0 = Len(ts)
    OBVIOUS
  <2>2. 0 \in 0..(Len(ts) - 1) /\ now - ts[Len(ts) - 0] < Window
    BY <1>1, <2>1, RecentHits
  <2>3. ts[Len(ts) - 0] \in Nat
    BY <2>2, FromTheEnd
  <2>4. Last(ts) = ts[Len(ts) - 0]
    BY <2>1 DEF Last
  <2> QED BY <2>2, <2>3, <2>4, TimeAssumption
<1> QED BY <1>1 DEF Remembers

(* One admission more keeps the limit when the window was not full.        *)
LEMMA LimitKept ==
    ASSUME NEW ts \in Seq(Nat), NEW ad \in Seq(Nat), NEW t \in Nat, Remembers(ts, ad, t),
           NEW now \in Nat, now <= t, ~Full(Live(ts, now)),
           \A n \in 1..(Len(ad) - MaxRequests) : ad[n + MaxRequests] - ad[n] >= Window - MaxDelay,
           NEW m \in 1..(Len(Append(ad, t)) - MaxRequests)
    PROVE  Append(ad, t)[m + MaxRequests] - Append(ad, t)[m] >= Window - MaxDelay
<1>1. PICK l \in Nat : l = Len(ad)
  OBVIOUS
<1>2. PICK aa : aa = Append(ad, t)
  OBVIOUS
<1>3. Len(aa) = l + 1 /\ aa[l + 1] = t /\ \A i \in 1..l : aa[i] = ad[i]
  BY <1>1, <1>2
<1>4. MaxRequests \in Nat \ {0}
  BY LimitAssumption
<1>5. m \in 1..((l + 1) - MaxRequests)
  BY <1>2, <1>3
<1>6. CASE m \in 1..(l - MaxRequests)
  <2>1. m \in 1..l /\ m + MaxRequests \in 1..l
    BY <1>4, <1>6
  <2> QED BY <1>1, <1>2, <1>3, <1>6, <2>1
<1>7. CASE m = (l + 1) - MaxRequests
  <2>1. PICK d \in Nat : d = MaxRequests - 1
    BY <1>4
  <2>2. /\ m + MaxRequests = l + 1 /\ m = l - d
        /\ m \in 1..l /\ d \in 0..(l - 1)
    BY <1>4, <1>5, <1>7, <2>1
  <2>3. ad[m] \in Nat
    BY <1>1, <2>2
  <2>4. ~(t - ad[m] < Window - MaxDelay)
    <3> SUFFICES ASSUME t - ad[m] < Window - MaxDelay PROVE FALSE
      OBVIOUS
    <3>1. d < Len(Live(ts, now))
      BY <1>1, <2>2, RecentIsLive
    <3>2. Len(Live(ts, now)) \in Nat
      BY LiveHits
    <3> QED BY <1>4, <2>1, <3>1, <3>2 DEF Full
  <2>5. t - ad[m] >= Window - MaxDelay
    BY <2>3, <2>4, TimeAssumption
  <2> QED BY <1>2, <1>3, <2>2, <2>5
<1>8. m \in 1..(l - MaxRequests) \/ m = (l + 1) - MaxRequests
  BY <1>4, <1>5
<1> QED BY <1>6, <1>7, <1>8

(* A request that is let in: what Allow does to the buckets, one by one.   *)
LEMMA Allows ==
    ASSUME LocalInv, NEW th \in Threads, Allow(th)
    PROVE  \E k, now, keys, gone, dropped :
             /\ k \in Keys /\ now \in Stamps /\ keys \in Seq(Keys)
             /\ now \in Nat /\ now <= clock /\ clock <= now + MaxDelay
             /\ ~Full(Live(hits[k], now))
             /\ dropped \subseteq gone
             /\ Len(Without(keys, gone)) <= MaxKeys
             /\ Unrepeated(keys)
             /\ \A j : Contains(keys, j) <=> Contains(order, j) \/ j = k
             /\ \A j \in gone \ dropped : j # k /\ (j \in Keys => now - Last(hits[j]) >= Window)
             /\ hits' = [j \in Keys |-> IF j \in gone THEN <<>>
                                        ELSE IF j = k THEN Append(Live(hits[k], now), now)
                                        ELSE hits[j]]
             /\ order' = Without(keys, gone)
             /\ call' = [call EXCEPT ![th] = [pc |-> "allowed", key |-> k, now |-> now]]
             /\ admitted' = [j \in Keys |-> IF j \in dropped THEN <<>>
                                            ELSE IF j = k THEN Append(admitted[j], clock)
                                            ELSE admitted[j]]
             /\ clock' = clock
<1>1. PICK k \in Keys : k = call[th].key
  BY Waits DEF Allow
<1>2. PICK now \in Stamps : /\ now = call[th].now /\ now \in Nat /\ clock \in Nat
                            /\ now <= clock /\ clock <= now + MaxDelay
  BY Waits DEF Allow
<1>3. PICK table : table = [hits EXCEPT ![k] = Append(Live(hits[k], now), now)]
  OBVIOUS
<1>4. PICK keys : keys = IF Contains(order, k) THEN order ELSE Append(order, k)
  OBVIOUS
<1>5. PICK out : out = Evict(table, keys, now)
  OBVIOUS
<1>6. /\ ~Full(Live(hits[k], now))
      /\ hits' = [j \in Keys |-> IF j \in out.gone THEN <<>> ELSE table[j]]
      /\ order' = Without(keys, out.gone)
      /\ call' = [call EXCEPT ![th] = [pc |-> "allowed", key |-> k, now |-> now]]
      /\ admitted' = [j \in Keys |-> IF j \in out.dropped THEN <<>>
                                     ELSE IF j = k THEN Append(admitted[j], clock)
                                     ELSE admitted[j]]
      /\ clock' = clock
  BY <1>1, <1>2, <1>3, <1>4, <1>5 DEF Allow
<1>7. /\ hits \in [Keys -> Seq(Stamps)] /\ order \in Seq(Keys) /\ Unrepeated(order)
      /\ \A j \in Keys : hits[j] \in Seq(Nat)
      /\ \A j \in Keys : Contains(order, j) => hits[j] # <<>>
  BY StampLists DEF LocalInv, TypeOK, Buckets
<1>8. /\ keys \in Seq(Keys) /\ Unrepeated(keys)
      /\ \A j : Contains(keys, j) <=> Contains(order, j) \/ j = k
      /\ Len(keys) <= MaxKeys + 1
  <2>1. Len(order) <= MaxKeys /\ Len(order) \in Nat /\ MaxKeys \in Nat
    BY <1>7, LimitAssumption DEF LocalInv, KeysBounded
  <2>2. CASE Contains(order, k)
    <3>1. keys = order
      BY <1>4, <2>2
    <3> QED BY <1>7, <2>1, <2>2, <3>1
  <2>3. CASE ~Contains(order, k)
    <3>1. keys = Append(order, k)
      BY <1>4, <2>3
    <3>2. Unrepeated(Append(order, k))
      <4>1. /\ Len(Append(order, k)) = Len(order) + 1 /\ Append(order, k)[Len(order) + 1] = k
            /\ \A i \in 1..Len(order) : Append(order, k)[i] = order[i] /\ order[i] # k
        BY <1>7, <2>3 DEF Contains
      <4>2. \A i \in 1..(Len(order) + 1) : i \in 1..Len(order) \/ i = Len(order) + 1
        BY <2>1
      <4> QED BY <1>7, <2>1, <4>1, <4>2 DEF Unrepeated
    <3> QED BY <1>7, <2>1, <3>1, <3>2, ContainsAppend
  <2> QED BY <2>2, <2>3
<1>9. /\ table \in [Keys -> Seq(Nat)]
      /\ table[k] = Append(Live(hits[k], now), now) /\ table[k] # <<>> /\ Last(table[k]) = now
      /\ \A j \in Keys : j # k => table[j] = hits[j]
  <2>1. PICK live : live = Live(hits[k], now)
    OBVIOUS
  <2>2. live \in Seq(Nat)
    BY <1>2, <1>7, <2>1, LiveHits
  <2>3. Append(live, now) \in Seq(Nat) /\ Append(live, now) # <<>> /\ Last(Append(live, now)) = now
    BY <1>2, <2>2 DEF Last
  <2>4. DOMAIN table = Keys /\ \A j \in Keys : table[j] = IF j = k THEN Append(live, now) ELSE hits[j]
    BY <1>3, <1>7, <2>1
  <2>5. \A j \in Keys : table[j] \in Seq(Nat)
    BY <1>7, <2>3, <2>4
  <2>6. table = [j \in Keys |-> IF j = k THEN Append(live, now) ELSE hits[j]]
    BY <1>3, <1>7, <2>1
  <2> QED BY <2>1, <2>3, <2>4, <2>5, <2>6
<1>10. /\ out.dropped \subseteq out.gone
       /\ \A j \in out.gone \ out.dropped : now - Last(table[j]) >= Window
       /\ Len(Without(keys, out.gone)) <= MaxKeys
  <2>1. \A j \in Keys : Contains(keys, j) => table[j] # <<>>
    BY <1>7, <1>8, <1>9
  <2> QED BY <1>5, <1>8, <1>9, <2>1, Evicts
<1>11. ASSUME NEW j \in out.gone \ out.dropped
       PROVE  j # k /\ (j \in Keys => now - Last(hits[j]) >= Window)
  <2>1. ~(now - now >= Window)
    BY <1>2, TimeAssumption
  <2>2. j # k
    BY <1>9, <1>10, <2>1
  <2> QED BY <1>9, <1>10, <2>2
<1>12. hits' = [j \in Keys |-> IF j \in out.gone THEN <<>>
                               ELSE IF j = k THEN Append(Live(hits[k], now), now)
                               ELSE hits[j]]
  BY <1>6, <1>9
<1> WITNESS k, now, keys, out.gone, out.dropped
<1> QED BY <1>2, <1>6, <1>8, <1>10, <1>11, <1>12

(* A request under the limit.                                              *)
LEMMA AllowStep ==
    ASSUME LocalInv, NEW th \in Threads, Allow(th)
    PROVE  LocalInv'
<1>1. PICK k, now, keys, gone, dropped :
        /\ k \in Keys /\ now \in Stamps /\ keys \in Seq(Keys)
        /\ now \in Nat /\ now <= clock /\ clock <= now + MaxDelay
        /\ ~Full(Live(hits[k], now))
        /\ dropped \subseteq gone
        /\ Len(Without(keys, gone)) <= MaxKeys
        /\ Unrepeated(keys)
        /\ \A j : Contains(keys, j) <=> Contains(order, j) \/ j = k
        /\ \A j \in gone \ dropped : j # k /\ (j \in Keys => now - Last(hits[j]) >= Window)
        /\ hits' = [j \in Keys |-> IF j \in gone THEN <<>>
                                   ELSE IF j = k THEN Append(Live(hits[k], now), now)
                                   ELSE hits[j]]
        /\ order' = Without(keys, gone)
        /\ call' = [call EXCEPT ![th] = [pc |-> "allowed", key |-> k, now |-> now]]
        /\ admitted' = [j \in Keys |-> IF j \in dropped THEN <<>>
                                       ELSE IF j = k THEN Append(admitted[j], clock)
                                       ELSE admitted[j]]
        /\ clock' = clock
  BY Allows
<1>2. /\ hits \in [Keys -> Seq(Stamps)] /\ admitted \in [Keys -> Seq(Stamps)]
      /\ clock \in Stamps /\ clock \in Nat
      /\ \A j \in Keys : hits[j] \in Seq(Nat) /\ admitted[j] \in Seq(Nat)
  BY StampLists, TimeAssumption DEF LocalInv, TypeOK, Stamps
<1>3. PICK more : more = Append(Live(hits[k], now), now)
  OBVIOUS
<1>4. /\ more \in Seq(Stamps) /\ more # <<>> /\ Len(more) <= MaxRequests
      /\ \A i \in 1..Len(more) : more[i] <= clock
  <2>1. PICK live : live = Live(hits[k], now)
    OBVIOUS
  <2>2. /\ live \in Seq(Stamps) /\ Len(live) \in Nat /\ ~(Len(live) >= MaxRequests)
        /\ \A i \in 1..Len(live) : \E j \in 1..Len(hits[k]) : live[i] = hits[k][j]
    <3>1. live \in Seq(Stamps)
      BY <1>1, <1>2, <2>1, LiveStamps
    <3>2. \A i \in 1..Len(live) : \E j \in 1..Len(hits[k]) : live[i] = hits[k][j]
      <4>1. hits[k] \in Seq(Nat) /\ now \in Nat
        BY <1>1, <1>2
      <4>2. \A i \in 1..Len(Live(hits[k], now)) :
                \E j \in 1..Len(hits[k]) : Live(hits[k], now)[i] = hits[k][j]
        BY <4>1, LiveHits
      <4> QED BY <2>1, <4>2
    <3>3. ~(Len(live) >= MaxRequests)
      BY <1>1, <2>1 DEF Full
    <3> QED BY <3>1, <3>2, <3>3
  <2>3. \A i \in 1..Len(live) : live[i] <= clock
    BY <1>1, <2>2 DEF LocalInv, Buckets
  <2>4. /\ Len(more) = Len(live) + 1 /\ more[Len(live) + 1] = now /\ more \in Seq(Stamps)
        /\ \A i \in 1..Len(live) : more[i] = live[i]
    BY <1>1, <1>3, <2>1, <2>2
  <2>5. \A i \in 1..Len(more) : i \in 1..Len(live) \/ i = Len(live) + 1
    BY <2>2, <2>4
  <2>6. \A i \in 1..Len(more) : more[i] <= clock
    BY <1>1, <2>3, <2>4, <2>5
  <2>7. Len(more) <= MaxRequests /\ Len(more) # 0
    BY <2>2, <2>4, LimitAssumption
  <2> QED BY <2>4, <2>6, <2>7
<1>5. \A j \in Keys : hits'[j] = IF j \in gone THEN <<>> ELSE IF j = k THEN more ELSE hits[j]
  BY <1>1, <1>3
<1>6. \A j \in Keys : admitted'[j] = IF j \in dropped THEN <<>>
                                     ELSE IF j = k THEN Append(admitted[j], clock) ELSE admitted[j]
  BY <1>1
<1>7. PICK c : c = [pc |-> "allowed", key |-> k, now |-> now]
  OBVIOUS
<1>8. c \in Calls /\ c.pc # "waiting" /\ call' = [call EXCEPT ![th] = c]
  BY <1>1, <1>7 DEF Calls
<1>9. Waiting' /\ call' \in [Threads -> Calls]
  BY <1>1, <1>8, Answered
<1>10. order' \in Seq(Keys) /\ Unrepeated(order') /\ Len(order') <= MaxKeys
       /\ \A j : Contains(order', j) <=> Contains(keys, j) /\ j \notin gone
  BY <1>1, WithoutElements, WithoutDistinct
<1>11. TypeOK'
  <2>1. hits' \in [Keys -> Seq(Stamps)]
    <3>1. ASSUME NEW j \in Keys PROVE hits'[j] \in Seq(Stamps)
      <4>1. <<>> \in Seq(Stamps) /\ hits[j] \in Seq(Stamps)
        BY <1>2
      <4> QED BY <1>4, <1>5, <4>1
    <3>2. hits' = [j \in Keys |-> hits'[j]]
      BY <1>1
    <3> QED BY <3>1, <3>2
  <2>2. admitted' \in [Keys -> Seq(Stamps)]
    <3>1. ASSUME NEW j \in Keys PROVE admitted'[j] \in Seq(Stamps)
      <4>1. <<>> \in Seq(Stamps) /\ admitted[j] \in Seq(Stamps)
        BY <1>2
      <4>2. Append(admitted[j], clock) \in Seq(Stamps)
        BY <1>2, <4>1
      <4> QED BY <1>6, <4>1, <4>2
    <3>2. admitted' = [j \in Keys |-> admitted'[j]]
      BY <1>1
    <3> QED BY <3>1, <3>2
  <2> QED BY <1>1, <1>2, <1>9, <1>10, <2>1, <2>2 DEF TypeOK
<1>12. Buckets'
  <2> SUFFICES ASSUME NEW j \in Keys
               PROVE  /\ Len(hits'[j]) <= MaxRequests
                      /\ \A i \in 1..Len(hits'[j]) : hits'[j][i] <= clock
                      /\ Contains(order', j) => hits'[j] # <<>>
    BY <1>1, <1>10 DEF Buckets
  <2>1. CASE j \in gone
    <3>1. hits'[j] = <<>> /\ ~Contains(order', j)
      BY <1>5, <1>10, <2>1
    <3>2. Len(<<>>) = 0 /\ 0 <= MaxRequests
      BY LimitAssumption
    <3> QED BY <3>1, <3>2
  <2>2. CASE j \notin gone /\ j = k
    BY <1>4, <1>5, <2>2
  <2>3. CASE j \notin gone /\ j # k
    <3>1. hits'[j] = hits[j] /\ (Contains(order', j) => Contains(order, j))
      BY <1>1, <1>5, <1>10, <2>3
    <3> QED BY <3>1 DEF LocalInv, Buckets
  <2> QED BY <2>1, <2>2, <2>3
<1>13. Remembered'
  <2> SUFFICES ASSUME NEW j \in Keys PROVE Remembers(hits'[j], admitted'[j], clock)
    BY <1>1 DEF Remembered
  <2>1. Remembers(hits[j], admitted[j], clock)
    BY DEF LocalInv, Remembered
  <2>2. CASE j \in dropped
    <3>1. admitted'[j] = <<>> /\ Len(<<>>) = 0
      BY <1>6, <2>2
    <3> QED BY <3>1 DEF Remembers
  <2>3. CASE j \notin dropped /\ j = k
    <3>1. j \notin gone
      BY <1>1, <2>3
    <3>2. hits'[j] = Append(Live(hits[k], now), now) /\ admitted'[j] = Append(admitted[k], clock)
      BY <1>3, <1>5, <1>6, <2>3, <3>1
    <3>3. Remembers(Live(hits[k], now), admitted[k], clock)
      BY <1>1, <1>2, <2>1, <2>3, RecentFiltered
    <3>4. Live(hits[k], now) \in Seq(Nat)
      BY <1>1, <1>2, LiveHits
    <3>5. /\ admitted[k] \in Seq(Nat) /\ clock \in Nat /\ now \in Nat
          /\ clock <= now + MaxDelay
      BY <1>1, <1>2
    <3>6. Remembers(Append(Live(hits[k], now), now), Append(admitted[k], clock), clock)
      BY <3>3, <3>4, <3>5, RecentAdded
    <3> QED BY <3>2, <3>6
  <2>4. CASE j \notin dropped /\ j # k /\ j \in gone
    <3>1. hits'[j] = <<>> /\ admitted'[j] = admitted[j]
      BY <1>5, <1>6, <2>4
    <3>2. now - Last(hits[j]) >= Window
      BY <1>1, <2>4
    <3> QED BY <1>1, <1>2, <2>1, <3>1, <3>2, RecentForgotten
  <2>5. CASE j \notin dropped /\ j # k /\ j \notin gone
    <3>1. hits'[j] = hits[j] /\ admitted'[j] = admitted[j]
      BY <1>5, <1>6, <2>5
    <3> QED BY <2>1, <3>1
  <2> QED BY <2>2, <2>3, <2>4, <2>5
<1>14. LimitHolds'
  <2> SUFFICES ASSUME NEW j \in Keys, NEW n \in 1..(Len(admitted'[j]) - MaxRequests)
               PROVE  admitted'[j][n + MaxRequests] - admitted'[j][n] >= Window - MaxDelay
    BY DEF LimitHolds
  <2>1. \A i \in 1..(Len(admitted[j]) - MaxRequests) :
           admitted[j][i + MaxRequests] - admitted[j][i] >= Window - MaxDelay
    BY DEF LocalInv, LimitHolds
  <2>2. CASE j \in dropped
    <3>1. Len(admitted'[j]) = 0
      BY <1>6, <2>2
    <3>2. n \in 1..(0 - MaxRequests)
      BY <3>1
    <3> QED BY <3>2, LimitAssumption
  <2>3. CASE j \notin dropped /\ j = k
    <3>1. admitted'[j] = Append(admitted[k], clock)
      BY <1>6, <2>3
    <3>2. Remembers(hits[k], admitted[k], clock)
      BY <1>1 DEF LocalInv, Remembered
    <3>3. n \in 1..(Len(Append(admitted[k], clock)) - MaxRequests)
      BY <3>1
    <3>4. Append(admitted[k], clock)[n + MaxRequests] - Append(admitted[k], clock)[n]
            >= Window - MaxDelay
      BY <1>1, <1>2, <2>1, <2>3, <3>2, <3>3, LimitKept
    <3> QED BY <3>1, <3>4
  <2>4. CASE j \notin dropped /\ j # k
    <3>1. admitted'[j] = admitted[j]
      BY <1>6, <2>4
    <3> QED BY <2>1, <3>1
  <2> QED BY <2>2, <2>3, <2>4
<1>15. KeysBounded'
  BY <1>10 DEF KeysBounded
<1> QED BY <1>9, <1>11, <1>12, <1>13, <1>14, <1>15 DEF LocalInv

-----------------------------------------------------------------------------
(* The theorems of the limiter in memory.                                  *)

(* It starts with no bucket and no caller.                                 *)
LEMMA LocalInitInv == Init => LocalInv
<1> SUFFICES ASSUME Init PROVE LocalInv
  OBVIOUS
<1> USE TimeAssumption, LimitAssumption
<1>1. Len(<<>>) = 0 /\ clock \in Stamps
  BY DEF Init, Stamps
<1>2. TypeOK
  <2>1. <<>> \in Seq(Stamps) /\ <<>> \in Seq(Keys) /\ NoCall \in Calls
    BY DEF Calls
  <2> QED BY <1>1, <2>1 DEF Init, TypeOK
<1>3. Waiting
  BY DEF Init, Waiting, NoCall
<1>4. Buckets
  BY <1>1 DEF Init, Buckets, Unrepeated, Contains
<1>5. Remembered
  BY <1>1 DEF Init, Remembered, Remembers
<1>6. KeysBounded
  BY <1>1 DEF Init, KeysBounded
<1>7. LimitHolds
  BY <1>1 DEF Init, LimitHolds
<1> QED BY <1>2, <1>3, <1>4, <1>5, <1>6, <1>7 DEF LocalInv

(* No step leaves the invariant.                                           *)
LEMMA LocalInvStep == LocalInv /\ [LimitingNext]_<<REDIS_URL, vars, redisVars>> => LocalInv'
<1> SUFFICES ASSUME LocalInv, [LimitingNext]_<<REDIS_URL, vars, redisVars>> PROVE LocalInv'
  OBVIOUS
<1>1. CASE UNCHANGED vars
  BY <1>1 DEF LocalInv, vars, TypeOK, Waiting, Buckets, KeysBounded, Remembered, LimitHolds
<1>2. CASE Next
  BY <1>2, TickStep, ReadClockStep, RefuseStep, AllowStep DEF Next
<1>3. UNCHANGED vars \/ Next
  BY DEF LimitingNext, InMemory, Shared
<1> QED BY <1>1, <1>2, <1>3

(* The invariant of the limiter in memory holds.                           *)
THEOREM LocalInvHolds == LimitingSpec => []LocalInv
<1>1. LimitingInit => LocalInv
  BY LocalInitInv DEF LimitingInit
<1> QED BY <1>1, LocalInvStep, PTL DEF LimitingSpec

(* Of MaxRequests + 1 consecutive admissions of a key the last comes at    *)
(* least a window after the first, less what a thread may lose between the *)
(* clock and the lock.                                                     *)
THEOREM RequestsAreLimited == LimitingSpec => []LimitHolds
<1>1. LocalInv => LimitHolds
  BY DEF LocalInv
<1> QED BY <1>1, LocalInvHolds, PTL

(* No more than max_keys buckets are kept.                                 *)
THEOREM MemoryIsBounded == LimitingSpec => []KeysBounded
<1>1. LocalInv => KeysBounded
  BY DEF LocalInv
<1> QED BY <1>1, LocalInvHolds, PTL

(* A caller that waits as long as it was told, and that nobody competes    *)
(* with, finds room.                                                       *)
THEOREM WaitingPays == LimitingSpec => RetrySuffices
<1>1. ASSUME LocalInv, NEW th \in Threads, Refuse(th)
      PROVE  LET c == call'[th] IN
             Len(Live(hits'[c.key], c.now + c.retryAfter * Second)) < MaxRequests
  <2>1. PICK k \in Keys : k = call[th].key
    BY <1>1, Waits DEF Refuse
  <2>2. PICK now \in Nat : /\ now = call[th].now /\ clock \in Nat
                           /\ now <= clock /\ clock <= now + MaxDelay
    BY <1>1, Waits DEF Refuse
  <2>3. PICK live : live = Live(hits[k], now)
    OBVIOUS
  <2>4. /\ hits \in [Keys -> Seq(Stamps)] /\ hits[k] \in Seq(Nat)
        /\ \A i \in 1..Len(hits[k]) : hits[k][i] <= clock
        /\ Len(hits[k]) <= MaxRequests /\ call \in [Threads -> Calls]
    BY <1>1, StampLists DEF LocalInv, TypeOK, Buckets
  <2>5. Full(live)
    BY <1>1, <2>1, <2>2, <2>3 DEF Refuse
  <2>6. PICK wait \in Nat : wait = RetryAfter(live, now) * Second
    <3>1. RetryAfter(live, now) \in 1..((Window + MaxDelay) \div Second + 1)
      BY <2>2, <2>3, <2>4, <2>5, Told
    <3> QED BY <3>1, TimeAssumption
  <2>7. live # <<>> /\ now + wait - live[1] >= Window
    BY <2>2, <2>3, <2>4, <2>5, <2>6, Told
  <2>8. live \in Seq(Nat) /\ Len(live) <= MaxRequests /\ Len(live) \in Nat
    BY <2>2, <2>3, <2>4, LiveHits, LimitAssumption
  <2>9. 1 \in 1..Len(live) /\ live[1] \in ToSet(live) /\ live[1] \in Nat
    BY <2>7, <2>8, ToSetContains DEF Contains
  <2>10. PICK aged : aged = {t \in ToSet(live) : (now + wait) - t >= Window}
    OBVIOUS
  <2>11. live[1] \in aged
    BY <2>7, <2>9, <2>10
  <2>12. Len(Without(live, aged)) < Len(live) /\ Len(Without(live, aged)) \in Nat
    BY <2>8, <2>9, <2>11, WithoutElements
  <2>13. Len(Live(live, now + wait)) < MaxRequests
    BY <2>8, <2>10, <2>12, LimitAssumption DEF Live
  <2>14. /\ call'[th].key = k /\ call'[th].now = now
         /\ call'[th].retryAfter * Second = wait /\ hits'[k] = live
    BY <1>1, <2>1, <2>2, <2>3, <2>4, <2>6 DEF Refuse
  <2> QED BY <2>13, <2>14
<1>2. LocalInv /\ [LimitingNext]_<<REDIS_URL, vars, redisVars>> =>
        [\A th \in Threads : Refuse(th) =>
           LET c == call'[th] IN
           Len(Live(hits'[c.key], c.now + c.retryAfter * Second)) < MaxRequests]_vars
  BY <1>1
<1> QED BY LocalInvHolds, <1>2, PTL DEF LimitingSpec, RetrySuffices
=============================================================================
