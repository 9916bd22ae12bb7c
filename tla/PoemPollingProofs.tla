-------------------------- MODULE PoemPollingProofs --------------------------
(***************************************************************************)
(* The theorems about PoemPolling, for any poems, kinds of asset and       *)
(* numbers of changes and failures.                                        *)
(***************************************************************************)
EXTENDS PoemPolling, SequenceTheorems, FiniteSetTheorems, TLAPS

-----------------------------------------------------------------------------
(* Taking a GET out of the list of those in flight.                        *)

(* What is left in which place when one element is taken out.              *)
LEMMA RemoveAtElements ==
    ASSUME NEW S, NEW s \in Seq(S), NEW n \in 1..Len(s)
    PROVE  /\ RemoveAt(s, n) \in Seq(S)
           /\ Len(RemoveAt(s, n)) = Len(s) - 1
           /\ \A i \in 1..(Len(s) - 1) : RemoveAt(s, n)[i] = IF i < n THEN s[i] ELSE s[i + 1]
<1> DEFINE a == SubSeq(s, 1, n - 1)
           b == SubSeq(s, n + 1, Len(s))
           r == RemoveAt(s, n)
<1>1. r = a \o b
  BY DEF RemoveAt
<1>2. n \in Int /\ Len(s) \in Nat /\ 1 <= n /\ n <= Len(s) /\ \A i \in 1..Len(s) : s[i] \in S
  OBVIOUS
<1>3. /\ a \in Seq(S)
      /\ Len(a) = n - 1
      /\ \A i \in 1..(n - 1) : a[i] = s[i]
  <2>1. /\ a \in Seq(S)
        /\ Len(a) = IF 1 <= n - 1 THEN n - 1 - 1 + 1 ELSE 0
        /\ \A i \in 1..(n - 1 - 1 + 1) : a[i] = s[1 + i - 1]
    BY <1>2, SubSeqProperties
  <2> QED BY <1>2, <2>1
<1>4. /\ b \in Seq(S)
      /\ Len(b) = Len(s) - n
      /\ \A i \in 1..(Len(s) - n) : b[i] = s[n + i]
  <2>1. /\ b \in Seq(S)
        /\ Len(b) = IF n + 1 <= Len(s) THEN Len(s) - (n + 1) + 1 ELSE 0
        /\ \A i \in 1..(Len(s) - (n + 1) + 1) : b[i] = s[n + 1 + i - 1]
    BY <1>2, SubSeqProperties
  <2> QED BY <1>2, <2>1
<1> HIDE DEF a, b, r
<1>5. /\ r \in Seq(S)
      /\ Len(r) = Len(s) - 1
      /\ \A i \in 1..(Len(s) - 1) : r[i] = IF i <= n - 1 THEN a[i] ELSE b[i - (n - 1)]
  <2>1. /\ a \o b \in Seq(S)
        /\ Len(a \o b) = Len(a) + Len(b)
        /\ \A i \in 1..(Len(a) + Len(b)) :
              (a \o b)[i] = IF i <= Len(a) THEN a[i] ELSE b[i - Len(a)]
    BY <1>3, <1>4, ConcatProperties
  <2> QED BY <1>1, <1>2, <1>3, <1>4, <2>1
<1>6. \A i \in 1..(Len(s) - 1) : r[i] = IF i < n THEN s[i] ELSE s[i + 1]
  <2> TAKE i \in 1..(Len(s) - 1)
  <2>1. CASE i < n
    <3>1. i \in 1..(n - 1) /\ i <= n - 1
      BY <1>2, <2>1
    <3> QED BY <1>3, <1>5, <2>1, <3>1
  <2>2. CASE n <= i
    <3>1. i - (n - 1) \in 1..(Len(s) - n) /\ n + (i - (n - 1)) = i + 1
      BY <1>2, <2>2
    <3> QED BY <1>2, <1>4, <1>5, <2>2, <3>1
  <2> QED BY <1>2, <2>1, <2>2
<1> QED BY <1>5, <1>6 DEF r

-----------------------------------------------------------------------------
(* The invariant.                                                          *)

Statuses == {"new", "pending", "running", "done", "failed", "gone"}
Answers == [id : Poems, assets : [Kinds -> Statuses], version : Nat]
Calls == [id : Poems, answer : Answers \cup {Unanswered}]

Typed ==
    /\ status \in [Assets -> Statuses]
    /\ version \in [Poems -> Nat]
    /\ created \subseteq Poems /\ generated \subseteq Answers
    /\ poem \in Answers \cup {None}
    /\ timers \subseteq Poems
    /\ polls \in Seq(Calls)
    /\ seen \in [Poems -> Nat]

(* The next poll of a poem is in one place at a time: the poem is not there*)
(* yet, or its POST is being answered, or is shown but the effect has not  *)
(* run, or its timer runs, or the GET does.                                *)
Created(p) == \E k \in Kinds : status[<<p, k>>] # "new"
Answered(p) == \E d \in generated : d.id = p
Coming(p) == p \in created \/ Answered(p)
Due(p) == effect = "due" /\ poem # None /\ poem.id = p /\ HasPendingAssets(poem)
InFlight(p) == \E n \in 1..Len(polls) : polls[n].id = p

OnePlace ==
    /\ \A p \in Poems :
          /\ Coming(p) => Created(p) /\ ~Due(p) /\ p \notin timers /\ ~InFlight(p)
          /\ ~(p \in created /\ Answered(p))
          /\ Due(p) => Created(p) /\ p \notin timers /\ ~InFlight(p)
          /\ p \in timers => Created(p) /\ ~InFlight(p)
          /\ InFlight(p) => Created(p)
    /\ \A m, n \in 1..Len(polls) : polls[m].id = polls[n].id => m = n
    /\ \A d, e \in generated : d.id = e.id => d = e

(* Whatever is on its way to the page is no older than what it has shown.  *)
Fresh(d) == seen[d.id] <= d.version /\ d.version <= version[d.id]
Versions ==
    /\ \A p \in Poems : seen[p] <= version[p] /\ (~Created(p) => version[p] = 0)
    /\ \A d \in generated : Fresh(d)
    /\ \A n \in 1..Len(polls) :
          polls[n].answer # Unanswered => polls[n].answer.id = polls[n].id /\ Fresh(polls[n].answer)

(* What the page knows to be done is done, or was.                         *)
Honest(d) == \A k \in Kinds : d.assets[k] = "done" => status[<<d.id, k>>] \in {"done", "gone"}
DoneIsDone ==
    /\ \A d \in generated : Honest(d)
    /\ poem # None => Honest(poem)
    /\ \A n \in 1..Len(polls) : polls[n].answer # Unanswered => Honest(polls[n].answer)

Inv == Typed /\ OnePlace /\ Versions /\ DoneIsDone

(* The invariant holds of the page as it is loaded.                        *)
LEMMA InitInv == Init => Inv
<1> SUFFICES ASSUME Init PROVE Inv
  OBVIOUS
<1> USE DEF Init
<1>1. Typed
  BY DEF Typed, Server!Init, Statuses, Assets
<1>2. \A p \in Poems : ~Created(p)
  BY DEF Created, Server!Init, Assets
<1>3. \A p \in Poems : ~Coming(p) /\ ~Due(p) /\ ~InFlight(p)
  BY DEF Coming, Answered, Due, InFlight
<1>4. OnePlace
  BY <1>2, <1>3 DEF OnePlace
<1>5. Versions
  BY DEF Versions
<1>6. DoneIsDone
  BY DEF DoneIsDone
<1> QED BY <1>1, <1>4, <1>5, <1>6 DEF Inv

-----------------------------------------------------------------------------
(* The server.                                                             *)

(* An asset is created once and is done for good or until its deletion.    *)
LEMMA StatusesGoOn ==
    ASSUME Typed, Next
    PROVE  /\ status' \in [Assets -> Statuses]
           /\ \A a \in Assets : /\ status[a] # "new" => status'[a] # "new"
                                /\ status[a] \in {"done", "gone"} => status'[a] \in {"done", "gone"}
<1>1. status \in [Assets -> Statuses]
  BY DEF Typed
<1>2. CASE \E A : Server!Create(A)
  BY <1>1, <1>2 DEF Server!Create, Statuses
<1>3. CASE \E A : Server!Delete(A)
  BY <1>1, <1>3 DEF Server!Delete, Statuses
<1>4. CASE \E a : Server!Begin(a) \/ Server!Succeed(a) \/ Server!Retry(a) \/ Server!GiveUp(a)
  BY <1>1, <1>4 DEF Server!Begin, Server!Succeed, Server!Retry, Server!GiveUp, Statuses
<1>5. CASE UNCHANGED status
  BY <1>1, <1>5
<1>6. \/ \E A : Server!Create(A)
      \/ \E A : Server!Delete(A)
      \/ \E a : Server!Begin(a) \/ Server!Succeed(a) \/ Server!Retry(a) \/ Server!GiveUp(a)
      \/ UNCHANGED status
  BY DEF Next, Page, RunEffect, ShowGenerated, FireTimer, Submit, Regenerate,
     Generate, CreatePoem, AnswerGenerate, GenerateFails,
     Work, DeletePoem, Poll, AnswerPoll, DeliverPoll, PollNotFound, PollFails, serverVars
<1> QED BY <1>2, <1>3, <1>4, <1>5, <1>6

(* So is a poem; only one that exists changes.                             *)
LEMMA PoemsGoOn ==
    ASSUME Typed, Next
    PROVE  /\ \A p \in Poems : Created(p) => Created(p)'
           /\ \A p \in Poems : version'[p] # version[p] => Created(p)
           /\ version' \in [Poems -> Nat]
           /\ \A p \in Poems : version[p] <= version'[p]
<1>1. \A p \in Poems : Created(p) => Created(p)'
  BY StatusesGoOn DEF Created, Assets
<1>2. ASSUME NEW p \in Poems, Work(p) \/ DeletePoem(p)
      PROVE  Created(p) /\ version' = [version EXCEPT ![p] = @ + 1]
  <2>1. version' = [version EXCEPT ![p] = @ + 1]
    BY <1>2 DEF Work, DeletePoem, Change
  <2>2. CASE Work(p)
    BY <2>1, <2>2 DEF Work, Created, Server!Begin, Server!Succeed, Server!Retry, Server!GiveUp
  <2>3. CASE DeletePoem(p)
    BY <2>1, <2>3 DEF DeletePoem, Created, Exists
  <2> QED BY <1>2, <2>1, <2>2, <2>3
<1>3. UNCHANGED version \/ \E p \in Poems : Work(p) \/ DeletePoem(p)
  BY DEF Next, Page, RunEffect, ShowGenerated, FireTimer, Submit, Regenerate,
     Generate, CreatePoem, AnswerGenerate, GenerateFails,
     Poll, AnswerPoll, DeliverPoll, PollNotFound, PollFails, serverVars
<1>4. version \in [Poems -> Nat]
  BY DEF Typed
<1> QED BY <1>1, <1>2, <1>3, <1>4

-----------------------------------------------------------------------------
(* The page.                                                               *)

(* What the API answers is of its kind.                                    *)
LEMMA DetailTyped ==
    ASSUME Typed, NEW p \in Poems
    PROVE  Detail(p) \in Answers /\ Detail(p) # Unanswered
<1>1. [k \in Kinds |-> status[<<p, k>>]] \in [Kinds -> Statuses]
  BY DEF Typed, Assets
<1>2. Detail(p) \in Answers
  BY <1>1 DEF Detail, Answers, Typed
<1>3. \A d \in Answers : d # Unanswered
  BY DEF Answers, Unanswered
<1> QED BY <1>2, <1>3

(* The page's variables keep their kinds.                                  *)
LEMMA TypedStep ==
    ASSUME Typed, Next
    PROVE  Typed'
<1>s. status' \in [Assets -> Statuses] /\ version' \in [Poems -> Nat]
  BY StatusesGoOn, PoemsGoOn
<1>t. /\ created \subseteq Poems /\ generated \subseteq Answers
      /\ poem \in Answers \cup {None}
      /\ timers \subseteq Poems
      /\ polls \in Seq(Calls)
      /\ seen \in [Poems -> Nat]
      /\ version \in [Poems -> Nat]
  BY DEF Typed
<1>d. ASSUME NEW d \in Answers \cup {None}, SetPoem(d)
      PROVE  poem' \in Answers \cup {None} /\ seen' \in [Poems -> Nat]
  BY <1>t, <1>d DEF SetPoem, Answers
<1>1. CASE RunEffect
  <2>1. timers' \subseteq Poems
    BY <1>1, <1>t DEF RunEffect, Answers
  <2> QED BY <1>1, <1>s, <1>t, <2>1 DEF RunEffect, postVars, Typed
<1>2. CASE ShowGenerated
  <2>1. PICK d \in generated : SetPoem(d) /\ generated' = generated \ {d}
    BY <1>2 DEF ShowGenerated
  <2>2. poem' \in Answers \cup {None} /\ seen' \in [Poems -> Nat]
    BY <1>d, <1>t, <2>1
  <2> QED BY <1>2, <1>s, <1>t, <2>1, <2>2 DEF ShowGenerated, Typed
<1>3. ASSUME NEW p \in Poems, FireTimer(p) PROVE Typed'
  <2>1. [id |-> p, answer |-> Unanswered] \in Calls
    BY DEF Calls
  <2>2. polls' \in Seq(Calls) /\ timers' \subseteq Poems
    BY <1>3, <1>t, <2>1 DEF FireTimer, TimersAfter
  <2> QED BY <1>3, <1>s, <1>t, <2>2 DEF FireTimer, postVars, Typed
<1>4. CASE Submit \/ Regenerate
  BY <1>4, <1>d, <1>s, <1>t DEF Submit, Regenerate, Generate, Typed
<1>5. ASSUME NEW p \in Poems, CreatePoem(p) \/ AnswerGenerate(p) PROVE Typed'
  <2>1. created' \subseteq Poems /\ generated' \subseteq Answers
    BY <1>5, <1>t, DetailTyped DEF CreatePoem, AnswerGenerate
  <2> QED BY <1>5, <1>s, <1>t, <2>1 DEF CreatePoem, AnswerGenerate, Typed
<1>6. CASE GenerateFails
  BY <1>6, <1>s, <1>t DEF GenerateFails, Typed
<1>7. ASSUME NEW p \in Poems, Work(p) \/ DeletePoem(p) PROVE Typed'
  BY <1>7, <1>s, <1>t DEF Work, DeletePoem, Change, pageVars, postVars, Typed
<1>8. ASSUME NEW n \in 1..Len(polls), Poll(n) \/ PollFails(n) PROVE Typed'
  <2>1. polls[n] \in Calls
    BY <1>t
  <2>2. RemoveAt(polls, n) \in Seq(Calls)
    BY <1>t, RemoveAtElements
  <2>3. CASE AnswerPoll(n)
    <3>1. Detail(polls[n].id) \in Answers
      BY <2>1, DetailTyped DEF Calls
    <3>2. [polls[n] EXCEPT !.answer = Detail(polls[n].id)] \in Calls
      BY <2>1, <3>1 DEF Calls
    <3>3. polls' \in Seq(Calls)
      BY <1>t, <2>3, <3>2 DEF AnswerPoll
    <3> QED BY <1>s, <1>t, <2>3, <3>3 DEF AnswerPoll, postVars, Typed
  <2>4. CASE DeliverPoll(n)
    <3>1. polls[n].answer \in Answers
      BY <2>1, <2>4 DEF DeliverPoll, Calls
    <3>2. poem' \in Answers \cup {None} /\ seen' \in [Poems -> Nat]
      BY <1>d, <2>4, <3>1 DEF DeliverPoll
    <3> QED BY <1>s, <1>t, <2>2, <2>4, <3>2 DEF DeliverPoll, postVars, Typed
  <2>5. CASE PollNotFound(n) \/ PollFails(n)
    BY <1>s, <1>t, <2>2, <2>5 DEF PollNotFound, PollFails, postVars, Typed
  <2> QED BY <1>8, <2>3, <2>4, <2>5 DEF Poll
<1> QED BY <1>1, <1>2, <1>3, <1>4, <1>5, <1>6, <1>7, <1>8 DEF Next, Page

-----------------------------------------------------------------------------
(* One poll per poem.                                                      *)

Distinct == \A m, n \in 1..Len(polls) : polls[m].id = polls[n].id => m = n

(* The n-th GET has ended, the others go on.                               *)
LEMMA PollRemoved ==
    ASSUME Typed, Distinct, NEW n \in 1..Len(polls), polls' = RemoveAt(polls, n)
    PROVE  /\ \A i \in 1..Len(polls') : \E m \in 1..Len(polls) : m # n /\ polls'[i] = polls[m]
           /\ Distinct'
           /\ \A p : p = polls[n].id => ~InFlight(p)'
           /\ \A p : InFlight(p)' => InFlight(p)
<1>1. polls \in Seq(Calls)
  BY DEF Typed
<1>2. /\ Len(polls') = Len(polls) - 1 /\ Len(polls) \in Nat
      /\ \A i \in 1..Len(polls') : polls'[i] = IF i < n THEN polls[i] ELSE polls[i + 1]
  <2>1. /\ Len(RemoveAt(polls, n)) = Len(polls) - 1
        /\ \A i \in 1..(Len(polls) - 1) :
              RemoveAt(polls, n)[i] = IF i < n THEN polls[i] ELSE polls[i + 1]
    BY <1>1, RemoveAtElements
  <2>2. Len(polls) \in Nat
    BY <1>1
  <2> QED BY <2>1, <2>2
<1> DEFINE Old(i) == IF i < n THEN i ELSE i + 1
<1>3. \A i \in 1..Len(polls') : Old(i) \in 1..Len(polls) /\ Old(i) # n /\ polls'[i] = polls[Old(i)]
  BY <1>2
<1>4. \A i, j \in 1..Len(polls') : Old(i) = Old(j) => i = j
  BY <1>2
<1> HIDE DEF Old
<1>5. Distinct'
  BY <1>3, <1>4 DEF Distinct
<1>6. \A p : p = polls[n].id => ~InFlight(p)'
  BY <1>3 DEF Distinct, InFlight
<1>7. \A p : InFlight(p)' => InFlight(p)
  BY <1>3 DEF InFlight
<1> QED BY <1>3, <1>5, <1>6, <1>7

(* Nothing comes in at any place.                                          *)
LEMMA FewerPlaces ==
    ASSUME Typed, OnePlace, Next,
           created' \subseteq created, generated' \subseteq generated,
           \A p \in Poems : /\ Due(p)' => Due(p)
                            /\ p \in timers' => p \in timers
                            /\ InFlight(p)' => InFlight(p),
           Distinct'
    PROVE  OnePlace'
<1>1. \A p \in Poems : (p \in created' => p \in created) /\ (Answered(p)' => Answered(p))
  BY DEF Answered
<1>2. \A p \in Poems : Created(p) => Created(p)'
  BY PoemsGoOn
<1> QED BY <1>1, <1>2 DEF OnePlace, Distinct, Coming

(* The next poll moves from one place to another.                          *)
LEMMA OnePlaceStep ==
    ASSUME Typed, OnePlace, Versions, Next
    PROVE  OnePlace'
<1>d. Distinct
  BY DEF OnePlace, Distinct
<1>g. \A p \in Poems : Created(p) => Created(p)'
  BY PoemsGoOn
<1>t. /\ generated \subseteq Answers
      /\ polls \in Seq(Calls)
  BY DEF Typed
<1>1. CASE RunEffect
  <2>1. ~ \E p \in Poems : Due(p)'
    BY <1>1 DEF RunEffect, Due
  <2>2. \A p \in Poems : /\ Coming(p)' = Coming(p) /\ Answered(p)' = Answered(p)
                         /\ InFlight(p)' = InFlight(p)
                         /\ p \in timers' => Due(p)
    BY <1>1 DEF RunEffect, postVars, Coming, Answered, InFlight, Due
  <2>3. Distinct' /\ UNCHANGED <<created, generated>>
    BY <1>1, <1>d DEF RunEffect, postVars, Distinct
  <2> QED BY <1>g, <2>1, <2>2, <2>3 DEF OnePlace, Distinct
<1>2. CASE ShowGenerated
  <2>1. PICK d \in generated : SetPoem(d) /\ generated' = generated \ {d}
    BY <1>2 DEF ShowGenerated
  <2>2. Answered(d.id) /\ ~Answered(d.id)' /\ \A p \in Poems : Answered(p)' => Answered(p)
    BY <2>1 DEF Answered, OnePlace
  <2>3. \A p \in Poems : (Due(p)' => p = d.id) /\ InFlight(p)' = InFlight(p)
    BY <1>2, <2>1 DEF ShowGenerated, SetPoem, Due, InFlight
  <2>4. timers' = timers /\ created' = created /\ Distinct'
    BY <1>2, <1>d DEF ShowGenerated, Distinct
  <2> QED BY <1>g, <2>1, <2>2, <2>3, <2>4 DEF OnePlace, Distinct, Coming
<1>3. ASSUME NEW p \in Poems, FireTimer(p) PROVE OnePlace'
  <2>1. /\ \A q \in Poems : /\ Coming(q)' = Coming(q) /\ Answered(q)' = Answered(q)
                            /\ Due(q)' = Due(q)
        /\ UNCHANGED <<created, generated>>
    BY <1>3 DEF FireTimer, postVars, Coming, Answered, Due, HasPendingAssets, Listed
  <2>2. p \in timers /\ timers' = timers \ {p}
    BY <1>3 DEF FireTimer, TimersAfter
  <2>3. /\ Len(polls') = Len(polls) + 1 /\ Len(polls) \in Nat
        /\ polls'[Len(polls) + 1].id = p
        /\ \A n \in 1..Len(polls) : polls'[n] = polls[n]
    BY <1>3, <1>t DEF FireTimer
  <2>4. ~InFlight(p) /\ Created(p) /\ ~Coming(p) /\ ~Due(p)
    BY <2>2 DEF OnePlace
  <2>5. Distinct'
    BY <1>d, <2>3, <2>4 DEF Distinct, InFlight
  <2>6. \A q \in Poems : InFlight(q)' => q = p \/ InFlight(q)
    BY <2>3 DEF InFlight
  <2> QED BY <1>g, <2>1, <2>2, <2>4, <2>5, <2>6 DEF OnePlace, Distinct
<1>4. CASE Submit \/ Regenerate
  <2>1. \A p \in Poems : ~Due(p)' /\ InFlight(p)' = InFlight(p)
    BY <1>4 DEF Submit, Regenerate, Generate, SetPoem, Due, InFlight
  <2>2. timers' = timers /\ Distinct' /\ UNCHANGED <<created, generated>>
    BY <1>4, <1>d DEF Submit, Regenerate, Generate, Distinct
  <2> QED BY <2>1, <2>2, FewerPlaces
<1>5. ASSUME NEW p \in Poems, CreatePoem(p) PROVE OnePlace'
  <2>1. ~Created(p) /\ Created(p)'
    BY <1>5, KindsAssumption DEF CreatePoem, Server!Create, Created, Assets
  <2>2. \A q \in Poems : /\ Due(q)' = Due(q) /\ InFlight(q)' = InFlight(q)
                         /\ Answered(q)' = Answered(q)
    BY <1>5 DEF CreatePoem, Due, InFlight, Answered, HasPendingAssets, Listed
  <2>3. created' = created \cup {p} /\ UNCHANGED <<timers, generated>> /\ Distinct'
    BY <1>5, <1>d DEF CreatePoem, Distinct
  <2> QED BY <1>g, <2>1, <2>2, <2>3 DEF OnePlace, Distinct, Coming
<1>9. ASSUME NEW p \in Poems, AnswerGenerate(p) PROVE OnePlace'
  <2>1. /\ p \in created /\ created' = created \ {p}
        /\ generated' = generated \cup {Detail(p)} /\ Detail(p).id = p
    BY <1>9 DEF AnswerGenerate, Detail
  <2>2. /\ ~Answered(p)
        /\ \A q \in Poems : Answered(q)' => q = p \/ Answered(q)
        /\ \A d \in generated : d.id # p
    BY <2>1 DEF OnePlace, Answered
  <2>3. \A q \in Poems : Due(q)' = Due(q) /\ InFlight(q)' = InFlight(q)
    BY <1>9 DEF AnswerGenerate, Due, InFlight, HasPendingAssets, Listed
  <2>4. timers' = timers /\ Distinct'
    BY <1>9, <1>d DEF AnswerGenerate, Distinct
  <2>5. \A d, e \in generated' : d.id = e.id => d = e
    BY <2>1, <2>2 DEF OnePlace
  <2> QED BY <1>g, <2>1, <2>2, <2>3, <2>4, <2>5 DEF OnePlace, Distinct, Coming
<1>6. CASE GenerateFails
  <2>1. \A p \in Poems : Due(p)' = Due(p) /\ InFlight(p)' = InFlight(p)
    BY <1>6 DEF GenerateFails, Due, InFlight, HasPendingAssets, Listed
  <2>2. timers' = timers /\ Distinct'
    BY <1>6, <1>d DEF GenerateFails, Distinct
  <2>3. created' \subseteq created /\ generated' \subseteq generated
    BY <1>6 DEF GenerateFails
  <2> QED BY <2>1, <2>2, <2>3, FewerPlaces
<1>7. CASE \E p \in Poems : Work(p) \/ DeletePoem(p)
  <2>1. UNCHANGED pageVars
    BY <1>7 DEF Work, DeletePoem, Change
  <2>2. /\ \A p \in Poems : Due(p)' = Due(p) /\ InFlight(p)' = InFlight(p)
        /\ timers' = timers /\ Distinct' /\ UNCHANGED <<created, generated>>
    BY <1>d, <2>1 DEF pageVars, postVars, Due, InFlight, HasPendingAssets, Listed, Distinct
  <2> QED BY <2>2, FewerPlaces
<1>8. ASSUME NEW n \in 1..Len(polls), Poll(n) \/ PollFails(n) PROVE OnePlace'
  <2>1. CASE AnswerPoll(n)
    <3>1. /\ Len(polls') = Len(polls)
          /\ \A m \in 1..Len(polls) : polls'[m].id = polls[m].id
      BY <1>t, <2>1 DEF AnswerPoll, Calls
    <3>2. Distinct' /\ \A p : InFlight(p)' => InFlight(p)
      BY <1>d, <3>1 DEF Distinct, InFlight
    <3>3. timers' = timers /\ UNCHANGED <<created, generated>> /\ \A p : Due(p)' = Due(p)
      BY <2>1 DEF AnswerPoll, postVars, Due, HasPendingAssets, Listed
    <3> QED BY <3>2, <3>3, FewerPlaces
  <2>2. CASE DeliverPoll(n)
    <3>1. /\ Distinct' /\ \A p : p = polls[n].id => ~InFlight(p)'
          /\ \A p : InFlight(p)' => InFlight(p)
      BY <1>d, <2>2, PollRemoved DEF DeliverPoll
    <3>2. /\ timers' = timers /\ UNCHANGED <<created, generated>>
          /\ \A p : Coming(p)' = Coming(p) /\ Answered(p)' = Answered(p)
      BY <2>2 DEF DeliverPoll, postVars, Coming, Answered
    <3>3. \A p : Due(p)' => p = polls[n].answer.id
      BY <2>2 DEF DeliverPoll, SetPoem, Due
    <3>4. polls[n].answer.id = polls[n].id /\ InFlight(polls[n].id)
      BY <2>2 DEF InFlight, Versions, DeliverPoll
    <3> QED BY <1>g, <3>1, <3>2, <3>3, <3>4 DEF OnePlace, Distinct
  <2>3. CASE PollNotFound(n) \/ PollFails(n)
    <3>1. Distinct' /\ \A p : InFlight(p)' => InFlight(p)
      BY <1>d, <2>3, PollRemoved DEF PollNotFound, PollFails
    <3>2. timers' = timers /\ UNCHANGED <<created, generated>> /\ \A p : Due(p)' = Due(p)
      BY <2>3 DEF PollNotFound, PollFails, postVars, Due, HasPendingAssets, Listed
    <3> QED BY <3>1, <3>2, FewerPlaces
  <2> QED BY <1>8, <2>1, <2>2, <2>3 DEF Poll
<1> QED BY <1>1, <1>2, <1>3, <1>4, <1>5, <1>6, <1>7, <1>8, <1>9 DEF Next, Page

-----------------------------------------------------------------------------
(* What the answers say.                                                   *)

(* An answer in flight was so before, or is what the API says now.         *)
LEMMA AnswersFrom ==
    ASSUME Typed, Distinct, Next, NEW i \in 1..Len(polls'), polls'[i].answer # Unanswered
    PROVE  \/ \E m \in 1..Len(polls) :
                 /\ polls'[i] = polls[m]
                 /\ \A n \in 1..Len(polls) : polls' = RemoveAt(polls, n) => m # n
           \/ /\ \E p \in Poems : polls'[i] = [id |-> p, answer |-> Detail(p)]
              /\ UNCHANGED <<status, version, seen>>
<1>t. polls \in Seq(Calls)
  BY DEF Typed
<1>1. CASE polls' = polls
  <2>1. \A n \in 1..Len(polls) : polls # RemoveAt(polls, n)
    <3> SUFFICES ASSUME NEW n \in 1..Len(polls) PROVE Len(RemoveAt(polls, n)) # Len(polls)
      OBVIOUS
    <3>1. Len(RemoveAt(polls, n)) = Len(polls) - 1 /\ Len(polls) \in Nat
      BY <1>t, RemoveAtElements
    <3> QED BY <3>1
  <2> QED BY <1>1, <2>1
<1>2. CASE \E n \in 1..Len(polls) : polls' = RemoveAt(polls, n)
  <2> PICK n \in 1..Len(polls) : polls' = RemoveAt(polls, n)
    BY <1>2
  <2>1. PICK m \in 1..Len(polls) : m # n /\ polls'[i] = polls[m]
    BY PollRemoved
  <2>2. \A k \in 1..Len(polls) : polls' = RemoveAt(polls, k) => m # k
    <3> SUFFICES ASSUME NEW k \in 1..Len(polls), polls' = RemoveAt(polls, k) PROVE m # k
      OBVIOUS
    <3>1. \E l \in 1..Len(polls) : l # k /\ polls'[i] = polls[l]
      BY PollRemoved
    <3> QED BY <2>1, <3>1 DEF Distinct
  <2> QED BY <2>1, <2>2
<1>3. ASSUME NEW p \in Poems, FireTimer(p)
      PROVE  \E m \in 1..Len(polls) :
                /\ polls'[i] = polls[m]
                /\ \A n \in 1..Len(polls) : polls' = RemoveAt(polls, n) => m # n
  <2>1. /\ polls' = Append(polls, [id |-> p, answer |-> Unanswered])
        /\ Len(polls') = Len(polls) + 1 /\ Len(polls) \in Nat
    BY <1>3, <1>t DEF FireTimer
  <2>2. i \in 1..Len(polls) /\ polls'[i] = polls[i]
    BY <1>t, <2>1
  <2>3. \A n \in 1..Len(polls) : polls' # RemoveAt(polls, n)
    <3> SUFFICES ASSUME NEW n \in 1..Len(polls) PROVE Len(RemoveAt(polls, n)) # Len(polls')
      OBVIOUS
    <3>1. Len(RemoveAt(polls, n)) = Len(polls) - 1
      BY <1>t, RemoveAtElements
    <3> QED BY <2>1, <3>1
  <2> QED BY <2>2, <2>3
<1>4. ASSUME NEW n \in 1..Len(polls), AnswerPoll(n)
      PROVE  \/ \E m \in 1..Len(polls) :
                   /\ polls'[i] = polls[m]
                   /\ \A k \in 1..Len(polls) : polls' = RemoveAt(polls, k) => m # k
             \/ /\ \E p \in Poems : polls'[i] = [id |-> p, answer |-> Detail(p)]
                /\ UNCHANGED <<status, version, seen>>
  <2>1. /\ polls[n] \in Calls /\ Len(polls) \in Nat
        /\ polls' = [polls EXCEPT ![n].answer = Detail(polls[n].id)]
        /\ UNCHANGED <<status, version, seen>>
    BY <1>4, <1>t DEF AnswerPoll, serverVars
  <2>2. Len(polls') = Len(polls)
    BY <1>t, <2>1
  <2>5. Len(polls) \in Nat
    BY <2>1
  <2>3. CASE i = n
    <3>1. polls'[i] = [id |-> polls[n].id, answer |-> Detail(polls[n].id)]
      BY <1>t, <2>1, <2>3 DEF Calls
    <3> QED BY <2>1, <3>1 DEF Calls
  <2>4. CASE i # n
    <3>1. i \in 1..Len(polls) /\ polls'[i] = polls[i]
      BY <1>t, <2>1, <2>2, <2>4
    <3>2. \A k \in 1..Len(polls) : polls' # RemoveAt(polls, k)
      <4> SUFFICES ASSUME NEW k \in 1..Len(polls) PROVE Len(RemoveAt(polls, k)) # Len(polls')
        OBVIOUS
      <4>1. Len(RemoveAt(polls, k)) = Len(polls) - 1
        BY <1>t, RemoveAtElements
      <4> QED BY <2>2, <2>5, <4>1
    <3> QED BY <3>1, <3>2
  <2> QED BY <2>3, <2>4
<1>5. \/ polls' = polls
      \/ \E n \in 1..Len(polls) : polls' = RemoveAt(polls, n)
      \/ \E p \in Poems : FireTimer(p)
      \/ \E n \in 1..Len(polls) : AnswerPoll(n)
  BY DEF Next, Page, RunEffect, ShowGenerated, Submit, Regenerate,
     Generate, CreatePoem, AnswerGenerate, GenerateFails, Work,
     DeletePoem, Change, Poll, DeliverPoll, PollNotFound, PollFails, pageVars, postVars
<1> QED BY <1>1, <1>2, <1>3, <1>4, <1>5

(* What comes to be shown, and where it came from.                         *)
LEMMA ShownFrom ==
    ASSUME Next
    PROVE  \/ UNCHANGED <<poem, seen>>
           \/ poem' = None /\ UNCHANGED seen
           \/ \E d \in generated : /\ SetPoem(d) /\ generated' = generated \ {d}
                                   /\ UNCHANGED <<polls, serverVars>>
           \/ \E n \in 1..Len(polls) : /\ polls[n].answer # Unanswered
                                       /\ SetPoem(polls[n].answer)
                                       /\ polls' = RemoveAt(polls, n)
                                       /\ UNCHANGED <<postVars, serverVars>>
  BY DEF Next, Page, RunEffect, ShowGenerated, FireTimer, Submit, Regenerate,
     Generate, CreatePoem, AnswerGenerate, GenerateFails, Work,
     DeletePoem, Change, Poll, AnswerPoll, DeliverPoll, PollNotFound, PollFails, pageVars, SetPoem

(* Likewise for the answers to POSTs.                                      *)
LEMMA GeneratedFrom ==
    ASSUME Next, NEW d \in generated'
    PROVE  \/ d \in generated
           \/ (\E p \in created : d = Detail(p)) /\ UNCHANGED <<status, version, seen>>
  BY DEF Next, Page, RunEffect, ShowGenerated, FireTimer, Submit, Regenerate, Generate, CreatePoem,
     AnswerGenerate, GenerateFails, Work, DeletePoem, Change, Poll, AnswerPoll, DeliverPoll,
     PollNotFound, PollFails, pageVars, postVars, serverVars

(* An answer that is not older than what was shown is recorded.            *)
LEMMA SeenRises ==
    ASSUME Typed, NEW d \in Answers, Fresh(d), SetPoem(d)
    PROVE  /\ seen' = [seen EXCEPT ![d.id] = d.version]
           /\ \A p \in Poems : seen'[p] = IF p = d.id THEN d.version ELSE seen[p]
<1>1. d # None
  BY DEF Answers, None
<1>2. seen[d.id] \in Nat /\ d.version \in Nat
  BY DEF Typed, Answers
<1>3. seen' = [seen EXCEPT ![d.id] = d.version]
  BY <1>1, <1>2 DEF SetPoem, Fresh
<1> QED BY <1>3 DEF Typed

(* Nothing older than what was shown is on its way.                        *)
LEMMA VersionsStep ==
    ASSUME Typed, OnePlace, Versions, Next
    PROVE  Versions'
<1>d. Distinct
  BY DEF OnePlace, Distinct
<1>t. /\ generated \subseteq Answers /\ seen \in [Poems -> Nat]
      /\ version \in [Poems -> Nat] /\ polls \in Seq(Calls)
  BY DEF Typed
<1>v. /\ \A p \in Poems : /\ version[p] \in Nat /\ version'[p] \in Nat /\ seen[p] \in Nat
                          /\ version[p] <= version'[p]
                          /\ (version'[p] # version[p] => Created(p))
                          /\ (Created(p) => Created(p)')
  BY <1>t, PoemsGoOn
<1>f. \A d \in Answers : d.id \in Poems /\ d.version \in Nat
  BY DEF Answers
<1>a. \A n \in 1..Len(polls) : polls[n].answer # Unanswered =>
          polls[n].answer \in Answers /\ polls[n].id \in Poems
  <2>1. \A n \in 1..Len(polls) : polls[n] \in Calls
    BY <1>t
  <2> QED BY <2>1 DEF Calls
<1>1. \/ seen' = seen
      \/ \E d \in generated : /\ seen' = [seen EXCEPT ![d.id] = d.version]
                              /\ generated' = generated \ {d}
      \/ \E n \in 1..Len(polls) : /\ polls[n].answer # Unanswered
                                  /\ seen' = [seen EXCEPT ![polls[n].id] = polls[n].answer.version]
                                  /\ polls' = RemoveAt(polls, n)
                                  /\ generated' = generated
  <2>1. ASSUME NEW d \in generated, SetPoem(d)
        PROVE  seen' = [seen EXCEPT ![d.id] = d.version]
    <3>1. d \in Answers /\ Fresh(d)
      BY <1>t DEF Versions
    <3> QED BY <2>1, <3>1, SeenRises
  <2>2. ASSUME NEW n \in 1..Len(polls), polls[n].answer # Unanswered, SetPoem(polls[n].answer)
        PROVE  seen' = [seen EXCEPT ![polls[n].id] = polls[n].answer.version]
    <3>1. polls[n].answer \in Answers /\ Fresh(polls[n].answer) /\ polls[n].answer.id = polls[n].id
      BY <1>a, <2>2 DEF Versions
    <3> QED BY <2>2, <3>1, SeenRises
  <2> QED BY <2>1, <2>2, ShownFrom DEF postVars
<1>2. \A p \in Poems : seen'[p] <= version'[p] /\ (~Created(p)' => version'[p] = 0)
  <2> TAKE p \in Poems
  <2>1. ~Created(p)' => version'[p] = 0
    BY <1>v DEF Versions
  <2>2. seen[p] <= version'[p]
    BY <1>v DEF Versions
  <2>3. CASE seen' = seen
    BY <2>1, <2>2, <2>3
  <2>4. ASSUME NEW d \in generated, seen' = [seen EXCEPT ![d.id] = d.version]
        PROVE  seen'[p] <= version'[p]
    <3>1. d \in Answers /\ d.version <= version[d.id]
      BY <1>t DEF Versions, Fresh
    <3>2. p = d.id => d.version <= version'[p]
      BY <1>f, <1>v, <3>1
    <3> QED BY <1>t, <2>2, <2>4, <3>2
  <2>5. ASSUME NEW n \in 1..Len(polls), polls[n].answer # Unanswered,
               seen' = [seen EXCEPT ![polls[n].id] = polls[n].answer.version]
        PROVE  seen'[p] <= version'[p]
    <3>1. polls[n].answer \in Answers /\ polls[n].answer.version <= version[polls[n].id]
      BY <1>a, <2>5 DEF Versions, Fresh
    <3>2. p = polls[n].id => polls[n].answer.version <= version'[p]
      BY <1>f, <1>v, <3>1
    <3> QED BY <1>t, <2>2, <2>5, <3>2
  <2> QED BY <1>1, <2>1, <2>3, <2>4, <2>5
<1>3. ASSUME NEW d \in generated' PROVE seen'[d.id] <= d.version /\ d.version <= version'[d.id]
  <2>1. CASE d \in generated
    <3>1. d \in Answers /\ Fresh(d) /\ Answered(d.id) /\ Coming(d.id)
      BY <1>t, <2>1 DEF Versions, Answered, Coming
    <3>2. seen'[d.id] = seen[d.id]
      <4>1. ASSUME NEW e \in generated, generated' = generated \ {e},
                   seen' = [seen EXCEPT ![e.id] = e.version]
            PROVE  seen'[d.id] = seen[d.id]
        <5>1. e \in Answers /\ e.id # d.id
          BY <1>3, <1>t, <2>1, <4>1 DEF OnePlace
        <5> QED BY <1>f, <1>t, <3>1, <4>1, <5>1
      <4>2. ASSUME NEW n \in 1..Len(polls),
                   seen' = [seen EXCEPT ![polls[n].id] = polls[n].answer.version]
            PROVE  seen'[d.id] = seen[d.id]
        <5>1. polls[n].id # d.id
          BY <1>f, <3>1 DEF OnePlace, InFlight
        <5> QED BY <1>f, <1>t, <3>1, <4>2, <5>1
      <4> QED BY <1>1, <4>1, <4>2
    <3> QED BY <1>f, <1>v, <3>1, <3>2 DEF Fresh
  <2>2. ASSUME NEW p \in Poems, d = Detail(p), UNCHANGED <<version, seen>>
        PROVE  seen'[d.id] <= d.version /\ d.version <= version'[d.id]
    <3>1. d.id = p /\ d.version = version[p]
      BY <2>2 DEF Detail
    <3> QED BY <1>v, <2>2, <3>1 DEF Versions
  <2>3. created \subseteq Poems
    BY DEF Typed
  <2> QED BY <1>3, <2>1, <2>2, <2>3, GeneratedFrom
<1>4. ASSUME NEW i \in 1..Len(polls'), polls'[i].answer # Unanswered
      PROVE  polls'[i].answer.id = polls'[i].id /\ Fresh(polls[i].answer)'
  <2>1. ASSUME NEW m \in 1..Len(polls), polls'[i] = polls[m],
               \A n \in 1..Len(polls) : polls' = RemoveAt(polls, n) => m # n
        PROVE  polls'[i].answer.id = polls'[i].id /\ Fresh(polls[i].answer)'
    <3> DEFINE d == polls[m].answer
    <3>1. d \in Answers /\ d.id = polls[m].id /\ Fresh(d) /\ d.id \in Poems /\ d.version \in Nat
      BY <1>4, <1>a, <1>f, <2>1 DEF Versions
    <3>2. seen'[d.id] = seen[d.id]
      <4>1. ASSUME NEW e \in generated, seen' = [seen EXCEPT ![e.id] = e.version]
            PROVE  seen'[d.id] = seen[d.id]
        <5>1. e \in Answers /\ Coming(e.id) /\ InFlight(d.id)
          BY <1>t, <3>1, <4>1 DEF Coming, Answered, InFlight
        <5>2. e.id # d.id
          BY <1>f, <5>1 DEF OnePlace
        <5> QED BY <1>t, <3>1, <4>1, <5>2
      <4>2. ASSUME NEW n \in 1..Len(polls), polls' = RemoveAt(polls, n),
                   seen' = [seen EXCEPT ![polls[n].id] = polls[n].answer.version]
            PROVE  seen'[d.id] = seen[d.id]
        <5>1. polls[n].id # d.id
          BY <1>d, <2>1, <3>1, <4>2 DEF Distinct
        <5> QED BY <1>t, <3>1, <4>2, <5>1
      <4> QED BY <1>1, <4>1, <4>2
    <3>3. seen'[d.id] <= d.version /\ d.version <= version'[d.id]
      BY <1>v, <3>1, <3>2 DEF Fresh
    <3> QED BY <2>1, <3>1, <3>3 DEF Fresh
  <2>2. ASSUME NEW p \in Poems, polls'[i] = [id |-> p, answer |-> Detail(p)],
               UNCHANGED <<version, seen>>
        PROVE  polls'[i].answer.id = polls'[i].id /\ Fresh(polls[i].answer)'
    <3>1. polls'[i].id = p /\ polls'[i].answer.id = p /\ polls'[i].answer.version = version[p]
      BY <2>2 DEF Detail
    <3> QED BY <1>v, <2>2, <3>1 DEF Versions, Fresh
  <2> QED BY <1>4, <1>d, <2>1, <2>2, AnswersFrom
<1> QED BY <1>2, <1>3, <1>4 DEF Versions, Fresh

(* What is known to be done stays done.                                    *)
LEMMA DoneIsDoneStep ==
    ASSUME Typed, OnePlace, DoneIsDone, Next
    PROVE  DoneIsDone'
<1>d. Distinct
  BY DEF OnePlace, Distinct
<1>t. /\ generated \subseteq Answers /\ created \subseteq Poems /\ poem \in Answers \cup {None}
      /\ \A n \in 1..Len(polls) : polls[n] \in Calls
  BY DEF Typed
<1>a. \A n \in 1..Len(polls) : polls[n].answer # Unanswered => polls[n].answer \in Answers
  BY <1>t DEF Calls
<1>h. ASSUME NEW d \in Answers, Honest(d), NEW e, e = d
      PROVE  \A k \in Kinds : e.assets[k] = "done" => status'[<<e.id, k>>] \in {"done", "gone"}
  BY <1>h, StatusesGoOn DEF Honest, Answers, Assets
<1>1. ASSUME NEW d \in generated'
      PROVE  \A k \in Kinds : d.assets[k] = "done" => status'[<<d.id, k>>] \in {"done", "gone"}
  <2>1. CASE d \in generated
    BY <1>h, <1>t, <2>1 DEF DoneIsDone
  <2>2. ASSUME NEW p \in Poems, d = Detail(p), UNCHANGED status
        PROVE  \A k \in Kinds : d.assets[k] = "done" => status'[<<d.id, k>>] \in {"done", "gone"}
    BY <2>2 DEF Detail
  <2> QED BY <1>1, <1>t, <2>1, <2>2, GeneratedFrom
<1>2. poem' # None => Honest(poem)'
  <2>1. CASE poem' = poem
    BY <1>h, <1>t, <2>1 DEF DoneIsDone, Honest
  <2>2. CASE poem' \in generated
    <3>1. poem' \in Answers /\ \A k \in Kinds : poem'.assets[k] = "done" =>
                                    status[<<poem'.id, k>>] \in {"done", "gone"}
      BY <1>t, <2>2 DEF DoneIsDone, Honest
    <3> QED BY <3>1, StatusesGoOn DEF Honest, Answers, Assets
  <2>3. CASE \E n \in 1..Len(polls) : polls[n].answer # Unanswered /\ poem' = polls[n].answer
    <3> PICK n \in 1..Len(polls) : polls[n].answer # Unanswered /\ poem' = polls[n].answer
      BY <2>3
    <3>1. polls[n].answer \in Answers /\ Honest(polls[n].answer)
      BY <1>a DEF DoneIsDone
    <3> QED BY <1>h, <3>1 DEF Honest
  <2> QED BY <2>1, <2>2, <2>3, ShownFrom DEF SetPoem
<1>3. ASSUME NEW i \in 1..Len(polls'), polls'[i].answer # Unanswered
      PROVE  Honest(polls[i].answer)'
  <2>1. ASSUME NEW m \in 1..Len(polls), polls'[i] = polls[m]
        PROVE  Honest(polls[i].answer)'
    <3>1. polls[m].answer \in Answers /\ Honest(polls[m].answer)
      BY <1>3, <1>a, <2>1 DEF DoneIsDone
    <3> QED BY <1>h, <2>1, <3>1 DEF Honest
  <2>2. ASSUME NEW p \in Poems, polls'[i] = [id |-> p, answer |-> Detail(p)], UNCHANGED status
        PROVE  Honest(polls[i].answer)'
    BY <2>2 DEF Honest, Detail
  <2> QED BY <1>3, <1>d, <2>1, <2>2, AnswersFrom
<1> QED BY <1>1, <1>2, <1>3 DEF DoneIsDone, Honest

-----------------------------------------------------------------------------
(* The theorems.                                                           *)

(* The invariant is inductive.                                             *)
LEMMA InvStep == Inv /\ [Next]_vars => Inv'
<1>1. Inv /\ Next => Inv'
  BY TypedStep, OnePlaceStep, VersionsStep, DoneIsDoneStep DEF Inv
<1>2. Inv /\ UNCHANGED vars => Inv'
  <2> SUFFICES ASSUME Inv, UNCHANGED vars PROVE Inv'
    OBVIOUS
  <2> USE DEF vars, serverVars, pageVars, postVars
  <2>1. Typed'
    BY DEF Inv, Typed
  <2>2. \A p \in Poems : /\ Created(p)' = Created(p) /\ Coming(p)' = Coming(p)
                         /\ Answered(p)' = Answered(p)
                         /\ Due(p)' = Due(p) /\ InFlight(p)' = InFlight(p)
    BY DEF Created, Coming, Answered, Due, InFlight, HasPendingAssets, Listed
  <2>3. OnePlace'
    BY <2>2 DEF Inv, OnePlace
  <2>4. Versions'
    BY <2>2 DEF Inv, Versions, Fresh
  <2>5. DoneIsDone'
    BY DEF Inv, DoneIsDone, Honest
  <2> QED BY <2>1, <2>3, <2>4, <2>5 DEF Inv
<1> QED BY <1>1, <1>2

(* Where the next poll of each poem is, and what the answers may say.      *)
THEOREM InvHolds == Spec => []Inv
  BY InitInv, InvStep, PTL DEF Spec

(* A poem has at most one poll, scheduled or in flight, although nothing   *)
(* aborts a GET whose poem is no longer shown (page.tsx).                  *)
THEOREM OnePollEach == Spec => []OnePollPerPoem
<1>1. Inv => OnePollPerPoem
  <2> SUFFICES ASSUME Inv, NEW p \in Poems
               PROVE  LET inFlight == {n \in 1..Len(polls) : polls[n].id = p}
                      IN  Cardinality(inFlight) <= (IF p \in timers THEN 0 ELSE 1)
    BY DEF OnePollPerPoem
  <2> DEFINE inFlight == {n \in 1..Len(polls) : polls[n].id = p}
  <2> SUFFICES Cardinality(inFlight) <= (IF p \in timers THEN 0 ELSE 1)
    OBVIOUS
  <2>1. CASE inFlight = {}
    <3>1. Cardinality(inFlight) = Cardinality({})
      BY <2>1, Zenon
    <3> HIDE DEF inFlight
    <3> QED BY <3>1, FS_EmptySet
  <2>2. ASSUME NEW n \in inFlight
        PROVE  Cardinality(inFlight) <= (IF p \in timers THEN 0 ELSE 1)
    <3>1. inFlight = {n}
      BY <2>2 DEF Inv, OnePlace
    <3>2. p \notin timers
      BY <2>2 DEF Inv, OnePlace, InFlight
    <3>3. Cardinality({n}) = 1
      BY FS_Singleton
    <3>4. Cardinality(inFlight) = 1
      BY <3>1, <3>3, Zenon
    <3> HIDE DEF inFlight
    <3> QED BY <3>2, <3>4
  <2> QED BY <2>1, <2>2
<1> QED BY InvHolds, <1>1, PTL

(* An asset shown as done is done, or has been deleted since.              *)
THEOREM ShownDoneStaysDone == Spec => []ShownDoneIsDone
<1>1. Inv => ShownDoneIsDone
  BY DEF Inv, DoneIsDone, Honest, ShownDoneIsDone
<1> QED BY InvHolds, <1>1, PTL

(* The page never goes back to an older state of a poem than it has shown, *)
(* in whatever order the answers arrive.                                   *)
THEOREM NeverAStepBack == Spec => NoStepBack
<1>1. Inv /\ [Next]_vars => [poem'.id \in Poems => poem'.version >= seen[poem'.id]]_poem
  <2> SUFFICES ASSUME Inv, Next, poem' # poem, poem'.id \in Poems
               PROVE  poem'.version >= seen[poem'.id]
    BY DEF vars, pageVars
  <2>1. \A d \in Answers : d.id \in Poems /\ d.version \in Nat /\ seen[d.id] \in Nat
    BY DEF Inv, Typed, Answers
  <2>2. CASE poem' \in generated
    BY <2>1, <2>2 DEF Inv, Typed, Versions, Fresh
  <2>3. CASE \E n \in 1..Len(polls) : polls[n].answer # Unanswered /\ poem' = polls[n].answer
    <3> PICK n \in 1..Len(polls) : polls[n].answer # Unanswered /\ poem' = polls[n].answer
      BY <2>3
    <3>1. polls[n] \in Calls
      BY DEF Inv, Typed
    <3>2. polls[n].answer \in Answers /\ Fresh(polls[n].answer)
      BY <3>1 DEF Inv, Versions, Calls
    <3> QED BY <2>1, <3>2 DEF Fresh
  <2>4. poem' # None
    BY PoemsAssumption DEF None
  <2> QED BY <2>2, <2>3, <2>4, ShownFrom DEF SetPoem
<1> QED BY InvHolds, <1>1, PTL DEF Spec, NoStepBack
=============================================================================
