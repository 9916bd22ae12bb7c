---------------------------- MODULE GalleryProofs ----------------------------
(***************************************************************************)
(* The theorems about Gallery, for any characters, page size and bounds.   *)
(***************************************************************************)
EXTENDS Gallery, FiniteSetTheorems, TLAPS

-----------------------------------------------------------------------------
(* The invariant.                                                          *)

Lists == [nr : 1..loads, character : Filters, page : Nat, answer : {Unanswered} \cup SUBSET Ids]
Walks == [from : SUBSET Ids, nr : 1..loads, pages : Nat, listed : SUBSET Ids,
          inOrder : BOOLEAN, deletions : Nat]

Typed ==
    /\ poems \in Seq(Characters)
    /\ gone \subseteq Ids
    /\ character \in Filters
    /\ page \in Nat
    /\ items \subseteq Ids
    /\ loads \in Nat
    /\ lists \subseteq Lists
    /\ deletes \subseteq [id : Ids, status : {"sent", "204", "404"}]
    /\ shown \in [nr : 0..loads, page : Nat]
    /\ walk \in Walks

(* The last list that was asked for is the one that the buttons show, and  *)
(* so are the cards when they come from it.                                *)
Current ==
    /\ \A r \in lists : r.nr = loads => r.character = character /\ r.page = page
    /\ shown.nr = loads =>
          shown.page = page /\ \A id \in items : Matches(id, character)

(* An answer lists poems of the character it was asked for.                *)
OfCharacter ==
    \A r \in lists : r.answer # Unanswered => \A id \in r.answer : Matches(id, r.character)

(* A walk keeps to one character.                                          *)
OneCharacter ==
    /\ \A r \in lists : r.nr >= walk.nr => r.character = character
    /\ \A id \in walk.from : Matches(id, character)

(* The poems that were there from the beginning of the walk, are still     *)
(* there, and were not listed, though they stand before the place that the *)
(* walk has reached, or before a poem that was listed: there are no more   *)
(* of them than deletions. Missed are the latter ones, but the former ones *)
(* will be missed when the next page is read.                              *)
Passed(id) ==
    \/ Rank(id, character) < Offset(walk.pages)
    \/ \E older \in walk.listed : older < id
Behind == {id \in walk.from \ gone : id \notin walk.listed /\ Passed(id)}
PassedAreDeletions == walk.inOrder => Cardinality(Behind) <= walk.deletions

Inv == Typed /\ Current /\ OfCharacter /\ OneCharacter /\ PassedAreDeletions

-----------------------------------------------------------------------------
(* Pages and ranks.                                                        *)

(* Later pages begin later, each one where the one before it ends.         *)
LEMMA Offsets ==
    ASSUME NEW p \in Nat
    PROVE  /\ Offset(p) \in Nat
           /\ Offset(p + 1) = Offset(p) + PAGE_SIZE
           /\ \A q \in Nat : q < p => Offset(q) + PAGE_SIZE <= Offset(p)
<1>1. PAGE_SIZE \in Nat
  BY SizesAssumption
<1>2. Offset(p) \in Nat /\ Offset(p + 1) = Offset(p) + PAGE_SIZE
  BY <1>1 DEF Offset
<1>3. ASSUME NEW q \in Nat, q < p PROVE Offset(q) + PAGE_SIZE <= Offset(p)
  <2>1. PICK d \in Nat : p = (q + 1) + d
    <3>1. p - (q + 1) \in Nat /\ p = (q + 1) + (p - (q + 1))
      BY <1>3
    <3> QED BY <3>1
  <2>2. p * PAGE_SIZE = (q * PAGE_SIZE + PAGE_SIZE) + d * PAGE_SIZE
    BY <1>1, <2>1
  <2>3. d * PAGE_SIZE \in Nat /\ q * PAGE_SIZE \in Nat
    BY <1>1
  <2> QED BY <1>1, <2>2, <2>3 DEF Offset
<1> QED BY <1>2, <1>3

(* There are finitely many poems, so that a poem has a rank.               *)
LEMMA RankType ==
    ASSUME poems \in Seq(Characters), NEW f
    PROVE  /\ IsFiniteSet(Ids)
           /\ IsFiniteSet(Listable(f))
           /\ \A id : /\ IsFiniteSet({newer \in Listable(f) : newer > id})
                      /\ Rank(id, f) \in Nat
<1>1. IsFiniteSet(Ids)
  BY FS_Interval DEF Ids
<1>2. IsFiniteSet(Listable(f))
  BY <1>1, FS_Subset DEF Listable
<1>3. ASSUME NEW id
      PROVE  IsFiniteSet({newer \in Listable(f) : newer > id}) /\ Rank(id, f) \in Nat
  <2>1. IsFiniteSet({newer \in Listable(f) : newer > id})
    BY <1>2, FS_Subset
  <2> QED BY <2>1, FS_CardinalityType DEF Rank
<1> QED BY <1>1, <1>2, <1>3

(* A newer poem stands before an older one.                                *)
LEMMA NewerFirst ==
    ASSUME poems \in Seq(Characters), NEW f,
           NEW older \in Ids, NEW id \in Listable(f), older < id
    PROVE  Rank(id, f) < Rank(older, f)
<1> DEFINE A == {newer \in Listable(f) : newer > id}
           B == {newer \in Listable(f) : newer > older}
<1>1. /\ IsFiniteSet(A) /\ IsFiniteSet(B)
      /\ Rank(id, f) = Cardinality(A) /\ Rank(older, f) = Cardinality(B)
      /\ Cardinality(A) \in Nat /\ Cardinality(B) \in Nat
  BY RankType DEF Rank
<1>2. \A x \in Listable(f) : x \in Int
  BY DEF Listable, Ids
<1>3. id \notin A /\ A \cup {id} \subseteq B
  BY <1>2 DEF Ids
<1> HIDE DEF A, B
<1>4. IsFiniteSet(A \cup {id}) /\ Cardinality(A \cup {id}) = Cardinality(A) + 1
  BY <1>1, <1>3, FS_AddElement
<1>5. Cardinality(A \cup {id}) <= Cardinality(B)
  BY <1>1, <1>3, FS_Subset
<1> QED BY <1>1, <1>4, <1>5

(* No two poems have one rank.                                             *)
LEMMA RanksDiffer ==
    ASSUME poems \in Seq(Characters), NEW f,
           NEW a \in Listable(f), NEW b \in Listable(f), Rank(a, f) = Rank(b, f)
    PROVE  a = b
<1>1. a \in Ids /\ b \in Ids /\ a \in Int /\ b \in Int
  BY DEF Listable, Ids
<1>2. Rank(a, f) \in Nat /\ Rank(b, f) \in Nat
  BY RankType
<1>3. CASE a < b
  BY <1>1, <1>2, <1>3, NewerFirst
<1>4. CASE b < a
  BY <1>1, <1>2, <1>4, NewerFirst
<1> QED BY <1>1, <1>3, <1>4

(* A poem moves forward by one place at most when another is deleted.      *)
LEMMA DeletionMovesByOne ==
    ASSUME poems \in Seq(Characters), NEW f, NEW x, NEW id
    PROVE  /\ Rank(id, f) <= Cardinality({newer \in Listable(f) \ {x} : newer > id}) + 1
           /\ Cardinality({newer \in Listable(f) \ {x} : newer > id}) \in Nat
<1> DEFINE A == {newer \in Listable(f) : newer > id}
           after == {newer \in Listable(f) \ {x} : newer > id}
<1>1. IsFiniteSet(A) /\ Rank(id, f) = Cardinality(A) /\ Cardinality(A) \in Nat
  BY RankType DEF Rank
<1>2. after = A \ {x}
  OBVIOUS
<1> HIDE DEF A, after
<1>3. /\ IsFiniteSet(A \ {x})
      /\ Cardinality(A \ {x}) = IF x \in A THEN Cardinality(A) - 1 ELSE Cardinality(A)
      /\ Cardinality(A \ {x}) \in Nat
  BY <1>1, FS_RemoveElement, FS_CardinalityType
<1>4. Rank(id, f) <= Cardinality(after) + 1 /\ Cardinality(after) \in Nat
  BY <1>1, <1>2, <1>3
<1> QED BY <1>4 DEF after

-----------------------------------------------------------------------------
(* The initial states, and the types.                                      *)

(* The page was opened and has asked for its first list.                   *)
LEMMA InitInv == Init => Inv
<1> SUFFICES ASSUME Init PROVE Inv
  OBVIOUS
<1>1. PICK n \in 0..MaxPoems : poems \in [1..n -> Characters]
  BY DEF Init
<1>2. poems \in Seq(Characters)
  BY <1>1, SizesAssumption
<1>3. Typed
  BY <1>2 DEF Init, Typed, Lists, Walks, NewWalk, Listable, Filters, Ids
<1>4. Current /\ OfCharacter /\ OneCharacter
  BY <1>3 DEF Init, Current, OfCharacter, OneCharacter, Typed, NewWalk, Listable
<1>5. Behind = {}
  <2>1. walk.pages = 0 /\ walk.listed = {}
    BY DEF Init, NewWalk
  <2>2. Offset(0) = 0
    BY SizesAssumption DEF Offset
  <2>3. ASSUME NEW id PROVE ~(Rank(id, character) < 0)
    <3>1. Rank(id, character) \in Nat
      BY <1>2, RankType
    <3> QED BY <3>1
  <2> QED BY <2>1, <2>2, <2>3 DEF Behind, Passed
<1>6. PassedAreDeletions
  BY <1>5, FS_EmptySet DEF PassedAreDeletions, Init, NewWalk
<1> QED BY <1>3, <1>4, <1>6 DEF Inv

(* What asking for a list changes.                                         *)
LEMMA LoadTyped ==
    ASSUME Typed, NEW f \in Filters, NEW p \in Nat, Load(f, p),
           UNCHANGED <<serverVars, items, deletes, shown>>
    PROVE  Typed'
<1> USE DEF Load, serverVars
<1>1. Ids' = Ids /\ loads' = loads + 1 /\ loads \in Nat
  BY DEF Typed, Ids
<1>2. lists' \subseteq Lists'
  <2>1. Request(f, p) \in Lists'
    BY <1>1 DEF Request, Lists
  <2>2. Lists \subseteq Lists'
    BY <1>1 DEF Lists
  <2> QED BY <2>1, <2>2 DEF Typed
<1>3. walk' \in Walks'
  <2>1. NewWalk(f, loads + 1) \in Walks'
    BY <1>1 DEF NewWalk, Walks, Listable
  <2>2. Walks \subseteq Walks'
    BY <1>1 DEF Walks
  <2> QED BY <2>1, <2>2 DEF Typed
<1>4. shown' \in [nr : 0..loads', page : Nat]
  BY <1>1 DEF Typed
<1> QED BY <1>1, <1>2, <1>3, <1>4 DEF Typed

(* An answer lists poems that there are.                                   *)
LEMMA AnswerTyped ==
    ASSUME Typed, NEW r \in lists, AnswerList(r)
    PROVE  Typed'
<1> USE DEF AnswerList, serverVars
<1>1. Ids' = Ids /\ loads' = loads /\ r \in Lists
  BY DEF Typed, Ids
<1>2. PageOf(r.character, r.page) \subseteq Ids
  BY DEF PageOf, Listable
<1>3. lists' \subseteq Lists'
  <2>1. [r EXCEPT !.answer = PageOf(r.character, r.page)] \in Lists
    BY <1>1, <1>2 DEF Lists
  <2> QED BY <1>1, <2>1 DEF Typed, Lists
<1>4. walk' \in Walks'
  <2>1. Walked(r, PageOf(r.character, r.page)) \in Walks
    <3>1. walk \in Walks /\ r.page \in Nat
      BY <1>1 DEF Typed, Lists
    <3>2. PICK found : found = PageOf(r.character, r.page)
      OBVIOUS
    <3>3. walk.listed \cup found \subseteq Ids /\ walk.pages + 1 \in Nat
      BY <1>2, <3>1, <3>2 DEF Walks
    <3>4. Walked(r, found) \in Walks
      BY <3>1, <3>3 DEF Walked, Walks
    <3> QED BY <3>2, <3>4
  <2> QED BY <1>1, <2>1 DEF Typed, Walks
<1> QED BY <1>1, <1>3, <1>4 DEF Typed

(* A deletion, of a poem that there is.                                    *)
LEMMA DeletionTyped ==
    ASSUME Typed, NEW id \in Ids, DeletePoem(id), UNCHANGED <<poems, loads>>
    PROVE  gone' \subseteq Ids' /\ walk' \in Walks'
  BY DEF Typed, Walks, DeletePoem, Ids

(* Steps keep the types.                                                   *)
LEMMA TypedStep == Typed /\ [Next]_vars => Typed'
<1> SUFFICES ASSUME Typed, [Next]_vars PROVE Typed'
  OBVIOUS
<1>1. ASSUME NEW f \in Filters, Filter(f) PROVE Typed'
  <2>1. CASE Changes(f, 0)
    BY <1>1, <2>1, LoadTyped DEF Filter
  <2>2. CASE ~Changes(f, 0)
    BY <1>1, <2>2 DEF Filter, serverVars, Typed, Lists, Walks, Ids
  <2> QED BY <2>1, <2>2
<1>2. CASE NextPage
  BY <1>2, LoadTyped DEF NextPage, Typed
<1>3. CASE PreviousPage
  <2>1. page - 1 \in Nat /\ character \in Filters
    BY <1>3 DEF PreviousPage, Typed
  <2> QED BY <1>3, <2>1, LoadTyped DEF PreviousPage
<1>4. ASSUME NEW r \in lists, AnswerList(r) PROVE Typed'
  BY <1>4, AnswerTyped
<1>5. ASSUME NEW r \in lists, DeliverList(r) PROVE Typed'
  <2>1. r \in Lists /\ r.answer \subseteq Ids
    BY <1>5 DEF Typed, DeliverList, Lists
  <2>2. [nr |-> r.nr, page |-> r.page] \in [nr : 0..loads, page : Nat]
    BY <2>1 DEF Lists, Typed
  <2> QED BY <1>5, <2>1, <2>2 DEF DeliverList, Show, serverVars, Typed, Lists, Walks, Ids
<1>6. ASSUME NEW r \in lists, ListFails(r) PROVE Typed'
  <2>1. r \in Lists
    BY DEF Typed
  <2>2. [nr |-> r.nr, page |-> r.page] \in [nr : 0..loads, page : Nat]
    BY <2>1 DEF Lists, Typed
  <2> QED BY <1>6, <2>1, <2>2 DEF ListFails, Show, serverVars, Typed, Lists, Walks, Ids
<1>7. ASSUME NEW id \in Ids, HandleDelete(id) PROVE Typed'
  BY <1>7 DEF HandleDelete, serverVars, Typed, Lists, Walks, Ids
<1>8. ASSUME NEW id \in Ids, DeleteElsewhere(id) PROVE Typed'
  <2>1. gone' \subseteq Ids' /\ walk' \in Walks'
    BY <1>8, DeletionTyped DEF DeleteElsewhere, pageVars
  <2> QED BY <1>8, <2>1 DEF DeleteElsewhere, pageVars, Typed, Lists, Ids
<1>9. ASSUME NEW d \in deletes, AnswerDelete(d) PROVE Typed'
  <2>1. d \in [id : Ids, status : {"sent", "204", "404"}]
    BY DEF Typed
  <2>2. deletes' \subseteq [id : Ids, status : {"sent", "204", "404"}]
    BY <1>9, <2>1 DEF AnswerDelete, Answered, Typed
  <2>3. gone' \subseteq Ids' /\ walk' \in Walks'
    <3>1. CASE DeletePoem(d.id)
      BY <1>9, <2>1, <3>1, DeletionTyped DEF AnswerDelete
    <3>2. CASE UNCHANGED <<gone, walk>>
      BY <1>9, <3>2 DEF AnswerDelete, Typed, Walks, Ids
    <3> QED BY <1>9, <3>1, <3>2 DEF AnswerDelete
  <2> QED BY <1>9, <2>2, <2>3 DEF AnswerDelete, Typed, Lists, Ids
<1>10. ASSUME NEW d \in deletes, DeliverDelete(d) PROVE Typed'
  BY <1>10 DEF DeliverDelete, serverVars, Typed, Lists, Walks, Ids
<1>11. ASSUME NEW d \in deletes, DeleteFails(d) PROVE Typed'
  BY <1>11 DEF DeleteFails, serverVars, Typed, Lists, Walks, Ids
<1>12. ASSUME NEW c \in Characters, CreateElsewhere(c) PROVE Typed'
  <2>1. poems' \in Seq(Characters) /\ Ids \subseteq Ids'
    BY <1>12 DEF CreateElsewhere, Typed, Ids
  <2>2. Lists \subseteq Lists' /\ Walks \subseteq Walks'
    BY <1>12, <2>1 DEF CreateElsewhere, Lists, Walks
  <2> QED BY <1>12, <2>1, <2>2 DEF CreateElsewhere, pageVars, Typed
<1>13. CASE UNCHANGED vars
  BY <1>13 DEF vars, serverVars, pageVars, Typed, Lists, Walks, Ids
<1> QED BY <1>1, <1>2, <1>3, <1>4, <1>5, <1>6, <1>7, <1>8, <1>9, <1>10, <1>11, <1>12, <1>13 DEF Next

-----------------------------------------------------------------------------
(* What is shown.                                                          *)

(* A new poem leaves the characters of the others alone.                   *)
LEMMA MatchesStay ==
    ASSUME Typed, \/ UNCHANGED poems
                  \/ \E c \in Characters : CreateElsewhere(c)
    PROVE  \A id \in Ids : \A f : Matches(id, f)' <=> Matches(id, f)
<1>1. CASE UNCHANGED poems
  BY <1>1 DEF Matches
<1>2. ASSUME NEW c \in Characters, CreateElsewhere(c)
      PROVE  \A id \in Ids : \A f : Matches(id, f)' <=> Matches(id, f)
  <2>1. \A id \in Ids : poems'[id] = poems[id]
    BY <1>2 DEF CreateElsewhere, Typed, Ids
  <2> QED BY <2>1 DEF Matches
<1> QED BY <1>1, <1>2

(* No step but a creation changes a character.                             *)
LEMMA PoemsStay ==
    ASSUME [Next]_vars
    PROVE  UNCHANGED poems \/ \E c \in Characters : CreateElsewhere(c)
<1> USE DEF serverVars, vars
<1>1. CASE \E f \in Filters : Filter(f)
  BY <1>1 DEF Filter
<1>2. CASE NextPage \/ PreviousPage
  BY <1>2 DEF NextPage, PreviousPage
<1>3. CASE \E r \in lists : AnswerList(r) \/ DeliverList(r) \/ ListFails(r)
  BY <1>3 DEF AnswerList, DeliverList, ListFails
<1>4. CASE \E id \in Ids : HandleDelete(id) \/ DeleteElsewhere(id)
  BY <1>4 DEF HandleDelete, DeleteElsewhere
<1>5. CASE \E d \in deletes : AnswerDelete(d) \/ DeliverDelete(d) \/ DeleteFails(d)
  BY <1>5 DEF AnswerDelete, DeliverDelete, DeleteFails
<1> QED BY <1>1, <1>2, <1>3, <1>4, <1>5 DEF Next

(* The last list asked for is the one of the buttons.                      *)
LEMMA LoadCurrent ==
    ASSUME Typed, NEW f, NEW p, Load(f, p), UNCHANGED shown
    PROVE  Current'
<1>1. /\ loads' = loads + 1 /\ character' = f /\ page' = p
      /\ lists' = lists \cup {Request(f, p)} /\ loads \in Nat /\ shown.nr \in 0..loads
  BY DEF Load, Typed
<1>2. \A r \in lists : r.nr \in 1..loads
  BY DEF Typed, Lists
<1>3. \A r \in lists' : r.nr = loads' => r.character = character' /\ r.page = page'
  BY <1>1, <1>2 DEF Request
<1>4. shown'.nr # loads'
  BY <1>1
<1> QED BY <1>3, <1>4 DEF Current

(* An answer that is shown shows what was asked for.                       *)
LEMMA ShowCurrent ==
    ASSUME Typed, Current, NEW r \in lists, NEW cards, Show(r, cards),
           \A id \in cards : Matches(id, r.character),
           UNCHANGED <<poems, character, page, loads>>
    PROVE  Current'
  BY DEF Current, Show, Matches

(* Cards and buttons stay in step.                                         *)
LEMMA CurrentStep ==
    ASSUME Typed, Current, OfCharacter, [Next]_vars
    PROVE  Current'
<1>m. \A id \in Ids : \A f : Matches(id, f)' <=> Matches(id, f)
  BY MatchesStay, PoemsStay
<1>1. ASSUME NEW f \in Filters, Filter(f) PROVE Current'
  <2>1. CASE Changes(f, 0)
    BY <1>1, <2>1, LoadCurrent DEF Filter
  <2>2. CASE ~Changes(f, 0)
    <3>1. f = character
      BY <2>2 DEF Changes
    <3> QED BY <1>1, <2>2, <3>1 DEF Filter, serverVars, Current, Matches
  <2> QED BY <2>1, <2>2
<1>2. CASE NextPage
  BY <1>2, LoadCurrent DEF NextPage
<1>3. CASE PreviousPage
  BY <1>3, LoadCurrent DEF PreviousPage
<1>4. ASSUME NEW r \in lists, AnswerList(r) PROVE Current'
  <2>1. r \in Lists
    BY DEF Typed
  <2>2. PICK found : lists' = (lists \ {r}) \cup {[r EXCEPT !.answer = found]}
    BY <1>4 DEF AnswerList
  <2>3. \A s \in lists' : \E q \in lists : s.nr = q.nr /\ s.character = q.character /\ s.page = q.page
    BY <2>1, <2>2 DEF Lists
  <2> QED BY <1>4, <2>3 DEF AnswerList, serverVars, Current, Matches
<1>5. ASSUME NEW r \in lists, DeliverList(r) PROVE Current'
  BY <1>5, ShowCurrent DEF DeliverList, serverVars, OfCharacter
<1>6. ASSUME NEW r \in lists, ListFails(r) PROVE Current'
  BY <1>6, ShowCurrent DEF ListFails, serverVars
<1>7. ASSUME NEW id \in Ids, HandleDelete(id) PROVE Current'
  BY <1>7, <1>m DEF HandleDelete, Current, Typed
<1>8. ASSUME NEW id \in Ids, DeleteElsewhere(id) PROVE Current'
  BY <1>8, <1>m DEF DeleteElsewhere, pageVars, Current, Typed
<1>9. ASSUME NEW d \in deletes, AnswerDelete(d) PROVE Current'
  BY <1>9, <1>m DEF AnswerDelete, Current, Typed
<1>10. ASSUME NEW d \in deletes, DeliverDelete(d) PROVE Current'
  <2>1. items' \subseteq items
    BY <1>10 DEF DeliverDelete
  <2> QED BY <1>10, <1>m, <2>1 DEF DeliverDelete, Current, Typed
<1>11. ASSUME NEW d \in deletes, DeleteFails(d) PROVE Current'
  BY <1>11, <1>m DEF DeleteFails, Current, Typed
<1>12. ASSUME NEW c \in Characters, CreateElsewhere(c) PROVE Current'
  BY <1>12, <1>m DEF CreateElsewhere, pageVars, Current, Typed
<1>13. CASE UNCHANGED vars
  BY <1>13, <1>m DEF vars, pageVars, Current, Typed
<1> QED BY <1>1, <1>2, <1>3, <1>4, <1>5, <1>6, <1>7, <1>8, <1>9, <1>10, <1>11, <1>12, <1>13 DEF Next

(* Every list in flight is one that was, a new one, or one that has just   *)
(* been answered.                                                          *)
LEMMA ListsFrom ==
    ASSUME Typed, [Next]_vars, NEW s \in lists'
    PROVE  \/ s \in lists
           \/ /\ loads' = loads + 1 /\ s.nr = loads' /\ s.answer = Unanswered
              /\ s.character = character' /\ s.page = page'
           \/ \E r \in lists : AnswerList(r) /\ s = [r EXCEPT !.answer = PageOf(r.character, r.page)]
<1>1. ASSUME NEW f, NEW p, Load(f, p)
      PROVE  \/ s \in lists
             \/ /\ loads' = loads + 1 /\ s.nr = loads' /\ s.answer = Unanswered
                /\ s.character = character' /\ s.page = page'
  BY <1>1 DEF Load, Request
<1>2. CASE \E f \in Filters : Filter(f)
  BY <1>1, <1>2 DEF Filter
<1>3. CASE NextPage \/ PreviousPage
  BY <1>1, <1>3 DEF NextPage, PreviousPage
<1>4. CASE \E r \in lists : AnswerList(r)
  BY <1>4 DEF AnswerList
<1>5. CASE \E r \in lists : DeliverList(r) \/ ListFails(r)
  BY <1>5 DEF DeliverList, ListFails, Show
<1>6. CASE \E id \in Ids : HandleDelete(id) \/ DeleteElsewhere(id)
  BY <1>6 DEF HandleDelete, DeleteElsewhere, pageVars
<1>7. CASE \E d \in deletes : AnswerDelete(d) \/ DeliverDelete(d) \/ DeleteFails(d)
  BY <1>7 DEF AnswerDelete, DeliverDelete, DeleteFails
<1>8. CASE \E c \in Characters : CreateElsewhere(c)
  BY <1>8 DEF CreateElsewhere, pageVars
<1>9. CASE UNCHANGED vars
  BY <1>9 DEF vars, pageVars
<1> QED BY <1>2, <1>3, <1>4, <1>5, <1>6, <1>7, <1>8, <1>9 DEF Next

(* Answers keep to their character.                                        *)
LEMMA OfCharacterStep ==
    ASSUME Typed, OfCharacter, [Next]_vars
    PROVE  OfCharacter'
<1> SUFFICES ASSUME NEW s \in lists', s.answer # Unanswered, NEW id \in s.answer
             PROVE  Matches(id, s.character)'
  BY DEF OfCharacter, Unanswered
<1>1. \A i \in Ids : \A f : Matches(i, f)' <=> Matches(i, f)
  BY MatchesStay, PoemsStay
<1>2. CASE s \in lists
  <2>1. s.answer \subseteq Ids
    BY <1>2 DEF Typed, Lists
  <2> QED BY <1>1, <1>2, <2>1 DEF OfCharacter
<1>3. ASSUME NEW r \in lists, AnswerList(r), s = [r EXCEPT !.answer = PageOf(r.character, r.page)]
      PROVE  Matches(id, s.character)'
  <2>1. r \in Lists
    BY DEF Typed
  <2>2. s.character = r.character /\ s.answer = PageOf(r.character, r.page)
    BY <1>3, <2>1 DEF Lists
  <2>3. id \in Ids /\ Matches(id, r.character)
    BY <2>2 DEF PageOf, Listable
  <2> QED BY <1>1, <2>2, <2>3
<1> QED BY <1>2, <1>3, ListsFrom

-----------------------------------------------------------------------------
(* What is missed.                                                         *)

(* What can happen to a walk.                                              *)
Goes == UNCHANGED <<walk, character, poems, gone>>
Begins == \E f \in Filters : /\ walk' = NewWalk(f, loads + 1)
                             /\ character' = f
                             /\ loads' = loads + 1
                             /\ UNCHANGED <<poems, gone>>
Reads == \E r \in lists : AnswerList(r)
Loses == \E id \in Ids \ gone : DeletePoem(id) /\ UNCHANGED <<character, poems>>
Gains == \E c \in Characters : CreateElsewhere(c)

(* Each step does one of these to the walk.                                *)
LEMMA WalkSteps ==
    ASSUME Typed, [Next]_vars
    PROVE  Goes \/ Begins \/ Reads \/ Loses \/ Gains
<1>1. ASSUME NEW f \in Filters, NEW p, Load(f, p), UNCHANGED serverVars, f = character \/ p = 0
      PROVE  Goes \/ Begins
  BY <1>1 DEF Load, Goes, Begins, serverVars
<1>2. ASSUME NEW f \in Filters, Filter(f) PROVE Goes \/ Begins
  <2>1. CASE Changes(f, 0)
    BY <1>1, <1>2, <2>1 DEF Filter
  <2>2. CASE ~Changes(f, 0)
    BY <1>2, <2>2 DEF Filter, Changes, Goes, serverVars
  <2> QED BY <2>1, <2>2
<1>3. CASE NextPage \/ PreviousPage
  BY <1>1, <1>3 DEF NextPage, PreviousPage, Typed
<1>4. CASE \E r \in lists : AnswerList(r)
  BY <1>4 DEF Reads
<1>5. CASE \E r \in lists : DeliverList(r) \/ ListFails(r)
  BY <1>5 DEF DeliverList, ListFails, Goes, serverVars
<1>6. CASE \E id \in Ids : HandleDelete(id)
  BY <1>6 DEF HandleDelete, Goes, serverVars
<1>7. CASE \E id \in Ids : DeleteElsewhere(id)
  BY <1>7 DEF DeleteElsewhere, Loses, pageVars
<1>8. ASSUME NEW d \in deletes, AnswerDelete(d) PROVE Goes \/ Loses
  <2>1. d.id \in Ids
    BY DEF Typed
  <2> QED BY <1>8, <2>1 DEF AnswerDelete, Goes, Loses
<1>9. CASE \E d \in deletes : DeliverDelete(d) \/ DeleteFails(d)
  BY <1>9 DEF DeliverDelete, DeleteFails, Goes, serverVars
<1>10. CASE UNCHANGED vars
  BY <1>10 DEF vars, serverVars, pageVars, Goes
<1> QED BY <1>2, <1>3, <1>4, <1>5, <1>6, <1>7, <1>8, <1>9, <1>10 DEF Next, Gains

(* Requests of this walk are for the character of the buttons.             *)
LEMMA OneCharacterStep ==
    ASSUME Typed, OneCharacter, [Next]_vars
    PROVE  OneCharacter'
<1>m. \A id \in Ids : \A f : Matches(id, f)' <=> Matches(id, f)
  BY MatchesStay, PoemsStay
<1>t. walk \in Walks /\ loads \in Nat /\ \A r \in lists : r \in Lists /\ r.nr \in 1..loads
  BY DEF Typed, Lists
<1>1. CASE Begins
  <2>1. PICK f \in Filters : /\ walk' = NewWalk(f, loads + 1) /\ character' = f
                             /\ loads' = loads + 1
    BY <1>1 DEF Begins
  <2>2. walk'.nr = loads + 1 /\ walk'.from = Listable(f)
    BY <2>1 DEF NewWalk
  <2>3. ASSUME NEW s \in lists', s.nr >= walk'.nr PROVE s.character = character'
    <3>1. ~ \E r \in lists : AnswerList(r)
      BY <1>t, <2>1 DEF AnswerList
    <3>2. s \notin lists
      BY <1>t, <2>2, <2>3
    <3> QED BY <3>1, <3>2, ListsFrom
  <2>4. \A id \in walk'.from : id \in Ids /\ Matches(id, f)
    BY <2>2 DEF Listable
  <2> QED BY <1>m, <2>1, <2>3, <2>4 DEF OneCharacter
<1>2. CASE ~Begins
  <2>1. /\ character' = character /\ walk'.nr = walk.nr /\ walk'.from = walk.from
        /\ walk.from \subseteq Ids /\ walk.nr \in 1..loads
    <3>1. CASE Goes \/ Gains
      BY <1>t, <3>1 DEF Goes, Gains, CreateElsewhere, pageVars, Walks
    <3>2. CASE Reads
      BY <1>t, <3>2 DEF Reads, AnswerList, Walked, Walks
    <3>3. CASE Loses
      BY <1>t, <3>3 DEF Loses, DeletePoem, Walks
    <3> QED BY <1>2, <3>1, <3>2, <3>3, WalkSteps
  <2>2. ASSUME NEW s \in lists', s.nr >= walk'.nr PROVE s.character = character'
    <3>1. CASE s \in lists
      BY <2>1, <2>2, <3>1 DEF OneCharacter
    <3>2. ASSUME NEW r \in lists, s = [r EXCEPT !.answer = PageOf(r.character, r.page)]
          PROVE  s.character = character'
      <4>1. s.nr = r.nr /\ s.character = r.character
        BY <1>t, <3>2 DEF Lists
      <4> QED BY <2>1, <2>2, <4>1 DEF OneCharacter
    <3> QED BY <3>1, <3>2, ListsFrom
  <2>3. \A id \in walk'.from : Matches(id, character)'
    BY <1>m, <2>1 DEF OneCharacter
  <2> QED BY <2>2, <2>3 DEF OneCharacter
<1> QED BY <1>1, <1>2

(* Nobody stands behind a walk that has just begun.                        *)
LEMMA BeginsBehind ==
    ASSUME Typed, Typed', Begins
    PROVE  Behind' = {}
<1>1. walk'.pages = 0 /\ walk'.listed = {}
  BY DEF Begins, NewWalk
<1>2. Offset(0) = 0
  BY SizesAssumption DEF Offset
<1>3. poems' = poems /\ gone' = gone
  BY DEF Begins
<1>4. ASSUME NEW id PROVE ~(Rank(id, character') < 0)
  <2>1. Rank(id, character') \in Nat
    BY RankType DEF Typed
  <2> QED BY <2>1
<1>5. \A id : Rank(id, character)' = Rank(id, character')
  BY <1>3 DEF Rank, Listable, Ids, Matches
<1>6. \A id : ~Passed(id)'
  BY <1>1, <1>2, <1>4, <1>5 DEF Passed
<1> QED BY <1>6 DEF Behind

(* The page that comes next lists who would be behind after it; another    *)
(* one lists nobody who stands behind its last poem without being behind   *)
(* already.                                                                *)
LEMMA ReadsBehind ==
    ASSUME Typed, OneCharacter, NEW r \in lists, AnswerList(r), r.nr >= walk.nr,
           r.page <= walk.pages
    PROVE  Behind' \subseteq Behind
<1> DEFINE found == PageOf(character, r.page)
<1>1. r.character = character /\ r.page \in Nat /\ walk \in Walks
  BY DEF OneCharacter, Typed, Lists
<1>2. walk' = Walked(r, found)
  BY <1>1 DEF AnswerList
<1>3. /\ walk'.from = walk.from
      /\ walk'.listed = walk.listed \cup found
      /\ walk'.pages = IF r.page = walk.pages THEN walk.pages + 1 ELSE walk.pages
      /\ walk.pages \in Nat
  <2>1. PICK x : x = found
    OBVIOUS
  <2> QED BY <1>1, <1>2, <2>1 DEF Walked, Walks
<1>4. /\ poems' = poems /\ gone' = gone /\ character' = character
      /\ \A id : Rank(id, character)' = Rank(id, character)
  BY DEF AnswerList, serverVars, Rank, Listable, Ids, Matches
<1>5. SUFFICES ASSUME NEW id \in Behind' PROVE id \in Behind
  OBVIOUS
<1>6. /\ id \in walk.from \ gone /\ id \notin walk.listed /\ id \notin found
      /\ \/ Rank(id, character) < Offset(walk'.pages)
         \/ \E older \in walk.listed : older < id
         \/ \E older \in found : older < id
  BY <1>3, <1>4, <1>5 DEF Behind, Passed
<1>7. id \in Listable(character) /\ Rank(id, character) \in Nat
  <2>1. id \in Ids
    BY <1>1, <1>6 DEF Walks
  <2> QED BY <1>6, <2>1, RankType DEF Listable, OneCharacter, Typed
<1>8. ~(Offset(r.page) <= Rank(id, character) /\ Rank(id, character) < Offset(r.page) + PAGE_SIZE)
  BY <1>6, <1>7 DEF PageOf
<1>9. /\ Offset(walk.pages) \in Nat /\ Offset(walk.pages + 1) = Offset(walk.pages) + PAGE_SIZE
      /\ r.page < walk.pages => Offset(r.page) + PAGE_SIZE <= Offset(walk.pages)
      /\ PAGE_SIZE \in Nat /\ Offset(r.page) \in Nat
  BY <1>1, <1>3, Offsets, SizesAssumption
<1>10. CASE Rank(id, character) < Offset(walk'.pages)
  <2>1. Rank(id, character) < Offset(walk.pages)
    BY <1>3, <1>7, <1>8, <1>9, <1>10
  <2> QED BY <1>6, <2>1 DEF Behind, Passed
<1>11. CASE \E older \in walk.listed : older < id
  BY <1>6, <1>11 DEF Behind, Passed
<1>12. ASSUME NEW older \in found, older < id PROVE id \in Behind
  <2>1. older \in Ids /\ Rank(older, character) < Offset(r.page) + PAGE_SIZE
    BY <1>12 DEF PageOf, Listable
  <2>2. Rank(id, character) < Rank(older, character) /\ Rank(older, character) \in Nat
    BY <1>7, <1>12, <2>1, NewerFirst, RankType DEF Typed
  <2>3. Rank(id, character) < Offset(walk.pages)
    BY <1>1, <1>3, <1>7, <1>8, <1>9, <2>1, <2>2
  <2> QED BY <1>6, <2>3 DEF Behind, Passed
<1> QED BY <1>6, <1>10, <1>11, <1>12

(* A new poem moves the others back.                                       *)
LEMMA GainsBehind ==
    ASSUME Typed, Typed', OneCharacter, NEW c \in Characters, CreateElsewhere(c)
    PROVE  Behind' \subseteq Behind
<1>1. walk' = walk /\ gone' = gone /\ character' = character /\ walk.from \subseteq Ids
  BY DEF CreateElsewhere, pageVars, Typed, Walks
<1>2. Ids \subseteq Ids' /\ \A id \in Ids : \A f : Matches(id, f)' <=> Matches(id, f)
  BY MatchesStay DEF CreateElsewhere, Typed, Ids
<1>3. Listable(character) \subseteq Listable(character)'
  BY <1>1, <1>2 DEF Listable
<1>4. ASSUME NEW id PROVE Rank(id, character) <= Rank(id, character)' /\ Rank(id, character)' \in Nat
                          /\ Rank(id, character) \in Nat
  <2> DEFINE A == {newer \in Listable(character) : newer > id}
             B == {newer \in Listable(character)' : newer > id}
  <2>1. Rank(id, character) = Cardinality(A) /\ Rank(id, character)' = Cardinality(B)
    BY DEF Rank
  <2>2. A \subseteq B
    BY <1>3
  <2>3. IsFiniteSet(B)
    <3>1. IsFiniteSet(Ids')
      BY FS_Interval DEF Ids, Typed
    <3>2. B \subseteq Ids'
      BY DEF Listable
    <3> QED BY <3>1, <3>2, FS_Subset
  <2>4. Cardinality(A) <= Cardinality(B) /\ Cardinality(A) \in Nat /\ Cardinality(B) \in Nat
    BY <2>2, <2>3, FS_Subset, FS_CardinalityType
  <2> QED BY <2>1, <2>4
<1>5. Offset(walk.pages) \in Nat
  BY Offsets DEF Typed, Walks
<1>6. \A id : Passed(id)' => Passed(id)
  BY <1>1, <1>4, <1>5 DEF Passed
<1> QED BY <1>1, <1>6 DEF Behind

(* A deletion moves one poem at most to the pages that were read.          *)
LEMMA LosesBehind ==
    ASSUME Typed, OneCharacter, NEW x \in Ids, DeletePoem(x), UNCHANGED <<character, poems>>
    PROVE  \E next : Behind' \subseteq Behind \cup {next}
<1> DEFINE edge == Offset(walk.pages)
           L == Listable(character)
           AtEdge == {id \in L : Rank(id, character) = edge}
<1>1. /\ walk'.from = walk.from /\ walk'.listed = walk.listed /\ walk'.pages = walk.pages
      /\ walk.from \subseteq Ids /\ gone' = gone \cup {x} /\ edge \in Nat
  BY Offsets DEF DeletePoem, Typed, Walks
<1>2. Listable(character)' = L \ {x}
  BY <1>1 DEF Listable, Ids, Matches
<1>3. ASSUME NEW id
      PROVE  /\ Rank(id, character) <= Rank(id, character)' + 1
             /\ Rank(id, character) \in Nat /\ Rank(id, character)' \in Nat
  <2> DEFINE after == Cardinality({newer \in L \ {x} : newer > id})
  <2>1. Rank(id, character)' = after
    BY <1>2 DEF Rank
  <2>2. Rank(id, character) <= after + 1 /\ after \in Nat
    <3>1. poems \in Seq(Characters)
      BY DEF Typed
    <3> QED BY <3>1, DeletionMovesByOne
  <2>3. Rank(id, character) \in Nat
    BY RankType DEF Typed
  <2> HIDE DEF after
  <2> QED BY <2>1, <2>2, <2>3
<1>4. ASSUME NEW id \in Behind' PROVE id \in Behind \/ id \in AtEdge
  <2>1. id \in walk.from \ gone /\ id \notin walk.listed
    BY <1>1, <1>4 DEF Behind
  <2>2. Rank(id, character)' < edge \/ \E older \in walk.listed : older < id
    BY <1>1, <1>4 DEF Behind, Passed
  <2>3. id \in L
    BY <1>1, <2>1 DEF OneCharacter, Listable
  <2>4. CASE Rank(id, character)' < edge
    <3>1. Rank(id, character) < edge \/ Rank(id, character) = edge
      BY <1>1, <1>3, <2>4
    <3> QED BY <2>1, <2>3, <3>1 DEF Behind, Passed
  <2>5. CASE \E older \in walk.listed : older < id
    BY <2>1, <2>5 DEF Behind, Passed
  <2> QED BY <2>2, <2>4, <2>5
<1>5. \A a, b \in AtEdge : a = b
  BY RanksDiffer DEF Typed
<1>6. \E next : AtEdge \subseteq {next}
  <2> HIDE DEF AtEdge
  <2>1. CASE AtEdge = {}
    BY <2>1
  <2>2. CASE AtEdge # {}
    <3>1. PICK a : a \in AtEdge
      BY <2>2
    <3> QED BY <1>5, <3>1
  <2> QED BY <2>1, <2>2
<1> QED BY <1>4, <1>6

(* Who stands behind is one of finitely many.                              *)
LEMMA BehindFinite ==
    ASSUME Typed
    PROVE  IsFiniteSet(Behind) /\ Cardinality(Behind) \in Nat
<1>1. IsFiniteSet(Ids)
  BY RankType DEF Typed
<1>2. Behind \subseteq Ids
  BY DEF Behind, Typed, Walks
<1> QED BY <1>1, <1>2, FS_Subset, FS_CardinalityType

(* Deletions pay for who stands behind.                                    *)
LEMMA PassedStep ==
    ASSUME Typed, Typed', OneCharacter, PassedAreDeletions, [Next]_vars
    PROVE  PassedAreDeletions'
<1> SUFFICES ASSUME walk'.inOrder PROVE Cardinality(Behind') <= walk'.deletions
  BY DEF PassedAreDeletions
<1>0. /\ IsFiniteSet(Behind) /\ Cardinality(Behind) \in Nat
      /\ walk \in Walks /\ walk' \in Walks' /\ walk.deletions \in Nat
  BY BehindFinite DEF Typed, Walks
<1>1. ASSUME Behind' \subseteq Behind, walk.inOrder, walk'.deletions = walk.deletions
      PROVE  Cardinality(Behind') <= walk'.deletions
  <2>1. IsFiniteSet(Behind') /\ Cardinality(Behind') <= Cardinality(Behind)
        /\ Cardinality(Behind') \in Nat
    BY <1>0, <1>1, FS_Subset, FS_CardinalityType
  <2> QED BY <1>0, <1>1, <2>1 DEF PassedAreDeletions
<1>2. CASE Goes
  <2>1. Behind' = Behind
    BY <1>2 DEF Goes, Behind, Passed, Rank, Listable, Ids, Matches
  <2> QED BY <1>1, <1>2, <2>1 DEF Goes
<1>3. CASE Begins
  <2>1. walk'.deletions = 0
    BY <1>3 DEF Begins, NewWalk
  <2> QED BY <1>3, <2>1, BeginsBehind, FS_EmptySet
<1>4. ASSUME NEW r \in lists, AnswerList(r)
      PROVE  Cardinality(Behind') <= walk'.deletions
  <2>1. CASE r.nr >= walk.nr
    <3>1. PICK found : walk' = Walked(r, found)
      BY <1>4, <2>1 DEF AnswerList
    <3>2. /\ walk'.inOrder = (walk.inOrder /\ r.page <= walk.pages)
          /\ walk'.deletions = walk.deletions
      BY <1>0, <3>1 DEF Walked, Walks
    <3> QED BY <1>1, <1>4, <2>1, <3>2, ReadsBehind
  <2>2. CASE ~(r.nr >= walk.nr)
    <3>1. Goes
      BY <1>4, <2>2 DEF AnswerList, Goes, serverVars
    <3> QED BY <1>2, <3>1
  <2> QED BY <2>1, <2>2
<1>5. ASSUME NEW x \in Ids, DeletePoem(x), UNCHANGED <<character, poems>>
      PROVE  Cardinality(Behind') <= walk'.deletions
  <2>1. walk.inOrder /\ walk'.deletions = walk.deletions + 1
    BY <1>0, <1>5 DEF DeletePoem, Walks
  <2>2. PICK next : Behind' \subseteq Behind \cup {next}
    BY <1>5, LosesBehind
  <2>3. /\ IsFiniteSet(Behind \cup {next})
        /\ Cardinality(Behind \cup {next}) <= Cardinality(Behind) + 1
        /\ Cardinality(Behind \cup {next}) \in Nat
    <3>1. /\ IsFiniteSet(Behind \cup {next})
          /\ Cardinality(Behind \cup {next})
                = IF next \in Behind THEN Cardinality(Behind) ELSE Cardinality(Behind) + 1
      BY <1>0, FS_AddElement
    <3> QED BY <1>0, <3>1
  <2>4. /\ Cardinality(Behind') <= Cardinality(Behind \cup {next})
        /\ Cardinality(Behind') \in Nat
    BY <2>2, <2>3, FS_Subset, FS_CardinalityType
  <2> QED BY <1>0, <2>1, <2>3, <2>4 DEF PassedAreDeletions
<1>6. ASSUME NEW c \in Characters, CreateElsewhere(c)
      PROVE  Cardinality(Behind') <= walk'.deletions
  <2>1. walk' = walk
    BY <1>6 DEF CreateElsewhere
  <2> QED BY <1>1, <1>6, <2>1, GainsBehind
<1> QED BY <1>2, <1>3, <1>4, <1>5, <1>6, WalkSteps DEF Reads, Loses, Gains

-----------------------------------------------------------------------------
(* The theorems.                                                           *)

(* The invariant is inductive.                                             *)
LEMMA InvStep == Inv /\ [Next]_vars => Inv'
<1> SUFFICES ASSUME Inv, [Next]_vars PROVE Inv'
  OBVIOUS
<1>1. Typed'
  BY TypedStep DEF Inv
<1> QED BY <1>1, CurrentStep, OfCharacterStep, OneCharacterStep, PassedStep DEF Inv

(* It holds in every reachable state.                                      *)
THEOREM InvHolds == Spec => []Inv
<1> QED BY InitInv, InvStep, PTL DEF Spec

(* The cards are those of the buttons, unless an older list came last: of  *)
(* the GETs that nothing aborts, only the last one is of the current       *)
(* filter and page (the effect of gallery/page.tsx).                       *)
THEOREM CardsOfButtons == Spec => []ShownIsCurrent
<1>1. Inv => ShownIsCurrent
  BY DEF Inv, Current, ShownIsCurrent
<1> QED BY <1>1, InvHolds, PTL

(* Turning the pages misses no more poems than were deleted meanwhile: a   *)
(* deletion moves at most one poem over the offset of the next page        *)
(* (repository.get_poems).                                                 *)
THEOREM MissesPaidFor == Spec => []MissesAreDeletions
<1>1. Inv => MissesAreDeletions
  <2> SUFFICES ASSUME Inv, walk.inOrder PROVE Cardinality(Missed) <= walk.deletions
    BY DEF MissesAreDeletions
  <2>1. /\ IsFiniteSet(Behind) /\ Cardinality(Behind) \in Nat
        /\ Cardinality(Behind) <= walk.deletions /\ walk.deletions \in Nat
    BY BehindFinite DEF Inv, PassedAreDeletions, Typed, Walks
  <2>2. Missed \subseteq Behind
    BY DEF Missed, Behind, Passed
  <2>3. Cardinality(Missed) <= Cardinality(Behind) /\ Cardinality(Missed) \in Nat
    BY <2>1, <2>2, FS_Subset, FS_CardinalityType
  <2> QED BY <2>1, <2>3
<1> QED BY <1>1, InvHolds, PTL
=============================================================================
