------------------------------ MODULE Gallery ------------------------------
(***************************************************************************)
(* The gallery (frontend/app/gallery/page.tsx): a page of the poems of one *)
(* character or of all, newest first, with GET /api/poems behind it, and a *)
(* button on each card that deletes the poem. Poems are also created and   *)
(* deleted elsewhere, and nothing aborts a request that is in flight.      *)
(***************************************************************************)
EXTENDS Integers, Sequences, FiniteSets

CONSTANTS
    Characters,
    All,            \* the filter that shows every character
    PAGE_SIZE,
    MaxPoems,       \* bound: poems ever created
    MaxLoads,       \* bound: lists the page asks for
    MaxDeletes,     \* bound: DELETEs in flight
    MaxFailures     \* bound: requests that fail

ASSUME SizesAssumption ==
    PAGE_SIZE \in Nat \ {0} /\ {MaxPoems, MaxLoads, MaxDeletes, MaxFailures} \subseteq Nat
ASSUME AllAssumption == All \notin Characters

VARIABLES
    \* the server
    poems,      \* the character of each poem ever created, in the order of ids
    gone,       \* the ids of the deleted ones
    \* the page
    character, page,    \* what is asked for
    items,      \* the ids of the cards
    loading,
    lists,      \* GETs in flight
    deletes,    \* DELETEs in flight: the id and the answer
    \* history and bounds
    shown,      \* the request that the cards come from
    loads,      \* how many lists were asked for
    walk,       \* since page 0 was asked for: what the answers have listed
    failures

serverVars == <<poems, gone>>
pageVars == <<character, page, items, loading, lists, deletes>>
vars == <<serverVars, pageVars, shown, loads, walk, failures>>

Ids == 1..Len(poems)
Filters == Characters \cup {All}
Matches(id, f) == f = All \/ poems[id] = f

(* The effect asks for page * PAGE_SIZE, and repository.get_poems answers  *)
(* order_by(id.desc()).limit(limit).offset(offset): the poems that have so *)
(* many newer ones before them.                                            *)
OffsetFromOne(p) == (p + 1) * PAGE_SIZE    \* mutant: pages counted from 1
Offset(p) == p * PAGE_SIZE
Listable(f) == {id \in Ids \ gone : Matches(id, f)}
Rank(id, f) == Cardinality({newer \in Listable(f) : newer > id})
PageOf(f, p) ==
    {id \in Listable(f) : Offset(p) <= Rank(id, f) /\ Rank(id, f) < Offset(p) + PAGE_SIZE}

-----------------------------------------------------------------------------
(* Asking for a list: the effect of [character, page].                     *)

Unanswered == {0}
Request(f, p) == [nr |-> loads + 1, character |-> f, page |-> p, answer |-> Unanswered]

(* A walk begins when page 0 is asked for, with the poems there are then;  *)
(* it is in order as long as its pages are answered one after the other.   *)
NewWalk(f, nr) == [from |-> Listable(f), nr |-> nr,
                   pages |-> 0, listed |-> {}, inOrder |-> TRUE, deletions |-> 0]
Walked(r, found) ==
    [walk EXCEPT !.listed = @ \cup found,
                 !.pages = IF r.page = @ THEN @ + 1 ELSE @,
                 !.inOrder = @ /\ r.page <= walk.pages]

Load(f, p) ==
    /\ loads < MaxLoads
    /\ character' = f
    /\ page' = p
    /\ loading' = TRUE
    /\ lists' = lists \cup {Request(f, p)}
    /\ loads' = loads + 1
    /\ walk' = IF p = 0 THEN NewWalk(f, loads + 1) ELSE walk

(* Poems there are when the page is opened.                                *)
Init ==
    /\ poems \in UNION {[1..n -> Characters] : n \in 0..MaxPoems}
    /\ gone = {}
    /\ character = All /\ page = 0
    /\ items = {}
    /\ loading = TRUE
    /\ loads = 1
    /\ walk = NewWalk(All, 1)
    /\ lists = {[nr |-> 1, character |-> All, page |-> 0, answer |-> Unanswered]}
    /\ deletes = {}
    /\ shown = [nr |-> 0, page |-> 0]
    /\ failures = 0

(* A filter button also goes back to the first page; without a change no   *)
(* effect runs.                                                            *)
PageChanges(f, p) == p # page               \* mutant: the effect of [page]
Changes(f, p) == <<f, p>> # <<character, page>>
Filter(f) ==
    /\ IF Changes(f, 0) THEN Load(f, 0)
       ELSE character' = f /\ UNCHANGED <<page, loading, lists, loads, walk>>
    /\ UNCHANGED <<serverVars, items, deletes, shown, failures>>

(* The pager works while a list is loading, on the cards that were there.  *)
NextPage ==
    /\ Cardinality(items) >= PAGE_SIZE
    /\ Load(character, page + 1)
    /\ UNCHANGED <<serverVars, items, deletes, shown, failures>>

PreviousPage ==
    /\ page > 0
    /\ Load(character, page - 1)
    /\ UNCHANGED <<serverVars, items, deletes, shown, failures>>

-----------------------------------------------------------------------------
(* The list arrives. The answers to two requests may come in any order.    *)

AnswerList(r) ==
    LET found == PageOf(r.character, r.page) IN
    /\ r.answer = Unanswered
    /\ lists' = (lists \ {r}) \cup {[r EXCEPT !.answer = found]}
    /\ walk' = IF r.nr >= walk.nr THEN Walked(r, found) ELSE walk
    /\ UNCHANGED <<serverVars, character, page, items, loading, deletes, shown, loads, failures>>

Show(r, cards) ==
    /\ items' = cards
    /\ lists' = lists \ {r}
    /\ shown' = [nr |-> r.nr, page |-> r.page]
    /\ loading' = FALSE

DeliverList(r) ==
    /\ r.answer # Unanswered
    /\ Show(r, r.answer)
    /\ UNCHANGED <<serverVars, character, page, deletes, loads, walk, failures>>

(* An answer that is not ok, or none: an empty list is shown.              *)
ListFails(r) ==
    /\ failures < MaxFailures
    /\ failures' = failures + 1
    /\ Show(r, {})
    /\ UNCHANGED <<serverVars, character, page, deletes, loads, walk>>

-----------------------------------------------------------------------------
(* Changes of the poems.                                                   *)

DeletePoem(id) ==
    /\ gone' = gone \cup {id}
    /\ walk' = [walk EXCEPT !.deletions = @ + 1]

(* The card's button, when it can be seen, and its confirmation. It works  *)
(* again while the DELETE is in flight; two that are not answered yet are  *)
(* one here.                                                               *)
HandleDelete(id) ==
    /\ ~loading
    /\ id \in items
    /\ Cardinality(deletes) < MaxDeletes
    /\ deletes' = deletes \cup {[id |-> id, status |-> "sent"]}
    /\ UNCHANGED <<serverVars, character, page, items, loading, lists, shown, loads, walk,
                   failures>>

(* A poem that is gone is not found, unless it was still there when the    *)
(* transaction began: then its deletion deletes nothing, and succeeds.     *)
Answered(d, status) == deletes' = (deletes \ {d}) \cup {[d EXCEPT !.status = status]}
AnswerDelete(d) ==
    /\ d.status = "sent"
    /\ \/ d.id \notin gone /\ DeletePoem(d.id) /\ Answered(d, "204")
       \/ /\ d.id \in gone
          /\ \E status \in {"404", "204"} : Answered(d, status)
          /\ UNCHANGED <<gone, walk>>
    /\ UNCHANGED <<poems, character, page, items, loading, lists, shown, loads, failures>>

(* The card goes when the answer is ok, from whatever list is shown then.  *)
DeliverDelete(d) ==
    /\ d.status # "sent"
    /\ items' = IF d.status = "204" THEN items \ {d.id} ELSE items
    /\ deletes' = deletes \ {d}
    /\ UNCHANGED <<serverVars, character, page, loading, lists, shown, loads, walk, failures>>

(* The request or its answer is lost: the card stays.                      *)
DeleteFails(d) ==
    /\ failures < MaxFailures
    /\ failures' = failures + 1
    /\ deletes' = deletes \ {d}
    /\ UNCHANGED <<serverVars, character, page, items, loading, lists, shown, loads, walk>>

(* In other tabs.                                                          *)
CreateElsewhere(c) ==
    /\ Len(poems) < MaxPoems
    /\ poems' = Append(poems, c)
    /\ UNCHANGED <<gone, pageVars, shown, loads, walk, failures>>

DeleteElsewhere(id) ==
    /\ id \notin gone
    /\ DeletePoem(id)
    /\ UNCHANGED <<poems, pageVars, shown, loads, failures>>

-----------------------------------------------------------------------------
Next ==
    \/ \E f \in Filters : Filter(f)
    \/ NextPage \/ PreviousPage
    \/ \E r \in lists : AnswerList(r) \/ DeliverList(r) \/ ListFails(r)
    \/ \E id \in Ids : HandleDelete(id) \/ DeleteElsewhere(id)
    \/ \E d \in deletes : AnswerDelete(d) \/ DeliverDelete(d) \/ DeleteFails(d)
    \/ \E c \in Characters : CreateElsewhere(c)

Spec == Init /\ [][Next]_vars
-----------------------------------------------------------------------------
(* Properties.                                                             *)

(* Whoever turns the pages from the first one, and whose requests are      *)
(* answered in that order, misses no more poems than were deleted since,   *)
(* here or elsewhere: each deletion moves one poem from the page that is   *)
(* next to the one that was read. Poems created meanwhile hide none.       *)
Missed == {id \in walk.from \ gone :
              id \notin walk.listed /\ \E older \in walk.listed : older < id}
MissesAreDeletions == walk.inOrder => Cardinality(Missed) <= walk.deletions

(* When nothing is loading any more, the cards are of the character and    *)
(* the page that the buttons show, unless an older list was overtaken by   *)
(* the last one that was asked for, and has replaced it.                   *)
ShownIsCurrent ==
    (lists = {} /\ shown.nr = loads) =>
        shown.page = page /\ \A id \in items : Matches(id, character)
=============================================================================
