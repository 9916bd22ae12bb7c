---------------------------- MODULE PoemPolling ----------------------------
(***************************************************************************)
(* The home page (frontend/app/page.tsx): it posts a generation request,   *)
(* shows the poem it is answered with, and polls GET /api/poems/{id} until *)
(* the poem's assets are done or failed (poem-utils.ts). The server is the *)
(* life cycle that JobPipeline implements.                                 *)
(*                                                                         *)
(* JavaScript runs one callback at a time: a step of the page is one       *)
(* callback, or one flush of the effects after a render.                   *)
(***************************************************************************)
EXTENDS Integers, Sequences, FiniteSets, SequencesExt

CONSTANTS
    Poems,          \* the poems the API may create
    Kinds,          \* the kinds of asset a poem has
    MaxChanges,     \* bound: server side changes, of all poems together
    MaxFailures,    \* bound: polls that fail
    MaxPosts,       \* bound: generation requests waiting for their poem
    Deletable       \* the poems somebody may delete

ASSUME BoundsAssumption == MaxChanges \in Nat /\ MaxFailures \in Nat /\ MaxPosts \in Nat
ASSUME KindsAssumption == Kinds # {}               \* a poem without assets is never polled
ASSUME DeletableAssumption == Deletable \subseteq Poems
ASSUME PoemsAssumption == "none" \notin Poems      \* they are numbers

VARIABLES
    \* the server
    status, url,    \* what AssetLifecycle shows of each asset
    version,        \* per poem: how often its assets have changed
    \* the page
    loading,        \* the React state: disables the form's button
    sent,           \* how many POSTs have no poem yet
    created,        \* the poems whose POST is not answered yet
    generated,      \* the answers to POSTs on their way to the page
    poem,           \* the React state: the poem shown, as its last answer has it
    effect,         \* whether the effect has run for that state
    timers,         \* the poems whose poll is scheduled
    polls,          \* GETs in flight: the poem and the answer, once there is one
    \* history and bounds
    seen,           \* per poem: the latest version that was shown
    failures        \* how many polls failed

serverVars == <<status, url, version>>
postVars == <<loading, sent, created, generated>>
pageVars == <<postVars, poem, effect, timers, polls>>
vars == <<serverVars, pageVars, seen, failures>>

Assets == Poems \X Kinds
Server == INSTANCE AssetLifecycle

(* Where there is no poem, or no answer yet.                               *)
None == [id |-> "none"]
Unanswered == [id |-> "unanswered"]

(* What the API answers for p at this moment (main._detail). An asset that *)
(* is gone is not in the answer's lists.                                   *)
Detail(p) == [id |-> p, assets |-> [k \in Kinds |-> status[<<p, k>>]],
              version |-> version[p]]
Exists(p) == \E k \in Kinds : status[<<p, k>>] \notin {"new", "gone"}

(* poem-utils.ts                                                           *)
TERMINAL_STATUSES == {"done", "failed"}
NotPending(s) == s # "pending"              \* mutant: running is final, too
IsTerminal(s) == s \in TERMINAL_STATUSES
Listed(d) == {k \in Kinds : d.assets[k] # "gone"}
HasPendingAssets(d) == \E k \in Listed(d) : ~IsTerminal(d.assets[k])

Init ==
    /\ Server!Init
    /\ version = [p \in Poems |-> 0]
    /\ loading = FALSE /\ sent = 0 /\ created = {} /\ generated = {}
    /\ poem = None
    /\ effect = "ran"
    /\ timers = {}
    /\ polls = <<>>
    /\ seen = [p \in Poems |-> 0]
    /\ failures = 0

-----------------------------------------------------------------------------
(* The server: the workers and a deletion change the assets of p.          *)

Change(p) ==
    /\ SumFunction(version) < MaxChanges
    /\ version' = [version EXCEPT ![p] = @ + 1]
    /\ UNCHANGED <<pageVars, seen, failures>>

Work(p) == Change(p) /\ \E k \in Kinds : LET a == <<p, k>> IN
    Server!Begin(a) \/ Server!Succeed(a) \/ Server!Retry(a) \/ Server!GiveUp(a)

DeletePoem(p) == Change(p) /\ p \in Deletable /\ Exists(p) /\ Server!Delete({p} \X Kinds)

-----------------------------------------------------------------------------
(* generate(). The form's button is disabled while `loading`, but whichever*)
(* POST ends first enables it again; the regenerate button never is. So    *)
(* several POSTs may be in flight, and their answers overtake each other.  *)

SetPoem(d) ==
    /\ poem' = d
    /\ effect' = "due"
    /\ seen' = IF d = None \/ seen[d.id] > d.version THEN seen
               ELSE [seen EXCEPT ![d.id] = d.version]

Generate ==
    /\ sent < MaxPosts
    /\ sent' = sent + 1
    /\ loading' = TRUE
    /\ SetPoem(None)
    /\ UNCHANGED <<serverVars, created, generated, timers, polls, failures>>

Submit == ~loading /\ Generate

(* Next to an image that has failed. A late answer to a poll may show one  *)
(* while a POST is in flight.                                              *)
Regenerate ==
    /\ poem # None /\ "image" \in Kinds
    /\ poem.assets["image"] = "failed"
    /\ Generate

(* The API commits the poem with its pending assets (persist_poem), ...    *)
CreatePoem(p) ==
    /\ sent > 0
    /\ Server!Create({p} \X Kinds)
    /\ sent' = sent - 1
    /\ created' = created \cup {p}
    /\ UNCHANGED <<version, loading, generated, poem, effect, timers, polls, seen, failures>>

(* ... enqueues their jobs, and reads the assets for its answer: a worker  *)
(* may have begun by then, or the poem may have been deleted.              *)
AnswerGenerate(p) ==
    /\ p \in created
    /\ created' = created \ {p}
    /\ generated' = generated \cup {Detail(p)}
    /\ UNCHANGED <<serverVars, loading, sent, poem, effect, timers, polls, seen, failures>>

ShowGenerated ==
    /\ \E d \in generated : SetPoem(d) /\ generated' = generated \ {d}
    /\ loading' = FALSE
    /\ UNCHANGED <<serverVars, sent, created, timers, polls, failures>>

(* The API refuses a request, or fails before or after it has created the  *)
(* poem, or its answer is lost; the error is shown, and the poem stays.    *)
GenerateFails ==
    /\ \/ sent > 0 /\ sent' = sent - 1 /\ UNCHANGED <<created, generated>>
       \/ \E p \in created : created' = created \ {p} /\ UNCHANGED <<sent, generated>>
       \/ \E d \in generated : generated' = generated \ {d} /\ UNCHANGED <<sent, created>>
    /\ loading' = FALSE
    /\ UNCHANGED <<serverVars, poem, effect, timers, polls, seen, failures>>

-----------------------------------------------------------------------------
(* The polling effect.                                                     *)

(* After a render with another poem state: the old timer is cleared, and a *)
(* new one is set when something is pending.                               *)
RunEffect ==
    /\ effect = "due"
    /\ effect' = "ran"
    /\ timers' = IF poem # None /\ HasPendingAssets(poem) THEN {poem.id} ELSE {}
    /\ UNCHANGED <<serverVars, postVars, poem, polls, seen, failures>>

(* setTimeout fires once; setInterval would go on.                         *)
FireRepeatedly(p) == timers                 \* mutant: setInterval
TimersAfter(p) == timers \ {p}

FireTimer(p) ==
    /\ p \in timers
    /\ timers' = TimersAfter(p)
    /\ polls' = Append(polls, [id |-> p, answer |-> Unanswered])
    /\ UNCHANGED <<serverVars, postVars, poem, effect, seen, failures>>

AnswerPoll(n) ==
    /\ polls[n].answer = Unanswered
    /\ Exists(polls[n].id)
    /\ polls' = [polls EXCEPT ![n].answer = Detail(polls[n].id)]
    /\ UNCHANGED <<serverVars, postVars, poem, effect, timers, seen, failures>>

(* The answer arrives: answers to different polls may overtake each other. *)
DeliverPoll(n) ==
    /\ polls[n].answer # Unanswered
    /\ SetPoem(polls[n].answer)
    /\ polls' = RemoveAt(polls, n)
    /\ UNCHANGED <<serverVars, postVars, timers, failures>>

(* The answer is not ok: the poem is gone. setPoem is not called.          *)
PollNotFound(n) ==
    /\ ~Exists(polls[n].id)
    /\ polls[n].answer = Unanswered
    /\ polls' = RemoveAt(polls, n)
    /\ UNCHANGED <<serverVars, postVars, poem, effect, timers, seen, failures>>

(* fetch or json() throws, or the answer is a 5xx: likewise.               *)
PollFails(n) ==
    /\ failures < MaxFailures
    /\ failures' = failures + 1
    /\ polls' = RemoveAt(polls, n)
    /\ UNCHANGED <<serverVars, postVars, poem, effect, timers, seen>>

-----------------------------------------------------------------------------
Poll(n) == AnswerPoll(n) \/ DeliverPoll(n) \/ PollNotFound(n)
Page == RunEffect \/ ShowGenerated \/ \E p \in Poems : FireTimer(p)

Next ==
    \/ Page
    \/ Submit \/ Regenerate \/ GenerateFails
    \/ \E p \in Poems : CreatePoem(p) \/ AnswerGenerate(p) \/ Work(p) \/ DeletePoem(p)
    \/ \E n \in 1..Len(polls) : Poll(n) \/ PollFails(n)

Spec == Init /\ [][Next]_vars

(* The event loop runs what is ready, and every GET is answered or, within *)
(* the bound, fails: the first of those in flight makes progress, and so   *)
(* each of them gets to be the first. Nothing is assumed of the user or of *)
(* the workers.                                                            *)
Fairness ==
    /\ WF_vars(RunEffect)
    /\ \A p \in Poems : WF_vars(FireTimer(p))
    /\ WF_vars(polls # <<>> /\ Poll(1))
FairSpec == Spec /\ Fairness
-----------------------------------------------------------------------------
(* Properties.                                                             *)

Details == [id : Poems, assets : [Kinds -> {"pending", "running", "done", "failed", "gone"}],
            version : 0..MaxChanges]

(* Every variable holds a value of its kind, and the page shows a poem only*)
(* as the API has described it.                                            *)
TypeOK ==
    /\ Server!TypeOK
    /\ version \in [Poems -> 0..MaxChanges]
    /\ loading \in BOOLEAN /\ sent \in 0..MaxPosts
    /\ created \subseteq Poems /\ generated \subseteq Details
    /\ poem \in Details \cup {None}
    /\ effect \in {"due", "ran"}
    /\ timers \subseteq Poems
    /\ polls \in Seq([id : Poems, answer : Details \cup {Unanswered}])
    /\ seen \in [Poems -> 0..MaxChanges]
    /\ failures \in 0..MaxFailures

(* A poem has at most one poll, scheduled or in flight, although nothing   *)
(* aborts a GET whose poem is no longer shown: the timer is one-shot and   *)
(* only the answer to the last poll schedules the next one.                *)
OnePollPerPoem ==
    \A p \in Poems :
        LET inFlight == {n \in 1..Len(polls) : polls[n].id = p} IN
        Cardinality(inFlight) <= (IF p \in timers THEN 0 ELSE 1)

(* The page never goes back to an older state of a poem than it has shown, *)
(* in whatever order the answers arrive.                                   *)
NoStepBack ==
    [][poem'.id \in Poems => poem'.version >= seen[poem'.id]]_poem

(* What is shown as done is done: the url the page renders belongs to an   *)
(* asset that can only have been deleted since.                            *)
ShownDoneIsDone ==
    poem # None => \A k \in Kinds : poem.assets[k] = "done" =>
                      status[<<poem.id, k>>] \in {"done", "gone"}

(* The page polls until every asset is done or failed, as docs/API.md has  *)
(* it: once the assets of all poems stay settled, the page comes to show   *)
(* none that is not. What ends the polling early is a poll that failed or  *)
(* did not find the poem.                                                  *)
Settled(p) == \A k \in Kinds : status[<<p, k>>] \notin Server!Unsettled
ShownSettled == poem # None => \A k \in Kinds : poem.assets[k] \notin Server!Unsettled
StaysSettled == <>[](\A p \in Poems : Settled(p))
PollsWhileAnswered ==
    StaysSettled => <>[](ShownSettled \/ failures > 0 \/ ~Exists(poem.id))

-----------------------------------------------------------------------------
(* What the documentation says and the code does not do.                   *)

(* "keep state; retry next tick" (page.tsx), until every asset is done or  *)
(* failed (docs/API.md): a poll that fails is the last one.                *)
PollsUntilSettled == StaysSettled => <>[]ShownSettled
=============================================================================
