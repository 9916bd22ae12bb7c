---------------------------- MODULE ImageModels ----------------------------
(***************************************************************************)
(* Which checkpoint an image is rendered with, and by which workflow       *)
(* (image_models.py): the page lists what the API offers, the API pins the *)
(* name that was chosen to the image row, and the worker looks its type up *)
(* again. API and worker read the same .env, each when its container       *)
(* starts, and nobody keeps a list for the other.                          *)
(***************************************************************************)
EXTENDS Integers, FiniteSets

CONSTANTS
    Checkpoints,    \* the names there are
    Builtin,        \* _BUILTIN: the type of some of them
    DefaultOf,      \* per type: the built-in checkpoint that is its default
    Unset,          \* no SD_CHECKPOINT, or NULL in a row
    Images,
    MaxListed,      \* bound: entries of SD_MODELS
    MaxChanges,     \* bound: changes of .env
    MaxFailures     \* bound: failing renders

ModelTypes == {"sd15", "sdxl"}

(* What is assumed of them.                                                *)
ModelsAssumption ==
    /\ Unset \notin Checkpoints
    /\ DOMAIN Builtin \subseteq Checkpoints
    /\ DefaultOf \in [ModelTypes -> DOMAIN Builtin]
    /\ \A t \in ModelTypes : Builtin[DefaultOf[t]] = t
    /\ {MaxListed, MaxChanges, MaxFailures} \subseteq Nat

VARIABLES
    env,        \* .env
    api,        \* what the API was started with
    worker,     \* what the worker was started with
    listed,     \* the answer of GET /api/models that the page works with
    image,      \* the image rows
    attempt,    \* the render the worker is at, not committed yet
    offered,    \* history, per image: settings and type the page's list is from
    used,       \* history, per image: what the worker that rendered it had
    changes, failures

vars == <<env, api, worker, listed, image, attempt, offered, used, changes, failures>>

Lists == UNION {[S -> ModelTypes] : S \in {T \in SUBSET Checkpoints : Cardinality(T) <= MaxListed}}
Settings == [SD_CHECKPOINT : Checkpoints \cup {Unset}, SD_MODEL_TYPE : ModelTypes,
             SD_MODELS : Lists]

NoList == [default |-> Unset]
NoRow == [status |-> "absent", checkpoint |-> Unset, type |-> "none"]
OldRow == [NoRow EXCEPT !.status = "pending"]   \* of a version without model choice
NoAttempt == [image |-> "none"]
NoOffer == [type |-> "none"]

-----------------------------------------------------------------------------
(* image_models.py                                                         *)

default_name(e) ==
    IF e.SD_CHECKPOINT # Unset THEN e.SD_CHECKPOINT ELSE DefaultOf[e.SD_MODEL_TYPE]

(* SD_MODELS may say otherwise of a built-in, and both go before what      *)
(* SD_MODEL_TYPE says of the default.                                      *)
Update(models, more) ==
    [name \in DOMAIN models \cup DOMAIN more |->
        IF name \in DOMAIN more THEN more[name] ELSE models[name]]
Configured(e) == Update(Builtin, e.SD_MODELS)
OfDefault(e) == [name \in {default_name(e)} |-> e.SD_MODEL_TYPE]

DefaultFirst(models, e) == Update(models, OfDefault(e))     \* mutant
WithDefault(models, e) == Update(OfDefault(e), models)
catalog(e) == WithDefault(Configured(e), e)

Allowed(name, e) == name \in DOMAIN catalog(e)

-----------------------------------------------------------------------------
Init ==
    /\ env \in Settings /\ api = env /\ worker = env
    /\ listed = NoList
    /\ image \in [Images -> {NoRow, OldRow}]
    /\ attempt = NoAttempt
    /\ offered = [i \in Images |-> NoOffer]
    /\ used = [i \in Images |-> env]
    /\ changes = 0 /\ failures = 0

(* Someone edits one of the settings.                                      *)
Configure(e) ==
    /\ changes < MaxChanges
    /\ Cardinality({field \in DOMAIN e : e[field] # env[field]}) = 1
    /\ changes' = changes + 1
    /\ env' = e
    /\ UNCHANGED <<api, worker, listed, image, attempt, offered, used, failures>>

StartApi ==
    /\ api' = env
    /\ UNCHANGED <<env, worker, listed, image, attempt, offered, used, changes, failures>>

(* Crashed or stopped, the worker forgets the render it was at.            *)
StartWorker ==
    /\ worker' = env
    /\ attempt' = NoAttempt
    /\ UNCHANGED <<env, api, listed, image, offered, used, changes, failures>>

(* GET /api/models, once per visit of the page.                            *)
ListModels ==
    /\ listed' = [default |-> default_name(api), models |-> catalog(api), from |-> api]
    /\ UNCHANGED <<env, api, worker, image, attempt, offered, used, changes, failures>>

(* POST /api/generate with a name from the list or, if there is none,      *)
(* without a name, for the default. A name that the API does not allow any *)
(* more is answered with 422, and nothing is stored.                       *)
Choices == IF listed = NoList THEN {Unset} ELSE DOMAIN listed.models

Generate(i, choice) ==
    LET name == IF choice = Unset THEN default_name(api) ELSE choice IN
    /\ image[i] = NoRow
    /\ Allowed(name, api)
    /\ image' = [image EXCEPT ![i] = [OldRow EXCEPT !.checkpoint = name]]
    /\ offered' = [offered EXCEPT ![i] =
                     IF choice = Unset THEN [type |-> catalog(api)[name], from |-> api]
                     ELSE [type |-> listed.models[choice], from |-> listed.from]]
    /\ UNCHANGED <<env, api, worker, listed, attempt, used, changes, failures>>

-----------------------------------------------------------------------------
(* make_comfyui_processor                                                  *)

FallbackFirst(row) == default_name(worker)  \* mutant: the row is not asked
NameFor(row) == IF row.checkpoint # Unset THEN row.checkpoint ELSE default_name(worker)

(* A name that is not allowed here is rendered all the same.               *)
TypeFor(name) == IF Allowed(name, worker) THEN catalog(worker)[name] ELSE worker.SD_MODEL_TYPE

Render(i) ==
    /\ attempt = NoAttempt
    /\ image[i].status = "pending"
    /\ LET name == NameFor(image[i])
       IN attempt' = [image |-> i, checkpoint |-> name, type |-> TypeFor(name)]
    /\ UNCHANGED <<env, api, worker, listed, image, offered, used, changes, failures>>

(* The commit after the attempt, failed or not, writes what it recorded.   *)
Commit(status) ==
    /\ attempt # NoAttempt
    /\ image' = [image EXCEPT ![attempt.image] =
                   [status |-> status, checkpoint |-> attempt.checkpoint, type |-> attempt.type]]
    /\ attempt' = NoAttempt
    /\ UNCHANGED <<env, api, worker, listed, offered, changes>>

RenderSucceeds ==
    /\ Commit("done")
    /\ used' = [used EXCEPT ![attempt.image] = worker]
    /\ UNCHANGED failures

RenderFails ==
    /\ failures < MaxFailures
    /\ failures' = failures + 1
    /\ Commit("pending")
    /\ UNCHANGED used

Next ==
    \/ \E e \in Settings : Configure(e)
    \/ StartApi \/ StartWorker \/ ListModels
    \/ \E i \in Images : Render(i) \/ \E choice \in Choices : Generate(i, choice)
    \/ RenderSucceeds \/ RenderFails

Spec == Init /\ [][Next]_vars
-----------------------------------------------------------------------------
(* Properties.                                                             *)

(* The name that was chosen is rendered, however often the attempts fail   *)
(* and whatever default the worker has been given meanwhile; a row without *)
(* a name keeps the one that its first committed attempt had.              *)
PinnedStays ==
    [][\A i \in Images : image[i].checkpoint # Unset =>
                            image'[i].checkpoint = image[i].checkpoint]_vars

(* It is rendered by the type that the page was offered it with, if API    *)
(* and worker had the same settings, or other ones that say the same of    *)
(* this checkpoint: only SD_MODELS and the built-in list do, SD_MODEL_TYPE *)
(* speaks of whatever is the default then.                                 *)
Says(e, name) ==
    IF name \in DOMAIN Configured(e) THEN {Configured(e)[name]} ELSE {}

RenderedAsOffered ==
    \A i \in Images :
        LET name == image[i].checkpoint
            before == offered[i].from
        IN image[i].status = "done" /\ offered[i] # NoOffer
             /\ (before = used[i] \/ (Says(before, name) = Says(used[i], name) /\ Says(before, name) # {}))
           => image[i].type = offered[i].type
=============================================================================
