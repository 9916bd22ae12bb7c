------------------------------- MODULE Offers -------------------------------
(***************************************************************************)
(* What the API offers, image models and spoken languages, and what the    *)
(* workers make of it. Each worker is a container of its own, and the two  *)
(* share no state here: a behaviour follows one of them, and the other one *)
(* stays as a fresh installation has it.                                   *)
(***************************************************************************)
EXTENDS SpeechSynthesis

CONSTANTS
    Checkpoints, Builtin, DefaultOf, Unset,     \* of ImageModels
    Images, MaxListed, MaxChanges, MaxFailures

VARIABLES
    container,  \* the worker that is followed
    env, api, worker, listed, image, attempt, offered, used, changes, failures

imageVars == <<env, api, worker, listed, image, attempt, offered, used, changes, failures>>

Models == INSTANCE ImageModels

ASSUME ModelsConstants == Models!ModelsAssumption

FreshSpeech ==
    /\ apiSettings = [backend |-> "piper", voicevox |-> FALSE] /\ workerSettings = apiSettings
    /\ \A a \in Audios : lang[a] = "en"
    /\ audio = CHOOSE a \in Audios : TRUE
    /\ \A f \in VoiceFiles : disk[f] = "none"
FreshModels ==
    /\ env = [SD_CHECKPOINT |-> Unset, SD_MODEL_TYPE |-> "sd15", SD_MODELS |-> <<>>]
    /\ \A i \in Images : image[i] = Models!NoRow

OffersInit ==
    /\ Init /\ Models!Init
    /\ \/ container = "worker-gpu" /\ FreshSpeech
       \/ container = "worker-tts" /\ FreshModels

WorkerGpu == container = "worker-gpu" /\ Models!Next /\ UNCHANGED <<container, vars>>
WorkerTts == container = "worker-tts" /\ Next /\ UNCHANGED <<container, imageVars>>
OffersNext == WorkerGpu \/ WorkerTts

OffersSpec ==
    /\ OffersInit /\ [][OffersNext]_<<container, vars, imageVars>>
    /\ container = "worker-tts" => Fairness
-----------------------------------------------------------------------------
(* What the API offers to have spoken is spoken in the end, or given up    *)
(* for a reason, as in SpeechSynthesis, by the worker for audio.           *)
OfferedAreSpoken == container = "worker-tts" => AdvertisedAreSpoken

(* The name that was chosen for an image is the one that is rendered.      *)
PinnedStays == Models!PinnedStays

(* An image is rendered by the type its checkpoint was offered with.       *)
RenderedAsOffered == Models!RenderedAsOffered
=============================================================================
