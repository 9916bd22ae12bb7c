---------------------------- MODULE OffersProofs ----------------------------
(***************************************************************************)
(* The theorems about Offers: the speech worker for any audios, faults and *)
(* damaged files, the image models for any checkpoints, built-in list and  *)
(* settings.                                                               *)
(***************************************************************************)
EXTENDS Offers, TLAPS

-----------------------------------------------------------------------------
(* The invariant of the speech worker.                                     *)

(* A model on the volume has its whole size only when it was verified; one *)
(* that is about to be read is there.                                      *)
Fetched == {"fetchConfig", "installConfig", "read"}
VoiceKept ==
    /\ disk["model"] \in {"none", "short", "whole"}
    /\ voice \in {"none", "whole"}
    /\ pc \in Fetched => disk["model"] = "whole"
    /\ pc = "piper" => voice = "whole"

(* Whoever speaks knows the language, of a text not spoken yet.            *)
InHand ==
    /\ pc # "idle" => audio \in Audios /\ audio \notin spoken
    /\ pc \in {"load", "fetchModel", "installModel", "piper"} \cup Fetched =>
          lang[audio] \in PIPER_LANGS /\ Engine(audio) = "piper"
    /\ pc = "xtts" => lang[audio] \in XTTS_LANGS
    /\ pc = "voicevox" => lang[audio] = "ja"

SpeechTyped ==
    /\ workerSettings \in Settings
    /\ lang \in [Audios -> {"en", "ja"}]
    /\ pc \in {"idle", "load", "fetchModel", "installModel"} \cup Fetched \cup Engines
    /\ DOMAIN disk = VoiceFiles /\ DOMAIN part = VoiceFiles
    /\ DOMAIN wav = Audios
    /\ spoken \subseteq Audios /\ failed \subseteq Audios
    /\ attempts \in [Audios -> Nat] /\ faults \in Nat

(* A config takes its place as it arrived, and is there when it is read.   *)
ConfigKept ==
    /\ disk["config"] \in {"none"} \cup Contents
    /\ pc = "installConfig" => part["config"] \in Contents
    /\ pc = "read" => disk["config"] # "none"

(* Only an incomplete pair is fetched.                                     *)
FetchedForCause ==
    pc \in {"fetchModel", "installModel"} =>
        disk["model"] # "whole" \/ disk["config"] = "none"

(* Every attempt that failed goes back to a fault of its own, which is     *)
(* counted before the attempt when a model arrives damaged, unless Piper is*)
(* stuck.                                                                  *)
Rejected == pc = "installModel" /\ part["model"] # "whole"
AttemptsAreFaults ==
    \A a \in Audios :
        \/ Engine(a) = "piper" /\ Stuck
        \/ attempts[a] + (IF a = audio /\ Rejected THEN 1 ELSE 0) <= faults

(* What was given up had its retries, or nobody for its language.          *)
RetriesUsed ==
    \A a \in failed : \/ lang[a] \notin SupportedAudioLangs(workerSettings)
                      \/ attempts[a] > MaxRetries

SpeechInv == /\ SpeechTyped /\ VoiceKept /\ InHand /\ SpokenWell
             /\ ConfigKept /\ FetchedForCause /\ AttemptsAreFaults /\ RetriesUsed

-----------------------------------------------------------------------------
(* The invariant of the image models.                                      *)

ModelSettings(e) ==
    /\ e.SD_CHECKPOINT \in Checkpoints \cup {Unset}
    /\ e.SD_MODEL_TYPE \in Models!ModelTypes
    /\ DOMAIN e.SD_MODELS \subseteq Checkpoints

(* What a worker with the settings e renders a checkpoint as.              *)
TypeWith(e, name) ==
    IF Models!Allowed(name, e) THEN Models!catalog(e)[name] ELSE e.SD_MODEL_TYPE

(* The attempt under way has the name that the row pins, and the type that *)
(* the worker's settings give it.                                          *)
AttemptKept ==
    attempt # Models!NoAttempt =>
        /\ attempt.image \in Images
        /\ attempt.checkpoint \in Checkpoints
        /\ attempt.type = TypeWith(worker, attempt.checkpoint)
        /\ image[attempt.image].status = "pending"
        /\ image[attempt.image].checkpoint \in {Unset, attempt.checkpoint}

(* What the page was offered is the catalog of some settings, and what was *)
(* chosen from it is pinned; a finished render has the type that the       *)
(* settings of its worker gave it.                                         *)
OffersKept ==
    /\ listed # Models!NoList => listed.models = Models!catalog(listed.from)
    /\ \A i \in Images :
          LET name == image[i].checkpoint IN
          /\ offered[i] # Models!NoOffer =>
                /\ name \in Checkpoints
                /\ name \in DOMAIN Models!catalog(offered[i].from)
                /\ offered[i].type = Models!catalog(offered[i].from)[name]
          /\ image[i].status = "done" => image[i].type = TypeWith(used[i], name)
          /\ image[i].status = "absent" => name = Unset

ModelsTyped ==
    /\ DOMAIN image = Images /\ DOMAIN offered = Images /\ DOMAIN used = Images
    /\ \A i \in Images : /\ image[i].status \in {"absent", "pending", "done"}
                         /\ image[i].checkpoint \in Checkpoints \cup {Unset}
    /\ \A e \in {env, api, worker} : ModelSettings(e)

ModelsInv == ModelsTyped /\ AttemptKept /\ OffersKept
Inv == SpeechInv /\ ModelsInv

-----------------------------------------------------------------------------
(* The speech worker.                                                      *)

(* A fresh worker, on a volume that an older version may have left.        *)
LEMMA SpeechInit == Init => SpeechInv
<1> SUFFICES ASSUME Init PROVE SpeechInv
  OBVIOUS
<1>1. SpeechTyped /\ VoiceKept /\ InHand /\ SpokenWell /\ ConfigKept /\ FetchedForCause
  BY DEF Init, SpeechTyped, VoiceKept, InHand, SpokenWell, ConfigKept, FetchedForCause, Fetched,
     Engines, VoiceFiles, Contents
<1>2. AttemptsAreFaults /\ RetriesUsed
  BY DEF Init, AttemptsAreFaults, Rejected, RetriesUsed
<1> QED BY <1>1, <1>2 DEF SpeechInv

(* Which file a download is about.                                         *)
LEMMA Downloads ==
    /\ Download("model").fetch = "fetchModel" /\ Download("model").install = "installModel"
    /\ Download("model").next = "fetchConfig"
    /\ Download("config").fetch = "fetchConfig" /\ Download("config").install = "installConfig"
    /\ Download("config").next = "read"
  BY DEF Download

(* A step uses up retries as its outcome has it: none, one of the audio at *)
(* hand, or all of one whose language nobody speaks.                       *)
LEMMA RetriesStep ==
    ASSUME SpeechTyped, InHand, Next
    PROVE  /\ faults' \in {faults, faults + 1}
           /\ \/ UNCHANGED jobVars
              \/ pc # "idle" /\ Raise
              \/ /\ attempts' = attempts /\ pc' = "idle"
                 /\ \E a \in Audios : /\ failed' = failed \cup {a}
                                      /\ lang[a] \notin SupportedAudioLangs(workerSettings)
<1>1. faults' \in {faults, faults + 1}
  BY DEF Next, Step, Synthesize, Load, Fetch, Arrive, Install, FetchFails, ReadVoice, Open, Speak,
     EngineFails, Crash, Fault
<1>2. ASSUME NEW a \in Audios, Synthesize(a)
      PROVE  \/ UNCHANGED jobVars
             \/ /\ attempts' = attempts /\ pc' = "idle" /\ failed' = failed \cup {a}
                /\ lang[a] \notin SupportedAudioLangs(workerSettings)
  <2>1. /\ lang[a] \in {"en", "ja"} /\ workerSettings.backend \in {"piper", "xtts"}
        /\ workerSettings.voicevox \in BOOLEAN
    BY DEF SpeechTyped, Settings
  <2>2. Engine(a) = "piper" /\ ~HasProfile(a) => lang[a] \notin SupportedAudioLangs(workerSettings)
    BY <2>1 DEF Engine, HasProfile, SupportedAudioLangs, PIPER_LANGS
  <2> QED BY <1>2, <2>2 DEF Synthesize
<1>3. ASSUME Step \/ (\E f \in VoiceFiles : FetchFails(f)) \/ EngineFails \/ Crash
      PROVE  UNCHANGED jobVars \/ (pc # "idle" /\ Raise)
  <2>1. ASSUME NEW f \in VoiceFiles, Install(f) \/ FetchFails(f)
        PROVE  UNCHANGED jobVars \/ (pc # "idle" /\ Raise)
    BY <2>1, Downloads DEF Install, FetchFails, VoiceFiles
  <2>2. CASE ReadVoice \/ EngineFails
    BY <2>2 DEF ReadVoice, EngineFails, Engines
  <2>3. ASSUME NEW f \in VoiceFiles, Fetch(f) \/ Arrive(f)
        PROVE  UNCHANGED jobVars
    BY <2>3 DEF Fetch, Arrive
  <2>4. CASE Load \/ Open \/ Speak \/ Crash
    BY <2>4 DEF Load, Open, Speak, Crash
  <2> QED BY <1>3, <2>1, <2>2, <2>3, <2>4 DEF Step
<1> QED BY <1>1, <1>2, <1>3 DEF Next

(* Each step of the worker keeps its files and its text in order.          *)
LEMMA SpeechKept ==
    ASSUME SpeechTyped, VoiceKept, InHand, FetchedForCause, Next
    PROVE  SpeechTyped' /\ VoiceKept' /\ InHand' /\ FetchedForCause'
<1> DEFINE Kept == /\ workerSettings' = workerSettings /\ lang' = lang
                   /\ \A a : Engine(a)' = Engine(a)
<1>1. Kept
  <2>1. workerSettings' = workerSettings /\ lang' = lang
    BY DEF Next, Step, Synthesize, Load, Fetch, Arrive, Install, FetchFails, ReadVoice, Open, Speak,
       EngineFails, Crash, settings
  <2> QED BY <2>1 DEF Engine
<1>2. attempts' \in [Audios -> Nat] /\ failed' \subseteq Audios /\ faults' \in Nat
  <2>1. pc # "idle" => audio \in Audios
    BY DEF InHand
  <2> QED BY <2>1, RetriesStep DEF SpeechTyped, Raise, jobVars
<1>3. DOMAIN part' = VoiceFiles
  BY DEF SpeechTyped, Next, Step, Synthesize, Load, Fetch, Arrive, Install, FetchFails, ReadVoice,
     Open, Speak, EngineFails, Crash, fileVars
<1> DEFINE Ordered ==
       /\ pc' \in {"idle", "load", "fetchModel", "installModel"} \cup Fetched \cup Engines
       /\ DOMAIN disk' = VoiceFiles /\ DOMAIN wav' = Audios /\ spoken' \subseteq Audios
       /\ VoiceKept' /\ InHand' /\ FetchedForCause'
<1> USE DEF SpeechTyped, VoiceKept, InHand, FetchedForCause, Goto, Fetched, Engines, VoiceFiles
<1>4. ASSUME NEW a \in Audios, Synthesize(a) PROVE Ordered
  <2>1. lang[a] \in {"en", "ja"} /\ workerSettings.backend \in {"piper", "xtts"}
    BY DEF Settings
  <2>2. \/ pc' = "xtts"
        \/ pc' = "voicevox" /\ lang[a] = "ja"
        \/ pc' = "load" /\ lang[a] \in PIPER_LANGS /\ Engine(a) = "piper"
        \/ pc' = "idle"
    BY <1>4, <2>1 DEF Synthesize, Engine, HasProfile
  <2>3. audio' = a /\ a \notin spoken /\ UNCHANGED <<disk, voice, wav, spoken>>
    BY <1>4 DEF Synthesize, fileVars
  <2> QED BY <1>1, <2>1, <2>2, <2>3 DEF XTTS_LANGS
<1>5. ASSUME Load PROVE Ordered
  <2>1. /\ pc = "load"
        /\ \/ pc' = "piper" /\ voice = "whole"
           \/ pc' = "read" /\ disk["model"] = "whole"
           \/ pc' = "fetchModel" /\ (disk["model"] # "whole" \/ disk["config"] = "none")
        /\ UNCHANGED <<audio, disk, voice, wav, spoken>>
    BY <1>5 DEF Load, CachedOk, fileVars
  <2> QED BY <1>1, <2>1
<1>6. ASSUME NEW f \in VoiceFiles, Fetch(f) \/ Arrive(f) \/ FetchFails(f)
      PROVE  Ordered
  <2>0. UNCHANGED <<audio, disk, voice, wav, spoken>>
    BY <1>6 DEF Fetch, Arrive, FetchFails
  <2>1. CASE f = "model"
    <3>1. pc = "fetchModel" /\ pc' \in {"fetchModel", "installModel", "idle"}
      BY <1>6, <2>1, Downloads DEF Fetch, Arrive, FetchFails, Raise
    <3> QED BY <1>1, <2>0, <3>1
  <2>2. CASE f = "config"
    <3>1. pc = "fetchConfig" /\ pc' \in {"fetchConfig", "installConfig", "idle"}
      BY <1>6, <2>2, Downloads DEF Fetch, Arrive, FetchFails, Raise
    <3> QED BY <1>1, <2>0, <3>1
  <2> QED BY <2>1, <2>2
<1>7. ASSUME NEW f \in VoiceFiles, Install(f)
      PROVE  Ordered
  <2>1. UNCHANGED <<audio, voice, wav, spoken>> /\ DOMAIN disk' = DOMAIN disk
    BY <1>7 DEF Install
  <2>2. CASE f = "model"
    <3>1. /\ pc = "installModel"
          /\ \/ pc' = "fetchConfig" /\ disk'["model"] = "whole"
             \/ pc' = "idle" /\ disk' = disk
      BY <1>7, <2>2, Downloads DEF Install, Verified, Raise
    <3> QED BY <1>1, <2>1, <3>1
  <2>3. CASE f = "config"
    <3>1. pc = "installConfig" /\ pc' = "read" /\ disk'["model"] = disk["model"]
      BY <1>7, <2>3, Downloads DEF Install, Verified
    <3> QED BY <1>1, <2>1, <3>1
  <2> QED BY <2>2, <2>3
<1>8. ASSUME ReadVoice PROVE Ordered
  <2>1. /\ pc = "read"
        /\ \/ pc' = "piper" /\ voice' = "whole"
           \/ pc' = "idle" /\ voice' = voice
        /\ UNCHANGED <<audio, disk, wav, spoken>>
    BY <1>8 DEF ReadVoice, fileVars, Raise
  <2> QED BY <1>1, <2>1
<1>9. ASSUME Open PROVE Ordered
  <2>1. UNCHANGED <<pc, audio, disk, voice, spoken>> /\ DOMAIN wav' = DOMAIN wav
    BY <1>9 DEF Open, fileVars
  <2> QED BY <1>1, <2>1
<1>10. ASSUME Speak PROVE Ordered
  <2>1. /\ pc' = "idle" /\ spoken' = spoken \cup {audio} /\ audio \in Audios
        /\ UNCHANGED <<audio, disk, voice>> /\ DOMAIN wav' = DOMAIN wav
    BY <1>10 DEF Speak, fileVars
  <2> QED BY <1>1, <2>1
<1>11. ASSUME EngineFails \/ Crash PROVE Ordered
  <2>1. /\ pc' = "idle" /\ voice' \in {voice, "none"}
        /\ UNCHANGED <<audio, disk, wav, spoken>>
    BY <1>11 DEF EngineFails, Crash, fileVars, Raise
  <2> QED BY <1>1, <2>1
<1>12. Ordered
  BY <1>4, <1>5, <1>6, <1>7, <1>8, <1>9, <1>10, <1>11 DEF Next, Step
<1> QED BY <1>1, <1>2, <1>3, <1>12

(* What was spoken well is not touched again, and whoever speaks does well.*)
LEMMA SpokenWellStep ==
    ASSUME SpeechInv, Next
    PROVE  SpokenWell'
<1>0. SpeechTyped /\ VoiceKept /\ InHand /\ SpokenWell
  BY DEF SpeechInv
<1>1. UNCHANGED <<wav, spoken, lang>> \/ Open \/ Speak
  BY DEF Next, Step, Synthesize, Load, Fetch, Arrive, Install, FetchFails, ReadVoice,
     EngineFails, Crash, settings
<1>2. CASE UNCHANGED <<wav, spoken, lang>>
  BY <1>0, <1>2 DEF SpokenWell
<1>3. CASE Open
  <2>1. audio \notin spoken /\ UNCHANGED <<spoken, lang>>
    BY <1>0, <1>3 DEF Open, InHand, Engines
  <2>2. \A a \in spoken : wav'[a] = wav[a]
    BY <1>0, <1>3, <2>1 DEF Open, SpeechTyped
  <2> QED BY <1>0, <2>1, <2>2 DEF SpokenWell
<1>4. CASE Speak
  <2>1. /\ spoken' = spoken \cup {audio} /\ audio \in Audios /\ audio \notin spoken
        /\ wav' = [wav EXCEPT ![audio] = Spoken(TRUE)] /\ pc \in Engines /\ lang' = lang
    BY <1>0, <1>4 DEF Speak, InHand, Engines
  <2>2. (\A a \in spoken : wav'[a] = wav[a]) /\ wav'[audio] = Spoken(TRUE)
    BY <1>0, <2>1 DEF SpeechTyped
  <2>3. /\ Spoken(TRUE).by = pc /\ Spoken(TRUE).complete /\ Spoken(TRUE).model = "whole"
        /\ Spoken(TRUE) # NoWav
    BY <1>0, <2>1 DEF Spoken, NoWav, VoiceKept
  <2>4. lang[audio] \in Knows[pc]
    BY <1>0, <2>1 DEF Knows, XTTS_LANGS, PIPER_LANGS, InHand, Engines
  <2> QED BY <1>0, <2>1, <2>2, <2>3, <2>4 DEF SpokenWell
<1> QED BY <1>1, <1>2, <1>3, <1>4

(* Nobody fetches a damaged config again beside a model that is intact.    *)
LEMMA StuckStays ==
    ASSUME SpeechTyped, VoiceKept, FetchedForCause, Stuck, Next
    PROVE  Stuck'
<1> USE DEF SpeechTyped, FetchedForCause, Stuck, Goto, VoiceFiles
<1>1. pc \notin {"fetchModel", "installModel", "fetchConfig", "installConfig"}
  OBVIOUS
<1>2. ASSUME NEW f \in VoiceFiles
      PROVE  ~(Fetch(f) \/ Arrive(f) \/ Install(f) \/ FetchFails(f))
  BY <1>1, Downloads DEF Fetch, Arrive, Install, FetchFails
<1>3. disk' = disk
  BY <1>2 DEF Next, Step, Synthesize, Load, ReadVoice, Open, Speak, EngineFails, Crash, fileVars
<1>4. pc' \notin {"fetchConfig", "installConfig"}
  <2>1. ASSUME NEW a \in Audios, Synthesize(a) PROVE pc' \notin {"fetchConfig", "installConfig"}
    BY <1>1, <2>1 DEF Synthesize, Engine, Settings
  <2> QED BY <1>1, <1>2, <2>1
      DEF Next, Step, Load, ReadVoice, Open, Speak, EngineFails, Crash, Raise
<1> QED BY <1>3, <1>4

(* A config arrives somehow, and stays.                                    *)
LEMMA ConfigStep ==
    ASSUME SpeechTyped, ConfigKept, Next
    PROVE  ConfigKept'
<1> USE DEF SpeechTyped, ConfigKept, Goto, Contents, VoiceFiles
<1>1. ASSUME NEW a \in Audios, Synthesize(a) PROVE ConfigKept'
  <2>1. disk' = disk /\ pc' \notin {"installConfig", "read"}
    BY <1>1 DEF Synthesize, fileVars, Engine, Settings
  <2> QED BY <2>1
<1>2. CASE Load
  <2>1. disk' = disk /\ pc' # "installConfig" /\ (pc' = "read" => disk["config"] # "none")
    BY <1>2 DEF Load, fileVars
  <2> QED BY <2>1
<1>3. ASSUME NEW f \in VoiceFiles, Fetch(f) \/ Arrive(f) \/ FetchFails(f) PROVE ConfigKept'
  <2>1. CASE f = "model"
    BY <1>3, <2>1, Downloads DEF Fetch, Arrive, FetchFails, Raise
  <2>2. CASE f = "config"
    BY <1>3, <2>2, Downloads DEF Fetch, Arrive, FetchFails, Raise
  <2> QED BY <2>1, <2>2
<1>4. ASSUME NEW f \in VoiceFiles, Install(f) PROVE ConfigKept'
  <2>1. CASE f = "model"
    BY <1>4, <2>1, Downloads DEF Install, Raise
  <2>2. CASE f = "config"
    BY <1>4, <2>2, Downloads DEF Install, Verified
  <2> QED BY <2>1, <2>2
<1>5. CASE ReadVoice \/ Speak \/ EngineFails \/ Crash
  <2>1. disk' = disk /\ pc' \notin {"installConfig", "read"}
    BY <1>5 DEF ReadVoice, Speak, EngineFails, Crash, Raise, fileVars
  <2> QED BY <2>1
<1>6. CASE Open
  BY <1>6 DEF Open, fileVars
<1> QED BY <1>1, <1>2, <1>3, <1>4, <1>5, <1>6 DEF Next, Step

(* A model that is found damaged was damaged by a fault.                   *)
LEMMA RejectedStep ==
    ASSUME SpeechTyped, Next, Rejected'
    PROVE  faults' = faults + 1 \/ (Rejected /\ audio' = audio)
<1>1. ASSUME NEW a \in Audios, Synthesize(a) PROVE FALSE
  BY <1>1 DEF Synthesize, Rejected, SpeechTyped, Engine, Settings, Goto
<1>2. ASSUME NEW f \in VoiceFiles, Fetch(f) \/ Install(f) \/ FetchFails(f) PROVE FALSE
  <2>1. CASE f = "model"
    BY <1>2, <2>1, Downloads DEF Fetch, Install, FetchFails, Raise, Goto, Rejected
  <2>2. CASE f = "config"
    BY <1>2, <2>2, Downloads DEF Fetch, Install, FetchFails, Raise, Goto, Rejected
  <2> QED BY <2>1, <2>2 DEF VoiceFiles
<1>3. ASSUME NEW f \in VoiceFiles, Arrive(f) PROVE faults' = faults + 1
  <2>1. CASE f = "model"
    BY <1>3, <2>1 DEF Arrive, Fault, Rejected, SpeechTyped
  <2>2. CASE f = "config"
    BY <1>3, <2>2, Downloads DEF Arrive, Goto, Rejected
  <2> QED BY <2>1, <2>2 DEF VoiceFiles
<1>4. CASE Load \/ ReadVoice \/ EngineFails \/ Crash
  BY <1>4 DEF Load, ReadVoice, EngineFails, Crash, Raise, Goto, Rejected
<1>5. CASE Open \/ Speak
  BY <1>5 DEF Open, Speak, Goto, Rejected, Engines, fileVars
<1> QED BY <1>1, <1>2, <1>3, <1>4, <1>5 DEF Next, Step

(* An attempt fails by a fault, now or on the way of its model, or because *)
(* Piper is stuck with what it reads.                                      *)
LEMMA RaisesCost ==
    ASSUME SpeechTyped, VoiceKept, ConfigKept, Next, attempts' # attempts
    PROVE  /\ faults' = faults + 1 \/ Rejected \/ (pc = "read" /\ Stuck)
           /\ pc' = "idle"
<1>1. ASSUME NEW f \in VoiceFiles, Install(f)
      PROVE  Rejected /\ pc' = "idle"
  <2>1. ~Verified(f)
    BY <1>1 DEF Install, jobVars
  <2>2. f = "model" /\ part["model"] # "whole"
    BY <2>1 DEF Verified, VoiceFiles
  <2> QED BY <1>1, <2>1, <2>2, Downloads DEF Install, Rejected, Raise, Goto
<1>2. CASE ReadVoice
  <2>1. /\ pc = "read" /\ pc' = "idle" /\ \E f \in VoiceFiles : disk[f] # "whole"
    BY <1>2 DEF ReadVoice, Raise, Goto, jobVars
  <2>2. disk["model"] = "whole"
    BY <2>1 DEF VoiceKept, Fetched
  <2> QED BY <2>1, <2>2 DEF Stuck, VoiceFiles, ConfigKept, Contents
<1>3. ASSUME NEW f \in VoiceFiles, FetchFails(f) PROVE faults' = faults + 1 /\ pc' = "idle"
  BY <1>3 DEF FetchFails, Fault, Raise, Goto
<1>4. CASE EngineFails
  BY <1>4 DEF EngineFails, Fault, Raise, Goto
<1> QED BY <1>1, <1>2, <1>3, <1>4 DEF Next, Step, Synthesize, Load, Fetch, Arrive, Open, Speak,
           Crash, jobVars

(* So no step lets the attempts outgrow the faults.                        *)
LEMMA AttemptsStep ==
    ASSUME SpeechTyped, VoiceKept, InHand, ConfigKept, FetchedForCause, AttemptsAreFaults, Next
    PROVE  AttemptsAreFaults'
<1> SUFFICES ASSUME NEW a \in Audios, ~(Engine(a)' = "piper" /\ Stuck')
             PROVE  attempts'[a] + (IF a = audio' /\ Rejected' THEN 1 ELSE 0) <= faults'
  BY DEF AttemptsAreFaults
<1>1. Engine(a)' = Engine(a)
  BY DEF Engine, Next, Step, Synthesize, Load, Fetch, Arrive, Install, FetchFails, ReadVoice, Open,
     Speak, EngineFails, Crash, settings
<1>2. ~(Engine(a) = "piper" /\ Stuck)
  BY <1>1, StuckStays
<1>3. /\ attempts[a] + (IF a = audio /\ Rejected THEN 1 ELSE 0) <= faults
      /\ attempts[a] \in Nat /\ faults \in Nat /\ faults' \in {faults, faults + 1}
  BY <1>2, RetriesStep DEF AttemptsAreFaults, SpeechTyped
<1>4. CASE attempts' = attempts
  <2>1. Rejected' => faults' = faults + 1 \/ (Rejected /\ audio' = audio)
    BY RejectedStep
  <2> QED BY <1>3, <1>4, <2>1
<1>5. CASE attempts' # attempts
  <2>1. /\ faults' = faults + 1 \/ Rejected \/ (pc = "read" /\ Stuck)
        /\ pc' = "idle"
    BY <1>5, RaisesCost
  <2>2. ~Rejected'
    BY <2>1 DEF Rejected
  <2>3. pc # "idle" /\ audio \in Audios /\ attempts' = [attempts EXCEPT ![audio] = @ + 1]
    BY <1>5, RetriesStep DEF jobVars, Raise, InHand
  <2>4. CASE a # audio
    <3>1. attempts'[a] = attempts[a]
      BY <2>3, <2>4 DEF SpeechTyped
    <3> QED BY <1>3, <2>2, <3>1
  <2>5. CASE a = audio
    <3>1. attempts'[a] = attempts[a] + 1
      BY <2>3, <2>5 DEF SpeechTyped
    <3>2. ~(pc = "read" /\ Stuck)
      BY <1>2, <2>5 DEF InHand, Fetched
    <3> QED BY <1>3, <2>1, <2>2, <2>5, <3>1, <3>2
  <2> QED BY <2>4, <2>5
<1> QED BY <1>4, <1>5

(* Nothing is given up with a retry left.                                  *)
LEMMA RetriesUsedStep ==
    ASSUME SpeechTyped, InHand, RetriesUsed, Next
    PROVE  RetriesUsed'
<1>1. /\ lang' = lang /\ SupportedAudioLangs(workerSettings)' = SupportedAudioLangs(workerSettings)
  BY DEF Next, Step, Synthesize, Load, Fetch, Arrive, Install, FetchFails, ReadVoice, Open, Speak,
     EngineFails, Crash, settings, SupportedAudioLangs
<1>2. MaxRetries \in Nat
  BY RetriesAssumption
<1>3. CASE UNCHANGED jobVars
  BY <1>1, <1>3 DEF RetriesUsed, jobVars
<1>4. CASE pc # "idle" /\ Raise
  <2>1. /\ audio \in Audios /\ attempts' = [attempts EXCEPT ![audio] = @ + 1]
        /\ failed' = IF attempts[audio] + 1 > MaxRetries THEN failed \cup {audio} ELSE failed
    BY <1>4 DEF Raise, GivesUp, InHand
  <2>2. \A a \in Audios : attempts'[a] >= attempts[a] /\ attempts[a] \in Nat /\ attempts'[a] \in Nat
    BY <2>1 DEF SpeechTyped
  <2>3. attempts'[audio] = attempts[audio] + 1
    BY <2>1 DEF SpeechTyped
  <2>4. failed \subseteq Audios
    BY DEF SpeechTyped
  <2> QED BY <1>1, <1>2, <2>1, <2>2, <2>3, <2>4 DEF RetriesUsed
<1>5. CASE /\ attempts' = attempts
           /\ \E a \in Audios : /\ failed' = failed \cup {a}
                                /\ lang[a] \notin SupportedAudioLangs(workerSettings)
  BY <1>1, <1>5 DEF RetriesUsed
<1> QED BY <1>3, <1>4, <1>5, RetriesStep

-----------------------------------------------------------------------------
(* The image models.                                                       *)

(* What a catalog lists.                                                   *)
LEMMA CatalogFacts ==
    ASSUME NEW e, ModelSettings(e)
    PROVE  /\ Models!default_name(e) \in Checkpoints
           /\ DOMAIN Models!catalog(e) \subseteq Checkpoints
           /\ DOMAIN Models!Configured(e) \subseteq DOMAIN Models!catalog(e)
           /\ \A name \in DOMAIN Models!Configured(e) :
                 Models!catalog(e)[name] = Models!Configured(e)[name]
<1>1. Models!default_name(e) \in Checkpoints
  BY ModelsConstants DEF ModelSettings, Models!default_name, Models!ModelsAssumption
<1>2. DOMAIN Models!Configured(e) = (DOMAIN Builtin) \cup DOMAIN e.SD_MODELS
  BY DEF Models!Configured, Models!Update
<1>3. /\ DOMAIN Models!catalog(e) = {Models!default_name(e)} \cup DOMAIN Models!Configured(e)
      /\ \A name \in DOMAIN Models!Configured(e) :
            Models!catalog(e)[name] = Models!Configured(e)[name]
  BY DEF Models!catalog, Models!WithDefault, Models!Update, Models!OfDefault
<1> QED BY <1>1, <1>2, <1>3, ModelsConstants DEF ModelSettings, Models!ModelsAssumption

(* Whatever .env says.                                                     *)
LEMMA SettingsTyped == \A e \in Models!Settings : ModelSettings(e)
<1> SUFFICES ASSUME NEW e \in Models!Settings PROVE ModelSettings(e)
  OBVIOUS
<1>1. /\ e.SD_CHECKPOINT \in Checkpoints \cup {Unset} /\ e.SD_MODEL_TYPE \in Models!ModelTypes
      /\ e.SD_MODELS \in Models!Lists
  BY DEF Models!Settings
<1>2. DOMAIN e.SD_MODELS \subseteq Checkpoints
  BY <1>1 DEF Models!Lists
<1> QED BY <1>1, <1>2 DEF ModelSettings

(* Rows of an older version, or none; nothing offered.                     *)
LEMMA ModelsInit == Models!Init => ModelsInv
<1> SUFFICES ASSUME Models!Init PROVE ModelsInv
  OBVIOUS
<1>1. /\ \A i \in Images : /\ image[i].status \in {"absent", "pending"}
                           /\ image[i].checkpoint = Unset
      /\ DOMAIN image = Images
  BY DEF Models!Init, Models!NoRow, Models!OldRow
<1>2. ModelsTyped
  BY <1>1, SettingsTyped DEF ModelsTyped, Models!Init
<1>3. AttemptKept
  BY DEF AttemptKept, Models!Init
<1>4. OffersKept
  BY <1>1 DEF OffersKept, Models!Init
<1> QED BY <1>2, <1>3, <1>4 DEF ModelsInv

(* Each step of page, API and worker keeps it.                             *)
LEMMA ModelsStep == ASSUME ModelsInv, Models!Next PROVE ModelsInv'
<1>0. ModelsTyped /\ AttemptKept /\ OffersKept
  BY DEF ModelsInv
<1>1. ASSUME NEW e \in Models!Settings, Models!Configure(e) PROVE ModelsInv'
  <2>1. ModelsTyped'
    BY <1>0, <1>1, SettingsTyped DEF Models!Configure, ModelsTyped
  <2>2. UNCHANGED <<attempt, image, worker, listed, offered, used>>
    BY <1>1 DEF Models!Configure
  <2> QED BY <1>0, <2>1, <2>2 DEF ModelsInv, AttemptKept, OffersKept
<1>2. CASE Models!StartApi
  <2>1. ModelsTyped'
    BY <1>0, <1>2 DEF Models!StartApi, ModelsTyped
  <2>2. UNCHANGED <<attempt, image, worker, listed, offered, used>>
    BY <1>2 DEF Models!StartApi
  <2> QED BY <1>0, <2>1, <2>2 DEF ModelsInv, AttemptKept, OffersKept
<1>3. CASE Models!StartWorker
  <2>1. ModelsTyped'
    BY <1>0, <1>3 DEF Models!StartWorker, ModelsTyped
  <2>2. attempt' = Models!NoAttempt /\ UNCHANGED <<image, listed, offered, used>>
    BY <1>3 DEF Models!StartWorker
  <2> QED BY <1>0, <2>1, <2>2 DEF ModelsInv, AttemptKept, OffersKept
<1>4. CASE Models!ListModels
  <2>1. /\ listed'.models = Models!catalog(listed'.from)
        /\ UNCHANGED <<env, api, worker, attempt, image, offered, used>>
    BY <1>4 DEF Models!ListModels
  <2> QED BY <1>0, <2>1 DEF ModelsInv, ModelsTyped, AttemptKept, OffersKept
<1>5. ASSUME NEW i \in Images, NEW choice \in Models!Choices, Models!Generate(i, choice)
      PROVE  ModelsInv'
  <2> DEFINE name == IF choice = Unset THEN Models!default_name(api) ELSE choice
             offer == IF choice = Unset THEN [type |-> Models!catalog(api)[name], from |-> api]
                      ELSE [type |-> listed.models[choice], from |-> listed.from]
  <2>1. /\ image[i] = Models!NoRow /\ name \in DOMAIN Models!catalog(api)
        /\ image' = [image EXCEPT ![i] = [Models!OldRow EXCEPT !.checkpoint = name]]
        /\ offered' = [offered EXCEPT ![i] = offer]
        /\ UNCHANGED <<env, api, worker, listed, attempt, used>>
    BY <1>5 DEF Models!Generate, Models!Allowed
  <2>2. name \in Checkpoints
    BY <1>0, <2>1, CatalogFacts DEF ModelsTyped
  <2>3. offer.type = Models!catalog(offer.from)[name] /\ name \in DOMAIN Models!catalog(offer.from)
    <3>1. CASE choice = Unset
      BY <2>1, <3>1
    <3>2. CASE choice # Unset
      <4>1. listed # Models!NoList /\ choice \in DOMAIN listed.models
        BY <3>2 DEF Models!Choices
      <4> QED BY <1>0, <3>2, <4>1 DEF OffersKept
    <3> QED BY <3>1, <3>2
  <2>4. /\ image'[i].status = "pending" /\ image'[i].checkpoint = name /\ offered'[i] = offer
        /\ \A j \in Images \ {i} : image'[j] = image[j] /\ offered'[j] = offered[j]
        /\ DOMAIN image' = Images /\ DOMAIN offered' = Images
    BY <1>0, <2>1 DEF ModelsTyped, Models!OldRow, Models!NoRow
  <2>5. image[i].status = "absent"
    BY <2>1 DEF Models!NoRow
  <2> HIDE DEF name, offer
  <2>6. ModelsTyped'
    BY <1>0, <2>1, <2>2, <2>4 DEF ModelsTyped
  <2>7. AttemptKept'
    BY <1>0, <2>1, <2>4, <2>5 DEF AttemptKept, TypeWith, Models!Allowed, Models!NoAttempt
  <2>8. OffersKept'
    BY <1>0, <2>1, <2>2, <2>3, <2>4 DEF OffersKept
  <2> QED BY <2>6, <2>7, <2>8 DEF ModelsInv
<1>6. ASSUME NEW i \in Images, Models!Render(i) PROVE ModelsInv'
  <2>1. /\ image[i].status = "pending"
        /\ attempt' = [image |-> i, checkpoint |-> Models!NameFor(image[i]),
                       type |-> Models!TypeFor(Models!NameFor(image[i]))]
        /\ UNCHANGED <<env, api, worker, listed, image, offered, used>>
    BY <1>6 DEF Models!Render
  <2>2. /\ Models!NameFor(image[i]) \in Checkpoints
        /\ image[i].checkpoint \in {Unset, Models!NameFor(image[i])}
    BY <1>0, CatalogFacts DEF Models!NameFor, ModelsTyped
  <2>3. AttemptKept'
    BY <2>1, <2>2 DEF AttemptKept, TypeWith, Models!TypeFor
  <2> QED BY <1>0, <2>1, <2>3 DEF ModelsInv, ModelsTyped, OffersKept
<1>7. CASE Models!RenderSucceeds \/ Models!RenderFails
  <2> DEFINE i == attempt.image
  <2>1. PICK status \in {"done", "pending"} :
          /\ image' = [image EXCEPT ![i] = [status |-> status, checkpoint |-> attempt.checkpoint,
                                            type |-> attempt.type]]
          /\ attempt # Models!NoAttempt
          /\ used' = IF status = "done" THEN [used EXCEPT ![i] = worker] ELSE used
    BY <1>7 DEF Models!RenderSucceeds, Models!RenderFails, Models!Commit
  <2>2. attempt' = Models!NoAttempt /\ UNCHANGED <<env, api, worker, listed, offered>>
    BY <1>7 DEF Models!RenderSucceeds, Models!RenderFails, Models!Commit
  <2>3. /\ i \in Images /\ attempt.checkpoint \in Checkpoints
        /\ attempt.type = TypeWith(worker, attempt.checkpoint)
        /\ image[i].checkpoint \in {Unset, attempt.checkpoint}
    BY <1>0, <2>1 DEF AttemptKept
  <2>4. /\ image'[i].status = status /\ image'[i].checkpoint = attempt.checkpoint
        /\ image'[i].type = attempt.type
        /\ \A j \in Images \ {i} : image'[j] = image[j] /\ used'[j] = used[j]
        /\ status = "done" => used'[i] = worker
        /\ DOMAIN image' = Images /\ DOMAIN used' = Images
    BY <1>0, <2>1, <2>3 DEF ModelsTyped
  <2> HIDE DEF i
  <2>5. ModelsTyped'
    BY <1>0, <2>1, <2>2, <2>3, <2>4 DEF ModelsTyped
  <2>6. AttemptKept'
    BY <2>2 DEF AttemptKept
  <2>7. offered[i] # Models!NoOffer => image[i].checkpoint = attempt.checkpoint
    BY <1>0, <2>3, ModelsConstants DEF OffersKept, Models!ModelsAssumption
  <2>8. OffersKept'
    BY <1>0, <2>2, <2>3, <2>4, <2>7 DEF OffersKept
  <2> QED BY <2>5, <2>6, <2>8 DEF ModelsInv
<1> QED BY <1>1, <1>2, <1>3, <1>4, <1>5, <1>6, <1>7 DEF Models!Next

-----------------------------------------------------------------------------
(* The theorems.                                                           *)

(* Both workers keep their invariants.                                     *)
THEOREM InvHolds == OffersSpec => []Inv
<1>1. OffersInit => Inv
  BY SpeechInit, ModelsInit DEF OffersInit, Inv
<1>2. Inv /\ [OffersNext]_<<container, vars, imageVars>> => Inv'
  <2> SUFFICES ASSUME Inv, [OffersNext]_<<container, vars, imageVars>> PROVE Inv'
    OBVIOUS
  <2>1. SpeechInv'
    <3>1. CASE UNCHANGED vars
      BY <3>1 DEF Inv, vars, settings, fileVars, jobVars, SpeechInv, SpeechTyped, VoiceKept, InHand,
         SpokenWell, ConfigKept, FetchedForCause, AttemptsAreFaults, Rejected, RetriesUsed, Stuck,
         Engine, SupportedAudioLangs
    <3>2. CASE Next
      BY <3>2, SpeechKept, ConfigStep, SpokenWellStep, AttemptsStep, RetriesUsedStep
         DEF Inv, SpeechInv
    <3> QED BY <3>1, <3>2 DEF OffersNext, WorkerGpu, WorkerTts
  <2>2. ModelsInv'
    <3>1. CASE UNCHANGED imageVars
      BY <3>1 DEF Inv, imageVars, ModelsInv, ModelsTyped, AttemptKept, OffersKept, TypeWith,
         Models!Allowed
    <3>2. CASE Models!Next
      BY <3>2, ModelsStep DEF Inv
    <3> QED BY <3>1, <3>2 DEF OffersNext, WorkerGpu, WorkerTts
  <2> QED BY <2>1, <2>2 DEF Inv
<1> QED BY <1>1, <1>2, PTL DEF OffersSpec

(* What is reported as spoken is a whole file, by an engine that knows the *)
(* language, with a verified model (worker_tts.py, tts.py).                *)
THEOREM SpeechIsWell == OffersSpec => []SpokenWell
<1>1. Inv => SpokenWell
  BY DEF Inv, SpeechInv
<1> QED BY InvHolds, <1>1, PTL

(* The worker gives an audio up (handle_job_failure, worker_tts.py) only if *)
(* nobody was set up for its language, if more attempts failed by faults   *)
(* than it has retries, or if a damaged config lies beside an intact model.*)
THEOREM GivesUpForCause == OffersSpec => []GivenUpDuly
<1>1. ASSUME SpeechInv, NEW a \in failed PROVE Excused(a)
  <2>1. /\ a \in Audios /\ attempts[a] \in Nat /\ faults \in Nat /\ MaxRetries \in Nat
    BY <1>1, RetriesAssumption DEF SpeechInv, SpeechTyped
  <2>2. \/ Engine(a) = "piper" /\ Stuck
        \/ attempts[a] <= faults
    BY <1>1, <2>1 DEF SpeechInv, AttemptsAreFaults
  <2>3. lang[a] \notin SupportedAudioLangs(workerSettings) \/ attempts[a] > MaxRetries
    BY <1>1 DEF SpeechInv, RetriesUsed
  <2> QED BY <2>1, <2>2, <2>3 DEF Excused
<1>2. Inv => GivenUpDuly
  BY <1>1 DEF Inv, GivenUpDuly
<1> QED BY InvHolds, <1>2, PTL

(* The checkpoint of a row is never replaced once it has one, whatever the *)
(* settings become and however often the render fails.                     *)
THEOREM CheckpointsStay == OffersSpec => PinnedStays
<1>1. Inv /\ [OffersNext]_<<container, vars, imageVars>> =>
        [\A i \in Images : image[i].checkpoint # Unset =>
            image'[i].checkpoint = image[i].checkpoint]_(Models!vars)
  <2> SUFFICES ASSUME ModelsInv, Models!Next, NEW i \in Images, image[i].checkpoint # Unset
               PROVE  image'[i].checkpoint = image[i].checkpoint
    BY DEF OffersNext, WorkerGpu, WorkerTts, imageVars, Models!vars, Inv
  <2>0. ModelsTyped /\ AttemptKept
    BY DEF ModelsInv
  <2>1. CASE image' = image
    BY <2>1
  <2>2. ASSUME NEW j \in Images, NEW choice \in Models!Choices, Models!Generate(j, choice)
        PROVE  image'[i].checkpoint = image[i].checkpoint
    <3>1. j # i
      BY <2>2 DEF Models!Generate, Models!NoRow
    <3> QED BY <2>0, <2>2, <3>1 DEF Models!Generate, ModelsTyped
  <2>3. CASE Models!RenderSucceeds \/ Models!RenderFails
    <3>1. /\ attempt # Models!NoAttempt
          /\ \E status : image' = [image EXCEPT ![attempt.image] =
                [status |-> status, checkpoint |-> attempt.checkpoint, type |-> attempt.type]]
      BY <2>3 DEF Models!RenderSucceeds, Models!RenderFails, Models!Commit
    <3>2. image[attempt.image].checkpoint \in {Unset, attempt.checkpoint} /\ attempt.image \in Images
      BY <2>0, <3>1 DEF AttemptKept
    <3> QED BY <2>0, <3>1, <3>2 DEF ModelsTyped
  <2> QED BY <2>1, <2>2, <2>3 DEF Models!Next, Models!Configure, Models!StartApi,
             Models!StartWorker, Models!ListModels, Models!Render
<1> QED BY InvHolds, <1>1, PTL DEF OffersSpec, PinnedStays, Models!PinnedStays

(* An image is rendered by the type its checkpoint was offered with, when  *)
(* API and worker had settings that say the same of it (image_models.py).  *)
THEOREM RenderedByOfferedType == OffersSpec => []RenderedAsOffered
<1>1. Inv => RenderedAsOffered
  <2> SUFFICES ASSUME ModelsInv, NEW i \in Images, image[i].status = "done",
                      offered[i] # Models!NoOffer,
                      \/ offered[i].from = used[i]
                      \/ /\ Models!Says(offered[i].from, image[i].checkpoint)
                              = Models!Says(used[i], image[i].checkpoint)
                         /\ Models!Says(offered[i].from, image[i].checkpoint) # {}
               PROVE  image[i].type = offered[i].type
    BY DEF Inv, RenderedAsOffered, Models!RenderedAsOffered
  <2> DEFINE name == image[i].checkpoint
             from == offered[i].from
  <2>1. /\ name \in DOMAIN Models!catalog(from)
        /\ offered[i].type = Models!catalog(from)[name]
        /\ image[i].type = TypeWith(used[i], name)
    BY DEF ModelsInv, OffersKept
  <2>2. CASE from = used[i]
    BY <2>1, <2>2 DEF TypeWith, Models!Allowed
  <2>3. CASE Models!Says(from, name) = Models!Says(used[i], name) /\ Models!Says(from, name) # {}
    <3>1. /\ name \in DOMAIN Models!Configured(from) /\ name \in DOMAIN Models!Configured(used[i])
          /\ Models!Configured(from)[name] = Models!Configured(used[i])[name]
      BY <2>3 DEF Models!Says
    <3>2. \A e : name \in DOMAIN Models!Configured(e) =>
             /\ name \in DOMAIN Models!catalog(e)
             /\ Models!catalog(e)[name] = Models!Configured(e)[name]
      BY DEF Models!catalog, Models!WithDefault, Models!Update, Models!OfDefault
    <3> QED BY <2>1, <3>1, <3>2 DEF TypeWith, Models!Allowed
  <2> QED BY <2>2, <2>3
<1> QED BY InvHolds, <1>1, PTL
=============================================================================
