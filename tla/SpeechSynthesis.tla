-------------------------- MODULE SpeechSynthesis --------------------------
(***************************************************************************)
(* What the audio worker does with a text: the engine for its language     *)
(* (worker_tts.py), the Piper voice that is downloaded on first use, then  *)
(* kept on the volume and in memory (tts.py), and the wav file. The API    *)
(* says beforehand which languages it can have spoken (main.py, voices.py).*)
(***************************************************************************)
EXTENDS Integers, FiniteSets

CONSTANTS
    Audios,     \* audio rows whose text is to be spoken
    FaultKinds, \* the faults the environment may inject
    Damaged,    \* the files that may arrive other than they were sent
    MaxRetries, \* JOB_MAX_RETRIES
    MaxFaults   \* bound: faults of a behaviour

Faults == {"crash", "engine", "network"}
VoiceFiles == {"model", "config"}       \* <name>.onnx and <name>.onnx.json

ASSUME FaultsAssumption == FaultKinds \subseteq Faults /\ MaxFaults \in Nat
ASSUME DamagedAssumption == Damaged \subseteq VoiceFiles
ASSUME RetriesAssumption == MaxRetries \in Nat

VARIABLES
    apiSettings,    \* TTS_BACKEND and whether VOICEVOX_URL is set ...
    workerSettings, \* ... when the API and when the worker was started
    lang,       \* per audio: its language
    pc,         \* what the worker does next ...
    audio,      \* ... and for which audio
    disk,       \* per voice file: what is below DATA_DIR/voices
    part,       \* per voice file: what is in its .part file
    voice,      \* the model in memory (_cache)
    wav,        \* per audio: DATA_DIR/audio/<id>.wav
    spoken,     \* the audios whose path was returned
    attempts,   \* per audio: its attempts that failed, as Redis counts them
    failed,     \* the audios that were given up
    faults      \* bound

settings == <<apiSettings, workerSettings>>
fileVars == <<disk, part>>
jobVars == <<attempts, failed>>
vars == <<settings, lang, pc, audio, fileVars, voice, wav, spoken, jobVars, faults>>

(* Contents: "short" has another size than it should, "wrong" only other   *)
(* bytes.                                                                  *)
Contents == {"short", "wrong", "whole"}
NoWav == [by |-> "none"]

Fault(kind) == kind \in FaultKinds /\ faults < MaxFaults /\ faults' = faults + 1

Settings == [backend : {"piper", "xtts"}, voicevox : BOOLEAN]

(* Each container has the .env of its start. An older version may have     *)
(* left a model or a config whose download was interrupted.                *)
Init ==
    /\ apiSettings \in Settings /\ workerSettings \in Settings
    /\ lang \in [Audios -> {"en", "ja"}]
    /\ pc = "idle" /\ audio \in Audios
    /\ disk \in [model : {"none", "short", "whole"}, config : {"none", "short", "whole"}]
    /\ part = [f \in VoiceFiles |-> "none"]
    /\ voice = "none"
    /\ wav = [a \in Audios |-> NoWav]
    /\ spoken = {}
    /\ attempts = [a \in Audios |-> 0] /\ failed = {}
    /\ faults = 0

-----------------------------------------------------------------------------
(* Who speaks what.                                                        *)

PIPER_LANGS == {"en"}
XTTS_LANGS == {"en", "ja"}

(* voices.supported_audio_langs, behind GET /api/tts/capabilities.         *)
SupportedAudioLangs(s) ==
    (IF s.backend = "xtts" THEN XTTS_LANGS ELSE PIPER_LANGS)
        \cup (IF s.voicevox THEN {"ja"} ELSE {})

(* _default_synthesizer and RoutingSynthesizer.                            *)
Engine(a) ==
    IF workerSettings.voicevox /\ lang[a] = "ja" THEN "voicevox" ELSE workerSettings.backend

(* voices.get_voice_profile: Piper has English voices only.                *)
HasProfile(a) == lang[a] \in PIPER_LANGS

Goto(label) == pc' = label

(* The synthesizer raises (handle_job_failure): the job goes to the end of *)
(* the queue or, after its last retry, to nobody, and the worker goes on.  *)
GivesUpEarly(a) == attempts[a] + 1 >= MaxRetries    \* mutant: a retry too few
GivesUp(a) == attempts[a] + 1 > MaxRetries

Raise ==
    /\ Goto("idle")
    /\ attempts' = [attempts EXCEPT ![audio] = @ + 1]
    /\ failed' = IF GivesUp(audio) THEN failed \cup {audio} ELSE failed

(* AudioWorker.process. UnsupportedLanguageError is not tried again.       *)
Synthesize(a) ==
    /\ pc = "idle"
    /\ a \notin spoken \cup failed
    /\ audio' = a
    /\ IF Engine(a) = "piper" /\ ~HasProfile(a)
       THEN failed' = failed \cup {a} /\ UNCHANGED <<pc, attempts>>
       ELSE Goto(IF Engine(a) = "piper" THEN "load" ELSE Engine(a)) /\ UNCHANGED jobVars
    /\ UNCHANGED <<settings, lang, fileVars, voice, wav, spoken, faults>>

-----------------------------------------------------------------------------
(* PiperSynthesizer: _load and _ensure_voice.                              *)

(* A model on the volume is used again when it has the expected size.      *)
ExistsOnly(content) == content # "none"     \* mutant: no check of the size
CachedOk(content) == content \in {"wrong", "whole"}

Load ==
    /\ pc = "load"
    /\ Goto(IF voice # "none" THEN "piper"
            ELSE IF CachedOk(disk["model"]) /\ disk["config"] # "none" THEN "read"
            ELSE "fetchModel")
    /\ UNCHANGED <<settings, lang, audio, fileVars, voice, wav, spoken, jobVars, faults>>

(* _download_atomic: the file is fetched to its .part file, ...            *)
Download(f) ==
    CASE f = "model" -> [fetch |-> "fetchModel", install |-> "installModel", next |-> "fetchConfig"]
      [] f = "config" -> [fetch |-> "fetchConfig", install |-> "installConfig", next |-> "read"]

Fetch(f) ==
    /\ pc = Download(f).fetch
    /\ part[f] # "fetching"
    /\ part' = [part EXCEPT ![f] = "fetching"]
    /\ UNCHANGED <<settings, lang, pc, audio, disk, voice, wav, spoken, jobVars, faults>>

(* ... where it arrives as it was sent or, unnoticed by urlretrieve, not.  *)
Arrive(f) ==
    /\ pc = Download(f).fetch
    /\ part[f] = "fetching"
    /\ \/ part' = [part EXCEPT ![f] = "whole"] /\ UNCHANGED faults
       \/ /\ f \in Damaged /\ Fault("network")
          /\ \E content \in {"short", "wrong"} : part' = [part EXCEPT ![f] = content]
    /\ Goto(Download(f).install)
    /\ UNCHANGED <<settings, lang, audio, disk, voice, wav, spoken, jobVars>>

(* It takes its place when size and hash are right; of a config neither is *)
(* known. Otherwise, and when urlretrieve raises, the .part file is        *)
(* removed.                                                                *)
SizeOnly(f) == f = "config" \/ part[f] # "short"    \* mutant: no hash
Verified(f) == f = "config" \/ part[f] = "whole"

Install(f) ==
    /\ pc = Download(f).install
    /\ IF Verified(f)
       THEN /\ disk' = [disk EXCEPT ![f] = part[f]]
            /\ Goto(Download(f).next) /\ UNCHANGED jobVars
       ELSE Raise /\ UNCHANGED disk
    /\ part' = [part EXCEPT ![f] = "none"]
    /\ UNCHANGED <<settings, lang, audio, voice, wav, spoken, faults>>

FetchFails(f) ==
    /\ pc = Download(f).fetch
    /\ Fault("network")
    /\ Raise
    /\ part' = [part EXCEPT ![f] = "none"]
    /\ UNCHANGED <<settings, lang, audio, disk, voice, wav, spoken>>

(* PiperVoice.load: a truncated file cannot be read, one with other bytes  *)
(* perhaps.                                                                *)
ReadVoice ==
    /\ pc = "read"
    /\ \/ /\ \A f \in VoiceFiles : disk[f] # "short"
          /\ voice' = disk["model"] /\ Goto("piper") /\ UNCHANGED jobVars
       \/ /\ \E f \in VoiceFiles : disk[f] # "whole"
          /\ Raise /\ UNCHANGED voice
    /\ UNCHANGED <<settings, lang, audio, fileVars, wav, spoken, faults>>

-----------------------------------------------------------------------------
(* The engines speak into a file of the audio's own, from its beginning.   *)

Engines == {"piper", "xtts", "voicevox"}
Spoken(complete) ==
    [by |-> pc, model |-> IF pc = "piper" THEN voice ELSE "whole", complete |-> complete]

Open ==
    /\ pc \in Engines
    /\ wav[audio] # Spoken(FALSE)
    /\ wav' = [wav EXCEPT ![audio] = Spoken(FALSE)]
    /\ UNCHANGED <<settings, lang, pc, audio, fileVars, voice, spoken, jobVars, faults>>

Speak ==
    /\ pc \in Engines
    /\ wav[audio] = Spoken(FALSE)
    /\ wav' = [wav EXCEPT ![audio] = Spoken(TRUE)]
    /\ spoken' = spoken \cup {audio}
    /\ Goto("idle")
    /\ UNCHANGED <<settings, lang, audio, fileVars, voice, jobVars, faults>>

(* The engine raises, before it has opened the file or after.              *)
EngineFails ==
    /\ pc \in Engines
    /\ Fault("engine")
    /\ Raise
    /\ UNCHANGED <<settings, lang, audio, fileVars, voice, wav, spoken>>

(* The worker dies and comes back: what is on the volume stays, and the    *)
(* job is reaped; no attempt was counted.                                  *)
Crash ==
    /\ Fault("crash")
    /\ voice' = "none"
    /\ part' = [f \in VoiceFiles |-> IF part[f] = "fetching" THEN "short" ELSE part[f]]
    /\ Goto("idle")
    /\ UNCHANGED <<settings, lang, audio, disk, wav, spoken, jobVars>>

-----------------------------------------------------------------------------
Step == Load \/ ReadVoice \/ Open \/ Speak
        \/ \E f \in VoiceFiles : Fetch(f) \/ Arrive(f) \/ Install(f)

Next ==
    \/ \E a \in Audios : Synthesize(a)
    \/ Step
    \/ \E f \in VoiceFiles : FetchFails(f)
    \/ EngineFails \/ Crash

Spec == Init /\ [][Next]_vars

(* The worker goes on as long as there is a job (AudioWorker.run), and     *)
(* what it waits for ends.                                                 *)
Fairness == WF_vars(Step \/ \E a \in Audios : Synthesize(a))
FairSpec == Spec /\ Fairness
-----------------------------------------------------------------------------
(* Properties.                                                             *)

(* What is reported as spoken is a complete file, of an engine that knows  *)
(* the language and, if that is Piper, with a model that was verified,     *)
(* whatever attempts, downloads and crashes came before.                   *)
Knows == [piper |-> PIPER_LANGS, xtts |-> XTTS_LANGS, voicevox |-> {"ja"}]
SpokenWell ==
    \A a \in spoken : /\ wav[a] # NoWav
                      /\ wav[a].complete /\ wav[a].model = "whole"
                      /\ lang[a] \in Knows[wav[a].by]

(* A config that is damaged beside an intact model: neither is fetched     *)
(* again (_ensure_voice asks only whether the config exists).              *)
Stuck ==
    /\ disk["model"] = "whole" /\ disk["config"] \in {"short", "wrong"}
    /\ pc \notin {"fetchConfig", "installConfig"}

(* What excuses an audio that is not spoken: the worker was started with   *)
(* other settings than the API and has nobody for the language; more       *)
(* failures than one job may have; or Piper is stuck.                      *)
Excused(a) == \/ lang[a] \notin SupportedAudioLangs(workerSettings)
              \/ faults > MaxRetries
              \/ Engine(a) = "piper" /\ Stuck

(* Nothing else makes the worker give up: not a damaged model on the       *)
(* volume, nor a leftover of a download, nor both again and again.         *)
GivenUpDuly == \A a \in failed : Excused(a)

(* What the API offers to have spoken is spoken in the end, or given up    *)
(* for one of these reasons.                                               *)
AdvertisedAreSpoken ==
    \A a \in Audios : lang[a] \in SupportedAudioLangs(apiSettings)
                         ~> (a \in spoken \/ (a \in failed /\ Excused(a)))
=============================================================================
