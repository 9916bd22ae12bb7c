--------------------------- MODULE ComfyUIClient ---------------------------
(***************************************************************************)
(* What the image worker does between a pop and the verdict on the job     *)
(* (comfyui_client.py): it submits a prompt to ComfyUI, polls the history  *)
(* of that prompt until a deadline, fetches the image and writes it. The   *)
(* prompts of calls that gave up stay with ComfyUI, which works through    *)
(* them in order. Around it is the worker's loop (worker_gpu.py), whose    *)
(* heartbeat rests meanwhile.                                              *)
(***************************************************************************)
EXTENDS Integers, Sequences, FiniteSets

CONSTANTS
    Images,         \* image rows whose jobs may come off the queue
    PopTimeout,     \* block_timeout, in ticks
    MaxDelay,       \* the longest HTTP request; its timeout bounds each phase
    PollInterval,   \* poll_interval
    Timeout,        \* timeout of a render
    MaxAttempts,    \* bound: calls of the processor
    MaxClock,       \* bound: ticks of a behaviour
    MaxFaults       \* bound: failing requests and restarts of ComfyUI

ASSUME TimeAssumption ==
    /\ {PopTimeout, MaxDelay, PollInterval, Timeout} \subseteq Nat \ {0}
    /\ {MaxAttempts, MaxClock, MaxFaults} \subseteq Nat

VARIABLES
    clock,
    \* the worker
    pc,         \* what its loop does now ...
    since,      \* ... and since when
    beat,       \* mtime of the heartbeat file
    image,      \* the image row of the job in hand
    prompt,     \* the prompt_id that ComfyUI gave to the call
    deadline,   \* of the call
    filename,   \* the output file that the entry names, 0 before
    verdict,    \* how the last call ended
    seed,       \* per image: the column
    path,       \* per image: the column, NoPath before
    files,      \* below DATA_DIR/images: the name and whose render it is
    attempts,   \* calls of the processor so far
    \* ComfyUI
    sent,       \* per prompt: its workflow, as far as it varies
    pending,    \* the prompts to be executed
    history,    \* per prompt: its entry, NoEntry before
    cached,     \* the workflows whose result ComfyUI has
    outputs,    \* its numbered output files: whose render each is
    finished,   \* per prompt: when its entry appeared
    faults      \* bound

workerVars == <<pc, since, beat, image, prompt, deadline, filename, verdict, seed, path,
                files, attempts>>
serverVars == <<sent, pending, history, cached, outputs, finished>>
vars == <<clock, workerVars, serverVars, faults>>

Prompts == 1..MaxAttempts
NoEntry == [status |-> "none"]
NoPath == <<>>

Init ==
    /\ clock = 0 /\ faults = 0
    /\ pc = "loop" /\ since = 0 /\ beat = 0
    /\ image \in Images /\ prompt = 0 /\ deadline = 0 /\ filename = 0 /\ verdict = "none"
    /\ seed = [i \in Images |-> 0] /\ path = [i \in Images |-> NoPath]
    /\ files = {} /\ attempts = 0
    /\ sent = <<>> /\ pending = <<>> /\ cached = {} /\ outputs = <<>>
    /\ history = [p \in Prompts |-> NoEntry]
    /\ finished = [p \in Prompts |-> 0]

-----------------------------------------------------------------------------
(* Time. A request is answered or given up after MaxDelay; what the worker *)
(* does between two requests takes none.                                   *)

SlowPoll == since + 3 * PollInterval        \* mutant: backing off
NextPoll == since + PollInterval

Limit == CASE pc = "pop" -> PopTimeout
           [] pc \in {"submit", "ask", "view"} -> MaxDelay
           [] pc = "sleep" -> NextPoll - since
           [] OTHER -> 0

Tick ==
    /\ clock < MaxClock
    /\ clock < since + Limit
    /\ clock' = clock + 1
    /\ UNCHANGED <<workerVars, serverVars, faults>>

Goto(label) == pc' = label /\ since' = clock

-----------------------------------------------------------------------------
(* The worker's loop.                                                      *)

TouchHeartbeat == beat' = clock

Loop ==
    /\ pc = "loop"
    /\ TouchHeartbeat
    /\ Goto("pop")
    /\ UNCHANGED <<clock, image, prompt, deadline, filename, verdict, seed, path, files, attempts>>
    /\ UNCHANGED <<serverVars, faults>>

PopNothing ==
    /\ pc = "pop"
    /\ clock = since + PopTimeout
    /\ Goto("loop")
    /\ UNCHANGED <<beat, image, prompt, deadline, filename, verdict, seed, path, files, attempts>>
    /\ UNCHANGED <<clock, serverVars, faults>>

(* The processor gives every attempt a seed that no other has had (31      *)
(* random bits are taken to differ) and records it.                        *)
KeptSeed(i) == IF seed[i] = 0 THEN attempts + 1 ELSE seed[i]    \* mutant
SeedFor(i) == attempts + 1

PopImage(i) ==
    /\ pc = "pop"
    /\ path[i] = NoPath
    /\ attempts < MaxAttempts
    /\ attempts' = attempts + 1
    /\ image' = i
    /\ seed' = [seed EXCEPT ![i] = SeedFor(i)]
    /\ Goto("submit")
    /\ UNCHANGED <<beat, prompt, deadline, filename, verdict, path, files>>
    /\ UNCHANGED <<clock, serverVars, faults>>

(* The call raises: the job is retried or given up, the loop goes on.      *)
Fail(v) == verdict' = v /\ Goto("loop")

-----------------------------------------------------------------------------
(* ComfyUIClient.generate and _await_outputs.                              *)

Accept ==
    /\ sent' = Append(sent, [image |-> image, seed |-> seed[image]])
    /\ pending' = Append(pending, Len(sent'))
    /\ UNCHANGED <<history, cached, outputs, finished>>

Submit ==
    /\ pc = "submit"
    /\ Accept
    /\ prompt' = Len(sent')
    /\ deadline' = clock + Timeout
    /\ Goto("check")
    /\ UNCHANGED <<beat, image, filename, verdict, seed, path, files, attempts>>
    /\ UNCHANGED <<clock, faults>>

CheckDeadline ==
    /\ pc = "check"
    /\ \/ clock < deadline /\ Goto("ask") /\ UNCHANGED verdict
       \/ clock >= deadline /\ Fail("timeout")
    /\ UNCHANGED <<beat, image, prompt, deadline, filename, seed, path, files, attempts>>
    /\ UNCHANGED <<clock, serverVars, faults>>

(* An entry ends the polling, whatever it says; one that appeared after the*)
(* request was sent may have missed it.                                    *)
SlidingDeadline == clock + Timeout          \* mutant: set in the loop
DeadlineAfterPoll == deadline

Ask ==
    /\ pc = "ask"
    /\ LET entry == history[prompt] IN
       \/ /\ entry.status = "none" \/ finished[prompt] >= since
          /\ Goto("sleep")
          /\ UNCHANGED <<filename, verdict>>
       \/ entry.status = "image" /\ Goto("view") /\ filename' = entry.file /\ UNCHANGED verdict
       \/ entry.status = "error" /\ Fail("error") /\ UNCHANGED filename
       \/ entry.status = "empty" /\ Fail("no image") /\ UNCHANGED filename
    /\ deadline' = DeadlineAfterPoll
    /\ UNCHANGED <<beat, image, prompt, seed, path, files, attempts>>
    /\ UNCHANGED <<clock, serverVars, faults>>

Wake ==
    /\ pc = "sleep"
    /\ clock = NextPoll
    /\ Goto("check")
    /\ UNCHANGED <<beat, image, prompt, deadline, filename, verdict, seed, path, files, attempts>>
    /\ UNCHANGED <<clock, serverVars, faults>>

(* The bytes of the output file, under a name of the client's own.         *)
FilenameOnly(p, n) == <<0, n>>              \* mutant: without the prompt_id
OutPath(p, n) == <<p, n>>

View ==
    LET name == OutPath(prompt, filename) IN
    /\ pc = "view"
    /\ IF filename <= Len(outputs)
       THEN /\ files' = {f \in files : f.name # name} \cup {[name |-> name, of |-> outputs[filename]]}
            /\ path' = [path EXCEPT ![image] = name]
            /\ verdict' = "saved"
            /\ Goto("loop")
       ELSE Fail("http") /\ UNCHANGED <<files, path>>
    /\ UNCHANGED <<beat, image, prompt, deadline, filename, seed, attempts>>
    /\ UNCHANGED <<clock, serverVars, faults>>

(* A request is not answered or answered with an error; ComfyUI may have   *)
(* accepted the prompt nevertheless.                                       *)
RequestFails ==
    /\ pc \in {"submit", "ask", "view"}
    /\ faults < MaxFaults
    /\ faults' = faults + 1
    /\ Fail("http")
    /\ UNCHANGED serverVars \/ (pc = "submit" /\ Accept)
    /\ UNCHANGED <<beat, image, prompt, deadline, filename, seed, path, files, attempts, clock>>

-----------------------------------------------------------------------------
(* ComfyUI, as far as the client relies on it.                             *)

(* A prompt is executed: it fails, or its image is written, or the result  *)
(* is in the cache and the entry has no outputs.                           *)
Execute ==
    LET p == Head(pending)
        Enter(entry) == history' = [history EXCEPT ![p] = entry]
    IN
    /\ pending # <<>>
    /\ \/ /\ sent[p] \in cached
          /\ Enter([status |-> "empty"])
          /\ UNCHANGED <<cached, outputs>>
       \/ /\ sent[p] \notin cached
          /\ Enter([status |-> "image", file |-> Len(outputs) + 1])
          /\ cached' = cached \cup {sent[p]}
          /\ outputs' = Append(outputs, p)
       \/ /\ sent[p] \notin cached
          /\ Enter([status |-> "error"])
          /\ UNCHANGED <<cached, outputs>>
    /\ pending' = Tail(pending)
    /\ finished' = [finished EXCEPT ![p] = clock]
    /\ UNCHANGED <<sent, clock, workerVars, faults>>

(* Its container is recreated: queue, history, cache and outputs are gone, *)
(* and its files are numbered from 1 again.                                *)
Recreate ==
    /\ faults < MaxFaults
    /\ faults' = faults + 1
    /\ pending' = <<>> /\ cached' = {} /\ outputs' = <<>>
    /\ history' = [p \in Prompts |-> NoEntry]
    /\ UNCHANGED <<sent, finished, clock, workerVars>>

Next ==
    \/ Tick
    \/ Loop \/ PopNothing \/ \E i \in Images : PopImage(i)
    \/ Submit \/ CheckDeadline \/ Ask \/ Wake \/ View \/ RequestFails
    \/ Execute \/ Recreate

Spec == Init /\ [][Next]_vars
-----------------------------------------------------------------------------
(* Properties.                                                             *)

Instants == 0..MaxClock
Names == Prompts \X Prompts

(* Every variable holds a value of its kind.                               *)
TypeOK ==
    /\ clock \in Instants /\ since \in Instants /\ beat \in Instants
    /\ pc \in {"loop", "pop", "submit", "check", "ask", "sleep", "view"}
    /\ image \in Images /\ prompt \in 0..MaxAttempts
    /\ deadline \in 0..(MaxClock + Timeout) /\ filename \in 0..MaxAttempts
    /\ verdict \in {"none", "saved", "timeout", "error", "no image", "http"}
    /\ seed \in [Images -> 0..MaxAttempts] /\ path \in [Images -> Names \cup {NoPath}]
    /\ files \subseteq [name : Names, of : Prompts]
    /\ attempts \in 0..MaxAttempts /\ faults \in 0..MaxFaults
    /\ sent \in Seq([image : Images, seed : 1..MaxAttempts])
    /\ {pending, outputs} \subseteq Seq(Prompts)
    /\ cached \subseteq [image : Images, seed : 1..MaxAttempts]
    /\ finished \in [Prompts -> Instants]

(* A retry is a real render: whatever became of the earlier attempts, no   *)
(* call is served from ComfyUI's cache, where it would find no image.      *)
RetryRenders == verdict # "no image"

(* The file an image row refers to is a render of that image, although     *)
(* ComfyUI also finishes prompts nobody waits for any more and, once       *)
(* recreated, gives the same file names again.                             *)
FilesAreOwn ==
    \A i \in Images : path[i] # NoPath =>
        \E f \in files : f.name = path[i] /\ sent[f.of].image = i

(* No render is given up that was there to be found: one that timed out    *)
(* ended at most a poll and a request before the deadline, or later, or    *)
(* was lost with its container.                                            *)
TimeoutIsDue ==
    pc = "loop" /\ verdict = "timeout" /\ history[prompt] # NoEntry =>
        finished[prompt] >= deadline - PollInterval - MaxDelay

(* However slow ComfyUI is, the loop comes round: the heartbeat never gets *)
(* older than a pop, the deadline and three requests together (the health  *)
(* check of docker-compose.yml bears with much less, see README.md).       *)
MaxSilence ==
    PopTimeout + MaxDelay + (Timeout - 1) + MaxDelay
        + (IF PollInterval > MaxDelay THEN PollInterval ELSE MaxDelay)
SilenceBounded == clock - beat <= MaxSilence
=============================================================================
