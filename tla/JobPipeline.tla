---------------------------- MODULE JobPipeline ----------------------------
(***************************************************************************)
(* The asset pipeline: an API request persists a poem with its image and   *)
(* audio assets and their jobs (repository.py), enqueues the job ids on    *)
(* per-type Redis lists (service.py, queue.py), and one worker process per *)
(* type consumes them (worker_gpu.py, worker_tts.py, worker_common.py).    *)
(* A user may delete a poem at any moment (repository.delete_poem).        *)
(*                                                                         *)
(* One step of the model is one Redis command, one database transaction or *)
(* one use of the data volume: between two of them anything may happen.    *)
(***************************************************************************)
EXTENDS Integers, Sequences, FiniteSets, SequencesExt

CONSTANTS
    Poems,      \* the poems that may be requested
    Types,      \* the job types that have a queue and a worker
    MaxRetries, \* JOB_MAX_RETRIES
    FaultKinds, \* the faults the environment may inject
    MaxFaults   \* bound: how many of them one behaviour may contain

Faults == {"api", "crash", "redis", "reply", "db", "flush", "expire", "unlink"}

ASSUME TypesAssumption == Types \subseteq {"image", "audio"}
ASSUME BoundsAssumption == MaxRetries \in Nat /\ MaxFaults \in Nat
ASSUME FaultKindsAssumption == FaultKinds \subseteq Faults

VARIABLES
    \* the API process
    request,    \* per poem: where POST /api/generate stands
    owed,       \* per poem: the types whose job id it has yet to enqueue
    deletion,   \* per poem: where DELETE /api/poems/{id} stands
    \* PostgreSQL
    job,        \* status of each row of jobs, "absent" when there is none
    asset,      \* status of each row of images / audios
    path,       \* the render whose file the asset row points to, 0 for NULL
    \* the data volume
    files,      \* the <<job, name>> of the generated files on disk
    \* Redis
    queue,      \* per type: the list jobs:<type>
    processing, \* per type: the list jobs:<type>:processing
    retry,      \* per job: the counter retry:<type>:<id>
    \* the workers
    pc,         \* per type: the next command of the worker
    cur,        \* per type: the id run_once has popped
    mem,        \* per type: job.status as the worker's session holds it
    scan,       \* per type: in_redis, then the ids left to push back
    boot,       \* per type: the worker is before its consume loop
    \* history and bounds
    renders,    \* per job: how often the processor was called
    faults      \* how many faults happened so far

apiVars == <<request, owed, deletion>>
dbVars == <<job, asset, path>>
redisVars == <<queue, processing, retry>>
workerVars == <<pc, cur, mem, scan, boot>>
vars == <<apiVars, dbVars, files, redisVars, workerVars, renders, faults>>

-----------------------------------------------------------------------------
(* Jobs. A job is the poem and the type it was created for; its id, and    *)
(* that of the one asset it refers to, are fresh for each such pair.       *)

Jobs == Poems \X Types
NoJob == <<>>
JobsOf(p) == {j \in Jobs : j[1] = p}
TypeOf(j) == j[2]
JobsOfType(t) == Poems \X {t}

JobStatus == {"queued", "running", "done", "failed"}
AssetStatus == {"pending", "running", "done", "failed"}

(* The asset status the code always writes next to a job status.           *)
SameStatus(s) == s                          \* mutant: "queued" on an asset
AssetFor(s) == IF s = "queued" THEN "pending" ELSE s

(* ComfyUI names an image after a fresh prompt id, so that each render has *)
(* a file of its own; an audio file is named after its row.                *)
FileOf(j, n) == <<j, IF TypeOf(j) = "image" THEN n ELSE 1>>

(* A handled id is skipped when its job is already in this state.          *)
NeverSkippable(s) == FALSE                  \* mutant: no idempotence check
Skippable(s) == s = "done"

(* A failed attempt, the n-th, is tried again.                             *)
RetryableOnceMore(n) == n <= MaxRetries + 1 \* mutant: one retry too many
RetryableOnceLess(n) == n < MaxRetries      \* mutant: one retry too few
Retryable(n) == n <= MaxRetries

(* persist_poem creates the image job before the audio job.                *)
FirstOwed(S) == IF "image" \in S THEN "image" ELSE "audio"

Live(p) == request[p] # "none" /\ deletion[p] # "deleted"
Parked(j) == \/ Contains(queue[TypeOf(j)], j)
             \/ Contains(processing[TypeOf(j)], j)

Fault(kind) == /\ kind \in FaultKinds
               /\ faults < MaxFaults
               /\ faults' = faults + 1

Init ==
    /\ request = [p \in Poems |-> "none"]
    /\ owed = [p \in Poems |-> {}]
    /\ deletion = [p \in Poems |-> "no"]
    /\ job = [j \in Jobs |-> "absent"]
    /\ asset = [j \in Jobs |-> "absent"]
    /\ path = [j \in Jobs |-> 0]
    /\ files = {}
    /\ queue = [t \in Types |-> <<>>]
    /\ processing = [t \in Types |-> <<>>]
    /\ retry = [j \in Jobs |-> 0]
    /\ pc = [t \in Types |-> "down"]
    /\ cur = [t \in Types |-> NoJob]
    /\ mem = [t \in Types |-> "absent"]
    /\ scan = [t \in Types |-> {}]
    /\ boot = [t \in Types |-> TRUE]
    /\ renders = [j \in Jobs |-> 0]
    /\ faults = 0

-----------------------------------------------------------------------------
(* POST /api/generate, after the poem text has been generated.             *)

(* One transaction creates the poem and, for each asset asked for, the     *)
(* pending asset and the queued job.                                       *)
PersistPoem(p, S) ==
    /\ request[p] = "none"
    /\ request' = [request EXCEPT ![p] = "refresh"]
    /\ owed' = [owed EXCEPT ![p] = S]
    /\ job' = [j \in Jobs |-> IF j \in {p} \X S THEN "queued" ELSE job[j]]
    /\ asset' = [j \in Jobs |-> IF j \in {p} \X S THEN "pending" ELSE asset[j]]
    /\ UNCHANGED <<deletion, path, files, redisVars, workerVars, renders, faults>>

(* session.refresh(poem) raises when the poem was deleted meanwhile; the   *)
(* request then ends without having enqueued anything.                     *)
RefreshPoem(p) ==
    /\ request[p] = "refresh"
    /\ request' = [request EXCEPT ![p] =
                     IF ~Live(p) THEN "failed"
                     ELSE IF owed[p] = {} THEN "answered" ELSE "enqueue"]
    /\ UNCHANGED <<owed, deletion, dbVars, files, redisVars, workerVars, renders, faults>>

Enqueue(p) ==
    LET t == FirstOwed(owed[p]) IN
    /\ request[p] = "enqueue"
    /\ queue' = [queue EXCEPT ![t] = Append(@, <<p, t>>)]
    /\ owed' = [owed EXCEPT ![p] = @ \ {t}]
    /\ request' = [request EXCEPT ![p] = IF owed[p] = {t} THEN "answered" ELSE @]
    /\ UNCHANGED <<deletion, dbVars, files, processing, retry, workerVars, renders, faults>>

(* The RPUSH took effect but its reply was lost: the client sends it again.*)
EnqueueReplyLost(p) ==
    LET t == FirstOwed(owed[p]) IN
    /\ request[p] = "enqueue"
    /\ Fault("reply")
    /\ queue' = [queue EXCEPT ![t] = Append(@, <<p, t>>)]
    /\ UNCHANGED <<apiVars, dbVars, files, processing, retry, workerVars, renders>>

(* The refresh or an enqueue raises, or the API process dies, with the     *)
(* rows committed and some ids not enqueued.                               *)
RequestFails(p) ==
    /\ request[p] \in {"refresh", "enqueue"}
    /\ Fault("api")
    /\ request' = [request EXCEPT ![p] = "failed"]
    /\ UNCHANGED <<owed, deletion, dbVars, files, redisVars, workerVars, renders>>

-----------------------------------------------------------------------------
(* DELETE /api/poems/{id}.                                                 *)

(* The files the asset rows point to are unlinked first; an OSError is     *)
(* logged and the file stays.                                              *)
DeleteFiles(p) ==
    LET shown == {FileOf(j, path[j]) : j \in {k \in JobsOf(p) : path[k] # 0}} IN
    /\ Live(p)
    /\ deletion[p] \in {"no", "aborted"}
    /\ deletion' = [deletion EXCEPT ![p] = "unlinked"]
    /\ \/ files' = files \ shown /\ UNCHANGED faults
       \/ shown # {} /\ Fault("unlink") /\ UNCHANGED files
    /\ UNCHANGED <<request, owed, dbVars, redisVars, workerVars, renders>>

(* One transaction then deletes the jobs, the assets and the poem. Redis   *)
(* is left alone.                                                          *)
DeleteRows(p) ==
    /\ deletion[p] = "unlinked"
    /\ deletion' = [deletion EXCEPT ![p] = "deleted"]
    /\ job' = [j \in Jobs |-> IF j[1] = p THEN "absent" ELSE job[j]]
    /\ asset' = [j \in Jobs |-> IF j[1] = p THEN "absent" ELSE asset[j]]
    /\ path' = [j \in Jobs |-> IF j[1] = p THEN 0 ELSE path[j]]
    /\ UNCHANGED <<request, owed, files, redisVars, workerVars, renders, faults>>

(* The transaction rolls back, or the API process dies before it.          *)
DeleteFails(p) ==
    /\ deletion[p] = "unlinked"
    /\ Fault("api")
    /\ deletion' = [deletion EXCEPT ![p] = "aborted"]
    /\ UNCHANGED <<request, owed, dbVars, files, redisVars, workerVars, renders>>

-----------------------------------------------------------------------------
(* The worker of type t.                                                   *)

Goto(t, l) == pc' = [pc EXCEPT ![t] = l]

(* Everything the worker holds in memory is gone: it starts the next turn  *)
(* of its loop ("pop"), or its process has exited ("down").                *)
Restart(t, l) ==
    /\ Goto(t, l)
    /\ cur' = [cur EXCEPT ![t] = NoJob]
    /\ mem' = [mem EXCEPT ![t] = "absent"]
    /\ scan' = [scan EXCEPT ![t] = {}]
    /\ boot' = [boot EXCEPT ![t] = (l = "down")]

(* An exception: run() catches it inside the loop, while the startup pass  *)
(* runs outside the try and takes the process down with it.                *)
Escape(t) == Restart(t, IF boot[t] THEN "down" ELSE "pop")

(* Docker (restart: unless-stopped) brings the container back.             *)
Boot(t) ==
    /\ pc[t] = "down"
    /\ Goto(t, "reap")
    /\ UNCHANGED <<apiVars, dbVars, files, redisVars, cur, mem, scan, boot, renders, faults>>

(* reap_stuck: one LMOVE from the head of the processing list to the head  *)
(* of the queue at a time, until the processing list is empty.             *)
Reap(t) ==
    /\ pc[t] = "reap"
    /\ processing[t] # <<>>
    /\ queue' = [queue EXCEPT ![t] = Cons(Head(processing[t]), @)]
    /\ processing' = [processing EXCEPT ![t] = Tail(@)]
    /\ UNCHANGED <<apiVars, dbVars, files, retry, workerVars, renders, faults>>

ReapEnds(t) ==
    /\ pc[t] = "reap"
    /\ processing[t] = <<>>
    /\ Goto(t, "scanQueue")
    /\ UNCHANGED <<apiVars, dbVars, files, redisVars, cur, mem, scan, boot, renders, faults>>

(* reconcile_orphans: the ids on the two lists, one LRANGE each ...        *)
ScanQueue(t) ==
    /\ pc[t] = "scanQueue"
    /\ scan' = [scan EXCEPT ![t] = ToSet(queue[t])]
    /\ Goto(t, "scanProcessing")
    /\ UNCHANGED <<apiVars, dbVars, files, redisVars, cur, mem, boot, renders, faults>>

ScanProcessing(t) ==
    /\ pc[t] = "scanProcessing"
    /\ scan' = [scan EXCEPT ![t] = @ \cup ToSet(processing[t])]
    /\ Goto(t, "select")
    /\ UNCHANGED <<apiVars, dbVars, files, redisVars, cur, mem, boot, renders, faults>>

(* ... then the jobs the database still has open: RUNNING ones count only  *)
(* at startup ...                                                          *)
OnlyAtStartup(s, starting) == starting /\ s \in {"queued", "running"}   \* mutant
Eligible(s, starting) == s = "queued" \/ (starting /\ s = "running")

Select(t) ==
    LET open == {j \in JobsOfType(t) : Eligible(job[j], boot[t])} IN
    /\ pc[t] = "select"
    /\ scan' = [scan EXCEPT ![t] = open \ @]
    /\ Goto(t, "push")
    /\ UNCHANGED <<apiVars, dbVars, files, redisVars, cur, mem, boot, renders, faults>>

(* ... and one RPUSH for each of those found on neither list.              *)
Push(t) ==
    /\ pc[t] = "push"
    /\ \E j \in scan[t] :
         /\ queue' = [queue EXCEPT ![t] = Append(@, j)]
         /\ scan' = [scan EXCEPT ![t] = @ \ {j}]
    /\ UNCHANGED <<apiVars, dbVars, files, processing, retry, pc, cur, mem, boot,
                   renders, faults>>

PushEnds(t) ==
    /\ pc[t] = "push"
    /\ scan[t] = {}
    /\ Restart(t, "pop")
    /\ UNCHANGED <<apiVars, dbVars, files, redisVars, renders, faults>>

(* reliable_pop: BLMOVE takes the head of the queue to the tail of the     *)
(* processing list, or times out on an empty queue.                        *)
PopOnly(t) == UNCHANGED processing          \* mutant: BLPOP instead of BLMOVE
Reserve(t) == processing' = [processing EXCEPT ![t] = Append(@, Head(queue[t]))]

Pop(t) ==
    /\ pc[t] = "pop"
    /\ queue[t] # <<>>
    /\ queue' = [queue EXCEPT ![t] = Tail(@)]
    /\ Reserve(t)
    /\ cur' = [cur EXCEPT ![t] = Head(queue[t])]
    /\ Goto(t, "load")
    /\ UNCHANGED <<apiVars, dbVars, files, retry, mem, scan, boot, renders, faults>>

PopTimesOut(t) ==
    /\ pc[t] = "pop"
    /\ queue[t] = <<>>
    /\ Goto(t, "check")
    /\ UNCHANGED <<apiVars, dbVars, files, redisVars, cur, mem, scan, boot, renders, faults>>

(* process: a missing or DONE job is only acknowledged ...                 *)
Skip(t) ==
    /\ pc[t] = "load"
    /\ job[cur[t]] = "absent" \/ Skippable(job[cur[t]])
    /\ Goto(t, "ack")
    /\ UNCHANGED <<apiVars, dbVars, files, redisVars, cur, mem, scan, boot, renders, faults>>

(* ... any other is loaded into the session, then its asset is.            *)
Load(t) ==
    /\ pc[t] = "load"
    /\ job[cur[t]] # "absent" /\ ~Skippable(job[cur[t]])
    /\ mem' = [mem EXCEPT ![t] = job[cur[t]]]
    /\ Goto(t, "loadAsset")
    /\ UNCHANGED <<apiVars, dbVars, files, redisVars, cur, scan, boot, renders, faults>>

(* A job without its asset is failed for good (rows are created and        *)
(* deleted together, so that this stays an early return never taken).      *)
LoadAsset(t) ==
    LET found == asset[cur[t]] # "absent" IN
    /\ pc[t] = "loadAsset"
    /\ found \/ job[cur[t]] # "absent"
    /\ job' = IF found THEN job ELSE [job EXCEPT ![cur[t]] = "failed"]
    /\ Goto(t, IF found THEN "start" ELSE "ack")
    /\ UNCHANGED <<apiVars, asset, path, files, redisVars, cur, mem, scan, boot,
                   renders, faults>>

(* The session writes status s to the job and its asset.                   *)
FailureNotShown(j, s) ==                    \* mutant: the asset is left running
    /\ job' = [job EXCEPT ![j] = s]
    /\ asset' = [asset EXCEPT ![j] = IF s = "failed" THEN @ ELSE AssetFor(s)]
WriteStatus(j, s) ==
    /\ job' = [job EXCEPT ![j] = s]
    /\ asset' = [asset EXCEPT ![j] = AssetFor(s)]

(* Commit RUNNING and call the processor.                                  *)
Start(t) ==
    /\ pc[t] = "start"
    /\ job[cur[t]] # "absent"
    /\ WriteStatus(cur[t], "running")
    /\ mem' = [mem EXCEPT ![t] = "running"]
    /\ renders' = [renders EXCEPT ![cur[t]] = @ + 1]
    /\ Goto(t, "render")
    /\ UNCHANGED <<apiVars, path, files, redisVars, cur, scan, boot, faults>>

(* Rows that were RUNNING already need no write, so that the commit does   *)
(* not notice that they are gone: an image is rendered, while the text of  *)
(* an audio (_text_for) cannot be read, a failed attempt.                  *)
StartUnwritten(t) ==
    /\ pc[t] = "start"
    /\ job[cur[t]] = "absent"
    /\ mem[t] = "running"
    /\ \/ /\ t = "image"
          /\ renders' = [renders EXCEPT ![cur[t]] = @ + 1]
          /\ Goto(t, "render")
       \/ /\ t = "audio"
          /\ Goto(t, "count")
          /\ UNCHANGED renders
    /\ UNCHANGED <<apiVars, dbVars, files, redisVars, cur, mem, scan, boot, faults>>

(* Any other write to rows that are gone raises StaleDataError.            *)
StaleWrite(t) ==
    /\ \/ pc[t] = "loadAsset" /\ asset[cur[t]] = "absent"
       \/ pc[t] = "start" /\ mem[t] # "running"
       \/ pc[t] = "commit"
    /\ job[cur[t]] = "absent"
    /\ Escape(t)
    /\ UNCHANGED <<apiVars, dbVars, files, redisVars, renders, faults>>

(* The processor leaves a file, whole or not, on the data volume.          *)
FirstOutput(t) == FileOf(cur[t], 1)         \* mutant: the first attempt's name
Output(t) == FileOf(cur[t], renders[cur[t]])

WriteFile(t) ==
    /\ pc[t] = "render"
    /\ files' = files \cup {Output(t)}
    /\ Goto(t, "written")
    /\ UNCHANGED <<apiVars, dbVars, redisVars, cur, mem, scan, boot, renders, faults>>

RenderSucceeds(t) ==
    /\ pc[t] = "written"
    /\ mem' = [mem EXCEPT ![t] = "done"]
    /\ Goto(t, "commit")
    /\ UNCHANGED <<apiVars, dbVars, files, redisVars, cur, scan, boot, renders, faults>>

(* The processor raises, before or while it writes its file.               *)
RenderFails(t) ==
    /\ pc[t] \in {"render", "written"}
    /\ Goto(t, "count")
    /\ UNCHANGED <<apiVars, dbVars, files, redisVars, cur, mem, scan, boot, renders, faults>>

(* UnsupportedLanguageError fails an audio job at once, without a retry.   *)
RenderUnsupported(t) ==
    /\ t = "audio"
    /\ pc[t] = "render"
    /\ mem' = [mem EXCEPT ![t] = "failed"]
    /\ Goto(t, "commit")
    /\ UNCHANGED <<apiVars, dbVars, files, redisVars, cur, scan, boot, renders, faults>>

(* handle_job_failure: INCR (and, as one step with it, EXPIRE) the retry    *)
(* counter, then decide.                                                   *)
CountFailure(t) ==
    LET j == cur[t]
        attempts == retry[j] + 1
    IN
    /\ pc[t] = "count"
    /\ retry' = [retry EXCEPT ![j] = attempts]
    /\ mem' = [mem EXCEPT ![t] = IF Retryable(attempts) THEN "queued" ELSE "failed"]
    /\ Goto(t, "commit")
    /\ UNCHANGED <<apiVars, dbVars, files, queue, processing, cur, scan, boot, renders, faults>>

(* The outcome is committed.                                               *)
WriteOutcome(t) ==
    LET j == cur[t] IN
    /\ WriteStatus(j, mem[t])
    /\ path' = [path EXCEPT ![j] = IF mem[t] = "done" THEN renders[j] ELSE @]

AckOnly(s) == "ack"                         \* mutant: no requeue before the ack
AfterCommit(s) == IF s = "queued" THEN "requeue" ELSE "ack"

Commit(t) ==
    /\ pc[t] = "commit"
    /\ job[cur[t]] # "absent"
    /\ WriteOutcome(t)
    /\ Goto(t, AfterCommit(mem[t]))
    /\ UNCHANGED <<apiVars, files, redisVars, cur, mem, scan, boot, renders, faults>>

(* run_once: a retryable failure goes back on the queue before the ack.    *)
Requeue(t) ==
    /\ pc[t] = "requeue"
    /\ queue' = [queue EXCEPT ![t] = Append(@, cur[t])]
    /\ Goto(t, "ack")
    /\ UNCHANGED <<apiVars, dbVars, files, processing, retry, cur, mem, scan, boot, renders, faults>>

(* ack: LREM takes the first copy of the id off the processing list.       *)
Acknowledge(t) ==
    LET ids == processing[t] IN
    \/ \E n \in 1..Len(ids) :
          /\ ids[n] = cur[t]
          /\ \A k \in 1..(n - 1) : ids[k] # cur[t]
          /\ processing' = [processing EXCEPT ![t] = RemoveAt(ids, n)]
    \/ ~Contains(ids, cur[t]) /\ UNCHANGED processing

Ack(t) ==
    /\ pc[t] = "ack"
    /\ Acknowledge(t)
    /\ Restart(t, "check")
    /\ UNCHANGED <<apiVars, dbVars, files, queue, retry, renders, faults>>

(* After run_once: the maintenance interval may or may not have elapsed.   *)
Continue(t) ==
    /\ pc[t] = "check"
    /\ Goto(t, "pop")
    /\ UNCHANGED <<apiVars, dbVars, files, redisVars, cur, mem, scan, boot, renders, faults>>

Maintain(t) ==
    /\ pc[t] = "check"
    /\ Goto(t, "reap")
    /\ UNCHANGED <<apiVars, dbVars, files, redisVars, cur, mem, scan, boot, renders, faults>>

-----------------------------------------------------------------------------
(* What may go wrong around a worker.                                      *)

(* The process dies and with it what it held in memory.                    *)
WorkerCrashes(t) ==
    /\ pc[t] # "down"
    /\ Fault("crash")
    /\ Restart(t, "down")
    /\ UNCHANGED <<apiVars, dbVars, files, redisVars, renders>>

(* A Redis command raises without having taken effect. A read timeout of   *)
(* the blocking pop counts as an empty queue; the retry counter's failure  *)
(* fails the job; every other one escapes to the loop.                     *)
RedisFails(t) ==
    /\ Fault("redis")
    /\ \/ /\ pc[t] \in {"reap", "scanQueue", "scanProcessing", "push", "pop",
                        "requeue", "ack"}
          /\ Escape(t)
       \/ /\ pc[t] = "pop"
          /\ Goto(t, "check")
          /\ UNCHANGED <<cur, mem, scan, boot>>
       \/ /\ pc[t] = "count"
          /\ mem' = [mem EXCEPT ![t] = "failed"]
          /\ Goto(t, "commit")
          /\ UNCHANGED <<cur, scan, boot>>
    /\ UNCHANGED <<apiVars, dbVars, files, redisVars, renders>>

(* A Redis command takes effect, its reply is lost and the client sends it *)
(* again (queue.redis_from_url): the worker stays where it is.             *)
ReplyLost(t) ==
    /\ Fault("reply")
    /\ \/ /\ pc[t] = "push"
          /\ \E j \in scan[t] : queue' = [queue EXCEPT ![t] = Append(@, j)]
          /\ UNCHANGED <<processing, retry>>
       \/ /\ pc[t] = "pop"
          /\ queue[t] # <<>>
          /\ queue' = [queue EXCEPT ![t] = Tail(@)]
          /\ Reserve(t)
          /\ UNCHANGED retry
       \/ /\ pc[t] = "count"
          /\ retry' = [retry EXCEPT ![cur[t]] = @ + 1]
          /\ UNCHANGED <<queue, processing>>
       \/ /\ pc[t] = "requeue"
          /\ queue' = [queue EXCEPT ![t] = Append(@, cur[t])]
          /\ UNCHANGED <<processing, retry>>
       \/ /\ pc[t] = "ack"
          /\ Acknowledge(t)
          /\ UNCHANGED <<queue, retry>>
    /\ UNCHANGED <<apiVars, dbVars, files, workerVars, renders>>

(* A database access raises; a commit may have taken effect before that.   *)
DatabaseFails(t) ==
    /\ Fault("db")
    /\ pc[t] \in {"select", "load", "loadAsset", "start", "commit"}
    /\ Escape(t)
    /\ \/ UNCHANGED dbVars
       \/ /\ pc[t] = "start" /\ job[cur[t]] # "absent"
          /\ WriteStatus(cur[t], "running")
          /\ UNCHANGED path
       \/ pc[t] = "commit" /\ job[cur[t]] # "absent" /\ WriteOutcome(t)
    /\ UNCHANGED <<apiVars, files, redisVars, renders>>

(* Redis comes back empty: restarted without, or before, a snapshot.       *)
RedisLosesData ==
    /\ Fault("flush")
    /\ queue' = [t \in Types |-> <<>>]
    /\ processing' = [t \in Types |-> <<>>]
    /\ retry' = [j \in Jobs |-> 0]
    /\ UNCHANGED <<apiVars, dbVars, files, workerVars, renders>>

(* The retry counter outlives RETRY_TTL_SECONDS.                           *)
RetryExpires(j) ==
    /\ retry[j] > 0
    /\ Fault("expire")
    /\ retry' = [retry EXCEPT ![j] = 0]
    /\ UNCHANGED <<apiVars, dbVars, files, queue, processing, workerVars, renders>>

-----------------------------------------------------------------------------
Api(p) ==
    \/ \E S \in SUBSET Types : PersistPoem(p, S)
    \/ RefreshPoem(p) \/ Enqueue(p)
    \/ DeleteFiles(p) \/ DeleteRows(p)
    \/ EnqueueReplyLost(p) \/ RequestFails(p) \/ DeleteFails(p)

Worker(t) ==
    \/ Boot(t) \/ Reap(t) \/ ReapEnds(t)
    \/ ScanQueue(t) \/ ScanProcessing(t) \/ Select(t) \/ Push(t) \/ PushEnds(t)
    \/ Pop(t) \/ PopTimesOut(t)
    \/ Skip(t) \/ Load(t) \/ LoadAsset(t)
    \/ Start(t) \/ StartUnwritten(t) \/ StaleWrite(t)
    \/ WriteFile(t) \/ RenderSucceeds(t) \/ RenderFails(t) \/ RenderUnsupported(t)
    \/ CountFailure(t) \/ Commit(t) \/ Requeue(t) \/ Ack(t)
    \/ Continue(t) \/ Maintain(t)

WorkerFault(t) == WorkerCrashes(t) \/ RedisFails(t) \/ ReplyLost(t) \/ DatabaseFails(t)

Next ==
    \/ \E p \in Poems : Api(p)
    \/ \E t \in Types : Worker(t) \/ WorkerFault(t)
    \/ RedisLosesData
    \/ \E j \in Jobs : RetryExpires(j)

Spec == Init /\ [][Next]_vars

(* A worker that can take a step takes one: run() loops forever, a render  *)
(* ends (the processors time out) and Docker restarts an exited container. *)
(* The clock passes MAINTENANCE_INTERVAL_SECONDS again and again, so one   *)
(* of infinitely many checks finds maintenance due. Nothing is assumed of  *)
(* users, of the API process or of the faults.                             *)
Fairness == \A t \in Types : WF_vars(Worker(t)) /\ SF_vars(Maintain(t))
FairSpec == Spec /\ Fairness
-----------------------------------------------------------------------------
(* Properties.                                                             *)

Labels == {"down", "reap", "scanQueue", "scanProcessing", "select", "push", "pop",
           "load", "loadAsset", "start", "render", "written", "count", "commit",
           "requeue", "ack", "check"}

ApiTypes ==
    /\ request \in [Poems -> {"none", "refresh", "enqueue", "answered", "failed"}]
    /\ owed \in [Poems -> SUBSET Types]
    /\ deletion \in [Poems -> {"no", "unlinked", "aborted", "deleted"}]

RowTypes ==
    /\ job \in [Jobs -> JobStatus \cup {"absent"}]
    /\ asset \in [Jobs -> AssetStatus \cup {"absent"}]
    /\ path \in [Jobs -> Nat]
    /\ files \subseteq Jobs \X Nat

ListTypes ==
    /\ queue \in [Types -> Seq(Jobs)]
    /\ processing \in [Types -> Seq(Jobs)]

WorkerTypes ==
    /\ pc \in [Types -> Labels]
    /\ cur \in [Types -> Jobs \cup {NoJob}]
    /\ mem \in [Types -> JobStatus \cup {"absent"}]
    /\ scan \in [Types -> SUBSET Jobs]
    /\ boot \in [Types -> BOOLEAN]

CounterTypes ==
    /\ retry \in [Jobs -> Nat]
    /\ renders \in [Jobs -> Nat]
    /\ faults \in 0..MaxFaults

(* Every variable holds a value of its kind: statuses the CHECK            *)
(* constraints of models.py admit, lists of job ids, counters.             *)
TypeOK == ApiTypes /\ RowTypes /\ ListTypes /\ WorkerTypes /\ CounterTypes

(* The next invariants say what the worker's loop relies on between two of *)
(* its steps; together with the safety properties below they are inductive.*)

(* Where a request stands says what its poem may look like.                *)
RequestShape ==
    /\ \A p \in Poems : /\ request[p] = "enqueue" => owed[p] # {}
                        /\ request[p] = "none" => deletion[p] = "no"
    /\ \A j \in Jobs : request[j[1]] = "none" \/ deletion[j[1]] = "deleted" =>
                          job[j] = "absent"

(* A worker only ever sees ids of its own type, of poems that were asked   *)
(* for.                                                                    *)
Held(t, j) == \/ Contains(queue[t], j) \/ Contains(processing[t], j)
              \/ j = cur[t] \/ j \in scan[t]
KnownIds ==
    \A t \in Types, j \in Jobs :
        Held(t, j) => TypeOf(j) = t /\ request[j[1]] # "none"

(* What the session remembers is what the row says, unless the row is gone.*)
Handling == {"load", "loadAsset", "start", "render", "written", "count", "commit",
             "requeue", "ack"}
Rendered(t) == pc[t] = "written" \/ (pc[t] = "commit" /\ mem[t] = "done")
SessionOf(t) ==
    pc[t] \in Handling =>
        /\ cur[t] \in Jobs
        /\ pc[t] \in {"loadAsset", "start"} =>
              mem[t] \in {"queued", "running", "failed"} /\ job[cur[t]] \in {mem[t], "absent"}
        /\ pc[t] \in {"render", "written", "count"} =>
              mem[t] = "running" /\ job[cur[t]] \in {"running", "absent"}
        /\ pc[t] = "commit" =>
              mem[t] \in {"done", "failed", "queued"} /\ job[cur[t]] \in {"running", "absent"}
        /\ pc[t] = "requeue" => job[cur[t]] \in {"queued", "absent"}
        /\ pc[t] = "ack" => job[cur[t]] # "running"
        /\ pc[t] = "render" \/ Rendered(t) => renders[cur[t]] > 0
SessionShape == \A t \in Types : SessionOf(t)

(* An id in a worker's hands stays on the processing list until the ack,   *)
(* and a job to be retried is on the queue again before it.                *)
InFlight ==
    "flush" \notin FaultKinds =>
        \A t \in Types :
            /\ pc[t] \in Handling \ {"ack"} => Contains(processing[t], cur[t])
            /\ pc[t] = "ack" /\ job[cur[t]] = "queued" => Contains(queue[t], cur[t])

(* A finished render whose poem nobody began to delete has its file.       *)
OutputKept ==
    \A t \in Types : Rendered(t) /\ deletion[cur[t][1]] = "no" => Output(t) \in files

(* The job and the asset it refers to tell the same story whatever failed  *)
(* between them: they are created and deleted together, their statuses     *)
(* correspond, and the asset has a path exactly when it is done.           *)
RowsInStep ==
    \A j \in Jobs :
        /\ asset[j] = AssetFor(job[j])
        /\ asset[j] = "done" <=> path[j] # 0

(* At-least-once delivery, for an attempt that was begun: as long as Redis *)
(* keeps its data, a job the database calls RUNNING is on one of its lists,*)
(* so the reaper finds it whatever happens to the worker (the periodic     *)
(* reconciler would not: it looks at QUEUED jobs only).                    *)
RunningIsParked ==
    "flush" \notin FaultKinds =>
        \A j \in Jobs : job[j] = "running" => Parked(j)

(* At-least-once delivery, for a waiting job: it is on a list, or its      *)
(* request is still going to enqueue it; only a request that failed leaves *)
(* a queued job to the reconciler.                                         *)
QueuedIsParkedOrOwed ==
    "flush" \notin FaultKinds =>
        \A j \in Jobs : job[j] = "queued" =>
            Parked(j) \/ TypeOf(j) \in owed[j[1]] \/ request[j[1]] = "failed"

(* A done asset nobody began to delete has its file, whatever retries,     *)
(* crashes and other deletions went on around it.                          *)
DoneHasFile ==
    \A j \in Jobs : job[j] = "done" /\ deletion[j[1]] = "no" =>
        FileOf(j, path[j]) \in files

(* The GPU works a bounded number of times for one job: the attempts       *)
(* JOB_MAX_RETRIES allows, one for the duplicate id that the reconciler    *)
(* and a slow request may create together, and one per fault. (An expired  *)
(* or lost counter starts the attempts again and is not counted here.)     *)
RenderBudget ==
    FaultKinds \cap {"flush", "expire"} = {} =>
        \A j \in Jobs : renders[j] <= MaxRetries + 2 + faults

(* The retry counter in Redis and the verdict in the database agree while  *)
(* the counter can be read: a job that waits has attempts left, an image   *)
(* job that was given up has none.                                         *)
VerdictMatchesCounter ==
    FaultKinds \cap {"flush", "expire", "redis"} = {} =>
        \A j \in Jobs :
            /\ job[j] = "queued" => retry[j] <= MaxRetries
            /\ job[j] = "failed" /\ TypeOf(j) = "image" => retry[j] > MaxRetries

(* Once an asset is done nothing but a deletion touches its row again, and *)
(* a deleted job never comes back, however many copies of its id are left  *)
(* on the lists or in a worker's memory.                                   *)
DoneIsFinal ==
    [][\A j \in Jobs :
        /\ job[j] = "done" => <<job[j], path[j]>>' = <<job[j], path[j]>> \/ job'[j] = "absent"
        /\ deletion[j[1]] = "deleted" => job'[j] = "absent"]_vars

(* The pipeline implements the life cycle a client may rely on.            *)
Seen(j) == IF asset[j] # "absent" THEN asset[j]
           ELSE IF deletion[j[1]] = "deleted" THEN "gone" ELSE "new"
UrlOf(j) == IF path[j] = 0 THEN "null" ELSE "given"

Lifecycle == INSTANCE AssetLifecycle WITH
    Assets <- Jobs,
    status <- [j \in Jobs |-> Seen(j)],
    url <- [j \in Jobs |-> UrlOf(j)]

(* Every behaviour of the workers, the queue and the faults is, seen from  *)
(* the asset rows, a behaviour of AssetLifecycle.                          *)
ImplementsLifecycle == Lifecycle!Spec

(* All of the above: every step of the pipeline preserves this.            *)
Inductive ==
    /\ TypeOK /\ RequestShape /\ KnownIds /\ SessionShape /\ RowsInStep
    /\ InFlight /\ RunningIsParked /\ QueuedIsParkedOrOwed
    /\ OutputKept /\ DoneHasFile

(* The promise to whoever polls a poem: every asset is done, failed or     *)
(* deleted in the end. Only a job that was begun by a worker that crashed, *)
(* and whose id Redis lost afterwards, has to wait for another restart.    *)
LostWhileRunning(j) == "flush" \in FaultKinds /\ job[j] = "running" /\ ~Parked(j)
EventuallySettled ==
    \A j \in Jobs : job[j] \in {"queued", "running"} ~>
                     job[j] \in {"done", "failed", "absent"} \/ LostWhileRunning(j)

(* Deleting a poem takes along the file of every asset that was done before*)
(* anyone began to delete it, if it can be unlinked: no later attempt has  *)
(* pointed the row to another file or written this one again. (What renders*)
(* under way write, and what earlier attempts left, stays on the volume.)  *)
(* RenderNumbers: bound, the attempts that the run's behaviours reach.     *)
RenderNumbers == 1..(MaxRetries + 2 + MaxFaults)
DeletionUnlinks ==
    "unlink" \notin FaultKinds =>
        \A j \in Jobs, n \in RenderNumbers :
            [](job[j] = "done" /\ path[j] = n /\ deletion[j[1]] = "no" =>
                  [](deletion[j[1]] = "deleted" => FileOf(j, n) \notin files))

-----------------------------------------------------------------------------
(* What the documentation says and the code does not do.                   *)

(* reconcile_orphans promises that a job the database has as queued or     *)
(* running and Redis has lost is pushed back onto the queue.               *)
OrphansRecovered ==
    \A j \in Jobs : job[j] \in {"queued", "running"} /\ ~Parked(j) ~>
                     Parked(j) \/ job[j] \in {"done", "failed", "absent"}
=============================================================================
