# Verification of the DDLC poetry generator

TLA+ models of the generator, the TLC configurations that check them on small
instances, and machine-checked proofs, for every value of the constants, of the
invariants of each component. Paths are relative to the repository
(`worker_gpu.py` stands for `api/app/worker_gpu.py`, and so on).

## The system

| component | state | operations | interacts with |
|---|---|---|---|
| Generation endpoint (`main.py`, `deps.py`, `claude_client.py`, `service.py`) | a semaphore built by its first user, the server's thread pool | `POST /api/generate`: rate limit, API key, slot, Claude with retries, persist, enqueue | Claude, PostgreSQL, Redis, the limiters |
| Asset pipeline (`repository.py`, `queue.py`, `worker_common.py`, `worker_gpu.py`, `worker_tts.py`) | rows of `images`, `audios`, `jobs`; lists `jobs:<type>` and `jobs:<type>:processing`; counters `retry:<type>:<id>`; files on the data volume | `persist_poem`, `enqueue`, `delete_poem`, `run_once`, `process`, `reap_stuck`, `reconcile_orphans`, `handle_job_failure` | PostgreSQL, Redis, ComfyUI, the TTS engines |
| ComfyUI client (`comfyui_client.py`) | prompt id, deadline, seed, output file | submit, poll the history, fetch, time out | ComfyUI, the image worker |
| Speech (`worker_tts.py`, `tts.py`, `tts_voicevox.py`, `tts_xtts.py`, `voices.py`, `GET /api/tts/capabilities`) | the voice files on the volume and their `.part` files, the loaded model, the wav files | route a language to its engine, download and verify the Piper voice, load it, write the wav | the engines, the voice repository; the API, which has settings of its own |
| Limiter of one process (`ratelimit.RateLimiter`) | a bounded table of hits per key, under a lock | `check`, `_evict` | the threads of the API |
| Shared limiter (`ratelimit.RedisRateLimiter`) | a counter per key and window, with an expiry | `INCR`, `EXPIRE` | Redis, the other API processes |
| Named clients (`clients.ClientRegistry`, `ratelimit.NamedClientLimiter`) | the rules, a cache of DNS answers, a limiter per name | `parse_client_rules`, `match`, `_addresses`, `for_peer` | DNS, the threads of the API |
| Image models (`image_models.py`, `GET /api/models`, `make_comfyui_processor`, the page's choice) | settings of `.env` as API and worker had them at their start, the list the page loaded, name and type in the image row | `catalog`, `resolve`, `default_name`, pin, look up, render | API, page and image worker, through the row alone |
| Home page (`frontend/app/page.tsx`, `poem-utils.ts`) | the poem shown, a timer, POSTs and GETs in flight | generate and generate again, poll every two seconds | the API |
| Gallery (`frontend/app/gallery/page.tsx`, `repository.get_poems`) | filter, page, cards, GETs and DELETEs in flight | filter, turn the page, delete a card | the API; other tabs |
| Poem page, read endpoints, prompts, configuration, migrations | see "Not modelled" | | |

What is hard about it: delivery is at least once, through two Redis lists that
are not part of any database transaction; a worker, the API or Redis may fail
between any two commands, and the Redis client repeats a command whose reply
was lost; a user may delete a poem whose assets are being rendered; timeouts
end a call and not the work behind it; the limiters and the DNS cache are read
and written by threads in an order that is not the clock's; API, page and
worker each act on a copy of the settings of their own; and the pages apply
answers in the order in which they come. `PROJECT.json` lists each of
these hazards with its line and the properties that would catch it.

## Modules

| module | models | one step is |
|---|---|---|
| `AssetLifecycle` | what the API promises of an asset: new, pending, running, done with a url, failed, gone (`docs/ARCHITECTURE.md`, "状態遷移"; `poem-utils.ts`) | a change that a client could see |
| `JobPipeline` | `persist_poem`, `enqueue`, `delete_poem` and both workers | one Redis command, one transaction or one use of the data volume |
| `PoemPolling` | the home page against `AssetLifecycle` | one JavaScript callback or one flush of effects |
| `GenerateEndpoint` | `POST /api/generate` from its dependencies to its answer | a function that begins on, or ends and leaves, a thread of the pool |
| `ComfyUIClient` | the image processor between pop and verdict, ComfyUI as the client sees it | one HTTP exchange, or a tick |
| `Gallery` | the gallery with the list and delete endpoints, poems also created and deleted in other tabs | one JavaScript callback, or one transaction of the API |
| `SpeechSynthesis` | the synthesizers behind the audio worker, the Piper voice on the volume and in memory | one file operation, download or call of an engine |
| `ImageModels` | `image_models.py` with its callers in the API, the page and the worker | one request, one render or one start of a container |
| `Offers` | `SpeechSynthesis` and `ImageModels` side by side: what the API offers against what the workers do | a step of either |
| `RateLimiter` | `RateLimiter.check` and `_evict` | the clock read, then the locked section |
| `RedisRateLimiter` | `RedisRateLimiter.check` in several processes | one Redis command, or a tick |
| `RateLimiting` | the choice of `_new_rate_limiter` between the two | a step of either |
| `ClientRegistry` | `parse_client_rules`, `match`, `_addresses`, `for_peer` | the clock, the locked read, the lookup, the locked write, the locked table of limiters |
| `JobPipelineProofs`, `PoemPollingProofs`, `GenerateEndpointProofs`, `ComfyUIClientProofs`, `GalleryProofs`, `OffersProofs`, `RateLimitingProofs`, `ClientRegistryProofs` | the proofs about the module of that name (see "Proofs") | |
| `MC...` | the constants and symmetries TLC needs | |

`JobPipeline` implements `AssetLifecycle` (checked and proved), and
`PoemPolling` takes `AssetLifecycle` for its server (`INSTANCE`): what is shown
of the page holds for the pipeline, as far as the page can see it. One
abstraction in between: a GET reads all the assets of a poem at one moment,
while `main._detail` reads them in one database session.

`RateLimiting` and `Offers` put two components into one state space that never
touch each other. A behaviour follows one of them and the other one stays as it
was initially, so that their numbers of states add up instead of multiplying.
For the limiters this is what the code does (`_new_rate_limiter` builds one of
the two). For the workers it is an abstraction: they are containers that share
no state the properties of `Offers` speak of.

`TypeOK` is an invariant of a run in `JobPipeline`; in the limiters it documents
the variables, and the proofs start from it.

### How the pipeline corresponds to the code

`pc[t]` is the next command of the worker of type `t`:

    down -> reap -> scanQueue -> scanProcessing -> select -> push -> pop
    pop -> load -> loadAsset -> start -> render -> written -> commit
        -> (count ->) commit -> (requeue ->) ack -> check -> pop or reap

* `job`, `asset`, `path` are the rows. `persist_poem` writes them in one
  transaction (`PersistPoem`), then refreshes (`RefreshPoem`), then pushes one
  id after the other (`Enqueue`).
* `mem[t]` is the job's status as the session of the worker has it. SQLAlchemy
  writes only what changed and raises `StaleDataError` when the row is gone;
  that gives `Start`, `StartUnwritten` and `StaleWrite`, three different things
  that happen to a worker whose poem was deleted.
* `boot[t]` separates the startup pass, whose exceptions end the process, from
  the loop, which catches them (`Escape`). It also decides whether the
  reconciler looks at RUNNING rows (`Eligible`).
* `DeleteFiles` and `DeleteRows` are the two halves of `delete_poem`: files are
  unlinked first, the rows are deleted in a transaction afterwards.
* Faults are of eight kinds, each a `FaultKinds` member and each counted against
  `MaxFaults`: `api` (a request or a deletion fails halfway), `crash` (a worker
  dies), `redis` (a command raises), `reply` (a command is applied and then
  repeated), `db` (a query raises, a commit perhaps after it took effect),
  `flush` (Redis loses its data), `expire` (a retry counter runs out), `unlink`.

Left out of it: ids on a queue that are no numbers (only the API pushes ids),
error texts, and a second worker of the same type, which `docker-compose.yml`
does not start.

## Runs

Every passing run explores its whole state space. Bounds are the least that let
the case happen that a property is about; a property that a mutated definition
could not break under them has no place here: `PROJECT.json` names such a
mutant for each.

| run | shows | bounds and why they are enough |
|---|---|---|
| `pipeline_faults` | Rows agree, running and queued jobs are deliverable, done assets have files, renders are bounded, done is final, and `AssetLifecycle` is implemented | one image job (an image has one file per attempt, the harder case), one retry, three faults of six kinds: three is enough for a fault in an attempt, in its recovery and in the request. Several poems are covered by the proofs |
| `pipeline_types` | The image and the audio job of one poem with two workers: a job fails for good exactly when its own retry counter says so | no faults (each of them may make counter and verdict differ): the deletion, the maintenance and the failing renders interleave with both workers |
| `pipeline_settles` | Every asset is settled in the end, and a deletion that began after an asset was done takes its file along | one job, two faults of seven kinds, data loss included; a render is one of `RenderNumbers`, two more than the attempts and faults there can be, and no behaviour gets that far |
| `pipeline_lost_running` | *violation*: see finding 1 | one job, a crash and a data loss |
| `polling_page` | Polls do not multiply, the page never steps back, nothing is shown as done that is not, polling ends only for the reasons named | three poems, two POSTs waiting: a generation can be started while another one is in flight, and the answers to both, and to the polls of the poem before, can overtake each other; three changes in all (a poem that is run and done or failed, or deleted, while the other two go on); one failing poll, all may be deleted |
| `polling_gives_up` | *violation*: see finding 2 | one poem, two changes, one failing poll |
| `gallery` | Whoever turns the pages misses no more poems than were deleted meanwhile; the cards are those of the buttons, unless an older list was answered last | three poems of two characters, from any gallery with up to three; three lists, so that a third is asked for while two overtake each other; two DELETEs in flight, so that one can be repeated or overtaken; one failing request. One card per page: every poem is then on a page of its own, and three poems make three pages, the most that three lists can read. A page of two was explored to 14 million states without an error, which is too large for a run |
| `generate_endpoint` | Slots are conserved, the cap holds but for the race for the semaphore, only a 500 is ambiguous, reads are answered, generations end | three generations for one slot and two threads, one read, one retry: one generation in the slot, one refused, one waiting; all three may see an empty `lru_cache` |
| `comfyui_calls` | Retries render, files belong to their image, timeouts are due, the loop's silence is bounded | two images, three calls, one fault; a render's timeout of three ticks against a poll interval of one; 8 ticks are enough for a call that times out and a whole second one |
| `offers` | Speech: what is done is spoken well, what is given up was given up for a reason, every language offered is spoken in the end or given up for one. Images: the name that was chosen is rendered, by the type it was offered with | Speech: two audios, so that one meets what the other left behind; any language, any settings of the API and any of the worker, any volume that an older version may have left; one retry and three faults: a crash, a bad download of the model or the config and a failing engine may follow each other, and use up the retries. Images: one row (rows do not touch each other), new or of a version without model choice; a checkpoint that is a default of each type and one that no list knows; any settings with one listed model, one of the settings edited once, API and worker restarted at any time; one failing render |
| `rate_limiting` | In memory: the limit in real time, the table's bound, Retry-After. In Redis: the limit of a window over all processes, exceeded only by callers who came late, one for one; no early refusal; leaks are faults | In memory: two threads, two keys for a table of one, two hits per window of 2 s (a tick is half a second), a thread may lose a tick between clock and lock; two windows. In Redis: three requests for a limit of two, two faults (a lost reply and a crash after it), three windows of 2 s, so that the counter of the first can expire; a command may come 1.5 s after its caller read the clock, because the client waits 1, 2 and 4 s before it repeats one (`queue.py:52`): that is late enough for the counter to have expired, which it does 1 s after its window at the earliest |
| `registry_cache` | First match wins, a bad entry spoils no other, one name has one limit, no stale hit, no missed container | a name listed twice with different limits, around an entry whose limit is 0; a network before it that must win over it, also when the name moves there, and one behind it; two threads, two moves or failures, TTL 1 and calls of up to 2 ticks, so that two lookups can overtake each other by more than the TTL; 4 ticks. Two names, or a third address that no entry covers, are too large for a run and left to the theorems |

`CHECK_DEADLOCK FALSE` stands where a behaviour really ends: the pages have shown
everything, all requests are answered, all texts are spoken, or the bounded clock
is used up. The pipeline and `ClientRegistry` are checked for deadlock.

`JobPipeline` leaves the duration of a render open; `ComfyUIClient` has it in
ticks. Seeds are taken to be distinct (`SeedFor`; 31 random bits in the code).

Three simplifications of time and of steps:

* In `ComfyUIClient` a request to ComfyUI takes at most `MaxDelay` in all, while
  httpx's `timeout=30` (`comfyui_client.py:123`) bounds each phase of it (connect,
  write, every read) on its own; and Redis, the database, the maintenance pass and
  the `sleep(1)` of the loop (`worker_gpu.py:126-138`) take no time.
  `SilenceBounded` is the bound of the processor alone, to which theirs is to be
  added; `TimeoutIsDue` takes a request to be no longer than `MaxDelay`.
* `JobPipeline!CountFailure` has INCR and EXPIRE (`worker_common.py:169-170`) as one
  step. A crash between them would leave a counter that never expires; that it
  expires is a fault (`expire`) the properties have to bear, not one they rest on.
* `PoemPolling!AnswerGenerate` reads the assets for the answer to a POST at one
  moment, some time after the commit: a worker may have begun by then.

### Liveness and its fairness

* Pipeline: a worker that can take a step takes one (`run()` loops forever and
  catches everything; an exited container is restarted, `restart:
  unless-stopped`; every processor has a timeout), and the maintenance branch is
  taken again and again (`MAINTENANCE_INTERVAL_SECONDS` passes; strong fairness,
  since the branch is not continuously enabled). Nothing is assumed of the API
  process, of users or of faults. `EventuallySettled` excepts one case, a job
  left RUNNING by a crash whose id Redis lost afterwards: that is finding 1.
  `DeletionUnlinks` is written with temporal operators because it looks back to
  the moment at which the asset was done; it is safety and uses no fairness.
* Page: the event loop runs what is ready and every GET is answered or fails.
  Nothing is assumed of the user, the POSTs or the workers; the property says *if*
  the assets stay settled, *then* the page shows it.
* Endpoint: the pool serves whoever waits (its queue is FIFO) and every function
  but the call to Claude ends. That the calls to PostgreSQL and Redis end is an
  assumption: no timeout is set for them. Of Claude nothing is assumed for `ReadsAnswered`;
  for `GenerationsEnd` its calls end, as the client's timeout has it.
  `ReadsAnswered` excepts the behaviours in which a generation runs under a
  semaphore other than the cached one.
* Speech (in `Offers`, for behaviours that follow `worker-tts`; images have
  safety properties alone): the worker goes on as long as there is a job, which it
  takes up again until it has failed `MaxRetries + 1` times, and what it waits for
  ends (`urlretrieve` has no timeout, so that this is an assumption about the
  network). Weak fairness of the whole worker says no more than that. Which job is
  next is left open, and so is when it is retried: nobody asks twice for an audio.

## Findings

1. **A crashed job can be lost for as long as its worker lives**
   (`pipeline_lost_running`, `worker_gpu.py:132`). A worker crashes in a job;
   its successor reaps the id back to the queue and reconciles; Redis then
   loses its lists. The row is RUNNING, which the periodic pass skips on
   purpose, so that nobody pushes the id until the worker starts again.
   `worker_common.py:112-115` promises otherwise.
2. **The first failed poll is the last one** (`polling_gives_up`,
   `page.tsx:167`). The effect that schedules polls depends on the poem state
   alone, and a failed poll leaves that state as it is, in spite of the comment
   "keep state; retry next tick".

Smaller disagreements, met while modelling and not kept as runs:

* `worker_gpu.py:82` skips only DONE jobs: a duplicate id (made by a reconciler
  that runs between the commit and the enqueue of a slow request) takes a FAILED
  job back to RUNNING, although `failed` is drawn as final. `AssetLifecycle!Begin`
  and `RenderBudget` say what remains true.
* `repository.py:142`: `delete_poem` unlinks what the rows point to at that
  moment; the file of a render under way is written later and stays, and so do
  the files of earlier attempts (`DeletionUnlinks` says what does go). And when
  the transaction fails after the unlink, a done row keeps a url that answers 404.
* `deps.py:78`: `lru_cache` takes no lock around the function it calls, so that
  the first generations, if they arrive together, each get a semaphore of their
  own: as many as raced may run beside the cap, and reads may wait for them
  (`CapHolds`, `ReadsAnswered`). `get_rate_limiter` and `get_named_client_limiter`
  race in the same way: the first hits may be counted in a limiter that is
  thrown away.
* `ratelimit.py:158`: of two entries with one name and different limits, the one
  that is matched first decides the limit of the name for the life of the
  process, and not the order of the entries (`SameAllowance` is what remains).
* `gallery/page.tsx:50`: a list that was overtaken replaces the newer one, and is
  then shown under the filter and page number of the newer (`ShownIsCurrent`).
  "Next" works while a list is loading, so that it can run past the end. After
  a deletion the page has fewer cards than `PAGE_SIZE`, and "Next" is disabled
  though there may be more poems. A card whose poem was deleted elsewhere gets a
  404 and stays; one that was deleted here comes back with a list that was
  answered before.
* `image_models.py:72`: an edit of `SD_MODEL_TYPE` changes the type of a checkpoint
  that is in no list and was pinned to a row while it was the default; the row
  has a type, but only as a record of the last attempt (`RenderedAsOffered`
  excepts it). Of a built-in or listed checkpoint `SD_MODEL_TYPE` says nothing,
  although `README.md:90` and `comfyui/README.md:43` describe it as the choice of
  the workflow. The page loads the list once; a name that is no longer allowed
  is then answered with 422.
* `page.tsx:172`: the cleanup leaves a GET in flight alone; its answer can bring
  the previous poem back while the next one is generated, and scroll to it.
* `ratelimit.py:57`: a thread that is slow to get the lock inserts a key with an
  old stamp, which `_evict` may drop at once, against its comment at line 77.
* `ratelimit.py:114`: when the reply to the first INCR of a window is lost, the
  repeated one answers 2 and no EXPIRE is sent; the key stays (`LeaksAreFaults`
  bounds this by the faults).
* `worker_gpu.py:124`: the heartbeat is written once per turn of the loop, a render
  may take 180 s (`SilenceBounded` has the bound), and the health check of
  `docker-compose.yml:138-141` wants three times in a row, 30 s apart, a
  heartbeat younger than 30 s: a worker in a long render is reported unhealthy,
  against `worker_common.py:50-51` and `docs/ARCHITECTURE.md:157-158`.
* `tts.py:123`: nothing is known to verify the config of a voice with, and
  `tts.py:111` asks only whether it exists. A config that is damaged or cut short,
  by a download or by an older version, beside an intact model is never fetched
  again: every English audio fails until somebody deletes the file (`Stuck`, which
  `OfferedAreSpoken` and `GivenUpDuly` except). Since API and worker read their
  settings when they start, the API may also offer a language that its worker has
  nobody for (`main.py:392`).
* `ratelimit.py:112`: an INCR that comes when its window's counter has expired (the
  client repeats it after up to 7 s, `queue.py:52`) starts the counter again and is
  let in beyond the limit (`WindowLimit` counts it as `late`).
* `page.tsx:155`: the regenerate button works while a generation is in flight, and
  whichever generation ends first enables the form again: two may run, and the
  page shows the one that is answered last, which is not always the one asked for
  last.
* `clients.py:151`: two threads that miss the cache both ask DNS, against the
  "at most once per name per TTL" of line 14.

## Proofs

Every safety property that a run checks, be it an invariant, a property of steps
(`[][...]_vars`) or the one that looks back along a behaviour (`DeletionUnlinks`),
is also proved, and so is what `OfferedAreSpoken` says of the jobs that are given up
(`GivenUpDuly`), for any number of poems, requests, threads, keys, entries and
pages and any bound on faults, failures and time. The assumptions are the named
`ASSUME`s of the modules, which TLC evaluates in every run, and nothing else: sizes
and times are natural numbers, sets that the code keeps apart are disjoint
(`RequestsAssumption`, `NamesAssumption`, `AllAssumption`, `PoemsAssumption`), a poem
has at least one kind of asset (`KindsAssumption`), the concurrency limit is smaller than the pool (`PoolAssumption`; 40 threads, and the
limit is 4 unless it is configured), a window of the shared limiter is a whole
number of seconds (`RedisAssumption`), and an entry of the registry that is an
address is a network with that address in it (`EntriesAssumption`).

| module | theorem | states |
|---|---|---|
| `JobPipelineProofs` | `TypeCorrect` | `[]TypeOK` |
| | `RowsAgree`, `DoneStays` | `[]RowsInStep`, `DoneIsFinal` |
| | `PipelineImplementsLifecycle` | `ImplementsLifecycle` |
| | `RunningJobsAreParked`, `QueuedJobsAreParkedOrOwed` | `[]RunningIsParked`, `[]QueuedIsParkedOrOwed` |
| | `DoneAssetsHaveFiles`, `DeletionTakesFiles` | `[]DoneHasFile`, `DeletionUnlinks` |
| | `VerdictsAgree` | `[]VerdictMatchesCounter` |
| | `RendersAreBudgeted` | `[]RenderBudget` |
| `GenerateEndpointProofs` | `SlotsAreConserved`, `CapIsKept`, `RefusalsStoreNothing` | `[]SlotsConserved`, `[]CapHolds`, `[]OnlyAnsweredPersist` |
| `PoemPollingProofs` | `OnePollEach`, `ShownDoneStaysDone`, `NeverAStepBack` | `[]OnePollPerPoem`, `[]ShownDoneIsDone`, `NoStepBack` |
| `GalleryProofs` | `CardsOfButtons`, `MissesPaidFor` | `[]ShownIsCurrent`, `[]MissesAreDeletions` |
| `ComfyUIClientProofs` | `RetriesRender`, `FilesAreOfTheirImage`, `TimeoutsAreDue`, `SilenceIsBounded` | `[]RetryRenders`, `[]FilesAreOwn`, `[]TimeoutIsDue`, `[]SilenceBounded` |
| `OffersProofs` | `SpeechIsWell`, `GivesUpForCause` | `[]SpokenWell`, `[]GivenUpDuly` |
| | `CheckpointsStay`, `RenderedByOfferedType` | `PinnedStays`, `[]RenderedAsOffered` |
| `RateLimitingProofs` | `RequestsAreLimited`, `MemoryIsBounded`, `WaitingPays` | `[]LimitHolds`, `[]KeysBounded`, `RetrySuffices` |
| | `WindowsAreLimited`, `LeaksCostFaults`, `RefusalsAreDue` | `[]WindowLimit`, `[]LeaksAreFaults`, `NoSpuriousRefusal` |
| `ClientRegistryProofs` | `FirstMatches`, `OneAllowance` | `[]FirstMatchWins`, `[]SameAllowance` |
| | `NothingStale`, `NothingMissed` | `NotStale`, `NotMissed` |

Few of these invariants are inductive as they stand. Each module defines the
strengthening it needs as a conjunction of named parts (`Inv`, or one per half
where two components are put side by side) and proves that `Init` implies it and
that every step keeps it.

### The pipeline

Five layers; the first two are below all the others.

1. *Typed* = `TypeOK`, `RequestShape` and `HandlesJob`: a worker that handles an
   id handles a job's. Without it an update of a function at `cur[t]` could miss
   its domain.
2. *RowsAndSessions* adds `KnownIds` (the ids that a worker or a list holds are
   of its own type and of poems that were stored), `RowsInStep` and `SessionShape`: what the session of a worker
   remembers is what the row says, unless the row is gone. `RowsInStep` alone is
   not inductive: `Commit` writes `done` with a path because the row was
   `running`, which only the session invariant knows. The two workers do not
   disturb each other because their ids differ in type. The refinement is proved
   from it step by step: each step of the pipeline is a step of `AssetLifecycle` or
   a stutter under the mapping `Seen`, `UrlOf`.
3. *Delivered* is *RowsAndSessions* with `InFlight`, `RunningIsParked` and
   `QueuedIsParkedOrOwed`: an id in a worker's hands stays on the processing list
   until the ack, and a job to be retried is on the queue before it. These are
   void when `flush` is among the faults, as they must be. *Stored* is
   *RowsAndSessions* with `OutputKept` and `DoneHasFile`: a render that is finished
   has its file unless the deletion of its poem has begun. `DeletionUnlinks` needs
   no layer of its own: from the moment at which a job was done with its n-th
   attempt, `Aside(j, n)` holds for ever on top of *RowsAndSessions*. No worker that
   holds the id goes further than to skip it, so nothing writes that file again, and
   the deletion, however often it has to be tried, finds the path in the row.
4. *Judged* is *RowsAndSessions* with `Untouched` (nothing is counted
   for a poem before it was asked for), `VerdictPending` and `VerdictMatchesCounter`: between the INCR of the
   counter and the commit of the verdict the worker carries the decision in its
   hands, which is where the two could part.
5. *Thrifty* is *Delivered* with `Untouched`, `QueuedIsDue` and `Frugal`, for
   `RenderBudget`. Every copy of an id on a list is a render that may still come,
   unless its worker has had it already (`Spent`); so is a copy that the API owes
   (`Owes`), that the reconciler may push beside it (`Extra`), or that a failed
   attempt has promised (`Promised`), and every attempt the counter has left
   (`Left`). `Frugal` says that all of these and the renders there were stay within
   `MaxRetries + 2 + faults`: a step moves a render from one term to another, and
   where it makes a copy more (a repeated push, a crash after the render) it is a
   fault, which pays for it. The reconciler's copy is the one beyond the
   attempts. The lemmas about `Copies` count what each Redis command does to a list.

### The others

* `GenerateEndpoint`. A slot is free or held; that needs `HoldersInside` (exactly
  who holds a slot is between acquire and release) and `CachedOrOwn` (a semaphore is
  the cached one or was built by its user), as a slot that went back to another
  semaphore would be lost. `RefusalsStoreNothing` needs `AnswersLast`: an answer ends
  the handler.
* `PoemPolling`. `OnePlace`: the next poll of a poem is in one of five places (its
  POST is about to be answered, or was and the answer is on its way; the effect is
  due; its timer runs; its GET is in flight), never in two. It is stated of each
  poem by itself, so that it does not matter how many generations are in flight: a
  poem is created by one POST, and that is answered once. From it follows that two
  answers about the *same* poem are never on their way at once, so that those of
  different poems may overtake each other as they like without a step back
  (`Versions`), and with the proved finality of `AssetLifecycle` that what is shown
  as done is done (`DoneIsDone`).
* `Gallery`. `Current`: only the last list asked for is of the current buttons.
  `PassedAreDeletions` strengthens `MissesAreDeletions` to the poems that *will* be missed:
  those whose rank is already below the offset of the next page, though no page
  listed them. Reading a page in order adds none, since a page lists all ranks
  from its offset to the next; a deletion moves at most one poem over the edge,
  because no two have the same rank; a creation only raises ranks.
* `ComfyUIClient`. `SeedsRise` and `InOrder`: prompts carry rising seeds and are worked
  off in order, so that nothing in ComfyUI's cache can answer a prompt that is
  pending. `EntriesAreOwn` and `PathsAreOwn` follow a file from the history to the
  row, a restart of ComfyUI included. `Clocks` bounds where the clock may be in each
  state of the worker, `PollsAreFresh` how old the last look at the history is.
* `Offers`. Speech: the model has its whole size on the volume only when it was
  verified (`VoiceKept`), whatever an older version has left there. (It can have left
  a short one, of an interrupted download, but none of the right size and other
  bytes.) `AttemptsAreFaults` charges every failed attempt to a fault: a model is
  fetched again for a cause only (`FetchedForCause`), so that a failed verification
  had its bad download, and a pair that cannot be read is `Stuck`, which it stays.
  With `RetriesUsed` that is `GivenUpDuly`. Images: what the
  page was offered is the catalog of *some* settings, and each attempt has the
  type that its worker's settings give (`OffersKept`, `AttemptKept`).
* `RateLimiter`. `Remembered`: whoever was let in less than a window ago is still among
  the hits of its key, in the same order and at most `MaxDelay` off. `LimitHolds` in
  real time follows because the bucket is never longer than the limit. What a
  comprehension keeps of a list (`Without`) is proved by an induction stated for a
  set of numbers (`SetInduction`).
* `RedisRateLimiter`. `EachCounted`: until a window is `Closed` nobody is late, and
  whoever was let in, or owes the EXPIRE, is in its counter, which lives that long
  (`Expiries`). From then on an INCR may find the counter gone and let one more in, but
  it is late itself and pays for that. No bound on the delay of a command is needed.
  `NothingElseCounted` and `OrphansAreFaults` charge the rest to the faults.
* `ClientRegistry`. What a thread has in hand is a rule that no network with its peer
  precedes (`Sound`), and a cached answer was right at the moment its lookup began
  or the address has moved since (`CacheKept`, `CallKept`).

### Only model-checked

Liveness: `EventuallySettled`, `PollsWhileAnswered`, `ReadsAnswered`, `GenerationsEnd` and
`OfferedAreSpoken` rest on fairness, which the prover does not reach. The inductive
invariants were checked by TLC on the instances of the runs before they were
proved.

## Not modelled

* The syntax of `RATE_LIMIT_CLIENTS` and `SD_MODELS`: an entry is its name, limit and
  network, or its name and type. Labels and `SD_WIDTH` / `SD_HEIGHT` are left out.
* The VOICEVOX and XTTS adapters are each one engine of `SpeechSynthesis`, that
  opens a file and fills it; the speaker of a character is left out.
* Poem page: it fetches its poem once per id and shows it. It does not poll or
  delete: no step of another actor reaches its state.
* Navigation, translations and layout: presentation, with the language as the only
  state.
* Single reads, assets, statistics and health: queries and a file response. What
  of them matters to others is modelled where it does: that they need a thread
  (`GenerateEndpoint`), what the polled one answers (`PoemPolling`), the list
  (`Gallery`), the choices offered (`Offers`).
* Prompts, characters and personas: text that is read at startup.
* Configuration, sessions and logging: construction; a session is the transaction
  that the pipeline has as a step.
* Migrations and `models.py` beyond the columns used: the schema, run once before
  anything else starts. Deployment: the restart policy is in the pipeline.

## Plan

Done, in this order because the pipeline is what the rest leans on: the
pipeline with its abstract specification and proofs, the page on top of the
abstract specification, the limiters and the registry with its rules and
limiters, the endpoint with the race for its semaphore, ComfyUI, speech, image
models and what is offered of both, the gallery.

Then the proofs, component by component, of every safety property.

Next, *composition*: the endpoint's `Persist` and `EnqueueJobs` and the pipeline's
`PersistPoem` and `Enqueue` describe the same code from two sides; one
module that joins them would tie the status a client gets to what becomes of
its assets. In the same way `PoemPolling` on `JobPipeline` itself: the refinement
theorem has the implication, but it is not stated as a theorem about the page.
