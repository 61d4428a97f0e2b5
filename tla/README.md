# Adapta: TLA+ models, checks and proofs

Adapta is a self-hosted server for retrieval-augmented and fine-tuned chat models: a
FastAPI app, a worker process, Postgres, Redis, Chroma, and llama.cpp models loaded into
the app's own process.  This directory models the parts of it whose correctness depends
on the order of steps, and checks and proves what those parts promise.  Paths are
relative to the repository's `adapta/` package.

## 1. Inventory

| Component | State | Operations | Talks to | What is hard |
|---|---|---|---|---|
| **Document indexing** (`api/v1/files.py`, `worker/main.py`, `services/jobs.py`, `services/maintenance.py`) | file and chunk rows (Postgres), vectors (Chroma), bytes (disk), job list, job records, heartbeat (Redis) | upload, delete, enqueue, pop, run with one retry and a deadline, requeue on SIGTERM, sweep at start of app and of worker | three stores without a common transaction, two processes | crash between any two steps; a reply lost; a cancelled task whose thread goes on; sweeps that judge stale rows |
| **Model cache and inference** (`core/model_manager.py`, `core/inference.py`, `core/backends`) | LRU of Llama objects, load lock, one inference lock per variant, memory costs | ensure, load, evict, call, stream, time out, promote | chat requests on one event loop, executor threads | C calls cannot be interrupted; locks that outlive the entry they guard; cancellation of a response |
| **Chat** (`services/chat.py`, `api/v1/chat.py`) | none of its own | resolve the endpoint, condense, retrieve, abstain, fit the context, call; images | cache, retrieval | handle kept across awaits; the edges of the context window |
| **Retrieval** (`services/rag.py`, `services/embeddings.py`) | Chroma client | vector and full-text search, filters, rank fusion, reranking, score floor | Postgres, Chroma, two local models | which failure may be ignored and which may not; ranks and ties; scores merged over two queries; files deleted between the legs |
| **Adapter import and gate** (`services/adapters.py`, `services/eval_gate.py`, `api/v1/adapters.py`, `api/v1/endpoints.py`) | adapter rows, artifacts, the endpoint's binding and its history | upload, convert, probe, score, decide, delete, bind, promote, roll back | worker, model cache | restart in the middle; deletion of what is served; the gate's arithmetic |
| **Golden sets** (`services/golden.py`, `api/v1/golden.py`) | questions, evaluation runs | edit, queue a run, process, judge against earlier runs | worker, retrieval | a row committed before its job is pushed; runs queued by two requests and by the index job at once; rounding at the threshold |
| **Field extraction** (`services/extraction.py`) | per-page chunks and vectors | re-read pages, replace chunks | worker, Chroma | replacement in two stores, page by page, beside a deletion of the file; a vision call that hangs |
| **Datasets and synthesis** (`api/v1/datasets.py`, `api/v1/synthesis.py`, `services/`) | dataset rows and files | upload, validate in the background, curate, sample, generate, deduplicate | app | background task lost at restart; an error handler that fails too |
| **Organisation settings** (`services/app_settings.py`) | overrides (Postgres), a per-process cache | resolve, set, delete | all | stale value cached after invalidation |
| **Rate limits** (`services/rate_limit.py`) | one Redis counter per key and window | enforce | Redis | counter without expiry |
| **Accounts** (`services/auth.py`, `services/invitations.py`, `api/v1/auth.py`, `keys.py`, `teams.py`) | users, teams, members, keys, invitations | register, invite, accept, revoke | Postgres | two uses of one invitation |
| **Projects** (`api/v1/projects.py`) | project rows | create, update, delete with all stores | all | deletion beside running jobs |
| Console, catalogue, health, metrics, usage | | | | nothing that orders steps |

## 2. Modules

| Module | What it is |
|---|---|
| `Indexing` | the indexing pipeline: app, worker, Redis, Postgres, Chroma |
| `FileLifecycle` | what a file's status promises to readers; implemented by `Indexing` |
| `MCIndexing` | instances of `Indexing` for TLC |
| `Indexing_proofs` | theorems about `Indexing` |
| `ModelCache` | the LRU cache, its locks, the calls, and `promote_adapter` |
| `MCModelCache` | instances of `ModelCache` for TLC |
| `ModelCache_proofs` | theorems about `ModelCache` |
| `Adapters` | imported adapters, the gate, the endpoint and its audit trail |
| `MCAdapters` | instances of `Adapters` for TLC |
| `Adapters_proofs` | theorems about `Adapters` |
| `Golden`, `MCGolden`, `Golden_proofs` | golden sets, evaluation runs and the worker's hook; its instance; its theorems |
| `Extraction`, `MCExtraction`, `Extraction_proofs` | the extract job of one file beside its deletion; its instance; its theorems |
| `Datasets`, `MCDatasets`, `Datasets_proofs` | uploaded, curated and synthesized datasets; its instance; its theorems |
| `Retrieval`, `MCRetrieval`, `Retrieval_proofs` | one chat request from its query to its answer; its instance; its theorems |
| `Accounts`, `MCAccounts`, `Accounts_proofs` | users, teams, invitations and the rate limit; its instance; its theorems |

The last five share state with the others only through what a job or a request reads:
`Golden` repeats the queue of `Indexing` for its two kinds of job, `Extraction` begins with
the rows and vectors that an index job has left, `Retrieval` reads the two stores while a
delete of `Indexing` empties them, and takes the model of `ModelCache` as a call that answers
or fails; `Accounts` shares none.

### Indexing

State: `status`, `rows` and `coll` are Postgres (`project_files.status`, the file's chunk
rows, the project's `collections` row); `vec` is Chroma, `disk` the upload directory;
`queue`, `meta`, `alive` are the Redis list, the job records' status and the heartbeat key.
The rest is the control state of the processes: `app`, `upl`, `del` of the app and its
requests; `wpc`, `cur`, `shutdown` of each worker's loop; `pc`, `owner`, `att`, `retry` of
each index task; `todo`, `dead` of each startup sweep.  `zombies` are threads of
`asyncio.to_thread` whose awaiting task was cancelled: they cannot be stopped and still
write to Chroma.

A file's chunks are one boolean per store.  This loses nothing the properties tell apart:
`parse_and_chunk` never returns an empty list, chunk ids depend on the file only, and each
store call writes or removes all of them.

| Actions | Code |
|---|---|
| `UploadCommit`, `UploadReplyLost`, `UploadEnqueue`, `UploadEnqueueFails`, `UploadMarkFailed`, `UploadMarkFails` | `upload_file`, cut at its commits and at the Redis pipeline; a commit that fails or loses its reply |
| `DeleteStart`, `DeleteVectors`, `Unlink`, `DeleteRow`, `DeleteVectorsFails` and the commit that fails | `delete_file`: the call to Chroma, the bytes (an unlink that fails is swallowed), the row; Chroma may raise before or after it removed the vectors |
| `Pop`, `Dispatch`, `DispatchFails`, `LoopRaises` | BLPOP, then GET, then the task (`dequeue`, `worker_loop`); a Redis call that the loop does not catch and that ends the worker: the halves of `requeue`, the failed mark of a job |
| `JobStart`, `JobSucceeds`, `JobReturns`, `JobFails`, `JobStatusRaises` | `_run_index_job` |
| `Lookup`, `Mark`, `Prep`, `Persist`, `Upsert`, `Commit`, `Cleanup`, `Reset`, and what raises: `EarlyDbRaises` before the upsert, where nothing is cleaned up; `CommitReplyLost`, a commit that took effect and raised | `index_file_by_id`, `_index_file`, `persist_chunks`, `index_chunks` |
| `Timeout`, `FailFile`, `FailFileClean` | `_index_attempt`, `_fail_file` |
| `Terminate`, `RequeueStatus`, `RequeuePush`, `LoopEnds`, `WorkerExits` | SIGTERM, `requeue`, the end of `worker_loop` and of `asyncio.run` |
| `HeartbeatFails`, `HeartbeatExpires` | the heartbeat inside the wait loop, its TTL |
| `AppStart`, `WorkerStart`, `SweepCheck`, `SweepCommit`, `SweepReport`, `SweepEnd` | `lifespan`, `worker_loop`, `sweep_stuck_files`, `_job_is_live` |
| `AppCrash`, `WorkerCrash`, `ZombieEnds` | the environment |

Every failure is an *event*: one of the kinds in `MCIndexing!AllEvents`, at most
`MaxEvents` of them per behaviour.  `seen` records the kinds that have happened, so a
property can say exactly which disturbances it does not survive.  Replies lost by the other
commits to Postgres (a mark, a reset, a delete, a sweep) lead to states that an error or a
kill at a neighbouring step reaches.

### ModelCache

`lru`, `inst`, `lock`, `loaded` are the manager's `_models`, `_infer_locks` and
`ModelConfig.loaded`; a Llama and a lock are named by the request that created them, so
that "the same object" is equality.  `loader` and `waiters` are `_load_lock` with its
queue; `rpc`, `kind`, `stage`, `key`, `hInst`, `hLock` a request and its handle; `holder`
and `running` the inference locks and the C calls in executor threads; `bound` and
`promote` an endpoint being promoted.  An action is the code between two awaits:
coroutines share one event loop, only C calls and Llama constructors run beside it.

The estimated cost of each model is a constant; what the code does with the estimates
(refuse, evict by count, evict by cost, in that order, before the allocation) is modelled
in full.  A request may condense first (a second call on the same handle), may stream, may
time out, and a stream may be cancelled by its client at any await.

### Adapters

One fine-tune project.  `row` is the adapters table, `made` its `created_at`, `disk` the
directory of each adapter (nothing, the PEFT files, a GGUF being written, a whole GGUF),
`endpoint` the column `endpoints.adapter_id`, `trail` the table `adapter_events` in commit
order.  `req` are the requests in flight, `app` and `stuck` the app process and what its
sweep has read; `queue` is the job list, `wpc`, `job`, `snap`, `metrics` the worker, its
job, its session and what `evaluate` returned.

| Actions | Code |
|---|---|
| `Upload`, `UploadCommit`, `UploadEnqueue`, `UploadRefuse`, and `UploadCommitFails`, `UploadRefreshRaises`, `UploadEnqueueFails`, `UploadRefuseFails` | `upload_adapter`, `validate_and_store`; the `db.refresh` after the commit and the commit of the refusal may raise |
| `DeleteCheck`, `DeleteCommit`, `DeleteCommitFails`, `DeleteList`, `DeleteFiles` | `delete_adapter`; the foreign keys on `adapters.id`; `rmtree` lists the directory and then empties it, with the converter perhaps in between |
| `CreateBegin`, `CreateRead`, `CreateCommit` | `create_endpoint` |
| `PromoteBegin`, `PromoteRead`, `PromoteServed`, `PromoteCommit` | `promote_adapter`, cut at its queries and its commit |
| `JobTake`, `JobRead`, `JobMark`, `JobConvert`, `ConvertEnd`, `JobConverted`, `JobProbe`, `JobScore`, `JobDecide`, `JobFail`, `JobReport` | `_adapter_job`, `process_adapter`, `convert_peft_to_gguf`, `eval_gate` |
| `SweepRead`, `SweepCommit` | `sweep_stuck_tasks` in the app's `lifespan` |
| `AppCrash`, `Sigterm`, `WorkerKilled`, `JobDropped`, `JobStageRaises`, `JobSessionRaises` | the environment, and what raises |

Two facts of the libraries matter and are modelled.  Postgres evaluates `now()` at the
start of a transaction, so `created_at` is the moment a request began (`at`) and not the
moment it committed (`done`).  A SQLAlchemy session writes only the columns it changed
(`Merge`), and an UPDATE that finds no row raises, past every handler of `process_adapter`.

What an upload holds is an input: whether it is a PEFT archive, which stage rejects it if
any, and the two scores.  The gate's arithmetic (`Passes`) is kept, with the rounded difference
and the tolerance `Eps`.  `Exportable` has the three conditions of `build_ollama_bundle`: the
status, the artifact, and a base that `ollama_model_map` names.

### Golden

`golden` is `projects.golden_dataset_id`, `runs` the table `rag_eval_runs` in the order of
`created_at`, `aged` how many of them are older than `STALE_RUN_AFTER`, `queue` the job list
with index jobs and eval jobs, `st` the coroutine of each worker and of the client's request.
`queue_run` is cut at its commit and at its push (`CreateRun`, `EnqueueRun`, `EnqueueFails`),
since the worker's hook (`EnqueueAfterIndex`) and a second request look at the table in
between; `QueueRunRaises` is Postgres failing at the `db.refresh` between the two, and
`EnqueueFailsTwice` the push and the mark of its failure both failing.  `JobRaises` is what a
job meets between BLPOP and the commit of running.  A task that a failed heartbeat left behind
is one more worker.  `process_run` is `StartRun`, then `FinishRun` or `FailRun`.  A run hits a number of
questions; `Judge` keeps the arithmetic of `judge` in units of 1/10000, the four decimals the
code rounds to, against `Previous`, the last three succeeded runs of the same set.  `saw` and
`against` are history: the files indexed when the run began, the runs it was compared with.

### Extraction

`rows` are the committed chunk rows of one file, `vec` its vectors, `wk` the job, `del` the
delete request.  A page is `ReadPage` (both questions to the vision model), `SelectOld`,
`DeleteOld`, `UpsertNew`, `DeleteSurplus`, `CommitPage`: the order in which `extract_file`
deletes and adds rows in its transaction, calls Chroma twice and commits.  A text is a piece of
a reading of a page, so a page that mixes two readings is visible.  Row locks matter: the
`DELETE` of the old rows holds them to the end of the transaction, and the cascade of
`delete_file` and the `INSERT` of the new rows wait for each other (`Deadlock`), of which
Postgres ends one.  Two jobs of the file can run side by side, after a failed heartbeat or with
`--scale worker=N`: `left` is the other job, `SecondJob` starts it and `Switch` lets the two
alternate; `LockedByOther` and `Collides` are the row locks and the unique index between them.

### Datasets

`ds` is the table, `disk` the files, `task` the request or background task of each dataset,
`app` whether the process is up.  Rows are the shapes `_validate_row` tells apart.  `Sample`
is the fractional stride of `load_chunks`, `FirstOfForm` and `Kept` are `dedup_exact` and
`near_duplicate_mask` over a given nearness that need not be transitive.  The code's stride is a
float and the model's a fraction, whose rounding the bounds of the property absorb.  Chunks
that are too short (`TooShort`) let the request pass, which counts all, and are no part of the
sample.  `CommitUploadRaises` and `SynthesizeReplyLost` are commits of the row that raise.  What raises is split
by where the code catches it: `ValidateRaises` and `SynthesisRaises` are recorded by the
handler, `MarkInvalidRaises` and `SynthesisSessionLost` are failures of the handler itself.

### Retrieval

A request goes through `RawQuery` or `CondenseQuery`, `ResolveTopK`, `OpenCollection`, then
for each query `VectorLeg`, `FilterVectorIds`, `FtsSearch`, then `Fuse` or `Rerank`,
`HydrateProvenance`, `Floor`, `Fit` and `Generate`; one with images goes to `ChatVision`.
Every step has the outcome of its failure as the code has it: the sparse leg and provenance
are left out, a filter that cannot be applied ends the request, a collection that cannot be
opened gives no hits, an error of the full-text leg of a kind that `retrieve` does not catch
ends the request.  A query is what the legs see of it: a similarity level for each chunk,
where 0 stands for one that is not positive, and lexemes.  The sparse leg's SQL is kept:
document frequencies over the project, the stopword rule, the weights (`Idf`, a table of
constants) and the order.  Chroma chooses among chunks at the same distance, where its list is
cut, as it likes (`Nearest`, `Rankings`).  Reciprocal ranks are integers over a common multiple (`Scale`), so
ties are ties, as the code's rounding to twelve places intends: neighbouring ranks up to a
million differ by more than the rounding.  An order (`ByWeight`, `RerankOrder`) is a relation
that `Sorted` lays out, and what a comprehension keeps of a list is the list `At` the places
that satisfy its condition.  Similarities are levels
instead of floats, and the prompt is its number of tokens.  `DropVectors` and `DropRows` are
the two steps of `delete_file` that a retrieval can see.

### Accounts

`users`, `member`, `inv` are the tables of users, team members and invitations; an
organisation has one team, `default`, and shares its name.  `count` and `expiring` are the
limiter's Redis keys, by address and by email, and which of them have an expiry.  `req` are the
requests in flight, of the five kinds the operators `Login`, `Register`, `AcceptInvite`,
`Invite` and `ChangePassword` build.  The first three go through `Enforce` and `SetExpiry` for
each identifier, the two Redis calls of `enforce`; an error of either lets them on
(`EnforceFails`).  `register`, `change_password` and `create_invitation` are a check and a
commit; `accept_invitation` is cut at each of its reads (`AcceptRead`, `AcceptUser`,
`AcceptCreate` or `AcceptMember`) and at its commit, where the unique columns decide.  Passwords
are named like the request that sets them.  `answered` is history: what each 201 told its
client.

## 3. Runs

Every run is `tlc -config <name>.cfg <module>` with the module of the table below.

| Run | Module | States | Checks |
|---|---|---|---|
| `indexing` | `MCIndexing` | 541 thousand | invariants, an action property, the refinement of `FileLifecycle` and `FilesFinish`; every kind of event, any two per behaviour |
| `models` | `MCModelCache` | 222 thousand | invariants and an action property of the cache; `RequestsFinish` |
| `adapters` | `MCAdapters` | 3.7 million | invariants and an action property of adapters, endpoint and trail |
| `adapters_live` | `MCAdapters` | 208 thousand | `AdaptersFinish`; every kind of event, any two per behaviour |
| `golden` | `MCGolden` | 67 thousand | runs, jobs and verdicts; `RequestServed` |
| `extraction` | `MCExtraction` | 348 thousand | pages, rows and vectors; `JobsFinish` |
| `datasets` | `MCDatasets` | 68 thousand | valid datasets, sampling and deduplication; `DatasetsFinish` |
| `retrieval` | `MCRetrieval` | 3.1 million | filters, fusion, floor and fit |
| `accounts` | `MCAccounts` | 268 thousand | answers that stand, the origin of memberships; `LimiterRecovers` |
| `v_...` | | | one statement of a document or comment each, which the code does not keep |

### What holds, and what voids it

Most guarantees of the indexing pipeline survive some disturbances and not others.  Each
property names the ones it does not survive; the run has all of them.

| Property | Says | Voided by |
|---|---|---|
| `RowsMatchStatus` | an indexed file has its chunk rows, and only a file that was indexed has any | of the second half, a commit of the index job whose reply is lost |
| `JobHeldOnce` | a file's job is in one place at a time | nothing |
| `QueuedJobExists` | a record that says queued has its job in the list or in a worker's hands | Redis failing, or a kill, while a worker holds the job and its record says queued: between BLPOP and the running mark, between the halves of a requeue, at the failed mark of a job that never ran |
| `CleansUp` | a failed or deleted file that nobody works on has no vectors | anything but failing commits with SIGTERM, or database errors anywhere without it: a job stopped after its upsert, requeued, whose attempts then fail before theirs, leaves vectors |
| `IndexedIsSearchable` | an indexed file has its vectors until a delete request, still at work, has taken them | the deadline of a job; a lost reply of the index commit; a delete cut off after the vectors by a crash, a lost reply of Chroma or a failing commit (`DeleteCut`) |
| `OneTaskPerWorker` | a worker runs one job at a time | a failing heartbeat |
| `SweepSparesRunning` | a sweep never fails a file that is being indexed | Redis errors or lost replies, those while a worker holds a job included; a failing heartbeat |
| `Lifecycle` | the pipeline implements `FileLifecycle`: a final status is final, indexed means rows | a restart of the app, a lost reply of Redis or of a commit |
| `ServesSound` | the endpoint serves a complete, loadable adapter that passed the gate and is no worse than its base | nothing |
| `ServesPassed` | ... whose row says passed and gives no reason to have failed, and that can be exported if `ollama_model_map` has its base | a restart of the app; a lost reply of Redis |
| `FinalIsFinal` | passed and failed are final | the same |
| `SoundPasses` | a sound adapter does not fail | a node that cannot load it, Redis, a restart of the app, SIGTERM while the converter writes |
| `AuditLabels` | a rollback restores what served before; a promotion's adapter had not, unless the requests overlapped | nothing |
| `NoStrayFiles` | files belong to a row or to a request in flight | a restart of the app; a delete whose commit took effect and raised; `rmtree` at work while the converter creates its output |
| `CacheFits` | the cache keeps its caps, and while a model loads there is room for it | of the last part, a load whose client left |
| `LoadedIsCached`, `NotReplaced`, `InstanceHasOneLock` | `loaded` never lies upwards; a cached Llama is not replaced; one Llama has one lock | nothing |
| `OneAttendedCall` | one C call per Llama, those of cancelled streams apart | nothing |
| `RequestsFinish` | every chat request ends: no lock is lost | nothing |
| `FilesFinish` | every uploaded file becomes indexed or failed | a job lost while its record said queued; Redis or database errors, before the upsert too; a lost reply of a commit; a file deleted under a sweep |
| `QueuedHasJob` | a queued run has its job somewhere | `LostRun`: a kill; a stop between commit and push; Postgres failing there, or with Redis at the mark of a failed push; Redis or Postgres failing between BLPOP and the commit of running |
| `IndexedIsGated` | a file that went through the hook is covered by a run that saw it or is yet to start | the same, and a push that failed |
| `JudgedFairly` | a verdict compares runs of one set; no worse than all of them is no regression, two questions fewer is one | nothing |
| `RequestServed` | a client that keeps asking gets a finished run or an error | nothing: a lost run stops blocking when it is stale |
| `WholePages` | the committed rows of a page are one whole reading | two extract jobs of the file side by side |
| `RowsMatchVectors` | between pages, rows and vectors agree | the same; an error, a stop or a delete inside a page's replacement |
| `JobsFinish` | no extract job keeps the worker | nothing |
| `ValidIsUsable` | a valid dataset has its file, its count and rows of its shape | nothing (the shape of curated sets apart) |
| `SynthesisKeepsOne` | of duplicates exactly one stays, and the sample spreads over the project without repetition | nothing |
| `DatasetsFinish` | nothing stays validating | a lost reply of the row's commit; a handler that fails too; a failing sweep |
| `FilteredOnly` | only passages that satisfy the request's filters reach the prompt | nothing |
| `RankedFairly` | fusion loses no candidate, respects agreement of the lists, and orders by content what has every rank equally often | nothing |
| `JudgedOnBestEvidence` | the floor judges a passage by its best score over the queries, and abstains exactly when none is relevant | nothing |
| `PromptFits` | prompt and answer fit the window; the passages are the best ones, as many as leave room | the window: a negative `max_tokens` |
| `AnswersHold` | what a 201 told its client stands: user, role, and the password until it is changed; every membership comes from a registration or from an invitation that is used up | nothing |
| `LimiterRecovers` | a caller past the limit is let in again | an EXPIRE that fails after the first INCR; a process that dies between the two |

### Bounds

`indexing` has two files (one of which cannot be parsed) and one worker: with two files a
job waits while another runs, and every property is about one file or about the pair of a
job and another job.  Two events per behaviour cover every pair of disturbances, such as a
kill with the restart that meets its remains.  `models` has two requests and five variants of two bases, one without its file,
under a cap of two and a budget that `old`, `new` and `small` fit together and `big` with
either adapter does not, so eviction by count, eviction by cost and refusal all happen.
`adapters` has two adapters, two concurrent requests and five requests in
all: two uploads, the creation of the endpoint and two more, which is the shortest history
with a rollback or with a deletion beside a promotion.  Its events are those after which
two writers meet in one row or on one file, one per behaviour; `adapters_live` has every kind,
and a content that does not load.  The sound adapter is exactly at the improvement it needs, and
rounding takes the tolerance from it.
`golden` has two workers, so that one runs the hook while the other starts or ends a run, sets
of six and eight questions (one share rounds up at four decimals, one is exact), three runs and
one event of any kind.  `extraction` has a page of two chunks and one of one, which holds the
highest index, and readings of none to three pieces: fewer, as many and more, where the new
indexes have to go past another page's; two jobs, so a job meets the remains of another, or the
other itself, and one event.
`datasets` has two datasets, the smallest number with a curated one, outputs with two spellings
of one question and two near neighbours that are not near each other, a sample of three of five
chunks (an uneven stride) and two events, such as a crash and the sweep that fails.  `retrieval`
has four chunks of two files of the same name, two of which tie by content, three queries that
disagree on all of them, a lexeme that is a stopword and two that are not, lists shorter than
the number of chunks so that a leg can miss one, a window that one or two chunks fill, and a
`max_tokens` that is absent, below the reserve, above the cap or negative.
`accounts` has the founder and one more address, a second organisation, two invitations, three
requests of which two at a time, a limit of one (the second request from the address meets it)
and one event: an invitation and two redemptions of it, or a redemption beside a registration
of the same address.
Requests, and adapters not yet used, are interchangeable, hence the symmetry; no run with a
liveness property uses it.

`CHECK_DEADLOCK FALSE`: the bounded environment stops and the system then idles.

### Fairness

The processes go on: weak fairness of each step of a request, of the app and of the worker,
including their restart (`docker-compose.yml` restarts the app, operators the worker).  C calls and
threads return.  In `ModelCache`, `StartCall` is strongly fair, because `asyncio.Lock`
wakes its waiters in the order they came, and so is `StreamStops`, because a stream checks
its deadline after every token.  No event is fair, and nothing says that a client ever asks.
`AdaptersFinish` excludes behaviours in which a job was lost (`Lost`): a kill, a Redis error
after BLPOP, a database error in the job, a crash or a database error between the row and the
enqueue or at the refusal, a commit whose reply was lost.  `FilesFinish`
includes kills, since the sweeps make up for them; `Stranding` names what they do not make up
for.  In `Golden` the clock is fair and the client repeats its request, which is what
`POST .../golden/run` is for; in `Extraction` a hung call is ended by the timeout of its page, and of two jobs side by side
both go on: the step of the one in turn is strongly fair, the turn weakly, as an event loop or
two processes have it; in
`Datasets` the container restarts the app; in `Accounts` time passes for a key that has an
expiry.

### Where the code does not keep what is said of it

| Run | Statement | Behaviour |
|---|---|---|
| `v_stream_cancel` | the lock is held until the C call completes (`core/inference.py`) | a cancelled stream releases it while its thread is inside the Llama |
| `v_requeue` | a requeued adapter job is safe (`services/adapters.py`) | a conversion cut short leaves a partial GGUF that the retry takes for a finished one: a sound adapter fails |
| `v_flip` | a single flipped question never raises the chip (`services/golden.py`) | with six questions the rounded drop 0.1667 exceeds the exact 1/6: flagged |

Other statements of documents that the models contradict, each of which a reader can
reproduce by adding the named formula to the run's cfg:

* `OPERATIONS.md` says that a killed worker's file is failed by its startup sweep; killed
  between BLPOP and the running mark, the record says queued, every sweep spares it and the
  file is pending for ever (`FilesFinish` without `kill_holding_queued` in `Stranding`);
* `files.py` and `rag.py` say that deleting a file removes its vectors; an index job may upsert
  them after the delete removed them (`Indexing!NoStrayVectors`);
* `OPERATIONS.md` says that workers can be scaled; the sweep of one that starts fails the file
  another is indexing (`SweepSparesRunning` with two workers);
* `files.py` says, at the cleanup of a failed index commit, that the Postgres rows roll back; a
  commit that took effect and lost its reply keeps them, and a retry that then fails, or the
  sweep, leaves a failed or pending file with chunk rows (the second half of `RowsMatchStatus`
  without its exception);
* `model_manager.py` says, in the docstring of `ensure_model_loaded`, that the second of two
  concurrent loads overwrites the first; the loader looks into the cache again under the lock
  and returns the Llama that is there (line 253), so nothing is loaded twice and nothing is
  replaced: `NotReplaced` holds, and the docstring describes code that is gone;
* `rag.py:110` and `specs/openapi.yaml` say that keyword-only hits are kept by the score floor; a
  reranked one is judged by its sigmoid like any other (`Retrieval!KeywordHitsKept`);
* `rag.py:55` says that a keyword-only hit is one the vector leg never returned; one that the
  vector leg of a later query returned with a cosine that is not positive keeps the mark, and
  the floor spares it (`Retrieval!VectorHitsJudged`);
* `operator-console.md` says that an invite token is used once; two redemptions that overlap may
  both be answered 201, of which the second finds the user and leaves its password alone
  (`Accounts!InviteUsedOnce`, `invitations.py:71`);
* `EndpointPanel.svelte` says that the newest row of the history is what is served; rows are
  sorted by the start of their transactions, bindings follow the commits
  (`Adapters!NewestServes`);
* `specs/openapi.yaml` says that a curated dataset passes the same validation as an uploaded
  one; `curate_dataset` checks neither its task nor its size (`Datasets!CuratedLikeUploaded`);
* `chat.py` says, at `_MIN_GEN_RESERVE`, that the prompt never takes so much of the window that
  there is no room left to generate; `max_tokens` has no lower bound, and a negative one is
  subtracted from the prompt where the reserve would be added, so a prompt that fills the
  window or exceeds it is sent (`Retrieval!RoomToGenerate`).

Other behaviour the models show and no document contradicts:

* after a restart of the app its sweep may overwrite `indexed` with `failed`
  (`maintenance.py:70`), and fails an adapter that the worker is scoring; the worker then
  writes `passed` over it and leaves the reason (`adapters.py:478`);
* a Redis error between BLPOP and GET, or between the halves of a requeue, loses a job
  (`jobs.py:84`, `jobs.py:104`);
* a delete that raises after Chroma removed the vectors, or whose process dies there, leaves an
  indexed file that no search finds (`files.py:517`);
* an adapter whose base `ollama_model_map` does not name passes the gate and serves, and cannot
  be exported (`services/adapters.py:302`);
* the thread of an attempt that ran into its deadline may upsert after the file was failed,
  or remove the vectors the retry has written (`worker/main.py:87`, `files.py:295`);
* a failing heartbeat abandons a running task beside the next (`worker/main.py:233`);
* a load whose client left goes on outside the load lock and the budget
  (`model_manager.py:350`);
* a request that resolved the endpoint before a promotion loads the old adapter again after
  its eviction (`endpoints.py:272`);
* two overlapping promotions of one adapter are both recorded as promotions;
* an adapter whose job was never enqueued, as after a failing `db.refresh`, stays uploaded: no
  sweep looks at it;
* a delete whose commit took effect and raised leaves an adapter's files without a row
  (`api/v1/adapters.py:208`);
* a file deleted while a sweep examines it makes the sweep's one commit fail, and the other
  files it would have failed keep their status until the next start (`maintenance.py:70`);
* a request for a run of a new golden set may be answered with the active run of the old one
  (`golden.py:156`);
* an extraction and a deletion of the same file can deadlock in Postgres, which ends one of
  them (`extraction.py:318`); the delete that loses has already removed vectors and bytes;
* two extract jobs of one file may leave a page with rows of two readings (`extraction.py:269`);
* a stop or an error between a page's vector calls and its commit leaves vectors of a text
  that no row has (`extraction.py:307`);
* a synthesis whose session failed stays validating until a restart (`api/v1/synthesis.py:69`);
* an upload that dies between its file and its row leaves a dataset file without a row;
* a Chroma that is unreachable when the collection is opened gives an abstention, where one
  that fails a moment later gives an error (`rag.py:637`);
* in a small collection the vector leg returns every chunk, so a passage found by its keywords
  is judged by its cosine and not spared by the floor (`rag.py:725`);
* a counter whose first hit lost its EXPIRE keeps counting and never ends, so its address or
  email is turned away for good once it passes the limit (`rate_limit.py:58`), although the
  limiter is meant to fail open; `LimiterRecovers` excepts exactly this;
* a redemption that read an invitation as expired may write revoked over the accepted of one
  that read it in time (`invitations.py:67`).

## 4. Proofs

`tlapm` checks `Indexing_proofs`, `ModelCache_proofs`, `Adapters_proofs`, `Golden_proofs`,
`Extraction_proofs`, `Datasets_proofs`, `Retrieval_proofs` and `Accounts_proofs`.  They hold for
any sets of files, workers, requests, variants, adapters, runs, pages, chunks, queries and
accounts, any events and any bound on them.

**Assumptions** are in the modules that declare the constants, and TLC evaluates them in every
run: a distinguished value is not a member of its set (`None` is no row, no role and no file's
content); the cache's cap, the limiter's limit and the largest dataset are positive; costs,
hits and pages are numbers, and a golden set has 1 to 200 questions, as its validation has it;
only a PEFT archive can fail conversion and the minimum improvement is not negative; uploads
are sequences of the row shapes and answers of the teacher sequences of the spellings; a file
has finitely many chunks, and a chunk finitely many lexemes.  For `Retrieval`, similarities,
scores, weights and the floor are levels, that is naturals: what the code does with them is
compare, add and take the larger.  Tie-break keys are naturals because only their order counts;
`top_k` is positive, as the request's schema has it, and so are the cap on `max_tokens` (64 at
least, in the settings) and the reserve (`_MIN_GEN_RESERVE`, 16); `max_tokens` itself, which the
schema does not bound, is any integer; `Scale` is a multiple of
every `k + rank`, so reciprocal ranks are exact.  Four theorems about `Indexing` have one more hypothesis, `OneWorker`,
which is what `docker-compose.yml` starts: with a second worker, the sweep of one fails the file
the other is indexing (section 3), and a file's old task meets a new one.  `SweepsSpareRunning` has
a further one: `Events` has no lost reply of a Postgres commit.  TLC checks the property with such
replies too; the invariant that would carry the proof through them is not written.

| Theorem | States | Argument |
|---|---|---|
| `TypeCorrect` | `[]TypeOK` of `Indexing` | `TypeOK` alone is not inductive: the LPUSH of a requeue would put `NoFile` into the list.  `TInv` adds `Holding`: a worker has a job exactly at the points between taking one and giving it back |
| `RowsFollowStatus` | `[]RowsMatchStatus` | `RInv` adds `NoRowsYet`: as long as no commit has lost its reply, an attempt that has not committed has found no rows |
| `JobsHeldOnce` | `[]JobHeldOnce` | `HInv`: the places a job can be (the request about to enqueue it, the list, a worker's loop, its tasks, a requeue under way) exclude each other; lemmas on lists say what Append, Head, Tail and a push to the front do to a list without repetitions |
| `QueuedJobsExist`, `WorkersRunOne` | `[]QueuedJobExists`, `[]OneTaskPerWorker` | `QInv`: a task past its running mark is at no queued record, and only an attended task is at one, so the loop that ends or requeues it is still there; what no longer has a place was lost to an event of `Lossy` |
| `IndexedStaysSearchable` | `[]IndexedIsSearchable`, one worker | `BInv` (requests, tasks and sweeps are about rows that exist), `Deleting` (a delete in flight is an event seen) and `ZInv`: without deadlines and lost replies a thread is only left behind by a worker on its way out, and the thread of a cleanup belongs to a file without chunk rows |
| `LifecycleKept` | the refinement of `FileLifecycle`, one worker | initial states and every step map to its own or to a stutter; `CalmInv`: without a restart of the app or a lost reply of Redis or of a commit, no sweep has an indexed file before it and an upload that gives up has no job |
| `SweepsSpareRunning` | the action property, one worker, no lost reply of a commit | `QuietInv`: what a sweep found dead nobody works on, and nobody takes it up before the sweep has committed |
| `StrayVectorsGo` | `[]CleansUp`, one worker | `VecInv`, for failing commits and SIGTERM: a file with vectors is indexed, or its job is somewhere that will index it or clean up.  `EarlyInv`, for database errors anywhere: no task is cancelled, so vectors belong to an indexed file or to an attempt past its upsert |
| `OneLock` | `[]InstanceHasOneLock` of `ModelCache` | Llamas and locks are named by the request that made them: `FreshInv` says that a name not yet used is nowhere, `LockInv` that cache entries and handles agree on the lock of a Llama |
| `OneCall` | `[]OneAttendedCall` | `CallInv`: every attended C call is held by the lock in its handle; with `OneLock`, two calls on one Llama would hold one lock |
| `CacheInBounds` | `[]CacheFits` | `CInv`: the room made for a load is still there when it ends, since the loader keeps the load lock and a hit only reorders; lemmas say what removing and moving an entry do to the sum of costs |
| `LoadedHasModel`, `LoadedOnce` | `[]LoadedIsCached`, the action property `NotReplaced` | from `CInv` and `FreshInv`: a key being loaded stays absent until its own load ends |
| `EndpointSound` | `[]ServesSound` of `Adapters` | `SInv`, below |
| `AdaptersTypes` | `[]TypeOK` | `SInv` and `PlainInv`, which has the variables that `SInv` says nothing of |
| `TrailHonest` | `[]AuditLabels` | `AuditInv`: a request about to commit a promotion has missed at most rows committed after it began; one about to roll back has seen its adapter on the trail, where it stays |
| `ServedSaysPassed`, `VerdictsFinal` | `[]ServesPassed`, the action property `FinalIsFinal` | `CalmInv`: the app has started once, on an empty table; a job is in one place (`OnceInv`), so the worker's session knows the status of its row (`FinalInv`) |
| `FilesAttended` | `[]NoStrayFiles` | `StrayInv`: while no commit of a delete lost its reply and no converter wrote under `rmtree`, files without a row are those of an upload before its commit or of a delete after it |
| `SoundAdaptersPass` | `[]SoundPasses` | `DiskInv` (an upload's files precede its job; only PEFT is converted) and `SoundInv`: the job goes to fail only for an adapter that is unsound or gone, and a GGUF is partial only under the converter or when its job is lost |
| `VerdictsFair` | `[]JudgedFairly` of `Golden` | `TInv` types runs, jobs and coroutines; arithmetic lemmas bound the rounding to four decimals and place the median of up to three runs |
| `QueuedRunsRun` | `[]QueuedHasJob` | directly: every step that takes a queued run's job out of its place starts the run, puts it elsewhere or is an event of `LostRun` |
| `HookCovers` | `[]IndexedIsGated` | `PInv`: a job of either kind is in one place.  `StatusInv`: a run about to be pushed has not started, one being retrieved has; so the run a hook finds active will still see its file |
| `PagesWhole` | `[]WholePages` of `Extraction` | `Alone`: jobs have overlapped, or there is one and `EInv`: what a job selected of a page stays so until it commits.  `IndexesFresh`: the indexes of new pieces are distinct and meet no other page's |
| `VectorsFollow` | `[]RowsMatchVectors` | `VecInv` says what the vectors are between a page's two vector calls and its commit |
| `ValidSetsUsable`, `SynthesisSound` | `[]ValidIsUsable`, `[]SynthesisKeepsOne` of `Datasets` | `DInv` about each row with its file and its task; lemmas: the strides of `Sample` differ by at most one, and every question `Kept` drops has one that stands for it |
| `OnlyFilteredPassages` | `[]FilteredOnly` of `Retrieval` | `Filtered`: between its vector query and its filter step, the newest vector list may hold what SQL refuses, and no other list does; so no candidate that the fusion or the reranker orders is refused |
| `FusionIsFair` | `[]RankedFairly` | `Ordered`: what is ranked is the fusion of the lists as they stand, for no leg runs after it.  `FairFusion`, about any number of lists: a sum of reciprocal ranks is larger if none of its shares is smaller and one is larger, and equal if every rank occurs equally often |
| `FloorJudgesBestEvidence` | `[]JudgedOnBestEvidence` | `Scored`: while the legs run, `by_id` has every candidate so far, with its best positive cosine, and the keyword mark exactly if there is none and the keywords came first.  `Judging` carries that from `by_id` to the passages |
| `CallsFit` | `[]PromptFits` | `Fitted`: a request that retrieves has no images.  Lemmas: a prompt grows with its passages, so the first prefix found to fit is the longest one |
| `AnswersStay` | `[]AnswersHold` of `Accounts` | `AInv`: what a redemption or registration has read still decides at its commit, because unique columns refuse the rest; a member is a user |

`ServesSound` speaks of the endpoint, but what keeps it true is elsewhere: a promotion binds
an adapter it read two queries ago, a deletion removes files after its commit, and the job
writes a verdict about a row it read minutes ago.  `SInv` has a part for each.  `RowInv`: a
row whose metrics say pass describes a whole, loadable GGUF that passes the gate, and a
status passed implies such metrics.  `ReqInv`: a request about to bind an adapter whose row
still exists knows its metrics to pass; a request about to remove files knows there is no
row; without an app there are no requests, so the startup sweep writes to rows that exist.
`JobInv`: the session's copy agrees with the row in the columns only the worker writes, which
makes its partial UPDATE harmless, and each stage has excluded the flaws of the stages before.
`FreshInv`: an id is unknown to table, list and worker until its upload commits, so a row
that is gone never comes back.  The effect of a step on requests (`Moves`), rows (`Rewrites`,
`Mild`, `Tame`, `Commits`) and the list is proved once; each case of the step then cites it.

The four theorems about `Retrieval` share `BaseInv`: `Types`, `Phases` (which lists are still
empty and how many there are at each step, so the step of one leg cannot disturb what another
has given) and `Scored`.  `FilteredOnly` and `JudgedOnBestEvidence` speak of the end of a request,
and neither is inductive without what the legs left on the way.  The lists are handled through
three facts: `SortedFacts` (a set in a strict order is a list of all its elements, each once, in
that order), `AtFacts` (what is kept of a list, and in which order) and `SumRemove` (a sum over a
finite set may take any element first, whichever one the library's fold chooses).

Where a proof needs induction over numbers or finite sets (the sum of costs or of ranks, a
bound of a finite set, the greedy choice of `Kept`, the place of an element in an order, the
order of new indexes), it takes a least
counterexample: `NatMin`, from the theorem that `<` is well founded.  A recursive function is
shown to exist the same way before its equation is used.

Only model-checked:

* liveness and its fairness (`FilesFinish`, `RequestsFinish`, `AdaptersFinish`, `RequestServed`,
  `JobsFinish`, `DatasetsFinish`, `LimiterRecovers`): outside what the provers do;
* nothing else of what the passing runs check: every invariant and every action property is
  a theorem, but the indexing theorems with `OneWorker` say nothing of two workers, and
  `SweepsSpareRunning` nothing of a lost reply of a commit.

## 5. Plan

1. The parts of `IndexedIsSearchable` and of the refinement that hold for any number of workers.
2. Deletion of a project beside its jobs; the settings cache; API keys.

## 6. Not modelled

The text of documents and of prompts, embeddings and scores (inputs); parsing and chunking of
documents, of question files and of what a model answers (their outcomes are inputs); the
framing of streamed responses; the contextual headers of chunks and the checks of a teacher's
URL; the settings cache, duplicate uploads and project deletion; password hashing, tokens and
API keys; HTTP and schemas, except where they begin a transaction; the console; the model catalogue and the
hardware probe (static tables); health, metrics and usage, which no other component reads.
Llama.cpp, Chroma, Redis, Postgres, SQLAlchemy and asyncio are modelled by what the code
uses of them.
