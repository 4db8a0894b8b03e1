# Formal models of the stock prediction service

TLA+ models, TLC configurations and TLAPS proofs for the stateful parts of the
service in `src/`: a Flask application (composition root `src/app/__init__.py`,
with `src/app.py` as its legacy form) that trains price models in the background,
keeps them in a versioned registry, serves predictions through caches and limits
and protects its callers. The numerical code (features, networks, analytics) is
deterministic and stateless. What can go wrong in ways a unit test hardly
reaches is in the threads, the files they share and the bookkeeping between them.

## 1. The system

Line numbers refer to the files under `src/`.

| Component | State | Operations | Correct when |
|---|---|---|---|
| Priority job queue, `ml/queue.py` | `_heap`, `_jobs`, `_dlq`, `_seq`, the executor's queue and threads | `submit`, `_dispatch_loop`, `_pop_eligible`, `_run_job`, `_handle_failure`, `requeue_from_dlq`, `shutdown` | no job lost or run twice at once, retry budget exact, every job settles, dead-letter queue bounded |
| Circuit breaker, `core/circuit_breaker.py` | state, outcome window, incremental failure count, probe slots, counters | `call`, `_record`, `state`, `reset` | the count is that of the window, a closed breaker is healthy, slots bounded, half open is left |
| Model registry, `ml/registry.py` | `registry.json` on a shared volume | `register`, `update_status`, `mark_stale`, `get_*` | versions unique, life cycle only forward, `best` is the lowest RMSE |
| Background trainer, `ml/trainer.py` | `_jobs`, thread pool | `submit`, `_run_job`, `get_job` | every version settles, job record and registry agree, ready only after the artifacts exist |
| Retraining scheduler, `ml/scheduler.py` | one daemon thread per process | `_check_and_retrain` | a stale model gets a newer version, once |
| Model store, `storage/model_store.py` | directory per ticker and version | `save_artifacts`, `load_artifacts` | what is ready can be loaded |
| Inference engine and cache, `ml/inference.py` | memory and disk layers with a time to live, artifact cache | `get`, `set`, `flush`, `predict`, `evict_artifacts` | an answer is fresh, of the version asked for, and says truly whether it was computed or cached |
| Request hooks, error handlers, probes, `app/middleware`, `app/api/health_routes.py` | none of their own | `_before`, `_after`, handlers, `/ready`, `/metrics` | each response is counted and timed, a scrape reports what was observed |
| Rate limiter, `core/rate_limiter.py` | bucket and timestamp window per client | `allow`, `check` | at most capacity + rate * time calls pass, at most `window_max` per window |
| Metrics, `core/metrics.py` | counters and histograms | `inc`, `observe`, `percentile`, `format_prometheus` | buckets cumulative, percentiles bracket the samples |
| Workspace store and authentication, `storage/workspace_store.py`, `app/auth/auth_service.py` | four JSON files, one lock per path and process | workspaces, watchlists, alerts, accounts | every method takes effect at one instant or not at all; no account is lost unless the file could not be read |
| Batch predictor, `ml/batch_predictor.py` | a queue and a thread per model, futures | `predict`, `_batch_loop`, `_run_batch`, `stop` | everybody gets the prediction of his own sequence, every request is answered |
| Data and features, `market_data_repo.py`, `ml/features.py` | the rows of one history | download, clean, indicators, split, scale, sequences | no number is computed from a later day than it claims, rows, dates and targets stay aligned |
| Reports, `backtest_service.py`, `regime_service.py`, `comparison_service.py`, `ml/quant_analytics.py` | none | backtests, regime labels, scores and statistics, walk-forward, comparison | the same |
| HTTP routes, configuration, networks, sentiment, user interface, deployment, the legacy `src/app.py` | none of their own | delegation, I/O, numerics | not modelled, see section 7 |

How they interact. A request thread calls the trainer directly (v2 routes) or
submits a job to the priority queue (`v3_routes.py:60-91`) whose function calls
the trainer. `BackgroundTrainer.submit` records a version in the registry and
hands the run to its own thread pool; a run writes artifacts to the model store
and its stages to the registry. The scheduler thread lists ready models that are
too old, marks them stale, drops them from the inference engine's artifact cache
and submits their retraining. The inference engine resolves `latest` and `best`
through the registry and loads from the store. The breaker and the limiter sit
in front of callers. `Dockerfile:62` starts four gunicorn processes: each has a
queue, trainer, scheduler, limiter and registry lock of its own, while
`model_artifacts/` is shared.

What is hard about it: dispatcher, pool threads and request threads interleave;
state is read in one critical section and used in another; a job's history is
told by four places (its record, the registry, the pool, the disk) that are
updated one after the other; registry and artifacts survive a restart and
everything else does not; failures are logged and swallowed at several points.
`PROJECT.json` lists these hazards with the line where each bites.

## 2. Modules

| Module | Models | State and actions in terms of the code |
|---|---|---|
| `JobLifecycle` | what `submit()` promises its caller | Abstract: a phase and a remaining budget per job; `closed` once the queue is shut down, which ends the promise that jobs settle; `misused` once an operator has requeued a job that was not dead, which ends every promise. No heap, threads or dead-letter queue. |
| `JobQueue` | `ml/queue.py` | `heap` is `_heap` as a bag of (priority, seq, job); `job[j]` a `QueuedJob`; `dlq` the deque with `maxlen`; `backlog` the executor's FIFO queue; `dispatcher` and `inHand` the program counter and local variable of `_dispatch_loop`. One action per critical section: `_next_seq`, `submit`, `_dispatch_loop`, `_pop_eligible`, `pool_submit`, `TakeWork`, `_run_job`, `_handle_failure`, `requeue_from_dlq`, `Shutdown`; `BackoffElapses` is the clock. A dispatcher that the pool refuses is "crashed", with the job still in `inHand`. `careless` records that an operator requeued a job that was not dead; no action reads it. |
| `CircuitBreaker` | `core/circuit_breaker.py` | `call` is the admission and `CallReturns` the recording critical section of `call()`; the protected function runs between them. `QueryState` is the `state` property, `reset` the override, `TimeoutElapses` the clock. |
| `ModelRegistry` | `ml/registry.py` | Operators only: each maps the contents of the file a method reads to the contents it writes. |
| `TrainingPipeline` | `ml/trainer.py`, `ml/scheduler.py`, `storage/model_store.py`, over `ModelRegistry` | `submitter[s]` is how far a thread got in `submit`, `thread[w]` how far a pool thread got in `_run_job`, `scheduler` and `todo` the scheduling round. Each registry call is one action because the method holds the lock from read to replace. |
| `InferenceEngine` | `ml/inference.py`, `DELETE /api/v2/cache` | `mem[p]` is `_memory` of a process, `disk` the pickle files (a file is absent, partly written or full), `object` the result dictionaries, which threads and memory share by reference. A request steps through `predict`, `GetMem`, `GetDisk`, `Promote`, `Expire`, `Hit`, `_load_artifacts`, `Compute`, `OpenFile`, `Dump`, `Reply`; a flush through `FlushMem`, `ListFiles`, `RemoveFile`. `Train`, `Stale` and `Restart` are the environment. |
| `RateLimiter` | `core/rate_limiter.py` | Operators: what one call makes of a bucket and of a window. |
| `Metrics` | `core/metrics.py` | Operators: what an observation makes of a histogram, and what percentiles a histogram yields. |
| `RequestPath` | `observability.py`, `error_handlers.py`, `health_routes.py`, over the two before | `thread[t]` is how far a request got: bucket, clock read, window, handler, histogram, counter; a scrape walks the live histogram endpoint by endpoint; a readiness probe writes and removes its file. `spent` and `passed` record when the limiters let a call pass, `observed` and `answered` what really happened; no action reads them. |
| `UserData` | methods of `workspace_store.py` and `auth_service.py`, with the status codes of their routes | Operators: the contents a method reads to the contents it leaves and the answer. The key of a workspace is the concatenation of user and name, so that two pairs may have one key and the list of a user is those whose key he is a prefix of. |
| `UserStore` | what the user-data files promise | Abstract: a call takes effect at one instant between call and answer, or not at all; a call whose read failed (`Unreadable`) takes effect on an empty store. A login is a check followed by an update. |
| `UserFiles` | how the files keep it | `lock[p][f]` is the lock of a path in a process; `LockAndRead`, `ReadFails` (`_read` returns `{}` and the method goes on; `blind` has those threads), `_write` (temporary file and move), `WriteFails`, `RecordLogin`, `Return`; `Restart` ends a process at any step. |
| `BatchPredictor` | `ml/batch_predictor.py` | `queue[m]`, `batch[m]`, `loop[m]` are the queue, the local batch and the position of a model's thread; `future[m][r]` the futures; `caller[c]` which model a caller waits for. `Await` covers answer and timeout. |
| `Lineage` | `ml/features.py` (indicators), `ml/quant_analytics.py` (columns) | Operators on lineages: a series is a function from rows to the set of days its value was computed from. |
| `Research` | `market_data_repo.py`, `features.py`, `inference.py` (a miss), `trainer.py` (a run), `backtest_service.py`, `regime_service.py`, `comparison_service.py`, `quant_analytics.py`, the walk-forward route | `days` the rows of a download, `df` and `ret` the matrix and its targets, `part` the partitions, `fit` and `store` what models and scalers have seen, `pred`, `label`, `report` what is handed out. One action per function, in the order each request calls them. |
| `MC...` | instances | Priorities, process of each thread, calls, sizes of histories, and symmetry sets for TLC. |
| `...Proofs` | theorems | See section 5. |

`JobQueue` refines `JobLifecycle`: the mapping (`Lifecycle` in `JobQueue`) sends
queued and running jobs to "pending" and `max_retries + 1 - attempt` to the
remaining budget. `UserFiles` refines `UserStore` when all threads belong to one
process (`OneProcess`): what is on disk is the data, and a thread that holds a
lock has not taken effect yet. `TrainingPipeline` composes trainer, scheduler,
store and registry; a queue worker that submits to the trainer is one of its
`Clients`. `InferenceEngine` uses the same `ModelRegistry`; of the trainer it
keeps that a version is published with artifacts that load or do not, which is
what `ReadyIsOnDisk` of the pipeline leaves open.

Abstractions, and why they lose nothing the properties see:

- Clock values occur in the code only in comparisons, which are kept:
  `next_eligible_at > now` (`delayed`), `elapsed >= reset_timeout_s` (`elapsed`),
  `trained_at < cutoff` (`aged`). The moment at which each flips is left open, so
  backoff lengths and jitter are covered by every order of events.
- Heap order is kept by (priority, seq). The third component of the tuple is a
  random uuid: entries of equal key come out in either order. That happens,
  because a retry is pushed with the current `_seq` instead of a new one
  (`queue.py:249`).
- A job function succeeds or raises; a protected call succeeds or raises; an
  evaluation yields some RMSE of a small set. Prices, arrays and messages do
  not appear.
- The registry keeps versions in order and never removes one, so the versions of
  a ticker are a sequence and `_next_version` is its length plus one.
- Job records, versions and registry contents of different tickers do not
  influence each other except through pool threads and the scheduler.
- Time in the engine and the limiters is a natural number. A comparison of two
  readings is the code's (`now - ts < ttl`, `ts < cutoff`), so a unit may be any
  length. Tokens are integers with a price per call: any rational rate is an
  instance. A thread may wait up to `MaxLag` between `time.time()` and the lock.
- Latencies are the number of the bucket they fall into, which is all that
  `observe` and `percentile` look at.
- A prediction, a sequence or a price is known by where it comes from: the
  request that computed it, the caller who submitted it, the days that went into
  it. Whether a number leaks or is misattributed is a question about origins and
  needs no floating point.
- In `Lineage` the lengths of the windows are parameters. With windows of 2, 3
  and 5 instead of 14, 20 and 90, a history of 12 to 36 days shows every
  relation of first complete row, context, boundary and end that long ones show.
- Passwords, tokens and configurations are compared for equality only.

Some definitions have a variant next to them with a telling name
(`AppendUncapped`, `AttemptsLeftStrict`, `ReopenForgotten`, `PublishFirst`...):
a plausible slip in the same lines of code. No specification uses them; put in
place of the faithful definition they break the property that guards that code,
which shows the property is not true by accident (`mutants` in `PROJECT.json`).

## 3. Runs

| Run | Question and answer | Size |
|---|---|---|
| `queue` | Two jobs of two priorities, two threads, `max_retries` 1, a dead-letter queue of 1, two requeues, of dead jobs or of others, and a shutdown at any moment. A queued job can be popped; a running job is held by somebody, or was orphaned by a shutdown; a job exists once between heap and threads and its retry budget is exact, until an operator requeues one that is not dead; every step is one of `JobLifecycle`, and every job settles unless the queue is shut down. Holds. | 116 600 states |
| `queue_shutdown` | The diagram of `queue.py:14-31`: a job that was popped ends as success, in the retry queue or in the dead-letter queue. Violated: after `shutdown()` the pool refuses the job in the dispatcher's hand, the exception ends the dispatcher, and the job stays "running". | |
| `breaker` | Three overlapping callers, window of 3, two slots, eight calls, a reset: count, health, slots, counters, and half open is left. Holds. | 35 000 states |
| `pipeline` | Client, scheduler, two pool threads, three versions; training may fail, and one registry write fails or the process restarts between any two steps. Ready versions are on disk, one job per version, job records and registry agree, `best` stays right, no version goes back in its life cycle; a pending version has an owner and settles, and a stale model is retrained, until such a fault. Holds. | 92 600 states |
| `pipeline_retrain` | The scheduler's policy (`scheduler.py:18-20`) with one failing registration. Violated: the model was marked stale before `submit()` was tried, and later rounds list ready models only. | |
| `inference` | Two request threads of one process, three requests, two versions; a flush, a model that goes stale, a failing save or a restart at any moment. No cached answer is older than the time to live; an answer is of the ticker and version resolved for the request; what is labelled as computed was computed by that request. Holds. | 1 155 000 states |
| `requests` | Two threads, three requests that are limited, scrape or probe. The bucket's and the window's bound hold however clock reads and locks interleave, timestamps out of order in the deque included; what a scrape reads of an endpoint are the true counts and quantiles of that moment; counter and histogram account for every response, up to what is in between. Holds. | 1 690 000 states |
| `requests_429` | The counter is the "Total HTTP requests" (`metrics.py:291`). Violated: a refused request is counted in `_before` (`observability.py:30`) and again in `_after` (39-43). | |
| `users` | Two threads make any three calls to workspaces, watchlists, alerts and accounts, for users of whom one's name starts with the other's; a read or a write fails or the process restarts at any moment. The files implement `UserStore`; no account is lost, and a login changes nothing but its time, except by a registration whose read failed. Holds. | 796 000 states |
| `batch` | Two callers with two requests each, sequences of two shapes, batches of two, time-outs and a stop at any moment. No request gets the prediction of another, also when the answer to an abandoned one comes late; what is queued while the thread lives is answered, unless a batch of mixed shapes has ended the thread. Holds. | 149 000 states |
| `research` | Histories of 12 to 36 days, with a hole in the calendar or without, three sequence lengths, one or two folds. Predictions, positions and statistics use no later price than they claim, apart from whole-history statistics, which have a source of their own; rows, dates, targets and base prices stay aligned, or the run is refused or predicted from one broadcast sequence because the validation part is shorter than `seq_len`; all forward returns of a day are of the same days. Holds. | 9 200 states |
| `inference_scaler` | The chart shows "the ensemble's price predictions overlaid on actuals" (`PLATFORM_USER_GUIDE.md:167`). Violated: targets are scaled by the scaler of the request's range and restored by the scaler of the saved model (`inference.py:252`). | |

Bounds. Two jobs over two priorities and two threads give overtaking, a job in
backoff in front of an eligible one and contention for threads; ties between
entries of equal priority need a third job and are covered by the theorems, which
hold for any number. A budget of one retry gives a first and a last attempt. A
dead-letter queue of one overflows with the second dead job, and two requeues are
enough to requeue a job twice, queued or running. Requeue budgets bound only how
often an operator acts. For the breaker, a window of three with threshold 1/2 has
outcomes that trip and do not trip when full and an eviction of either kind;
`MaxCalls` 8 lets it open, recover, close and open again with late results
from three threads. In the pipeline three versions let two runs publish in either
order while the scheduler retrains a third; `MaxVersions` bounds the environment
only (`Room` is checked before a client submits or a model ages), never a
thread half way. `MaxFaults` counts restarts and failed registry writes; one is
enough for every conditional property to meet its exception. A save whose models
fail (`Faults` has "save") is not in this run: it changes which kind of artifacts a
version has, which no property of the pipeline reads; the theorems cover it, and
the `inference` run serves such versions.

In the engine a `TTL` of 1 makes an age of 0 fresh and an age of 1 expired, both
of which happen with `MaxClock` 1; three requests let one fill both layers, one
promote from disk and one meet what the second left; the theorems of section 5
cover every time to live, clock, number of threads and processes. `MaxFaults` 1
is shared by flushes, restarts, failing saves and models that go stale. In
`RequestPath` a capacity of 4 at a price of 2 and a rate of 1 pays for two calls at
once and a third after a wait; `MaxCalls` 2 and `WindowS` 2 with `MaxLag` 1 let two
threads enter their timestamps in the wrong order and let the older one expire
behind the younger, where `popleft` does not reach it, before a third call; two
buckets are a finite boundary and the rest. A handler answers itself
or raises; every status is counted alike, so three of them stand for all.
In `UserFiles` three calls are two that race and one that sees the result; two
threads of one process, as nothing is promised across processes. In `BatchPredictor` four requests fill
batches of two with more waiting, of one shape or mixed, and a caller whose first
request timed out makes a second one while the first is still queued. One model
is enough: the threads of different models share nothing but their callers.

`CHECK_DEADLOCK` is off where the system may come to rest: after a
shutdown, and when a bound on calls, requests or time is used up.

## 4. Fairness

- Queue: the dispatcher loop and pool threads are live daemon threads, a job
  function returns or raises, time passes, and a client that has drawn a
  sequence number finishes `submit`. No fairness on new submissions, requeues or
  shutdown. `JobLifecycle` obliges the queue to settle jobs only while it is open
  and no operator has requeued a job that was not dead.
- Breaker: a protected call returns or raises and time passes. Nobody has to
  call or to query the state, which is why "open is eventually left" is not
  claimed: it is false for a breaker nobody uses.
- Pipeline: threads inside `submit` or `_run_job` go on, idle threads take work,
  the scheduler wakes up again and again. No fairness on faults, clients or age.

- Batch predictor: the batch thread of each model goes on. Callers may go away.
- Engine, requests, user files and research: no liveness is claimed and no
  fairness assumed; their specifications are `Init /\ [][Next]_vars`.

All of it is weak fairness: a step that stays enabled is eventually taken. Where a
step can be taken away (two idle threads and one work item), the thread that
took it makes the progress.

## 5. What is proved

All theorems hold for every number of threads, jobs, callers and processes and
every value of the configuration, from the named assumptions of the modules
alone: `BreakerAssumption` (window size, threshold terms and slots positive,
threads finite), `JobQueueAssumption` (positive `DLQ_MAX_SIZE`, natural
priorities and retries), `EngineAssumption` (every thread in a process, natural
bounds), `RegistryAssumption` (scores are natural numbers),
`PipelineAssumption` (at least one ticker, the scheduler is not a client),
`StoreAssumption` (every thread in a process, the calls are those the routes make),
`LimiterAssumption` (positive price and window size), `PathAssumption` (finitely
many threads, the three kinds of request), `BatchAssumption` (models listed
once, at least one, positive batch size), `LineageAssumption` (windows and lags of
at least one row) and `ResearchAssumption`: row counts are natural, the horizons
a finite, non-empty set, there is at least one cluster, a path fits behind the
similar days (`PathLen <= SimilarMargin + 1`; 11 and 15 in the code), sequence
lengths are positive and the split gives training at least half, validation at
least a tenth and both together at most all of the rows (70 and 15 in
`config.py:23-24`). The last two are weaker than the code's defaults and not checked by
it: an environment variable or a request can set a share or a `seq_len` outside
them, and the theorems say nothing of such a run.

| Theorem | Says | Argument |
|---|---|---|
| `CircuitBreakerProofs!TypeCorrect` | types, window within `maxlen` | inductive by itself; `PushedType` bounds the push into a full window |
| `CountCorrect` | the incremental failure count is the number of failures in the window | inductive with `TypeOK`. `FailuresAppend` and `FailuresTail` (a bijection that shifts positions by one) say what appending and evicting do to the number of failures; `CountAfterCorrect` combines them as the code does |
| `ClosedHealthy` | a closed breaker's window never calls for opening | inductive by itself: every step that enters or stays in CLOSED evaluates the condition or clears the window |
| `SlotsBounded` | at most `half_open_max` slots per half-open period | inductive with `TypeOK` |
| `CallsCounted` | blocked, failed and running calls are distinct calls | inductive with `TypeOK`; cardinality of the set of running threads under one addition or removal |
| `JobQueueProofs!TypeCorrect` | types, dead-letter queue within its bound, the dispatcher's local is set exactly while it is handing over | inductive by itself; `HeapAdd` and `HeapRemove` say what pushing and popping do to the bag's domain |
| `QueuedDispatchable` | a queued job has an entry in the heap | inductive with `TypeOK`: popping removes one entry, of a job that becomes running in the same step |
| `OrphansOfShutdown` | a running job is held by a dispatcher that lives, executor or thread, or it is the one in the hand of a dispatcher that died because the pool was shut down | inductive with `TypeOK`: a holder lets go only when it passes the job on or settles it |
| `RunningInFlight` | without a shutdown no job is orphaned | the same invariant: without a shutdown the pool is open. With one it is false (`queue_shutdown`), so the theorem assumes `~AllowShutdown` |
| `BudgetExact` | until an operator requeues a job that is not dead, the retry budget is exact | part of `IInv`: where a job is depends on its status. A queued job has one entry, once; what is in flight is running, in one of three places (`HeapOnce`, `FlightOnce`); failures are counted (`BudgetOK`). The invariant is `~careless => IInv` (`CareInv`): a careless requeue breaks it, and nothing repairs it |
| `Single` | until then a job is in one place between heap and threads | from `CareInv` and the theorems above; `AtMostOne` and `CountedOnce` count the copies per place, `PlacesApart` says that only one place has one |
| `Implements` | the queue implements `JobLifecycle` (safety) | each action is `Accept`, `Settle` or `Revive` of one job, `Close`, or changes nothing the client sees; from a careless requeue on it is `Misuse` |
| `TrainingPipelineProofs!OnDisk` | a ready or stale version has its scalers and metadata on disk; its model files may be missing (`model_store.py:101` goes on when a save fails) | part of `IInv` below: a thread that is about to publish has saved |
| `OneJob` | a version is trained by one job | part of `IInv`: a version is new when a job draws it |
| `Best` | `best` is the lowest RMSE | part of `IInv`. `BestMoved` and `BestUnmoved` say what `NewBest` does when a version gets its score and when another stage is recorded |
| `Order` | the life of a version never goes back | from `IInv`, which says at which stage the version of each holder is: a job is in the hands of one submitter, one place of the pool or one thread (`Apart`), the stage of its version is the one its holder expects (`SubmitterOK`, `PoolOK`, `ThreadOK`), and what the scheduler has listed is still ready (`StaleOK`). `ThreadMoves`, `ThreadRecords`, `NewJobStep`, `RegisterStep`, `SubmitStep`, `CrashStep` preserve it |
| `SameStory` | the job record and the registry agree about a version | `Told`, inductive with `IInv`: a record changes after the registry does, and the stage of a version is the one its holder expects |
| `EveryPendingOwned` | a version that waits or trains has a submitter, a place in the pool or a thread, until something fails | `Owned`, inductive with `IInv`: a version goes from one holder to the next, and the only steps that drop it are faults |
| `TypeCorrect` | registry, records, pool, disk, locals; no thread half way runs into the bound on versions | inductive with `IInv` and `Owned`: versions in the registry, about to be registered and to be retrained stay within `MaxVersions` (`Bounded`) |
| `UserFilesProofs!AtomicStore` | files and locks of one process implement `UserStore`, failing reads and writes included | a thread inside a method holds the lock of its file (`Holds`), so no other one is inside a method of that file (`Exclusion`) and its copy is what the file contains, or empty if its read failed (`Visible`, `CopyIsCurrent`): replacing the file is the instant at which the method takes effect. `SameDo` identifies the methods of the two modules |
| `AccountsKept` | accounts exist on and keep password and role, but for a registration whose own read failed | `AccountMethods`: what the methods of `users.json` do to accounts of three fields; `OtherMethods`: a login whose read failed finds no user and writes nothing; `WriteStep`: how the file changes |
| `TypeCorrect` | locks belong to threads inside a method, watchlists have no duplicates, alerts carry past times | inductive as `TInv`: the copy in a thread's hand has the shape of the file, so whoever writes, in whatever order and from whichever process, writes that shape. `AppendOnceForm`, `RemoveAtForm` and `RemoveFirstForm` say what the list operations do, `ListMethods` and `AlertMethods` what the methods do |
| `InferenceEngineProofs!Typing` | the types of caches, files and requests, torn files and restarts included | inductive by itself |
| `Freshness` | no cached answer is older than the time to live | not inductive: it needs that every timestamp, in memory, in a file and in a thread's hand, is at most the birth of the object it belongs to, which is why promotion may not use the clock |
| `Matching` | the answer is of the ticker and version resolved | needs that every entry under a key, in memory, on disk and in hand, is an object of that key, and that keys are injective |
| `Labels` | "computed" means computed by this request | needs that objects which memory shares are marked before or belong to the request that has just stored them |
| `BatchPredictorProofs!OwnAnswers` | a caller's answers are predictions of his own sequence | needs that every resolved future holds its own request, and that row i of a batch answers request i |
| `WaitsOnce` | a request that waits is in the queue or the batch of its model, once; a batch is within its size | `WInv`: a pending future belongs to a request that was asked, and to one place (`Collecting`, `Waiting`, `Unasked`). `SetOfSeq`, `AppendSet`, `TailSet` and `JoinInjective` say what queue operations do to sets; one lemma per step of the loop (`StepTake`, `StepRun`) and of the caller |
| `RequestPathProofs!Burst` | capacity + rate * time bounds what passes the bucket | needs `BucketOK`: what was spent since any earlier call, and what is left, is paid for by the capacity and the refill up to the last refill. The capped refill pays at most for the time elapsed (`Refill`) |
| `Window` | `MaxCalls + 1` calls take longer than the window less the lag | needs `WindowOK`: the deque belongs to the last calls that passed, and calls the deque has forgotten passed too long ago to count; and `ThreadsOK`: a thread at the lock read the clock at most `MaxLag` ago. `Eviction` says what `popleft` takes away although timestamps are out of order |
| `Reconciled` | the counter by status and the histogram by endpoint account for the same responses, none missing, none counted twice but rejections | `Balance` says how many rejections the hook has counted in advance, and is inductive with the positions of all threads (`ThreadsOK`): both sides of each equation change by one in the same step. Cardinalities of the sets of threads between the two updates under one addition or removal |
| `ReportsSound` | what a scrape reads of an endpoint are its true count and percentiles | needs `LogsOK`: every bucket of a histogram counts the observations up to its boundary, so the first bucket that reaches a rank is the quantile. Smallest elements exist by well-foundedness |
| `TypeCorrect` | the positions and locals of requests, buckets, windows, histograms and counters | from `MInv`, the invariant of the two above |
| `ResearchProofs!PricesKnown` | predictions and positions depend on no later price, but for what `NoLookahead` names | part of `IInv`, see below |
| `RowsAligned` | sequences and targets stand row for row; after a validation part shorter than `seq_len` there are fewer sequences than rows, and predictions from a single one only; partitions are chronological, compared stocks share their days | from `PartOK` of `IInv`: `ContextIsTest` says that the last `seq_len` rows before a test partition give one sequence per test row, `ColdContext` how many a shorter context gives, `SequenceIsRow` that positions are rows; `PredOK`: what is predicted had as many sequences as rows, or one; `ComparedDays` for comparisons |
| `SamplesComplete` | forward statistics have all horizons; similar days have their whole path, which is the assumption on `PathLen` at work | part of `IInv`: the labelled rows are an interval that ends at the last day, so a row before the cutoff has its horizons (`StatsStep`), one before the margin its path (`SimilarStep`) |

The invariant of `Research` says what is computed from what. An index is strictly
increasing (`IsIndex`); a series over it has values in all rows from some row on,
and the value of a row depends on days up to the day of that row and on
statistics only (`IsSeries`). One lemma per operation of pandas shows that it
makes series from series (`CombineSeries`, `LocSeries`, `DiffSeries`,
`RollingSeries`, `EwmSeries`, `Reindexed`), and one per feature set that it is
composed of them (`EngineerSeries`, `RegimeSeries`, `QuantSeries`): `DataOK`. The
partitions follow one another and leave a full context before the test rows
(`PartOK`, from `SplitParts` for the split and `FoldEnds`, `FoldParts` for the
folds, which are statements about integer division). Scalers and weights have
seen nothing after the first test row, and what a training job saves nothing
after the first test row of the history it was trained on (`FitOK`, by
`SeenKnown`): this is what a prediction and an inference on the same history
need. Labels other than copies are as early as their row, but for the cluster
centres (`LabelOK`). `StageOK` says which of it is there at which step of a
request; one lemma per action preserves the whole.

The theorems of `JobQueueProofs` hold with a shutdown and with careless requeues at
any moment, except `RunningInFlight`, which assumes that nobody shuts the queue
down; what a careless requeue ends is part of the statements (`~careless`,
`Misuse`). `AtomicStore` and `AccountsKept` assume `OneProcess`: locks protect
nothing across processes (section 7); the types of the user files hold without it.

## 6. Only model-checked

Every invariant and every action property of the passing runs is a theorem. Only
model-checked is liveness under fairness (`ImplementsFairLifecycle`,
`PendingSettles`, `RetrainedUnlessFault`, `HalfOpenResolves`, `Served`), which needs
`ENABLED` and is beyond the proof system.

Disagreements of code and documents met while modelling for which there is no
run of their own:

- queue: `requeue_from_dlq` ("manually requeue a dead job", `queue.py:298`) never
  looks at the status and leaves the job in the dead-letter queue; "urgent jobs
  jump the queue" (`queue.py:6`) only until they leave the heap for the
  executor's FIFO queue; `active_workers` (`v3_routes.py:33`) counts jobs that
  still wait for a thread.
- breaker: a call admitted before the breaker opened can close it
  (`circuit_breaker.py:177` says "probe succeeded"); more calls than
  `half_open_max` may run during half open; `market_data_repo.py:6` and
  `CODEBASE_GUIDE.md:475` say downloads go through the breaker, and nothing
  calls `CircuitBreaker.call`.
- registry: `get_latest` returns a stale version ("most recently trained READY
  record", `registry.py:186`); after a restart, versions in "queued" or
  "training" stay there.
- cache: `flush` clears memory before the files (`inference.py:108`), so a
  concurrent read puts an entry back; it does not evict everything.
- limiter: "any rolling window" (`rate_limiter.py`) holds up to the lag between
  reading the clock and getting the lock, which `WindowBound` states.
- user files: `_read` answers an unreadable file with `{}` and logs "corrupt file ... —
  resetting" (`workspace_store.py:41`). Nothing is reset then; but the next write
  of the same method replaces the file, also when it was only unreadable for a
  moment: a registration then leaves one account. `AuthService._read` is the same.
- workspaces: the owner of a workspace is the second part of the token as the
  client sends it, unchecked, or "default_user" (`workspace_routes.py:20-31`); keys
  of two owners can be equal, and a list by prefix shows the workspaces of an owner
  whose name goes on with a colon (`workspace_store.py:81,103`).
- readiness: two concurrent probes share one file; the second `unlink` fails and
  the probe reports 503 (`health_routes.py:46`).
- features: `len(df) >= 2 * seq_len + 10` admits histories whose validation part
  is shorter than `seq_len` (`features.py:143`): the test part then has no
  context and its alignment is lost (`ValueError`, or, if one sequence is left,
  numpy broadcasts it, and then rows are predicted from later prices).
  `TargetsAligned` says exactly this of the case, `NoLookahead` excludes it (`Warm`).
  With the default of 90 these are histories of fewer than about 600 rows.
- forecast: it starts from a window that ends before the last known price and is
  dated from the last known day (`PLATFORM_USER_GUIDE.md:169`).
- "zero lookahead bias" (`README.md:48`, `ENGINEERING_DESIGN_DOCUMENT.md:20`):
  winsorising and clustering use the whole history, `bfill` copies the first
  complete row backwards, and the quantitative walk-forward picks its thresholds
  on the test fold (`quant_analytics.py:382-406`). `NoLookahead` treats
  whole-history statistics as a source of their own and says that nothing else
  comes from later days.
- risk: `risk_scores.iloc[-1] or 5.0` turns a score of 0 into 5.
- comparison: with too few common days `len(common_dates or [])`
  (`comparison_service.py:115`) asks for the truth of an index: a `ValueError`, and a
  500, instead of the `InsufficientDataError` it was meant to build. The model says
  only that the request fails.
- comparison: a stock that lost an outlier day contributes a return over two
  days that is paired with returns over one.

## 7. Not modelled

- Several processes over one `registry.json` or one user file. `Dockerfile:62`
  starts four; each has locks of its own, and nothing the files promise survives
  two writers (lost updates, versions drawn twice). The properties are stated for
  one process per file. The prediction cache is the exception: its theorems hold
  for any number of processes that share the directory.
- Numbers: networks, Monte Carlo, rolling metrics, summary statistics, sentiment
  and texts are float arithmetic without state; what they are computed from is
  in `Research`.
- The legacy `src/app.py` repeats in one file what the package does and wires the
  same components. It is not a second model.
- Tokens (stateless), request parsing, rendering, configuration values, browser
  code and the deployment files. Gauges, and the training and inference counters
  that nothing updates.
- Reading operations of the queue (`list_jobs`, `stats`, `summary`) change
  nothing. `shutdown()` of the trainer and `delete_version` have no caller.
  `start()` and `stop()` of the scheduler: a scheduler that is asleep covers one
  that is stopped, except for liveness.

## 8. Plan

Done: all modules of section 2 and the proofs of section 5, which state every
safety property of the runs. What is left is to prove more than the runs ask:

1. the safety half of the liveness properties: which step is enabled in each
   state that must make progress, as invariants without `ENABLED` (a pending
   version, a half-open breaker, a waiting request always have a holder that can
   move);
2. what the two limiters of `RequestPath` admit together;
3. that the artifacts of `TrainingPipeline` and those the engine loads are the
   same files, as one composed statement.
