--------------------------- MODULE TrainingPipeline ---------------------------
(***************************************************************************)
(* Model training inside one server process: clients and the retraining    *)
(* scheduler (ml/scheduler.py) submit training jobs, the threads of the    *)
(* BackgroundTrainer (ml/trainer.py) run them, artifacts go to the model   *)
(* store (storage/model_store.py) and every stage is recorded in the model *)
(* registry (ml/registry.py).                                              *)
(*                                                                         *)
(* Each registry call holds the registry's lock from reading the file to   *)
(* replacing it, so within one process it is one step.  The process may    *)
(* crash between any two steps: registry and artifacts are files, the rest *)
(* is memory.                                                              *)
(***************************************************************************)
EXTENDS ModelRegistry

CONSTANTS
    Clients,     \* request threads (and queue workers) that submit jobs
    Scheduler,   \* the scheduler thread
    Workers,     \* threads of the trainer's pool
    Faults,      \* which of "train", "save", "registry", "crash" can go wrong
    MaxVersions, \* bound: versions per ticker
    MaxFaults    \* bound: failed registry writes and crashes

ASSUME PipelineAssumption ==
    /\ Tickers # {}
    /\ Scheduler \notin Clients
    /\ Faults \subseteq {"train", "save", "registry", "crash"}
    /\ MaxVersions \in Nat
    /\ MaxFaults \in Nat

VARIABLES
    registry,  \* registry.json
    store,     \* store[t][v]: what the artifact directory of version v of t holds
    aged,      \* ready versions whose trained_at is older than the cutoff
    jobs,      \* the trainer's _jobs, in order of submission
    submitter, \* how far a thread got inside BackgroundTrainer.submit
    pool,      \* the executor's work queue, job numbers
    thread,    \* what each pool thread is doing
    scheduler, \* where _check_and_retrain is
    todo,      \* the stale models it has listed and not handled yet
    faults     \* failed registry writes and crashes so far

vars == <<registry, store, aged, jobs, submitter, pool, thread, scheduler, todo,
          faults>>

Submitters == Clients \cup {Scheduler}

TrainingJob == [ticker : Tickers, version : Nat,
                status : {"queued", "running", "done", "failed"}]

\* "empty": scalers and metadata, but every save_model failed; "full": at
\* least one model, scalers and metadata.
Artifacts == {"empty", "full"}

IdleSubmitter == [pc |-> "idle", job |-> 0]
IdleThread    == [pc |-> "idle", job |-> 0]
Asleep        == [pc |-> "sleep", ticker |-> CHOOSE t \in Tickers : TRUE]

Init ==
    /\ registry = EmptyRegistry
    /\ store = [t \in Tickers |-> [v \in {} |-> "full"]]
    /\ aged = {}
    /\ jobs = <<>>
    /\ submitter = [s \in Submitters |-> IdleSubmitter]
    /\ pool = <<>>
    /\ thread = [w \in Workers |-> IdleThread]
    /\ scheduler = Asleep
    /\ todo = {}
    /\ faults = 0

-------------------------------------------------------------------------------
(* The bound on versions: an execution only ages a model or submits a job  *)
(* if the versions this leads to exist, so the bound never stops a thread  *)
(* half way.                                                               *)

Unregistered(t) ==
    Cardinality({s \in Submitters :
        submitter[s].pc = "register" /\ jobs[submitter[s].job].ticker = t})

ToRetrain(t) ==
    Cardinality({tv \in aged : tv[1] = t /\ IsReady(registry, t, tv[2])})
    + (IF scheduler.pc = "submit" /\ scheduler.ticker = t THEN 1 ELSE 0)

Room(t) ==
    Len(registry[t].versions) + Unregistered(t) + ToRetrain(t) < MaxVersions

\* _write() raises before it replaces registry.json, which stays as it is.
WriteFails ==
    /\ "registry" \in Faults
    /\ faults < MaxFaults
    /\ faults' = faults + 1

-------------------------------------------------------------------------------
(* BackgroundTrainer.submit.                                               *)

\* The job object goes into _jobs, still without a version.
NewJob(s, t) ==
    /\ submitter[s].pc = "idle"
    /\ jobs' = Append(jobs, [ticker |-> t, version |-> 0, status |-> "queued"])
    /\ submitter' = [submitter EXCEPT ![s] = [pc |-> "register", job |-> Len(jobs')]]

ClientSubmit(c, t) ==
    /\ Room(t)
    /\ NewJob(c, t)
    /\ UNCHANGED <<registry, store, aged, pool, thread, scheduler, todo, faults>>

\* registry.register(status="queued"), then job.version is set.
Register(s) ==
    LET id == submitter[s].job
        t  == jobs[id].ticker
    IN /\ submitter[s].pc = "register"
       /\ registry' = register(registry, t)
       /\ jobs' = [jobs EXCEPT ![id].version = _next_version(registry, t)]
       /\ submitter' = [submitter EXCEPT ![s].pc = "enqueue"]
       /\ UNCHANGED <<store, aged, pool, thread, scheduler, todo, faults>>

\* What the scheduler does when its submit() has returned or raised.
AfterSubmit(s) ==
    scheduler' = IF s = Scheduler THEN [scheduler EXCEPT !.pc = "next"] ELSE scheduler

\* register() raises: the request fails, the scheduler logs and moves on, the
\* job object stays queued.
RegisterFails(s) ==
    /\ WriteFails
    /\ submitter[s].pc = "register"
    /\ submitter' = [submitter EXCEPT ![s] = IdleSubmitter]
    /\ AfterSubmit(s)
    /\ UNCHANGED <<registry, store, aged, jobs, pool, thread, todo>>

\* The job is accepted but never handed to the pool.
EnqueueForgets(s) ==
    /\ submitter[s].pc = "enqueue"
    /\ submitter' = [submitter EXCEPT ![s] = IdleSubmitter]
    /\ AfterSubmit(s)
    /\ UNCHANGED <<registry, store, aged, jobs, pool, thread, todo, faults>>

\* self._pool.submit(self._run_job, job)
Enqueue(s) ==
    /\ submitter[s].pc = "enqueue"
    /\ pool' = Append(pool, submitter[s].job)
    /\ submitter' = [submitter EXCEPT ![s] = IdleSubmitter]
    /\ AfterSubmit(s)
    /\ UNCHANGED <<registry, store, aged, jobs, thread, todo, faults>>

-------------------------------------------------------------------------------
(* BackgroundTrainer._run_job, on a pool thread.                           *)

At(w, pc)  == thread[w].pc = pc
Goto(w, pc) == thread' = [thread EXCEPT ![w].pc = pc]
TickerOf(w)  == jobs[thread[w].job].ticker
VersionOf(w) == jobs[thread[w].job].version

\* The job is marked running under the trainer's lock ...
TakeJob(w) ==
    /\ At(w, "idle")
    /\ pool # <<>>
    /\ thread' = [thread EXCEPT ![w] = [pc |-> "mark", job |-> Head(pool)]]
    /\ jobs' = [jobs EXCEPT ![Head(pool)].status = "running"]
    /\ pool' = Tail(pool)
    /\ UNCHANGED <<registry, store, aged, submitter, scheduler, todo, faults>>

\* The registry is not told that training started.
MarkTrainingSkipped(w) ==
    /\ At(w, "mark")
    /\ Goto(w, "train")
    /\ UNCHANGED <<registry, store, aged, jobs, submitter, pool, scheduler, todo,
                   faults>>

\* ... and its version as training under the registry's.
MarkTraining(w) ==
    /\ At(w, "mark")
    /\ registry' = update_status(registry, TickerOf(w), VersionOf(w), "training")
    /\ Goto(w, "train")
    /\ UNCHANGED <<store, aged, jobs, submitter, pool, scheduler, todo, faults>>

\* The exception escapes the handler and the pool swallows it.
TrainDies(w) ==
    /\ "train" \in Faults
    /\ At(w, "train")
    /\ thread' = [thread EXCEPT ![w] = IdleThread]
    /\ UNCHANGED <<registry, store, aged, jobs, submitter, pool, scheduler, todo,
                   faults>>

\* The data pipeline, the fit, the evaluation or the saving of a scaler raises.
TrainFails(w) ==
    /\ "train" \in Faults
    /\ At(w, "train")
    /\ Goto(w, "fail")
    /\ UNCHANGED <<registry, store, aged, jobs, submitter, pool, scheduler, todo,
                   faults>>

\* What a ticker's directories hold after save_artifacts.
Saved(dirs, v, kind) == [u \in DOMAIN dirs \cup {v} |-> IF u = v THEN kind ELSE dirs[u]]

\* Training succeeds and save_artifacts writes the files.  Errors of
\* save_model are logged and swallowed.
SaveArtifacts(w) ==
    /\ At(w, "train")
    /\ \E kind \in {"full"} \cup (IF "save" \in Faults THEN {"empty"} ELSE {}) :
          store' = [store EXCEPT ![TickerOf(w)] = Saved(@, VersionOf(w), kind)]
    /\ Goto(w, "publish")
    /\ UNCHANGED <<registry, aged, jobs, submitter, pool, scheduler, todo, faults>>

\* Recording the result raises inside the try block: the version is failed,
\* although its artifacts are complete.
PublishFails(w) ==
    /\ WriteFails
    /\ At(w, "publish")
    /\ Goto(w, "fail")
    /\ UNCHANGED <<registry, store, aged, jobs, submitter, pool, scheduler, todo>>

\* The version is published before its artifacts are written.
PublishFirst(w) ==
    /\ At(w, "train") \/ At(w, "publish")
    /\ \E rmse \in Rmse :
          registry' = update_ready(registry, TickerOf(w), VersionOf(w), rmse)
    /\ Goto(w, IF At(w, "train") THEN "train" ELSE "finish")
    /\ UNCHANGED <<store, aged, jobs, submitter, pool, scheduler, todo, faults>>

\* registry.update_status(..., "ready", metrics, model_path)
Publish(w) ==
    /\ At(w, "publish")
    /\ \E rmse \in Rmse :
          registry' = update_ready(registry, TickerOf(w), VersionOf(w), rmse)
    /\ Goto(w, "finish")
    /\ UNCHANGED <<store, aged, jobs, submitter, pool, scheduler, todo, faults>>

\* The exception handler marks the version as failed ...
MarkFailed(w) ==
    /\ At(w, "fail")
    /\ registry' = update_status(registry, TickerOf(w), VersionOf(w), "failed")
    /\ Goto(w, "failed")
    /\ UNCHANGED <<store, aged, jobs, submitter, pool, scheduler, todo, faults>>

\* The updates outside the try block: an error escapes _run_job, the pool
\* swallows it, and job and version stay as they are.
MarkFails(w) ==
    /\ WriteFails
    /\ At(w, "mark") \/ At(w, "fail")
    /\ thread' = [thread EXCEPT ![w] = IdleThread]
    /\ UNCHANGED <<registry, store, aged, jobs, submitter, pool, scheduler, todo>>

\* Every job ends as done.
FinishAlwaysDone(w) ==
    /\ At(w, "finish") \/ At(w, "failed")
    /\ jobs' = [jobs EXCEPT ![thread[w].job].status = "done"]
    /\ thread' = [thread EXCEPT ![w] = IdleThread]
    /\ UNCHANGED <<registry, store, aged, submitter, pool, scheduler, todo, faults>>

\* ... and either way the job record is finalised last.
FinishJob(w) ==
    /\ At(w, "finish") \/ At(w, "failed")
    /\ jobs' = [jobs EXCEPT ![thread[w].job].status =
                   IF At(w, "finish") THEN "done" ELSE "failed"]
    /\ thread' = [thread EXCEPT ![w] = IdleThread]
    /\ UNCHANGED <<registry, store, aged, submitter, pool, scheduler, todo, faults>>

RunJob(w) ==
    \/ TakeJob(w) \/ MarkTraining(w) \/ TrainFails(w) \/ SaveArtifacts(w)
    \/ Publish(w) \/ MarkFailed(w) \/ FinishJob(w)

-------------------------------------------------------------------------------
(* RetrainingScheduler._check_and_retrain.                                 *)

\* get_stale_ready_models(), a snapshot.
ScanStale ==
    /\ scheduler.pc = "sleep"
    /\ todo' = get_stale_ready_models(registry, aged)
    /\ scheduler' = [scheduler EXCEPT !.pc = "next"]
    /\ UNCHANGED <<registry, store, aged, jobs, submitter, pool, thread, faults>>

\* registry.mark_stale() for the next model of the snapshot (the order in
\* which the file lists them is left open), evict_artifacts() right after.
MarkStale ==
    /\ scheduler.pc = "next"
    /\ \E tv \in todo :
          /\ registry' = mark_stale(registry, tv[1], tv[2])
          /\ todo' = todo \ {tv}
          /\ scheduler' = [pc |-> "submit", ticker |-> tv[1]]
    /\ UNCHANGED <<store, aged, jobs, submitter, pool, thread, faults>>

\* An error of mark_stale() ends the round; the next one starts afresh.
MarkStaleFails ==
    /\ WriteFails
    /\ scheduler.pc = "next"
    /\ todo # {}
    /\ todo' = {}
    /\ scheduler' = Asleep
    /\ UNCHANGED <<registry, store, aged, jobs, submitter, pool, thread>>

\* The stale model is marked, and that is all.
SubmitSkipped ==
    /\ scheduler.pc = "submit"
    /\ scheduler' = [scheduler EXCEPT !.pc = "next"]
    /\ UNCHANGED <<registry, store, aged, jobs, submitter, pool, thread, todo, faults>>

\* trainer.submit() with the configuration of the stale model.
SubmitRetraining ==
    /\ scheduler.pc = "submit"
    /\ NewJob(Scheduler, scheduler.ticker)
    /\ scheduler' = [scheduler EXCEPT !.pc = "wait"]
    /\ UNCHANGED <<registry, store, aged, pool, thread, todo, faults>>

Sleep ==
    /\ scheduler.pc = "next"
    /\ todo = {}
    /\ scheduler' = Asleep
    /\ UNCHANGED <<registry, store, aged, jobs, submitter, pool, thread, todo, faults>>

RunScheduler == ScanStale \/ MarkStale \/ SubmitRetraining \/ Sleep

-------------------------------------------------------------------------------
(* The environment.                                                        *)

\* model_stale_days pass after a version was trained.
Age(t, v) ==
    /\ IsReady(registry, t, v)
    /\ <<t, v>> \notin aged
    /\ Room(t)
    /\ aged' = aged \cup {<<t, v>>}
    /\ UNCHANGED <<registry, store, jobs, submitter, pool, thread, scheduler, todo,
                   faults>>

\* The process dies and is started again: files survive, memory does not.
Crash ==
    /\ "crash" \in Faults
    /\ faults < MaxFaults
    /\ faults' = faults + 1
    /\ jobs' = <<>>
    /\ submitter' = [s \in Submitters |-> IdleSubmitter]
    /\ pool' = <<>>
    /\ thread' = [w \in Workers |-> IdleThread]
    /\ scheduler' = Asleep
    /\ todo' = {}
    /\ UNCHANGED <<registry, store, aged>>

Next ==
    \/ \E c \in Clients, t \in Tickers : ClientSubmit(c, t)
    \/ \E s \in Submitters : Register(s) \/ RegisterFails(s) \/ Enqueue(s)
    \/ \E w \in Workers : RunJob(w) \/ PublishFails(w) \/ MarkFails(w)
    \/ RunScheduler \/ MarkStaleFails
    \/ \E t \in Tickers : \E v \in Versions(registry, t) : Age(t, v)
    \/ Crash

Spec == Init /\ [][Next]_vars

\* Threads that are in the middle of something go on (a training run ends
\* one way or the other), idle pool threads take work, and the scheduler
\* wakes up again and again.  No client is obliged to submit, no fault to
\* happen.
Fairness ==
    /\ \A s \in Submitters : WF_vars(Register(s)) /\ WF_vars(Enqueue(s))
    /\ \A w \in Workers : WF_vars(RunJob(w))
    /\ WF_vars(RunScheduler)

FairSpec == Spec /\ Fairness

-------------------------------------------------------------------------------
(* Properties.                                                             *)

TypeOK ==
    /\ registry \in [Tickers -> TickerData]
    /\ \A t \in Tickers : /\ Len(registry[t].versions) <= MaxVersions
                          /\ registry[t].latest <= Len(registry[t].versions)
                          /\ registry[t].best <= Len(registry[t].versions)
    /\ DOMAIN store = Tickers
    /\ \A t \in Tickers : /\ DOMAIN store[t] \subseteq Versions(registry, t)
                          /\ \A v \in DOMAIN store[t] : store[t][v] \in Artifacts
    /\ aged \subseteq Tickers \X (1..MaxVersions)
    /\ jobs \in Seq(TrainingJob)
    /\ submitter \in [Submitters -> [pc : {"idle", "register", "enqueue"},
                                     job : 0..Len(jobs)]]
    /\ pool \in Seq(1..Len(jobs))
    /\ thread \in [Workers -> [pc : {"idle", "mark", "train", "publish", "finish",
                                     "fail", "failed"}, job : 0..Len(jobs)]]
    /\ scheduler \in [pc : {"sleep", "next", "submit", "wait"}, ticker : Tickers]
    /\ todo \subseteq aged
    /\ faults \in 0..MaxFaults

Status(t, v) == registry[t].versions[v].status

\* Whatever crashes, a version the registry calls ready (or stale) has its
\* scalers and metadata on disk: artifacts are written before the status.  Of the
\* models nothing is said: save_artifacts swallows the errors of save_model, so a
\* version can become ready without any of them.
ReadyIsOnDisk ==
    \A t \in Tickers : \A v \in Versions(registry, t) :
        Status(t, v) \in {"ready", "stale"} => v \in DOMAIN store[t]

\* "best" is, of all versions that ever got ready, one with the lowest RMSE,
\* in whatever order concurrent training runs publish; once a version has
\* been ready there is a best and a latest one.
BestIsLowest ==
    \A t \in Tickers :
        LET scored == {v \in Versions(registry, t) : Status(t, v) \in {"ready", "stale"}}
            best   == get_best(registry, t)
            latest == get_latest(registry, t)
        IN /\ scored = {} <=> best = 0
           /\ scored = {} <=> latest = 0
           /\ best # 0 => /\ {best, latest} \subseteq scored
                          /\ \A v \in scored : ~Lower(registry[t].versions[v].rmse,
                                                      registry[t].versions[best].rmse)

\* The work a version is waiting for or undergoing.
InProgress(t, v) ==
    \E id \in DOMAIN jobs :
        /\ jobs[id].ticker = t /\ jobs[id].version = v
        /\ \/ \E s \in Submitters : submitter[s] = [pc |-> "enqueue", job |-> id]
           \/ \E i \in DOMAIN pool : pool[i] = id
           \/ \E w \in Workers : thread[w].job = id

\* Until the process crashes or a registry write fails, a version recorded as
\* queued or training is being taken care of.
PendingIsOwned ==
    faults = 0 =>
        \A t \in Tickers : \A v \in Versions(registry, t) :
            Status(t, v) \in {"queued", "training"} => InProgress(t, v)

\* A version is trained by one job only.
OneJobPerVersion ==
    \A i, k \in DOMAIN jobs :
        /\ jobs[i].version # 0
        /\ jobs[i].ticker = jobs[k].ticker
        /\ jobs[i].version = jobs[k].version
        => i = k

\* The job a client polls and the registry tell the same story.
JobMatchesRegistry ==
    \A id \in DOMAIN jobs :
        LET j == jobs[id]
            s == Status(j.ticker, j.version)
        IN j.version # 0 =>
              /\ j.status = "queued" => s = "queued"
              /\ j.status = "done"   => s \in {"ready", "stale"}
              /\ j.status = "failed" => s = "failed"

\* The stages a status may be followed by.
StageFollows(old, new) ==
    \/ new = old
    \/ old = "queued"   /\ new = "training"
    \/ old = "training" /\ new \in {"ready", "failed"}
    \/ old = "ready"    /\ new = "stale"

\* "queued -> training -> ready -> stale", or failed after training: the life
\* of a version never goes back, whichever thread records the next stage.
LifecycleOrder ==
    [][\A t \in Tickers : \A v \in Versions(registry, t) :
         StageFollows(Status(t, v), Status(t, v)')]_vars

\* Every submitted version ends ready or failed, if training runs end and no crash
\* or failing registry write intervenes; a failing save of a model is no excuse.
PendingSettles ==
    \A t \in Tickers : \A v \in 1..MaxVersions :
        (v \in Versions(registry, t) /\ Status(t, v) = "queued")
            ~> (\/ /\ v \in Versions(registry, t)
                   /\ Status(t, v) \in {"ready", "failed", "stale"}
                \/ faults > 0)

\* A model that was marked stale gets a newer version, unless a crash or a failing
\* registry write intervenes.
RetrainedUnlessFault ==
    \A t \in Tickers : \A v \in 1..MaxVersions :
        (v \in Versions(registry, t) /\ Status(t, v) = "stale")
            ~> (Len(registry[t].versions) > v \/ faults > 0)

\* The scheduler's policy, "Submit a new training job via BackgroundTrainer"
\* (scheduler.py:18-20): a model that was marked stale gets a newer version.
StaleIsRetrained ==
    \A t \in Tickers : \A v \in 1..MaxVersions :
        (v \in Versions(registry, t) /\ Status(t, v) = "stale")
            ~> (Len(registry[t].versions) > v)
===============================================================================
