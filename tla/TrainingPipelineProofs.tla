------------------------ MODULE TrainingPipelineProofs ------------------------
(***************************************************************************)
(* What the registry file says stays true, for any number of clients,      *)
(* pool threads, tickers and versions and for any faults: a ready version  *)
(* is on disk, a version is trained by one job, its life never goes back,  *)
(* "best" is the lowest RMSE, and a job and its version tell one story.    *)
(* Until a write fails or the process crashes, no version is forgotten.    *)
(***************************************************************************)
EXTENDS TrainingPipeline, FiniteSetTheorems, TLAPS

-------------------------------------------------------------------------------
(* The inductive invariant: a job is in the hands of one submitter, one    *)
(* place of the pool or one thread, and whoever holds it knows the stage   *)
(* of its version.                                                         *)

\* The version a job belongs to, in registry d.
HasVersion(d, j) == j.version \in DOMAIN d[j.ticker].versions
StageOf(d, j) == d[j.ticker].versions[j.version].status

\* The stages of a version while its thread is at pc.
Expected(pc) ==
    CASE pc = "mark" -> {"queued"}
      [] pc \in {"train", "publish", "fail"} -> {"training"}
      [] pc = "finish" -> {"ready", "stale"}
      [] OTHER -> {"failed"}

Submitting(s) == submitter[s].pc # "idle"
Running(w) == thread[w].pc # "idle"

ThreadPc == {"idle", "mark", "train", "publish", "finish", "fail", "failed"}

Types ==
    /\ registry \in [Tickers -> TickerData]
    /\ DOMAIN store = Tickers
    /\ jobs \in Seq(TrainingJob)
    /\ submitter \in [Submitters -> [pc : {"idle", "register", "enqueue"}, job : Nat]]
    /\ pool \in Seq(Nat)
    /\ thread \in [Workers -> [pc : ThreadPc, job : Nat]]
    /\ DOMAIN scheduler = {"pc", "ticker"}
    /\ scheduler.pc = "submit" => scheduler.ticker \in Tickers

SubmitterOK ==
    \A s \in Submitters :
        /\ Submitting(s) => submitter[s].job \in DOMAIN jobs
        /\ submitter[s].pc = "register" => jobs[submitter[s].job].version = 0
        /\ submitter[s].pc = "enqueue" =>
              /\ HasVersion(registry, jobs[submitter[s].job])
              /\ StageOf(registry, jobs[submitter[s].job]) = "queued"

PoolOK ==
    \A i \in DOMAIN pool :
        /\ pool[i] \in DOMAIN jobs
        /\ HasVersion(registry, jobs[pool[i]])
        /\ StageOf(registry, jobs[pool[i]]) = "queued"

ThreadOK ==
    \A w \in Workers : Running(w) =>
        /\ thread[w].job \in DOMAIN jobs
        /\ HasVersion(registry, jobs[thread[w].job])
        /\ StageOf(registry, jobs[thread[w].job]) \in Expected(thread[w].pc)
        /\ At(w, "publish") => VersionOf(w) \in DOMAIN store[TickerOf(w)]

\* No job is in two hands.
Apart ==
    /\ \A s, u \in Submitters :
          Submitting(s) /\ Submitting(u) /\ submitter[s].job = submitter[u].job => s = u
    /\ \A s \in Submitters, i \in DOMAIN pool : Submitting(s) => submitter[s].job # pool[i]
    /\ \A s \in Submitters, w \in Workers :
          Submitting(s) /\ Running(w) => submitter[s].job # thread[w].job
    /\ \A i, k \in DOMAIN pool : pool[i] = pool[k] => i = k
    /\ \A i \in DOMAIN pool, w \in Workers : Running(w) => pool[i] # thread[w].job
    /\ \A w, x \in Workers :
          Running(w) /\ Running(x) /\ thread[w].job = thread[x].job => w = x

VersionsKnown == \A id \in DOMAIN jobs : jobs[id].version # 0 => HasVersion(registry, jobs[id])

\* The models the scheduler is to retrain are ready, those that age exist.
StaleOK ==
    /\ \A tv \in aged \cup todo : /\ tv = <<tv[1], tv[2]>> /\ tv[1] \in Tickers
                                /\ tv[2] \in Versions(registry, tv[1])
    /\ \A tv \in todo : Status(tv[1], tv[2]) = "ready"

Scored(d, t) == {v \in Versions(d, t) : d[t].versions[v].status \in {"ready", "stale"}}

\* latest and best of a ticker name versions with a score, best the lowest.
BestOK(d, t) ==
    /\ \A v \in Scored(d, t) : d[t].versions[v].rmse \in Rmse
    /\ (Scored(d, t) = {} <=> d[t].best = 0) /\ (Scored(d, t) = {} <=> d[t].latest = 0)
    /\ d[t].best # 0 =>
          /\ d[t].best \in Scored(d, t) /\ d[t].latest \in Scored(d, t)
          /\ \A v \in Scored(d, t) :
                ~Lower(d[t].versions[v].rmse, d[t].versions[d[t].best].rmse)

BestKept == \A t \in Tickers : BestOK(registry, t)

Hands == SubmitterOK /\ PoolOK /\ ThreadOK /\ Apart

IInv ==
    /\ Types /\ Hands /\ VersionsKnown /\ OneJobPerVersion
    /\ ReadyIsOnDisk /\ StaleOK /\ BestKept

LEMMA InitHolds == Init => IInv
<1> SUFFICES ASSUME Init PROVE IInv
  OBVIOUS
<1>1. Types
  BY DEF Init, Types, EmptyRegistry, TickerData, IdleSubmitter, IdleThread, ThreadPc, Asleep
<1>2. Hands
  BY DEF Init, Hands, SubmitterOK, PoolOK, ThreadOK, Apart, Submitting, Running,
         IdleSubmitter, IdleThread
<1>3. VersionsKnown /\ OneJobPerVersion /\ ReadyIsOnDisk /\ StaleOK
  BY DEF Init, VersionsKnown, OneJobPerVersion, ReadyIsOnDisk, StaleOK, Versions,
         EmptyRegistry
<1>4. BestKept
  BY DEF Init, BestKept, BestOK, Scored, Versions, EmptyRegistry
<1> QED
  BY <1>1, <1>2, <1>3, <1>4 DEF IInv

-------------------------------------------------------------------------------
(* Steps that leave the registry alone.                                    *)

\* The jobs keep their tickers and versions.
SameVersions ==
    /\ DOMAIN jobs' = DOMAIN jobs
    /\ \A id \in DOMAIN jobs :
          jobs'[id].ticker = jobs[id].ticker /\ jobs'[id].version = jobs[id].version

LEMMA Restated ==
    ASSUME SameVersions, registry' = registry
    PROVE  \A id \in DOMAIN jobs :
              /\ HasVersion(registry', jobs'[id]) = HasVersion(registry, jobs[id])
              /\ StageOf(registry', jobs'[id]) = StageOf(registry, jobs[id])
BY DEF SameVersions, HasVersion, StageOf

LEMMA JobType ==
    ASSUME jobs \in Seq(TrainingJob), NEW id \in DOMAIN jobs
    PROVE  jobs[id].ticker \in Tickers /\ jobs[id].version \in Nat
<1>1. jobs[id] \in TrainingJob
  OBVIOUS
<1> QED
  BY <1>1 DEF TrainingJob

\* Finishing a job changes its status only.
LEMMA StatusOnly ==
    ASSUME jobs \in Seq(TrainingJob), NEW id \in DOMAIN jobs,
           NEW status \in {"queued", "running", "done", "failed"},
           jobs' = [jobs EXCEPT ![id].status = status]
    PROVE  jobs' \in Seq(TrainingJob) /\ SameVersions
<1>1. \A k \in DOMAIN jobs : jobs[k] \in TrainingJob
  OBVIOUS
<1>2. jobs'[id] \in TrainingJob
  BY <1>1 DEF TrainingJob
<1> QED
  BY <1>1, <1>2 DEF SameVersions, TrainingJob

\* What does not depend on who holds a job.
LEMMA DataKept ==
    ASSUME IInv, SameVersions, UNCHANGED <<registry, aged>>, DOMAIN store' = Tickers,
           \A t \in Tickers : DOMAIN store[t] \subseteq DOMAIN store'[t]
    PROVE  /\ VersionsKnown' /\ OneJobPerVersion' /\ ReadyIsOnDisk' /\ BestKept'
           /\ (todo' \subseteq todo => StaleOK')
<1>1. VersionsKnown'
  BY Restated DEF IInv, VersionsKnown, SameVersions
<1>2. OneJobPerVersion'
  BY DEF IInv, OneJobPerVersion, SameVersions
<1>3. ReadyIsOnDisk'
  BY DEF IInv, ReadyIsOnDisk, Versions, Status
<1>4. BestKept'
  BY DEF IInv, BestKept, BestOK, Scored, Versions
<1>5. todo' \subseteq todo => StaleOK'
  BY DEF IInv, StaleOK, Versions, Status
<1> QED
  BY <1>1, <1>2, <1>3, <1>4, <1>5

\* The submitters and the pool, if jobs keep their versions and hands.
LEMMA HandsKept ==
    ASSUME IInv, SameVersions, registry' = registry
    PROVE  /\ (submitter' = submitter => SubmitterOK')
           /\ (pool' = pool => PoolOK')
           /\ (thread' = thread /\ store' = store => ThreadOK')
           /\ (UNCHANGED <<submitter, pool, thread>> => Apart')
<1>1. ASSUME submitter' = submitter PROVE SubmitterOK'
  BY <1>1, Restated DEF IInv, Hands, SubmitterOK, Submitting, SameVersions
<1>2. ASSUME pool' = pool PROVE PoolOK'
  BY <1>2, Restated DEF IInv, Hands, PoolOK, SameVersions
<1>3. ASSUME thread' = thread, store' = store PROVE ThreadOK'
  BY <1>3, Restated
  DEF IInv, Hands, ThreadOK, Running, At, SameVersions, VersionOf, TickerOf
<1>4. ASSUME UNCHANGED <<submitter, pool, thread>> PROVE Apart'
  BY <1>4 DEF IInv, Hands, Apart, Submitting, Running
<1> QED
  BY <1>1, <1>2, <1>3, <1>4

\* A thread goes on with its job or lets it go.
LEMMA ThreadMoves ==
    ASSUME IInv, NEW w \in Workers, Running(w), NEW r \in [pc : ThreadPc, job : Nat],
           thread' = [thread EXCEPT ![w] = r],
           r.pc # "idle" => /\ r.job = thread[w].job
                            /\ StageOf(registry, jobs[r.job]) \in Expected(r.pc),
           r.pc = "publish" => VersionOf(w) \in DOMAIN store'[TickerOf(w)],
           jobs' \in Seq(TrainingJob), SameVersions, DOMAIN store' = Tickers,
           \A t \in Tickers : DOMAIN store[t] \subseteq DOMAIN store'[t],
           UNCHANGED <<registry, aged, submitter, pool, scheduler, todo>>
    PROVE  IInv'
<1>1. Types'
  BY DEF IInv, Types
<1>2. SubmitterOK' /\ PoolOK'
  BY HandsKept
<1>3. thread'[w] = r /\ \A x \in Workers \ {w} : thread'[x] = thread[x]
  BY DEF IInv, Types
<1>4. ThreadOK'
  <2> SUFFICES ASSUME NEW x \in Workers, Running(x)'
               PROVE  /\ thread'[x].job \in DOMAIN jobs'
                      /\ HasVersion(registry', jobs'[thread'[x].job])
                      /\ StageOf(registry', jobs'[thread'[x].job]) \in Expected(thread'[x].pc)
                      /\ At(x, "publish")' => VersionOf(x)' \in DOMAIN store'[TickerOf(x)']
    BY DEF ThreadOK
  <2>1. Running(x) /\ thread'[x].job = thread[x].job
    BY <1>3 DEF Running
  <2>2. /\ thread[x].job \in DOMAIN jobs /\ HasVersion(registry, jobs[thread[x].job])
        /\ StageOf(registry, jobs[thread[x].job]) \in Expected(thread[x].pc)
        /\ At(x, "publish") => VersionOf(x) \in DOMAIN store[TickerOf(x)]
    BY <2>1 DEF IInv, Hands, ThreadOK
  <2>3. VersionOf(x)' = VersionOf(x) /\ TickerOf(x)' = TickerOf(x)
    BY <2>1, <2>2 DEF VersionOf, TickerOf, SameVersions
  <2>4. TickerOf(x) \in Tickers
    BY <2>2, JobType DEF IInv, Types, TickerOf
  <2>5. StageOf(registry, jobs[thread'[x].job]) \in Expected(thread'[x].pc)
    BY <1>3, <2>1, <2>2 DEF Running
  <2> QED
    BY <1>3, <2>1, <2>2, <2>3, <2>4, <2>5, Restated DEF SameVersions, At, Running
<1>5. Apart'
  <2>1. \A x \in Workers : Running(x)' => Running(x) /\ thread'[x].job = thread[x].job
    BY <1>3 DEF Running
  <2> QED
    BY <2>1 DEF IInv, Hands, Apart, Submitting
<1> QED
  BY <1>1, <1>2, <1>4, <1>5, DataKept DEF IInv, Hands

\* The steps of a pool thread that leave the registry alone.
LEMMA ThreadStep ==
    ASSUME IInv, NEW w \in Workers,
           TakeJob(w) \/ TrainFails(w) \/ SaveArtifacts(w) \/ PublishFails(w)
              \/ MarkFails(w) \/ FinishJob(w)
    PROVE  IInv'
<1> DEFINE id == thread[w].job
<1>1. ASSUME Running(w)
      PROVE  /\ id \in DOMAIN jobs /\ id \in Nat /\ thread[w] \in [pc : ThreadPc, job : Nat]
             /\ StageOf(registry, jobs[id]) \in Expected(thread[w].pc)
             /\ At(w, "publish") => VersionOf(w) \in DOMAIN store[TickerOf(w)]
  BY <1>1 DEF IInv, Hands, ThreadOK, Types
<1>3. ASSUME UNCHANGED jobs PROVE SameVersions /\ jobs' \in Seq(TrainingJob)
  BY <1>3 DEF SameVersions, IInv, Types
<1>4. ASSUME UNCHANGED store
      PROVE  DOMAIN store' = Tickers /\ \A t \in Tickers : DOMAIN store[t] \subseteq DOMAIN store'[t]
  BY <1>4 DEF IInv, Types
<1>5. ASSUME NEW pc \in ThreadPc, Goto(w, pc), Running(w)
      PROVE  \E r \in [pc : ThreadPc, job : Nat] :
                /\ thread' = [thread EXCEPT ![w] = r] /\ r.pc = pc /\ r.job = id
  <2> DEFINE r == [thread[w] EXCEPT !.pc = pc]
  <2>1. r \in [pc : ThreadPc, job : Nat] /\ r.pc = pc /\ r.job = id
    BY <1>1, <1>5
  <2>2. thread' = [thread EXCEPT ![w] = r]
    BY <1>5 DEF Goto
  <2> HIDE DEF r
  <2> QED
    BY <2>1, <2>2
<1>6. IdleThread \in [pc : ThreadPc, job : Nat] /\ IdleThread.pc = "idle"
  BY DEF IdleThread, ThreadPc
<1>7. CASE TrainFails(w) \/ PublishFails(w)
  <2>1. /\ Running(w) /\ Goto(w, "fail") /\ thread[w].pc \in {"train", "publish"}
        /\ UNCHANGED <<registry, store, aged, jobs, submitter, pool, scheduler, todo>>
    BY <1>7 DEF TrainFails, PublishFails, At, Running
  <2>2. PICK r \in [pc : ThreadPc, job : Nat] :
            thread' = [thread EXCEPT ![w] = r] /\ r.pc = "fail" /\ r.job = id
    BY <1>5, <2>1 DEF ThreadPc
  <2>3. StageOf(registry, jobs[r.job]) \in Expected(r.pc)
    BY <1>1, <2>1, <2>2 DEF Expected
  <2> QED
    BY <1>3, <1>4, <2>1, <2>2, <2>3, ThreadMoves
<1>8. CASE SaveArtifacts(w)
  <2>1. /\ Running(w) /\ Goto(w, "publish") /\ thread[w].pc = "train"
        /\ UNCHANGED <<registry, aged, jobs, submitter, pool, scheduler, todo>>
    BY <1>8 DEF SaveArtifacts, At, Running
  <2>2. PICK r \in [pc : ThreadPc, job : Nat] :
            thread' = [thread EXCEPT ![w] = r] /\ r.pc = "publish" /\ r.job = id
    BY <1>5, <2>1 DEF ThreadPc
  <2>3. StageOf(registry, jobs[r.job]) \in Expected(r.pc)
    BY <1>1, <2>1, <2>2 DEF Expected
  <2>4. TickerOf(w) \in Tickers
    BY <1>1, <2>1, JobType DEF IInv, Types, TickerOf
  <2>5. /\ DOMAIN store' = Tickers
        /\ \A t \in Tickers : DOMAIN store[t] \subseteq DOMAIN store'[t]
        /\ VersionOf(w) \in DOMAIN store'[TickerOf(w)]
    BY <1>8, <2>4 DEF SaveArtifacts, Saved, IInv, Types
  <2> QED
    BY <1>3, <2>1, <2>2, <2>3, <2>5, ThreadMoves
<1>9. CASE MarkFails(w)
  <2>1. /\ Running(w) /\ thread' = [thread EXCEPT ![w] = IdleThread]
        /\ UNCHANGED <<registry, store, aged, jobs, submitter, pool, scheduler, todo>>
    BY <1>9 DEF MarkFails, At, Running
  <2> QED
    BY <1>3, <1>4, <1>6, <2>1, ThreadMoves
<1>10. CASE FinishJob(w)
  <2>1. /\ Running(w) /\ thread' = [thread EXCEPT ![w] = IdleThread]
        /\ UNCHANGED <<registry, store, aged, submitter, pool, scheduler, todo>>
    BY <1>10 DEF FinishJob, At, Running
  <2>2. jobs' \in Seq(TrainingJob) /\ SameVersions
    BY <1>1, <1>10, <2>1, StatusOnly DEF FinishJob, IInv, Types
  <2> QED
    BY <1>4, <1>6, <2>1, <2>2, ThreadMoves
<1>11. CASE TakeJob(w)
  <2> DEFINE h == Head(pool)
             r == [pc |-> "mark", job |-> h]
  <2>1. /\ ~Running(w) /\ pool \in Seq(Nat) /\ pool # <<>> /\ pool' = Tail(pool)
        /\ thread' = [thread EXCEPT ![w] = r]
        /\ UNCHANGED <<registry, store, aged, submitter, scheduler, todo>>
    BY <1>11 DEF TakeJob, At, Running, IInv, Types
  <2>2. /\ 1 \in DOMAIN pool /\ pool[1] = h /\ h \in Nat /\ pool' \in Seq(Nat)
        /\ \A i \in DOMAIN pool' : i + 1 \in DOMAIN pool /\ pool'[i] = pool[i + 1]
    BY <2>1
  <2>3. /\ h \in DOMAIN jobs /\ HasVersion(registry, jobs[h])
        /\ StageOf(registry, jobs[h]) = "queued"
    BY <2>2 DEF IInv, Hands, PoolOK
  <2>4. jobs' \in Seq(TrainingJob) /\ SameVersions
    BY <1>11, <2>3, StatusOnly DEF TakeJob, IInv, Types
  <2>5. thread'[w] = r /\ \A x \in Workers \ {w} : thread'[x] = thread[x]
    BY <2>1 DEF IInv, Types
  <2>6. Types'
    BY <2>1, <2>2, <2>4 DEF IInv, Types, ThreadPc
  <2>7. SubmitterOK'
    BY <2>1, <2>4, HandsKept
  <2>8. PoolOK'
    BY <2>1, <2>2, <2>4, Restated DEF IInv, Hands, PoolOK, SameVersions
  <2>9. ThreadOK'
    <3>1. ASSUME NEW x \in Workers \ {w}, Running(x)'
          PROVE  /\ thread'[x].job \in DOMAIN jobs'
                 /\ HasVersion(registry', jobs'[thread'[x].job])
                 /\ StageOf(registry', jobs'[thread'[x].job]) \in Expected(thread'[x].pc)
                 /\ At(x, "publish")' => VersionOf(x)' \in DOMAIN store'[TickerOf(x)']
      BY <2>1, <2>4, <2>5, <3>1, Restated
      DEF IInv, Hands, ThreadOK, Running, At, SameVersions, VersionOf, TickerOf
    <3>2. /\ thread'[w].job = h /\ thread'[w].pc = "mark"
      BY <2>5
    <3> HIDE DEF h, r
    <3>3. /\ thread'[w].job \in DOMAIN jobs'
          /\ HasVersion(registry', jobs'[thread'[w].job])
          /\ StageOf(registry', jobs'[thread'[w].job]) \in Expected(thread'[w].pc)
          /\ ~At(w, "publish")'
      BY <2>1, <2>3, <2>4, <3>2, Restated DEF Expected, At, SameVersions
    <3> QED
      BY <3>1, <3>3 DEF ThreadOK
  <2>10. Apart'
    <3>1. \A x \in Workers \ {w} : Running(x)' => Running(x) /\ thread'[x].job = thread[x].job
      BY <2>5 DEF Running
    <3>2. \A s \in Submitters : Submitting(s)' = Submitting(s) /\ submitter'[s] = submitter[s]
      BY <2>1 DEF Submitting
    <3>3. thread'[w].job = pool[1]
      BY <2>2, <2>5
    <3>4. \A i, k \in DOMAIN pool' : pool'[i] = pool'[k] => i = k
      BY <2>1, <2>2 DEF IInv, Hands, Apart
    <3>5. \A i \in DOMAIN pool' : pool'[i] # pool[1]
      BY <2>1, <2>2 DEF IInv, Hands, Apart
    <3> HIDE DEF h, r
    <3>6. \A s \in Submitters, i \in DOMAIN pool' : Submitting(s)' => submitter'[s].job # pool'[i]
      BY <2>2, <3>2 DEF IInv, Hands, Apart
    <3>7. \A s \in Submitters, x \in Workers :
             Submitting(s)' /\ Running(x)' => submitter'[s].job # thread'[x].job
      BY <2>2, <3>1, <3>2, <3>3 DEF IInv, Hands, Apart
    <3>8. \A i \in DOMAIN pool', x \in Workers : Running(x)' => pool'[i] # thread'[x].job
      BY <2>2, <3>1, <3>3, <3>5 DEF IInv, Hands, Apart
    <3>9. \A x \in Workers \ {w} : Running(x)' => thread'[x].job # thread'[w].job
      BY <2>2, <3>1, <3>3 DEF IInv, Hands, Apart
    <3>10. \A x, y \in Workers :
              Running(x)' /\ Running(y)' /\ thread'[x].job = thread'[y].job => x = y
      BY <3>1, <3>9 DEF IInv, Hands, Apart
    <3>11. \A s, u \in Submitters :
              Submitting(s)' /\ Submitting(u)' /\ submitter'[s].job = submitter'[u].job => s = u
      BY <3>2 DEF IInv, Hands, Apart
    <3> QED
      BY <3>4, <3>6, <3>7, <3>8, <3>10, <3>11 DEF Apart
  <2> QED
    BY <1>4, <2>1, <2>4, <2>6, <2>7, <2>8, <2>9, <2>10, DataKept DEF IInv, Hands
<1> QED
  BY <1>7, <1>8, <1>9, <1>10, <1>11

-------------------------------------------------------------------------------
(* BackgroundTrainer.submit.                                               *)

\* A job that nobody holds yet.
LEMMA NewJobStep ==
    ASSUME IInv, NEW s \in Submitters, NEW t \in Tickers, NewJob(s, t),
           DOMAIN scheduler' = {"pc", "ticker"},
           scheduler' = scheduler \/ scheduler'.pc # "submit",
           UNCHANGED <<registry, store, aged, pool, thread, todo>>
    PROVE  IInv'
<1> DEFINE n == Len(jobs) + 1
           new == [ticker |-> t, version |-> 0, status |-> "queued"]
<1>1. /\ jobs \in Seq(TrainingJob) /\ new \in TrainingJob /\ jobs' = Append(jobs, new)
      /\ ~Submitting(s) /\ submitter' = [submitter EXCEPT ![s] = [pc |-> "register", job |-> Len(jobs')]]
  BY DEF IInv, Types, NewJob, TrainingJob, Submitting
<1>2. /\ jobs' \in Seq(TrainingJob) /\ Len(jobs') = n /\ n \in Nat /\ n \notin DOMAIN jobs
      /\ DOMAIN jobs' = DOMAIN jobs \cup {n} /\ jobs'[n] = new
      /\ \A id \in DOMAIN jobs : jobs'[id] = jobs[id]
  BY <1>1
<1>3. new.version = 0 /\ new.ticker = t
  OBVIOUS
<1> HIDE DEF new, n
<1>4. /\ submitter'[s] = [pc |-> "register", job |-> n]
      /\ \A u \in Submitters \ {s} : submitter'[u] = submitter[u]
  BY <1>1, <1>2 DEF IInv, Types
<1>5. Types'
  BY <1>1, <1>2 DEF IInv, Types
<1>6. SubmitterOK'
  BY <1>2, <1>3, <1>4 DEF IInv, Hands, SubmitterOK, Submitting
<1>7. PoolOK' /\ ThreadOK'
  BY <1>2 DEF IInv, Hands, PoolOK, ThreadOK, Running, At, VersionOf, TickerOf
<1>8. Apart'
  <2>1. /\ \A u \in Submitters \ {s} : Submitting(u)' = Submitting(u)
        /\ \A w \in Workers : Running(w)' = Running(w)
    BY <1>4 DEF Submitting, Running
  <2>2. /\ \A u \in Submitters : Submitting(u) => submitter[u].job # n
        /\ \A i \in DOMAIN pool : pool[i] # n
        /\ \A w \in Workers : Running(w) => thread[w].job # n
    BY <1>2 DEF IInv, Hands, SubmitterOK, PoolOK, ThreadOK
  <2> QED
    BY <1>4, <2>1, <2>2 DEF IInv, Hands, Apart
<1>9. VersionsKnown' /\ OneJobPerVersion'
  BY <1>2, <1>3 DEF IInv, VersionsKnown, OneJobPerVersion
<1>10. ReadyIsOnDisk' /\ BestKept' /\ StaleOK'
  BY DEF IInv, ReadyIsOnDisk, BestKept, BestOK, Scored, StaleOK, Versions, Status
<1> QED
  BY <1>5, <1>6, <1>7, <1>8, <1>9, <1>10 DEF IInv, Hands

\* Registering adds a queued version and leaves the others alone.
LEMMA Registered ==
    ASSUME NEW d \in [Tickers -> TickerData], NEW t \in Tickers
    PROVE  LET e == register(d, t)
               n == _next_version(d, t)
           IN /\ e \in [Tickers -> TickerData]
              /\ n \in Nat \ {0} /\ n \notin DOMAIN d[t].versions
              /\ DOMAIN e[t].versions = DOMAIN d[t].versions \cup {n}
              /\ e[t].versions[n].status = "queued"
              /\ \A u \in Tickers \ {t} : e[u] = d[u]
              /\ e[t].latest = d[t].latest /\ e[t].best = d[t].best
              /\ \A v \in DOMAIN d[t].versions : e[t].versions[v] = d[t].versions[v]
<1> DEFINE q == [status |-> "queued", rmse |-> NoScore]
           vs == d[t].versions
<1>1. q \in Record /\ q.status = "queued"
  BY DEF Record, VALID_STATUSES
<1>2. vs \in Seq(Record) /\ d[t].latest \in Nat /\ d[t].best \in Nat /\ d[t] \in TickerData
  BY DEF TickerData
<1>3. register(d, t) = [d EXCEPT ![t] = [d[t] EXCEPT !.versions = Append(vs, q)]]
  BY DEF register
<1> HIDE DEF q, vs
<1>4. /\ Append(vs, q) \in Seq(Record) /\ Len(vs) \in Nat /\ DOMAIN vs = 1..Len(vs)
      /\ DOMAIN Append(vs, q) = 1..(Len(vs) + 1) /\ Append(vs, q)[Len(vs) + 1] = q
      /\ \A v \in 1..Len(vs) : Append(vs, q)[v] = vs[v]
  BY <1>1, <1>2
<1> DEFINE r == [d[t] EXCEPT !.versions = Append(vs, q)]
<1>5. /\ r \in TickerData /\ r.versions = Append(vs, q)
      /\ r.latest = d[t].latest /\ r.best = d[t].best
  BY <1>2, <1>4 DEF TickerData
<1>6. register(d, t) = [d EXCEPT ![t] = r]
  BY <1>3
<1> HIDE DEF r
<1>7. /\ register(d, t) \in [Tickers -> TickerData] /\ register(d, t)[t] = r
      /\ \A u \in Tickers \ {t} : register(d, t)[u] = d[u]
  BY <1>5, <1>6
<1>8. _next_version(d, t) = Len(vs) + 1
  BY DEF _next_version, vs
<1> QED
  BY <1>1, <1>4, <1>5, <1>7, <1>8 DEF vs

LEMMA RegisterStep == ASSUME IInv, NEW s \in Submitters, Register(s) PROVE IInv'
<1> DEFINE id == submitter[s].job
           t == jobs[id].ticker
           n == _next_version(registry, t)
<1>1. /\ submitter[s].pc = "register" /\ Submitting(s) /\ id \in DOMAIN jobs
      /\ jobs[id].version = 0
  BY DEF Register, Submitting, IInv, Hands, SubmitterOK
<1>2. /\ jobs \in Seq(TrainingJob) /\ registry \in [Tickers -> TickerData]
      /\ t \in Tickers /\ id \in Nat
  BY <1>1, JobType DEF IInv, Types
<1>3. /\ registry' = register(registry, t) /\ jobs' = [jobs EXCEPT ![id].version = n]
      /\ submitter' = [submitter EXCEPT ![s].pc = "enqueue"]
      /\ UNCHANGED <<store, aged, pool, thread, scheduler, todo>>
  BY DEF Register
<1>4. /\ registry' \in [Tickers -> TickerData]
      /\ n \in Nat \ {0} /\ n \notin DOMAIN registry[t].versions
      /\ DOMAIN registry'[t].versions = DOMAIN registry[t].versions \cup {n}
      /\ registry'[t].versions[n].status = "queued"
      /\ \A u \in Tickers \ {t} : registry'[u] = registry[u]
      /\ registry'[t].latest = registry[t].latest /\ registry'[t].best = registry[t].best
      /\ \A v \in DOMAIN registry[t].versions :
            registry'[t].versions[v] = registry[t].versions[v]
  <2> DEFINE e == register(registry, t)
  <2> HIDE DEF id, t
  <2>1. registry' = e /\ n = _next_version(registry, t)
    BY <1>3
  <2> HIDE DEF n
  <2> QED
    BY <1>2, <2>1, Registered
<1>5. /\ jobs' \in Seq(TrainingJob) /\ DOMAIN jobs' = DOMAIN jobs
      /\ jobs'[id].ticker = t /\ jobs'[id].version = n
      /\ \A k \in DOMAIN jobs \ {id} : jobs'[k] = jobs[k]
  <2>1. \A k \in DOMAIN jobs : jobs[k] \in TrainingJob
    BY <1>2
  <2> HIDE DEF n
  <2>2. [jobs[id] EXCEPT !.version = n] \in TrainingJob
    BY <1>1, <1>4, <2>1 DEF TrainingJob
  <2>3. [jobs[id] EXCEPT !.version = n].version = n /\ [jobs[id] EXCEPT !.version = n].ticker = t
    BY <1>1, <2>1 DEF TrainingJob
  <2> HIDE DEF id, t
  <2>4. jobs' = [jobs EXCEPT ![id] = [jobs[id] EXCEPT !.version = n]]
    BY <1>3
  <2> DEFINE j == [jobs[id] EXCEPT !.version = n]
  <2>5. j \in TrainingJob /\ j.version = n /\ j.ticker = t /\ jobs' = [jobs EXCEPT ![id] = j]
    BY <2>2, <2>3, <2>4
  <2> HIDE DEF j
  <2> QED
    BY <1>1, <1>2, <2>5
<1>6. /\ submitter'[s].pc = "enqueue" /\ submitter'[s].job = id
      /\ \A u \in Submitters \ {s} : submitter'[u] = submitter[u]
      /\ submitter' \in [Submitters -> [pc : {"idle", "register", "enqueue"}, job : Nat]]
  BY <1>3 DEF IInv, Types
<1> HIDE DEF id, t, n
\* Whoever holds another job does not notice.
<1>7. ASSUME NEW k \in DOMAIN jobs \ {id}, HasVersion(registry, jobs[k])
      PROVE  /\ HasVersion(registry', jobs'[k])
             /\ StageOf(registry', jobs'[k]) = StageOf(registry, jobs[k])
  <2>1. jobs[k].ticker \in Tickers /\ jobs'[k] = jobs[k]
    BY <1>2, <1>5, JobType
  <2> QED
    BY <1>4, <1>7, <2>1 DEF HasVersion, StageOf
<1>8. HasVersion(registry', jobs'[id]) /\ StageOf(registry', jobs'[id]) = "queued"
  BY <1>4, <1>5 DEF HasVersion, StageOf
<1>9. Types'
  BY <1>3, <1>4, <1>5, <1>6 DEF IInv, Types
<1>10. SubmitterOK'
  <2>1. \A u \in Submitters \ {s} :
            Submitting(u)' => Submitting(u) /\ submitter[u].job \in DOMAIN jobs \ {id}
    BY <1>1, <1>6 DEF IInv, Hands, SubmitterOK, Apart, Submitting, id
  <2> QED
    BY <1>1, <1>5, <1>6, <1>7, <1>8, <2>1 DEF IInv, Hands, SubmitterOK, Submitting
<1>11. PoolOK'
  <2>1. \A i \in DOMAIN pool : pool[i] \in DOMAIN jobs \ {id}
    BY <1>1 DEF IInv, Hands, PoolOK, Apart, id
  <2> QED
    BY <1>3, <1>5, <1>7, <2>1 DEF IInv, Hands, PoolOK
<1>12. ThreadOK'
  <2>1. \A w \in Workers : Running(w) => thread[w].job \in DOMAIN jobs \ {id}
    BY <1>1 DEF IInv, Hands, ThreadOK, Apart, id
  <2> QED
    BY <1>3, <1>5, <1>7, <2>1
    DEF IInv, Hands, ThreadOK, Running, At, VersionOf, TickerOf
<1>13. Apart'
  <2>1. /\ \A u \in Submitters : Submitting(u)' = Submitting(u) /\ submitter'[u].job = submitter[u].job
        /\ \A w \in Workers : Running(w)' = Running(w)
    BY <1>1, <1>3, <1>6 DEF Submitting, Running, id
  <2> QED
    BY <1>3, <2>1 DEF IInv, Hands, Apart
<1>14. VersionsKnown' /\ OneJobPerVersion'
  <2>1. \A k \in DOMAIN jobs : jobs[k].ticker = t => jobs[k].version # n
    BY <1>4 DEF IInv, VersionsKnown, HasVersion
  <2>2. OneJobPerVersion'
    BY <1>5, <2>1 DEF IInv, OneJobPerVersion
  <2>3. VersionsKnown'
    BY <1>5, <1>7, <1>8 DEF IInv, VersionsKnown
  <2> QED
    BY <2>2, <2>3
<1>15. ReadyIsOnDisk' /\ StaleOK'
  BY <1>2, <1>3, <1>4 DEF IInv, ReadyIsOnDisk, StaleOK, Versions, Status
<1>16. BestKept'
  <2>1. Scored(registry', t) = Scored(registry, t)
    BY <1>4 DEF Scored, Versions
  <2>2. BestOK(registry, t)
    BY <1>2 DEF IInv, BestKept
  <2>3. \A v \in Scored(registry, t) : v \in DOMAIN registry[t].versions
    BY DEF Scored, Versions
  <2>4. BestOK(registry', t)
    BY <1>4, <2>1, <2>2, <2>3 DEF BestOK
  <2>5. \A u \in Tickers \ {t} : BestOK(registry', u)
    BY <1>4 DEF IInv, BestKept, BestOK, Scored, Versions
  <2> QED
    BY <2>4, <2>5 DEF BestKept
<1> QED
  BY <1>9, <1>10, <1>11, <1>12, <1>13, <1>14, <1>15, <1>16 DEF IInv, Hands

LEMMA SchedulerNext ==
    ASSUME IInv, NEW s, AfterSubmit(s)
    PROVE  /\ DOMAIN scheduler' = {"pc", "ticker"}
           /\ scheduler'.pc = "submit" => scheduler'.ticker \in Tickers
BY DEF AfterSubmit, IInv, Types

\* A submitter that gives up, or hands its job to the pool.
LEMMA SubmitStep ==
    ASSUME IInv, NEW s \in Submitters, RegisterFails(s) \/ Enqueue(s)
    PROVE  IInv'
<1> DEFINE id == submitter[s].job
<1>1. /\ Submitting(s) /\ id \in DOMAIN jobs /\ id \in Nat /\ AfterSubmit(s)
      /\ submitter' = [submitter EXCEPT ![s] = IdleSubmitter]
      /\ UNCHANGED <<registry, store, aged, jobs, thread, todo>>
  <2>1. /\ Submitting(s) /\ AfterSubmit(s)
        /\ submitter' = [submitter EXCEPT ![s] = IdleSubmitter]
        /\ UNCHANGED <<registry, store, aged, jobs, thread, todo>>
    BY DEF RegisterFails, Enqueue, Submitting
  <2> QED
    BY <2>1 DEF IInv, Hands, Types, SubmitterOK
<1>2. /\ ~Submitting(s)'
      /\ \A u \in Submitters : Submitting(u)' =>
            Submitting(u) /\ u # s /\ submitter'[u] = submitter[u]
      /\ submitter' \in [Submitters -> [pc : {"idle", "register", "enqueue"}, job : Nat]]
  BY <1>1 DEF IInv, Types, Submitting, IdleSubmitter
<1>3. SameVersions
  BY <1>1 DEF SameVersions
<1>4. DOMAIN scheduler' = {"pc", "ticker"} /\ (scheduler'.pc = "submit" => scheduler'.ticker \in Tickers)
  BY <1>1, SchedulerNext
<1>5. SubmitterOK'
  BY <1>1, <1>2 DEF IInv, Hands, SubmitterOK, Submitting
<1>6. ThreadOK'
  BY <1>1, <1>3, HandsKept
<1>7. /\ VersionsKnown' /\ OneJobPerVersion' /\ ReadyIsOnDisk' /\ BestKept' /\ StaleOK'
  BY <1>1, <1>3, DataKept DEF IInv, Types
<1>8. \A w \in Workers : Running(w)' = Running(w)
  BY <1>1 DEF Running
<1>9. CASE RegisterFails(s)
  <2>1. pool' = pool
    BY <1>9 DEF RegisterFails
  <2>2. Types' /\ PoolOK'
    BY <1>1, <1>2, <1>3, <1>4, <2>1, HandsKept DEF IInv, Types
  <2>3. Apart'
    BY <1>1, <1>2, <1>8, <2>1 DEF IInv, Hands, Apart
  <2> QED
    BY <1>5, <1>6, <1>7, <2>2, <2>3 DEF IInv, Hands
<1>10. CASE Enqueue(s)
  <2>1. submitter[s].pc = "enqueue" /\ pool' = Append(pool, id) /\ pool \in Seq(Nat)
    BY <1>10 DEF Enqueue, IInv, Types
  <2> DEFINE n == Len(pool) + 1
  <2>2. /\ pool' \in Seq(Nat) /\ DOMAIN pool' = DOMAIN pool \cup {n} /\ n \notin DOMAIN pool
        /\ pool'[n] = id /\ \A i \in DOMAIN pool : pool'[i] = pool[i]
    <3> HIDE DEF id
    <3> QED
      BY <1>1, <2>1
  <2>3. HasVersion(registry, jobs[id]) /\ StageOf(registry, jobs[id]) = "queued"
    BY <2>1 DEF IInv, Hands, SubmitterOK
  <2>4. Types'
    BY <1>1, <1>2, <1>4, <2>2 DEF IInv, Types
  <2> HIDE DEF n
  <2>5. PoolOK'
    BY <1>1, <2>2, <2>3 DEF IInv, Hands, PoolOK
  <2>6. Apart'
    <3>1. /\ \A u \in Submitters : Submitting(u)' => submitter'[u].job # id
          /\ \A i \in DOMAIN pool : pool[i] # id
          /\ \A w \in Workers : Running(w) => thread[w].job # id
      BY <1>1, <1>2 DEF IInv, Hands, Apart
    <3> HIDE DEF id
    <3>2. \A u \in Submitters, i \in DOMAIN pool' : Submitting(u)' => submitter'[u].job # pool'[i]
      BY <1>2, <2>2, <3>1 DEF IInv, Hands, Apart
    <3>3. \A i, k \in DOMAIN pool' : pool'[i] = pool'[k] => i = k
      BY <2>2, <3>1 DEF IInv, Hands, Apart
    <3>4. \A i \in DOMAIN pool', w \in Workers : Running(w)' => pool'[i] # thread'[w].job
      BY <1>1, <1>8, <2>2, <3>1 DEF IInv, Hands, Apart
    <3> QED
      BY <1>1, <1>2, <1>8, <3>2, <3>3, <3>4 DEF IInv, Hands, Apart
  <2> QED
    BY <1>5, <1>6, <1>7, <2>4, <2>5, <2>6 DEF IInv, Hands
<1> QED
  BY <1>9, <1>10

-------------------------------------------------------------------------------
(* The scheduler, the passing of time and restarts.                        *)

\* What does not touch jobs, their hands, the registry or the store.
LEMMA QuietStep ==
    ASSUME IInv, StaleOK', DOMAIN scheduler' = {"pc", "ticker"},
           scheduler'.pc = "submit" => scheduler'.ticker \in Tickers,
           UNCHANGED <<registry, store, jobs, submitter, pool, thread>>
    PROVE  IInv'
<1>1. Types'
  BY DEF IInv, Types
<1>2. SameVersions
  BY DEF SameVersions
<1>3. Hands'
  BY <1>2, HandsKept DEF Hands
<1>4. VersionsKnown' /\ OneJobPerVersion' /\ ReadyIsOnDisk' /\ BestKept'
  BY DEF IInv, VersionsKnown, OneJobPerVersion, ReadyIsOnDisk, BestKept, BestOK, Scored,
         Versions, Status
<1> QED
  BY <1>1, <1>3, <1>4 DEF IInv

LEMMA CalmSteps ==
    ASSUME IInv,
           \/ ScanStale \/ MarkStaleFails \/ Sleep
           \/ \E t \in Tickers : \E v \in Versions(registry, t) : Age(t, v)
    PROVE  IInv'
<1>1. ASSUME UNCHANGED <<registry, store, jobs, submitter, pool, thread>>, StaleOK',
             scheduler' = scheduler \/ scheduler' = Asleep
                \/ scheduler' = [scheduler EXCEPT !.pc = "next"]
      PROVE  IInv'
  <2>1. /\ DOMAIN scheduler' = {"pc", "ticker"}
        /\ scheduler'.pc = "submit" => scheduler'.ticker \in Tickers
    BY <1>1 DEF Asleep, IInv, Types
  <2> QED
    BY <1>1, <2>1, QuietStep
<1>2. CASE ScanStale
  <2>1. StaleOK'
    BY <1>2 DEF ScanStale, IInv, StaleOK, get_stale_ready_models, IsReady, Versions, Status
  <2> QED
    BY <1>1, <1>2, <2>1 DEF ScanStale
<1>3. CASE MarkStaleFails
  <2>1. StaleOK'
    BY <1>3 DEF MarkStaleFails, IInv, StaleOK, Versions, Status
  <2> QED
    BY <1>1, <1>3, <2>1 DEF MarkStaleFails
<1>4. CASE Sleep
  <2>1. StaleOK'
    BY <1>4 DEF Sleep, IInv, StaleOK, Versions, Status
  <2> QED
    BY <1>1, <1>4, <2>1 DEF Sleep
<1>5. ASSUME NEW t \in Tickers, NEW v \in Versions(registry, t), Age(t, v) PROVE IInv'
  <2>1. StaleOK'
    BY <1>5 DEF Age, IInv, StaleOK, Versions, Status
  <2> QED
    BY <1>1, <1>5, <2>1 DEF Age
<1> QED
  BY <1>2, <1>3, <1>4, <1>5

\* After a restart there are no jobs and nobody holds one.
LEMMA CrashStep == ASSUME IInv, Crash PROVE IInv'
<1>1. Types'
  BY DEF Crash, IInv, Types, IdleSubmitter, IdleThread, ThreadPc, Asleep
<1>2. Hands'
  BY DEF Crash, Hands, SubmitterOK, PoolOK, ThreadOK, Apart, Submitting, Running,
         IdleSubmitter, IdleThread
<1>3. VersionsKnown' /\ OneJobPerVersion'
  BY DEF Crash, VersionsKnown, OneJobPerVersion
<1>4. ReadyIsOnDisk' /\ StaleOK' /\ BestKept'
  BY DEF Crash, IInv, ReadyIsOnDisk, StaleOK, BestKept, BestOK, Scored, Versions, Status
<1> QED
  BY <1>1, <1>2, <1>3, <1>4 DEF IInv

-------------------------------------------------------------------------------
(* Recording a stage in the registry.                                      *)

\* e differs from d in the record of version v of t, and in its pointers.
Restaged(d, e, t, v) ==
    /\ e \in [Tickers -> TickerData]
    /\ \A u \in Tickers \ {t} : e[u] = d[u]
    /\ DOMAIN e[t].versions = DOMAIN d[t].versions
    /\ \A u \in DOMAIN d[t].versions \ {v} : e[t].versions[u] = d[t].versions[u]

LEMMA Updated ==
    ASSUME NEW d \in [Tickers -> TickerData], NEW t \in Tickers,
           NEW v \in DOMAIN d[t].versions, NEW status \in VALID_STATUSES
    PROVE  LET e == update_status(d, t, v, status)
           IN /\ Restaged(d, e, t, v)
              /\ e[t].versions[v].status = status
              /\ e[t].versions[v].rmse = d[t].versions[v].rmse
              /\ e[t].latest = d[t].latest /\ e[t].best = d[t].best
<1> DEFINE vs == d[t].versions
           x == [vs[v] EXCEPT !.status = status]
<1>1. vs \in Seq(Record) /\ d[t] \in TickerData /\ vs[v] \in Record
  BY DEF TickerData
<1>2. x \in Record /\ x.status = status /\ x.rmse = vs[v].rmse
  BY <1>1 DEF Record
<1>3. update_status(d, t, v, status) = [d EXCEPT ![t] = [d[t] EXCEPT !.versions = [vs EXCEPT ![v] = x]]]
  BY DEF update_status
<1> HIDE DEF x
<1> DEFINE us == [vs EXCEPT ![v] = x]
<1>4. /\ us \in Seq(Record) /\ DOMAIN us = DOMAIN vs /\ us[v] = x
      /\ \A u \in DOMAIN vs \ {v} : us[u] = vs[u]
  BY <1>1, <1>2
<1> HIDE DEF us
<1> DEFINE r == [d[t] EXCEPT !.versions = us]
<1>5. /\ r \in TickerData /\ r.versions = us /\ r.latest = d[t].latest /\ r.best = d[t].best
  BY <1>1, <1>4 DEF TickerData
<1>6. update_status(d, t, v, status) = [d EXCEPT ![t] = r]
  BY <1>3 DEF us
<1> HIDE DEF r
<1>7. /\ update_status(d, t, v, status) \in [Tickers -> TickerData]
      /\ update_status(d, t, v, status)[t] = r
      /\ \A u \in Tickers \ {t} : update_status(d, t, v, status)[u] = d[u]
  BY <1>5, <1>6
<1> QED
  BY <1>2, <1>4, <1>5, <1>7 DEF Restaged

LEMMA UpdatedReady ==
    ASSUME NEW d \in [Tickers -> TickerData], NEW t \in Tickers,
           NEW v \in DOMAIN d[t].versions, NEW rmse \in Rmse
    PROVE  LET e == update_ready(d, t, v, rmse)
           IN /\ Restaged(d, e, t, v)
              /\ e[t].versions[v].status = "ready" /\ e[t].versions[v].rmse = rmse
              /\ e[t].latest = v /\ e[t].best = NewBest(d, t, v, rmse)
<1> DEFINE vs == d[t].versions
           x == [status |-> "ready", rmse |-> rmse]
           best == NewBest(d, t, v, rmse)
<1>1. vs \in Seq(Record) /\ d[t] \in TickerData /\ d[t].best \in Nat /\ v \in Nat
  BY DEF TickerData
<1>2. x \in Record /\ x.status = "ready" /\ x.rmse = rmse
  BY DEF Record, VALID_STATUSES
<1>3. best \in Nat
  BY <1>1 DEF NewBest
<1>4. update_ready(d, t, v, rmse) =
          [d EXCEPT ![t] = [d[t] EXCEPT !.versions = [vs EXCEPT ![v] = x],
                                        !.latest = v, !.best = best]]
  BY DEF update_ready
<1> HIDE DEF x, best
<1> DEFINE us == [vs EXCEPT ![v] = x]
<1>5. /\ us \in Seq(Record) /\ DOMAIN us = DOMAIN vs /\ us[v] = x
      /\ \A u \in DOMAIN vs \ {v} : us[u] = vs[u]
  BY <1>1, <1>2
<1> HIDE DEF us
<1> DEFINE r == [d[t] EXCEPT !.versions = us, !.latest = v, !.best = best]
<1>6. /\ r \in TickerData /\ r.versions = us /\ r.latest = v /\ r.best = best
  BY <1>1, <1>3, <1>5 DEF TickerData
<1>7. update_ready(d, t, v, rmse) = [d EXCEPT ![t] = r]
  BY <1>4 DEF us
<1> HIDE DEF r
<1>8. /\ update_ready(d, t, v, rmse) \in [Tickers -> TickerData]
      /\ update_ready(d, t, v, rmse)[t] = r
      /\ \A u \in Tickers \ {t} : update_ready(d, t, v, rmse)[u] = d[u]
  BY <1>6, <1>7
<1> QED
  BY <1>2, <1>5, <1>6, <1>8 DEF Restaged, best

\* A stage with or without a score instead of another such stage.
LEMMA BestUnmoved ==
    ASSUME NEW d, NEW e, NEW t \in Tickers, NEW v \in DOMAIN d[t].versions,
           \A u \in Tickers : BestOK(d, u), Restaged(d, e, t, v),
           e[t].versions[v].rmse = d[t].versions[v].rmse,
           e[t].latest = d[t].latest, e[t].best = d[t].best,
           e[t].versions[v].status \in {"ready", "stale"}
              <=> d[t].versions[v].status \in {"ready", "stale"}
    PROVE  \A u \in Tickers : BestOK(e, u)
<1>1. Scored(e, t) = Scored(d, t)
  BY DEF Scored, Versions, Restaged
<1>2. \A u \in Scored(d, t) : e[t].versions[u].rmse = d[t].versions[u].rmse
  BY DEF Scored, Versions, Restaged
<1>3. BestOK(e, t)
  <2>1. BestOK(d, t)
    OBVIOUS
  <2> QED
    BY <1>1, <1>2, <2>1 DEF BestOK
<1>4. ASSUME NEW u \in Tickers \ {t} PROVE BestOK(e, u)
  <2>1. e[u] = d[u] /\ BestOK(d, u)
    BY DEF Restaged
  <2> QED
    BY <2>1 DEF BestOK, Scored, Versions
<1> QED
  BY <1>3, <1>4

\* A new score: NewBest keeps the lowest one.
LEMMA BestMoved ==
    ASSUME NEW d, NEW e, NEW t \in Tickers, NEW v \in DOMAIN d[t].versions, v # 0,
           \A u \in Tickers : BestOK(d, u), Restaged(d, e, t, v), NEW rmse \in Rmse,
           e[t].versions[v].rmse = rmse, e[t].versions[v].status = "ready",
           e[t].latest = v, e[t].best = NewBest(d, t, v, rmse),
           v \notin Scored(d, t)
    PROVE  \A u \in Tickers : BestOK(e, u)
<1> DEFINE S == Scored(d, t)
           best == d[t].best
           low == d[t].versions[best].rmse
<1>1. Scored(e, t) = S \cup {v}
  BY DEF Scored, Versions, Restaged
<1>2. \A u \in S : e[t].versions[u] = d[t].versions[u] /\ u # v
  BY DEF Scored, Versions, Restaged
<1>3. /\ \A u \in S : d[t].versions[u].rmse \in Rmse
      /\ best # 0 => best \in S /\ \A u \in S : ~Lower(d[t].versions[u].rmse, low)
      /\ S = {} <=> best = 0
  <2>1. BestOK(d, t)
    OBVIOUS
  <2> QED
    BY <2>1 DEF BestOK
<1>4. \A x \in Rmse, y \in Rmse : Lower(x, y) <=> x < y
  BY RegistryAssumption DEF Lower, NoScore
<1>5. \A x \in Rmse : x \in Nat
  BY RegistryAssumption
<1>6. e[t].best \in S \cup {v} /\ e[t].best # 0
  BY <1>3 DEF NewBest
<1>7. ASSUME NEW u \in S \cup {v}
      PROVE  ~Lower(e[t].versions[u].rmse, e[t].versions[e[t].best].rmse)
  <2> HIDE DEF S, best, low
  <2>1. CASE best = 0
    <3>1. S = {} /\ u = v /\ e[t].best = v
      BY <1>3, <2>1 DEF NewBest, best
    <3> QED
      BY <1>4, <1>5, <3>1
  <2>2. CASE best # 0 /\ Lower(rmse, low)
    <3>1. e[t].best = v /\ low \in Rmse /\ rmse < low
      BY <1>3, <1>4, <2>2 DEF NewBest, best, low
    <3>2. u \in S => d[t].versions[u].rmse \in Rmse /\ ~ (d[t].versions[u].rmse < low)
      BY <1>3, <1>4, <2>2, <3>1
    <3>3. u \in S => e[t].versions[u].rmse = d[t].versions[u].rmse
      BY <1>2
    <3> QED
      BY <1>4, <1>5, <3>1, <3>2, <3>3
  <2>3. CASE best # 0 /\ ~Lower(rmse, low)
    <3>1. e[t].best = best /\ best \in S /\ e[t].versions[best].rmse = low
      BY <1>2, <1>3, <2>3 DEF NewBest, best, low
    <3> QED
      BY <1>2, <1>3, <2>3, <3>1
  <2> QED
    BY <2>1, <2>2, <2>3
<1>8. BestOK(e, t)
  <2>1. \A u \in S \cup {v} : e[t].versions[u].rmse \in Rmse
    BY <1>2, <1>3
  <2> HIDE DEF S, best, low
  <2> QED
    BY <1>1, <1>6, <1>7, <2>1 DEF BestOK
<1>9. ASSUME NEW u \in Tickers \ {t} PROVE BestOK(e, u)
  <2>1. e[u] = d[u] /\ BestOK(d, u)
    BY DEF Restaged
  <2> QED
    BY <2>1 DEF BestOK, Scored, Versions
<1> QED
  BY <1>8, <1>9

\* Recording a stage touches the holder of that version only.
LEMMA OthersUnmoved ==
    ASSUME jobs \in Seq(TrainingJob), NEW t \in Tickers, NEW v,
           Restaged(registry, registry', t, v)
    PROVE  \A id \in DOMAIN jobs :
              /\ HasVersion(registry', jobs[id]) = HasVersion(registry, jobs[id])
              /\ HasVersion(registry, jobs[id])
                    /\ ~ (jobs[id].ticker = t /\ jobs[id].version = v)
                 => StageOf(registry', jobs[id]) = StageOf(registry, jobs[id])
<1> SUFFICES ASSUME NEW id \in DOMAIN jobs
             PROVE  /\ HasVersion(registry', jobs[id]) = HasVersion(registry, jobs[id])
                    /\ HasVersion(registry, jobs[id])
                          /\ ~ (jobs[id].ticker = t /\ jobs[id].version = v)
                       => StageOf(registry', jobs[id]) = StageOf(registry, jobs[id])
  OBVIOUS
<1>1. jobs[id].ticker \in Tickers
  BY JobType
<1> QED
  BY <1>1 DEF HasVersion, StageOf, Restaged

\* A thread records the stage its version has reached.
LEMMA ThreadRecords ==
    ASSUME IInv, NEW w \in Workers, Running(w),
           NEW pc \in ThreadPc \ {"idle", "publish"}, Goto(w, pc),
           Restaged(registry, registry', TickerOf(w), VersionOf(w)),
           StageOf(registry', jobs[thread[w].job]) \in Expected(pc),
           StageOf(registry, jobs[thread[w].job]) # "ready",
           StageOf(registry', jobs[thread[w].job]) \in {"ready", "stale"}
              => VersionOf(w) \in DOMAIN store[TickerOf(w)],
           BestKept', UNCHANGED <<store, aged, jobs, submitter, pool, scheduler, todo>>
    PROVE  IInv'
<1> DEFINE id == thread[w].job
           t == TickerOf(w)
           v == VersionOf(w)
<1>1. /\ id \in DOMAIN jobs /\ HasVersion(registry, jobs[id])
      /\ jobs[id].ticker = t /\ jobs[id].version = v
  BY DEF IInv, Hands, ThreadOK, TickerOf, VersionOf
<1>2. /\ jobs \in Seq(TrainingJob) /\ registry \in [Tickers -> TickerData]
      /\ t \in Tickers /\ v \in DOMAIN registry[t].versions /\ v # 0
  <2>1. t \in Tickers /\ jobs \in Seq(TrainingJob) /\ registry \in [Tickers -> TickerData]
    BY <1>1, JobType DEF IInv, Types
  <2>2. v \in DOMAIN registry[t].versions
    BY <1>1 DEF HasVersion
  <2>3. registry[t].versions \in Seq(Record)
    BY <2>1 DEF TickerData
  <2> HIDE DEF t, v
  <2> QED
    BY <2>1, <2>2, <2>3
<1>3. /\ thread'[w].pc = pc /\ thread'[w].job = id
      /\ \A x \in Workers \ {w} : thread'[x] = thread[x]
      /\ thread' \in [Workers -> [pc : ThreadPc, job : Nat]]
  BY DEF IInv, Types, Goto
<1>4. /\ registry'[t].versions[v].status = StageOf(registry', jobs[id])
      /\ registry[t].versions[v].status = StageOf(registry, jobs[id])
  BY <1>1 DEF StageOf
<1> HIDE DEF t, v
<1>5. \A k \in DOMAIN jobs :
          /\ HasVersion(registry', jobs[k]) = HasVersion(registry, jobs[k])
          /\ HasVersion(registry, jobs[k]) /\ k # id
                => StageOf(registry', jobs[k]) = StageOf(registry, jobs[k])
  <2>1. \A k \in DOMAIN jobs : k # id => ~ (jobs[k].ticker = t /\ jobs[k].version = v)
    BY <1>1, <1>2 DEF IInv, OneJobPerVersion
  <2> QED
    BY <1>2, <2>1, OthersUnmoved DEF t, v
<1> HIDE DEF id
<1>6. Types'
  BY <1>3 DEF IInv, Types, Restaged
<1>7. SubmitterOK'
  <2>1. \A s \in Submitters : Submitting(s) => submitter[s].job # id
    BY DEF IInv, Hands, Apart, id
  <2> QED
    BY <1>5, <2>1 DEF IInv, Hands, SubmitterOK, Submitting
<1>8. PoolOK'
  <2>1. \A i \in DOMAIN pool : pool[i] # id
    BY DEF IInv, Hands, Apart, id
  <2> QED
    BY <1>5, <2>1 DEF IInv, Hands, PoolOK
<1>9. ThreadOK'
  <2>1. \A x \in Workers \ {w} : Running(x)' => Running(x) /\ thread[x].job # id
    BY <1>3 DEF IInv, Hands, Apart, Running, id
  <2>2. ASSUME NEW x \in Workers \ {w}, Running(x)'
        PROVE  /\ thread'[x].job \in DOMAIN jobs'
               /\ HasVersion(registry', jobs'[thread'[x].job])
               /\ StageOf(registry', jobs'[thread'[x].job]) \in Expected(thread'[x].pc)
               /\ At(x, "publish")' => VersionOf(x)' \in DOMAIN store'[TickerOf(x)']
    BY <1>3, <1>5, <2>1, <2>2
    DEF IInv, Hands, ThreadOK, At, TickerOf, VersionOf
  <2>3. /\ thread'[w].job \in DOMAIN jobs'
        /\ HasVersion(registry', jobs'[thread'[w].job])
        /\ StageOf(registry', jobs'[thread'[w].job]) \in Expected(thread'[w].pc)
        /\ ~At(w, "publish")'
    BY <1>1, <1>3, <1>5 DEF At, id
  <2> QED
    BY <2>2, <2>3 DEF ThreadOK
<1>10. Apart'
  <2>1. /\ \A x \in Workers : Running(x)' => Running(x) /\ thread'[x].job = thread[x].job
        /\ \A s \in Submitters : Submitting(s)' = Submitting(s)
    BY <1>3 DEF Running, Submitting, id
  <2> QED
    BY <2>1 DEF IInv, Hands, Apart
<1>11. VersionsKnown' /\ OneJobPerVersion' /\ ReadyIsOnDisk' /\ StaleOK'
  <2>2. VersionsKnown' /\ OneJobPerVersion'
    BY <1>5 DEF IInv, VersionsKnown, OneJobPerVersion
  <2>3. ReadyIsOnDisk'
    BY <1>2, <1>4 DEF IInv, ReadyIsOnDisk, Versions, Status, Restaged, id, t, v
  <2>4. StaleOK'
    <3>1. \A tv \in todo : ~ (tv[1] = t /\ tv[2] = v)
      <4>1. ASSUME NEW tv \in todo, tv[1] = t, tv[2] = v PROVE FALSE
        <5>1. registry[t].versions[v].status = "ready"
          BY <4>1 DEF IInv, StaleOK, Status
        <5> QED
          BY <1>4, <5>1 DEF id
      <4> QED
        BY <4>1
    <3> QED
      BY <1>2, <3>1 DEF IInv, StaleOK, Versions, Status, Restaged, t, v
  <2> QED
    BY <2>2, <2>3, <2>4
<1> QED
  BY <1>6, <1>7, <1>8, <1>9, <1>10, <1>11 DEF IInv, Hands

\* Where a version is in its life.
Follows ==
    \A t \in Tickers : \A v \in Versions(registry, t) :
        StageFollows(Status(t, v), Status(t, v)')

LEMMA RestagedFollows ==
    ASSUME NEW t \in Tickers, NEW v, Restaged(registry, registry', t, v),
           StageFollows(registry[t].versions[v].status, registry'[t].versions[v].status)
    PROVE  Follows
<1> SUFFICES ASSUME NEW u \in Tickers, NEW x \in Versions(registry, u)
             PROVE  StageFollows(Status(u, x), Status(u, x)')
  BY DEF Follows
<1>1. CASE u = t /\ x = v
  BY <1>1 DEF Status
<1>2. CASE ~ (u = t /\ x = v)
  BY <1>2 DEF Status, Versions, Restaged, StageFollows
<1> QED
  BY <1>1, <1>2

LEMMA UnmovedFollows == ASSUME registry' = registry PROVE Follows
BY DEF Follows, Status, StageFollows

LEMMA RecordStep ==
    ASSUME IInv, NEW w \in Workers, MarkTraining(w) \/ Publish(w) \/ MarkFailed(w)
    PROVE  IInv' /\ Follows
<1> DEFINE id == thread[w].job
           t == TickerOf(w)
           v == VersionOf(w)
           pc == thread[w].pc
<1>1. Running(w) /\ pc \in {"mark", "publish", "fail"}
  BY DEF MarkTraining, Publish, MarkFailed, At, Running
<1>2. /\ id \in DOMAIN jobs /\ HasVersion(registry, jobs[id])
      /\ jobs[id].ticker = t /\ jobs[id].version = v
      /\ StageOf(registry, jobs[id]) \in Expected(pc)
      /\ pc = "publish" => v \in DOMAIN store[t]
  BY <1>1 DEF IInv, Hands, ThreadOK, TickerOf, VersionOf, At
<1>3. /\ registry \in [Tickers -> TickerData] /\ t \in Tickers
      /\ v \in DOMAIN registry[t].versions
  <2>1. t \in Tickers /\ registry \in [Tickers -> TickerData]
    BY <1>2, JobType DEF IInv, Types
  <2> QED
    BY <1>2, <2>1 DEF HasVersion
<1>4. v # 0
  <2>1. registry[t].versions \in Seq(Record)
    BY <1>3 DEF TickerData
  <2> HIDE DEF t, v
  <2> QED
    BY <1>3, <2>1
<1>5. \A d : StageOf(d, jobs[id]) = d[t].versions[v].status
  BY <1>2 DEF StageOf
<1>6. \A u \in Tickers : BestOK(registry, u)
  BY DEF IInv, BestKept
<1> HIDE DEF id, t, v, pc
<1>7. ASSUME NEW status \in {"training", "failed"}, NEW next \in ThreadPc \ {"idle", "publish"},
             registry' = update_status(registry, t, v, status), Goto(w, next),
             StageFollows(registry[t].versions[v].status, status),
             registry[t].versions[v].status \in {"queued", "training"},
             status \in Expected(next),
             UNCHANGED <<store, aged, jobs, submitter, pool, scheduler, todo>>
      PROVE  IInv' /\ Follows
  <2>1. status \in VALID_STATUSES
    BY DEF VALID_STATUSES
  <2>2. /\ Restaged(registry, registry', t, v)
        /\ registry'[t].versions[v].status = status
        /\ registry'[t].versions[v].rmse = registry[t].versions[v].rmse
        /\ registry'[t].latest = registry[t].latest /\ registry'[t].best = registry[t].best
    <3> DEFINE e == update_status(registry, t, v, status)
    <3>1. registry' = e
      BY <1>7
    <3>2. /\ Restaged(registry, e, t, v)
          /\ e[t].versions[v].status = status
          /\ e[t].versions[v].rmse = registry[t].versions[v].rmse
          /\ e[t].latest = registry[t].latest /\ e[t].best = registry[t].best
      BY <1>3, <2>1, Updated
    <3> HIDE DEF e
    <3> QED
      BY <3>1, <3>2
  <2>3. Follows
    BY <1>3, <1>7, <2>2, RestagedFollows
  <2>4. BestKept'
    <3>1. \A u \in Tickers : BestOK(registry', u)
      <4> DEFINE e == registry'
      <4>1. /\ Restaged(registry, e, t, v)
            /\ e[t].versions[v].rmse = registry[t].versions[v].rmse
            /\ e[t].latest = registry[t].latest /\ e[t].best = registry[t].best
            /\ (e[t].versions[v].status \in {"ready", "stale"}
                  <=> registry[t].versions[v].status \in {"ready", "stale"})
        BY <1>7, <2>2
      <4> HIDE DEF e
      <4>2. \A u \in Tickers : BestOK(e, u)
        BY <1>3, <1>6, <4>1, BestUnmoved
      <4> QED
        BY <4>2 DEF e
    <3> QED
      BY <3>1 DEF BestKept
  <2>5. /\ StageOf(registry', jobs[id]) = status
        /\ StageOf(registry, jobs[id]) # "ready"
    BY <1>5, <1>7, <2>2
  <2> QED
    BY <1>1, <1>7, <2>2, <2>3, <2>4, <2>5, ThreadRecords DEF id, t, v
<1>8. CASE MarkTraining(w)
  <2>1. pc = "mark" /\ registry[t].versions[v].status = "queued"
    BY <1>2, <1>5, <1>8 DEF MarkTraining, At, Expected, pc
  <2>2. "training" \in Expected("train") /\ "train" \in ThreadPc \ {"idle", "publish"}
    BY DEF Expected, ThreadPc
  <2>3. StageFollows(registry[t].versions[v].status, "training")
    BY <2>1 DEF StageFollows
  <2>4. /\ registry' = update_status(registry, t, v, "training") /\ Goto(w, "train")
        /\ UNCHANGED <<store, aged, jobs, submitter, pool, scheduler, todo>>
    BY <1>8 DEF MarkTraining, t, v
  <2> QED
    BY <1>7, <2>1, <2>2, <2>3, <2>4
<1>9. CASE MarkFailed(w)
  <2>1. pc = "fail" /\ registry[t].versions[v].status = "training"
    BY <1>2, <1>5, <1>9 DEF MarkFailed, At, Expected, pc
  <2>2. "failed" \in Expected("failed") /\ "failed" \in ThreadPc \ {"idle", "publish"}
    BY DEF Expected, ThreadPc
  <2>3. StageFollows(registry[t].versions[v].status, "failed")
    BY <2>1 DEF StageFollows
  <2>4. /\ registry' = update_status(registry, t, v, "failed") /\ Goto(w, "failed")
        /\ UNCHANGED <<store, aged, jobs, submitter, pool, scheduler, todo>>
    BY <1>9 DEF MarkFailed, t, v
  <2> QED
    BY <1>7, <2>1, <2>2, <2>3, <2>4
<1>10. CASE Publish(w)
  <2>1. pc = "publish" /\ registry[t].versions[v].status = "training" /\ v \in DOMAIN store[t]
    BY <1>2, <1>5, <1>10 DEF Publish, At, Expected, pc
  <2>2. PICK rmse \in Rmse : registry' = update_ready(registry, t, v, rmse)
    BY <1>10 DEF Publish, t, v
  <2>3. /\ Goto(w, "finish") /\ "finish" \in ThreadPc \ {"idle", "publish"}
        /\ UNCHANGED <<store, aged, jobs, submitter, pool, scheduler, todo>>
    BY <1>10 DEF Publish, ThreadPc
  <2>4. /\ Restaged(registry, registry', t, v)
        /\ registry'[t].versions[v].status = "ready" /\ registry'[t].versions[v].rmse = rmse
        /\ registry'[t].latest = v /\ registry'[t].best = NewBest(registry, t, v, rmse)
    <3> DEFINE e == update_ready(registry, t, v, rmse)
    <3>1. registry' = e
      BY <2>2
    <3>2. /\ Restaged(registry, e, t, v)
          /\ e[t].versions[v].status = "ready" /\ e[t].versions[v].rmse = rmse
          /\ e[t].latest = v /\ e[t].best = NewBest(registry, t, v, rmse)
      BY <1>3, UpdatedReady
    <3> HIDE DEF e
    <3> QED
      BY <3>1, <3>2
  <2>5. Follows
    <3>1. StageFollows(registry[t].versions[v].status, registry'[t].versions[v].status)
      BY <2>1, <2>4 DEF StageFollows
    <3> QED
      BY <1>3, <2>4, <3>1, RestagedFollows
  <2>6. BestKept'
    <3>1. v \notin Scored(registry, t)
      BY <2>1 DEF Scored
    <3> DEFINE e == registry'
    <3>2. /\ Restaged(registry, e, t, v)
          /\ e[t].versions[v].status = "ready" /\ e[t].versions[v].rmse = rmse
          /\ e[t].latest = v /\ e[t].best = NewBest(registry, t, v, rmse)
      BY <2>4
    <3> HIDE DEF e
    <3>3. \A u \in Tickers : BestOK(e, u)
      BY <1>3, <1>4, <1>6, <3>1, <3>2, BestMoved
    <3> QED
      BY <3>3 DEF e, BestKept
  <2>7. /\ StageOf(registry', jobs[id]) \in Expected("finish")
        /\ StageOf(registry, jobs[id]) # "ready"
    BY <1>5, <2>1, <2>4 DEF Expected
  <2> QED
    BY <1>1, <2>1, <2>3, <2>4, <2>5, <2>6, <2>7, ThreadRecords DEF id, t, v
<1> QED
  BY <1>8, <1>9, <1>10

LEMMA MarkStaleStep == ASSUME IInv, MarkStale PROVE IInv' /\ Follows
<1>1. PICK tv \in todo :
          /\ registry' = mark_stale(registry, tv[1], tv[2])
          /\ todo' = todo \ {tv}
          /\ scheduler' = [pc |-> "submit", ticker |-> tv[1]]
  BY DEF MarkStale
<1> DEFINE t == tv[1]
           v == tv[2]
<1>2. /\ tv = <<t, v>> /\ t \in Tickers /\ v \in DOMAIN registry[t].versions
      /\ registry[t].versions[v].status = "ready"
      /\ UNCHANGED <<store, aged, jobs, submitter, pool, thread>>
  BY DEF IInv, StaleOK, Versions, Status, MarkStale
<1>3. jobs \in Seq(TrainingJob) /\ registry \in [Tickers -> TickerData]
  BY DEF IInv, Types
<1> HIDE DEF t, v
<1>4. /\ Restaged(registry, registry', t, v)
      /\ registry'[t].versions[v].status = "stale"
      /\ registry'[t].versions[v].rmse = registry[t].versions[v].rmse
      /\ registry'[t].latest = registry[t].latest /\ registry'[t].best = registry[t].best
  <2> DEFINE e == update_status(registry, t, v, "stale")
  <2>1. registry' = e
    BY <1>1 DEF mark_stale, update_status, t, v
  <2>2. "stale" \in VALID_STATUSES
    BY DEF VALID_STATUSES
  <2>3. /\ Restaged(registry, e, t, v)
        /\ e[t].versions[v].status = "stale"
        /\ e[t].versions[v].rmse = registry[t].versions[v].rmse
        /\ e[t].latest = registry[t].latest /\ e[t].best = registry[t].best
    BY <1>2, <1>3, <2>2, Updated
  <2> HIDE DEF e
  <2> QED
    BY <2>1, <2>3
<1>5. Follows
  <2>1. StageFollows(registry[t].versions[v].status, registry'[t].versions[v].status)
    BY <1>2, <1>4 DEF StageFollows
  <2> QED
    BY <1>2, <1>4, <2>1, RestagedFollows
<1>6. BestKept'
  <2> DEFINE e == registry'
  <2>1. /\ Restaged(registry, e, t, v)
        /\ e[t].versions[v].rmse = registry[t].versions[v].rmse
        /\ e[t].latest = registry[t].latest /\ e[t].best = registry[t].best
        /\ (e[t].versions[v].status \in {"ready", "stale"}
              <=> registry[t].versions[v].status \in {"ready", "stale"})
    BY <1>2, <1>4
  <2> HIDE DEF e
  <2>2. \A u \in Tickers : BestOK(registry, u)
    BY DEF IInv, BestKept
  <2>3. \A u \in Tickers : BestOK(e, u)
    BY <1>2, <2>1, <2>2, BestUnmoved
  <2> QED
    BY <2>3 DEF e, BestKept
<1>7. \A k \in DOMAIN jobs :
          /\ HasVersion(registry', jobs[k]) = HasVersion(registry, jobs[k])
          /\ HasVersion(registry, jobs[k]) =>
                \/ StageOf(registry', jobs[k]) = StageOf(registry, jobs[k])
                \/ /\ StageOf(registry, jobs[k]) = "ready"
                   /\ StageOf(registry', jobs[k]) = "stale"
  <2>1. \A k \in DOMAIN jobs : jobs[k].ticker = t /\ jobs[k].version = v =>
            /\ StageOf(registry, jobs[k]) = "ready"
            /\ StageOf(registry', jobs[k]) = "stale"
    BY <1>2, <1>4 DEF StageOf
  <2> QED
    BY <1>2, <1>3, <1>4, <2>1, OthersUnmoved
<1>8. Types'
  BY <1>1, <1>2, <1>4 DEF IInv, Types, Restaged, t
<1>9. SubmitterOK' /\ PoolOK'
  BY <1>2, <1>7 DEF IInv, Hands, SubmitterOK, PoolOK, Submitting
<1>10. ThreadOK'
  <2>1. \A pc \in ThreadPc \ {"idle"} : "ready" \in Expected(pc) => "stale" \in Expected(pc)
    BY DEF Expected, ThreadPc
  <2>2. \A w \in Workers : Running(w) => thread[w].pc \in ThreadPc \ {"idle"}
    BY DEF IInv, Types, Running
  <2> QED
    BY <1>2, <1>7, <2>1, <2>2
    DEF IInv, Hands, ThreadOK, Running, At, TickerOf, VersionOf
<1>11. Apart'
  BY <1>2 DEF IInv, Hands, Apart, Submitting, Running
<1>12. VersionsKnown' /\ OneJobPerVersion'
  BY <1>2, <1>7 DEF IInv, VersionsKnown, OneJobPerVersion
<1>13. ReadyIsOnDisk'
  <2>1. v \in DOMAIN store[t]
    BY <1>2 DEF IInv, ReadyIsOnDisk, Versions, Status
  <2> QED
    BY <1>2, <1>4, <2>1 DEF IInv, ReadyIsOnDisk, Versions, Status, Restaged
<1>14. StaleOK'
  <2>1. \A x \in todo' : x \in todo /\ ~ (x[1] = t /\ x[2] = v)
    BY <1>1, <1>2 DEF IInv, StaleOK
  <2> QED
    BY <1>2, <1>4, <2>1 DEF IInv, StaleOK, Versions, Status, Restaged
<1> QED
  BY <1>5, <1>6, <1>8, <1>9, <1>10, <1>11, <1>12, <1>13, <1>14 DEF IInv, Hands

-------------------------------------------------------------------------------
(* The theorems.                                                           *)

LEMMA Step == IInv /\ [Next]_vars => IInv' /\ (Follows \/ UNCHANGED vars)
<1> SUFFICES ASSUME IInv, [Next]_vars PROVE IInv' /\ (Follows \/ UNCHANGED vars)
  OBVIOUS
<1>1. ASSUME NEW c \in Clients, NEW t \in Tickers, ClientSubmit(c, t)
      PROVE  IInv' /\ Follows
  <2>1. /\ c \in Submitters /\ NewJob(c, t) /\ scheduler' = scheduler
        /\ UNCHANGED <<registry, store, aged, pool, thread, todo>>
    BY <1>1 DEF ClientSubmit, Submitters
  <2>2. DOMAIN scheduler' = {"pc", "ticker"}
    BY <2>1 DEF IInv, Types
  <2> QED
    BY <2>1, <2>2, NewJobStep, UnmovedFollows
<1>2. ASSUME NEW s \in Submitters, Register(s) PROVE IInv' /\ Follows
  <2>1. IInv'
    BY <1>2, RegisterStep
  <2>2. Follows
    <3> DEFINE t == jobs[submitter[s].job].ticker
    <3>1. submitter[s].job \in DOMAIN jobs
      BY <1>2 DEF Register, Submitting, IInv, Hands, SubmitterOK
    <3>2. t \in Tickers /\ registry \in [Tickers -> TickerData]
      BY <3>1, JobType DEF IInv, Types
    <3>3. registry' = register(registry, t)
      BY <1>2 DEF Register
    <3> HIDE DEF t
    <3>4. /\ \A u \in Tickers \ {t} : registry'[u] = registry[u]
          /\ \A v \in DOMAIN registry[t].versions :
                registry'[t].versions[v] = registry[t].versions[v]
      <4> DEFINE e == register(registry, t)
      <4>1. /\ \A u \in Tickers \ {t} : e[u] = registry[u]
            /\ \A v \in DOMAIN registry[t].versions : e[t].versions[v] = registry[t].versions[v]
        BY <3>2, Registered
      <4> HIDE DEF e
      <4>2. registry' = e
        BY <3>3 DEF e
      <4> QED
        BY <4>1, <4>2
    <3> QED
      BY <3>2, <3>4 DEF Follows, Status, Versions, StageFollows
  <2> QED
    BY <2>1, <2>2
<1>3. ASSUME NEW s \in Submitters, RegisterFails(s) \/ Enqueue(s) PROVE IInv' /\ Follows
  <2>1. registry' = registry
    BY <1>3 DEF RegisterFails, Enqueue
  <2> QED
    BY <1>3, <2>1, SubmitStep, UnmovedFollows
<1>4. ASSUME NEW w \in Workers, RunJob(w) \/ PublishFails(w) \/ MarkFails(w)
      PROVE  IInv' /\ Follows
  <2>1. CASE MarkTraining(w) \/ Publish(w) \/ MarkFailed(w)
    BY <2>1, RecordStep
  <2>2. CASE TakeJob(w) \/ TrainFails(w) \/ SaveArtifacts(w) \/ PublishFails(w)
                \/ MarkFails(w) \/ FinishJob(w)
    <3>1. registry' = registry
      BY <2>2 DEF TakeJob, TrainFails, SaveArtifacts, PublishFails, MarkFails, FinishJob
    <3> QED
      BY <2>2, <3>1, ThreadStep, UnmovedFollows
  <2> QED
    BY <1>4, <2>1, <2>2 DEF RunJob
<1>5. CASE MarkStale
  BY <1>5, MarkStaleStep
<1>6. CASE SubmitRetraining
  <2>1. /\ Scheduler \in Submitters /\ NewJob(Scheduler, scheduler.ticker)
        /\ scheduler.ticker \in Tickers /\ scheduler' = [scheduler EXCEPT !.pc = "wait"]
        /\ UNCHANGED <<registry, store, aged, pool, thread, todo>>
    BY <1>6 DEF SubmitRetraining, Submitters, IInv, Types
  <2>2. DOMAIN scheduler' = {"pc", "ticker"} /\ scheduler'.pc # "submit"
    BY <2>1 DEF IInv, Types
  <2>3. \A t \in Tickers : NewJob(Scheduler, t) => IInv'
    BY <2>1, <2>2, NewJobStep
  <2> QED
    BY <2>1, <2>3, UnmovedFollows
<1>7. CASE \/ ScanStale \/ MarkStaleFails \/ Sleep
           \/ \E t \in Tickers : \E v \in Versions(registry, t) : Age(t, v)
  <2>1. registry' = registry
    BY <1>7 DEF ScanStale, MarkStaleFails, Sleep, Age
  <2> QED
    BY <1>7, <2>1, CalmSteps, UnmovedFollows
<1>8. CASE Crash
  <2>1. registry' = registry
    BY <1>8 DEF Crash
  <2> QED
    BY <1>8, <2>1, CrashStep, UnmovedFollows
<1>9. CASE UNCHANGED vars
  <2>1. /\ UNCHANGED <<registry, store, jobs, submitter, pool, thread, scheduler>>
        /\ UNCHANGED <<aged, todo>>
    BY <1>9 DEF vars
  <2>2. StaleOK'
    BY <2>1 DEF IInv, StaleOK, Versions, Status
  <2>3. /\ DOMAIN scheduler' = {"pc", "ticker"}
        /\ scheduler'.pc = "submit" => scheduler'.ticker \in Tickers
    BY <2>1 DEF IInv, Types
  <2> QED
    BY <1>9, <2>1, <2>2, <2>3, QuietStep
<1> QED
  BY <1>1, <1>2, <1>3, <1>4, <1>5, <1>6, <1>7, <1>8, <1>9 DEF Next, RunScheduler
-------------------------------------------------------------------------------
(* What the job records tell, faults or not: a job that waits is "queued", *)
(* one that a thread works on "running", and its version says the same.    *)

Tells(d, j) ==
    j.version # 0 => /\ j.status = "queued" => StageOf(d, j) = "queued"
                     /\ j.status = "done"   => StageOf(d, j) \in {"ready", "stale"}
                     /\ j.status = "failed" => StageOf(d, j) = "failed"

HandsTell ==
    /\ \A s \in Submitters : Submitting(s) => jobs[submitter[s].job].status = "queued"
    /\ \A i \in DOMAIN pool : jobs[pool[i]].status = "queued"
    /\ \A w \in Workers : Running(w) => jobs[thread[w].job].status = "running"

JobsTell == \A id \in DOMAIN jobs : Tells(registry, jobs[id])

Told == HandsTell /\ JobsTell

LEMMA ToldInit == Init => Told
BY DEF Init, Told, HandsTell, JobsTell, Submitting, Running, IdleSubmitter, IdleThread

\* Nobody's record changes, and nobody gets a job he did not have.
LEMMA ToldKept ==
    ASSUME IInv, Told, UNCHANGED <<registry, jobs>>,
           \A s \in Submitters :
              Submitting(s)' => Submitting(s) /\ submitter'[s].job = submitter[s].job,
           \A i \in DOMAIN pool' : jobs[pool'[i]].status = "queued",
           \A w \in Workers :
              Running(w)' => Running(w) /\ thread'[w].job = thread[w].job
    PROVE  Told'
<1>1. HandsTell'
  BY DEF Told, HandsTell
<1>2. JobsTell'
  BY DEF Told, JobsTell, Tells, StageOf
<1> QED
  BY <1>1, <1>2 DEF Told

LEMMA ToldNewJob ==
    ASSUME IInv, Told, NEW s \in Submitters, NEW t \in Tickers, NewJob(s, t),
           UNCHANGED <<registry, pool, thread>>
    PROVE  Told'
<1> DEFINE n == Len(jobs) + 1
           new == [ticker |-> t, version |-> 0, status |-> "queued"]
<1>1. /\ jobs \in Seq(TrainingJob) /\ new \in TrainingJob /\ jobs' = Append(jobs, new)
      /\ submitter' = [submitter EXCEPT ![s] = [pc |-> "register", job |-> Len(jobs')]]
  BY DEF IInv, Types, NewJob, TrainingJob
<1>2. /\ Len(jobs') = n /\ n \notin DOMAIN jobs
      /\ DOMAIN jobs' = DOMAIN jobs \cup {n} /\ jobs'[n] = new
      /\ \A id \in DOMAIN jobs : jobs'[id] = jobs[id]
  BY <1>1
<1>3. new.version = 0 /\ new.status = "queued"
  OBVIOUS
<1> HIDE DEF new, n
<1>4. /\ submitter'[s].job = n
      /\ \A u \in Submitters \ {s} : submitter'[u] = submitter[u]
  BY <1>1, <1>2 DEF IInv, Types
<1>5. HandsTell'
  BY <1>2, <1>3, <1>4
  DEF Told, HandsTell, Submitting, Running, IInv, Hands, SubmitterOK, PoolOK, ThreadOK
<1>6. JobsTell'
  BY <1>2, <1>3 DEF Told, JobsTell, Tells, StageOf
<1> QED
  BY <1>5, <1>6 DEF Told

LEMMA ToldRegister ==
    ASSUME IInv, Told, NEW s \in Submitters, Register(s)
    PROVE  Told'
<1> DEFINE id == submitter[s].job
           t == jobs[id].ticker
           n == _next_version(registry, t)
<1>1. /\ Submitting(s) /\ id \in DOMAIN jobs /\ jobs[id].status = "queued"
  BY DEF Register, Submitting, IInv, Hands, SubmitterOK, Told, HandsTell
<1>2. jobs \in Seq(TrainingJob) /\ registry \in [Tickers -> TickerData] /\ t \in Tickers
  BY <1>1, JobType DEF IInv, Types
<1>3. /\ registry' = register(registry, t) /\ jobs' = [jobs EXCEPT ![id].version = n]
      /\ submitter' = [submitter EXCEPT ![s].pc = "enqueue"]
      /\ UNCHANGED <<pool, thread>>
  BY DEF Register
<1>4. /\ registry'[t].versions[n].status = "queued"
      /\ \A u \in Tickers \ {t} : registry'[u] = registry[u]
      /\ \A v \in DOMAIN registry[t].versions :
            registry'[t].versions[v] = registry[t].versions[v]
  <2> DEFINE e == register(registry, t)
  <2> HIDE DEF id, t
  <2>1. registry' = e /\ n = _next_version(registry, t)
    BY <1>3
  <2> HIDE DEF n
  <2> QED
    BY <1>2, <2>1, Registered
<1>5. /\ DOMAIN jobs' = DOMAIN jobs
      /\ jobs'[id].ticker = t /\ jobs'[id].version = n /\ jobs'[id].status = "queued"
      /\ \A k \in DOMAIN jobs \ {id} : jobs'[k] = jobs[k]
  <2> HIDE DEF n
  <2>1. jobs[id] \in TrainingJob
    BY <1>1, <1>2
  <2> QED
    BY <1>1, <1>3, <2>1 DEF TrainingJob
<1>6. \A u \in Submitters : submitter'[u].job = submitter[u].job /\ Submitting(u)' = Submitting(u)
  BY <1>3 DEF IInv, Types, Submitting, Register
<1> HIDE DEF id, t, n
<1>7. HandsTell'
  BY <1>3, <1>5, <1>6
  DEF Told, HandsTell, Running, IInv, Hands, SubmitterOK, PoolOK, ThreadOK
<1>8. JobsTell'
  <2>1. Tells(registry', jobs'[id])
    BY <1>4, <1>5 DEF Tells, StageOf
  <2>2. ASSUME NEW k \in DOMAIN jobs \ {id} PROVE Tells(registry', jobs'[k])
    <3>1. jobs[k].ticker \in Tickers /\ jobs'[k] = jobs[k]
      BY <1>2, <1>5, JobType
    <3>2. jobs[k].version # 0 => StageOf(registry', jobs[k]) = StageOf(registry, jobs[k])
      BY <1>4, <3>1 DEF IInv, VersionsKnown, HasVersion, StageOf
    <3> QED
      BY <3>1, <3>2 DEF Told, JobsTell, Tells
  <2> QED
    BY <1>5, <2>1, <2>2 DEF JobsTell
<1> QED
  BY <1>7, <1>8 DEF Told

\* A thread takes the head of the pool, or ends its job.
LEMMA ToldStatus ==
    ASSUME IInv, Told, NEW w \in Workers, TakeJob(w) \/ FinishJob(w)
    PROVE  Told'
<1>0. jobs \in Seq(TrainingJob) /\ thread \in [Workers -> [pc : ThreadPc, job : Nat]]
  BY DEF IInv, Types
<1>1. ASSUME NEW id \in DOMAIN jobs, NEW status \in {"queued", "running", "done", "failed"},
             jobs' = [jobs EXCEPT ![id].status = status],
             status = "running" \/ Tells(registry, [jobs[id] EXCEPT !.status = status]),
             registry' = registry
      PROVE  /\ JobsTell' /\ jobs'[id].status = status
             /\ \A k \in DOMAIN jobs \ {id} : jobs'[k] = jobs[k]
  <2> DEFINE j == [jobs[id] EXCEPT !.status = status]
  <2>1. jobs[id] \in TrainingJob
    BY <1>0
  <2>2. j.status = status /\ j.ticker = jobs[id].ticker /\ j.version = jobs[id].version
    BY <2>1 DEF TrainingJob
  <2>3. jobs' = [jobs EXCEPT ![id] = j] /\ (status = "running" \/ Tells(registry, j))
    BY <1>1
  <2> HIDE DEF j
  <2>4. Tells(registry', j)
    BY <1>1, <2>2, <2>3 DEF Tells
  <2>5. /\ DOMAIN jobs' = DOMAIN jobs /\ jobs'[id] = j
        /\ \A k \in DOMAIN jobs \ {id} : jobs'[k] = jobs[k]
    BY <2>3
  <2>6. \A k \in DOMAIN jobs \ {id} : Tells(registry', jobs'[k])
    BY <1>1, <2>5 DEF Told, JobsTell
  <2> QED
    BY <2>2, <2>4, <2>5, <2>6 DEF JobsTell
<1>2. CASE TakeJob(w)
  <2> DEFINE h == Head(pool)
  <2>1. /\ ~Running(w) /\ pool \in Seq(Nat) /\ pool # <<>> /\ pool' = Tail(pool)
        /\ thread' = [thread EXCEPT ![w] = [pc |-> "mark", job |-> h]]
        /\ jobs' = [jobs EXCEPT ![h].status = "running"]
        /\ UNCHANGED <<registry, submitter>>
    BY <1>2 DEF TakeJob, At, Running, IInv, Types
  <2>2. /\ 1 \in DOMAIN pool /\ pool[1] = h
        /\ \A i \in DOMAIN pool' : i + 1 \in DOMAIN pool /\ i + 1 # 1 /\ pool'[i] = pool[i + 1]
    BY <2>1
  <2>3. h \in DOMAIN jobs
    BY <2>2 DEF IInv, Hands, PoolOK
  <2> HIDE DEF h
  <2>4. /\ JobsTell' /\ jobs'[h].status = "running"
        /\ \A k \in DOMAIN jobs \ {h} : jobs'[k] = jobs[k]
    BY <1>1, <2>1, <2>3
  <2>5. /\ \A s \in Submitters : Submitting(s) => submitter[s].job \in DOMAIN jobs \ {h}
        /\ \A x \in Workers : Running(x) => thread[x].job \in DOMAIN jobs \ {h}
    BY <2>2 DEF IInv, Hands, SubmitterOK, ThreadOK, Apart
  <2>6. \A i \in DOMAIN pool' : pool'[i] \in DOMAIN jobs \ {h}
    <3> SUFFICES ASSUME NEW i \in DOMAIN pool' PROVE pool'[i] \in DOMAIN jobs \ {h}
      OBVIOUS
    <3>1. i + 1 \in DOMAIN pool /\ i + 1 # 1 /\ pool'[i] = pool[i + 1]
      BY <2>2
    <3> QED
      BY <2>2, <3>1 DEF IInv, Hands, PoolOK, Apart
  <2>7. /\ thread'[w].job = h /\ \A x \in Workers \ {w} : thread'[x] = thread[x]
    BY <1>0, <2>1
  <2>8. \A i \in DOMAIN pool' : jobs[pool'[i]].status = "queued"
    BY <2>2 DEF Told, HandsTell
  <2>9. HandsTell'
    BY <2>1, <2>4, <2>5, <2>6, <2>7, <2>8 DEF Told, HandsTell, Submitting, Running
  <2> QED
    BY <2>4, <2>9 DEF Told
<1>3. CASE FinishJob(w)
  <2> DEFINE id == thread[w].job
             status == IF At(w, "finish") THEN "done" ELSE "failed"
  <2>1. /\ Running(w) /\ (thread[w].pc = "finish" \/ thread[w].pc = "failed")
        /\ thread' = [thread EXCEPT ![w] = IdleThread]
        /\ jobs' = [jobs EXCEPT ![id].status = status]
        /\ UNCHANGED <<registry, submitter, pool>>
    BY <1>3 DEF FinishJob, At, Running
  <2>2. /\ id \in DOMAIN jobs /\ StageOf(registry, jobs[id]) \in Expected(thread[w].pc)
    BY <2>1 DEF IInv, Hands, ThreadOK
  <2>3. Tells(registry, [jobs[id] EXCEPT !.status = status])
    <3>1. CASE thread[w].pc = "finish"
      <4>1. StageOf(registry, jobs[id]) \in {"ready", "stale"} /\ status = "done"
        BY <2>2, <3>1 DEF Expected, At
      <4>2. jobs[id] \in TrainingJob
        BY <1>0, <2>2
      <4> QED
        BY <4>1, <4>2 DEF Tells, StageOf, TrainingJob
    <3>2. CASE thread[w].pc = "failed"
      <4>1. StageOf(registry, jobs[id]) = "failed" /\ status = "failed"
        BY <2>2, <3>2 DEF Expected, At
      <4>2. jobs[id] \in TrainingJob
        BY <1>0, <2>2
      <4> QED
        BY <4>1, <4>2 DEF Tells, StageOf, TrainingJob
    <3> QED
      BY <2>1, <3>1, <3>2
  <2>4. status \in {"queued", "running", "done", "failed"}
    OBVIOUS
  <2>5. /\ \A s \in Submitters : Submitting(s) => submitter[s].job \in DOMAIN jobs \ {id}
        /\ \A i \in DOMAIN pool : pool[i] \in DOMAIN jobs \ {id}
        /\ \A x \in Workers \ {w} : Running(x) => thread[x].job \in DOMAIN jobs \ {id}
    BY <2>1 DEF IInv, Hands, SubmitterOK, PoolOK, ThreadOK, Apart
  <2> HIDE DEF id, status
  <2>6. JobsTell' /\ \A k \in DOMAIN jobs \ {id} : jobs'[k] = jobs[k]
    BY <1>1, <2>1, <2>2, <2>3, <2>4
  <2>7. ~Running(w)' /\ \A x \in Workers \ {w} : thread'[x] = thread[x]
    BY <1>0, <2>1 DEF IdleThread, Running
  <2>8. HandsTell'
    BY <2>1, <2>5, <2>6, <2>7 DEF Told, HandsTell, Submitting, Running
  <2> QED
    BY <2>6, <2>8 DEF Told
<1> QED
  BY <1>2, <1>3

\* What a thread records concerns the version of its own job, and settles it
\* or finds it pending.
LEMMA Recorded ==
    ASSUME IInv, NEW w \in Workers, MarkTraining(w) \/ Publish(w) \/ MarkFailed(w)
    PROVE  LET id == thread[w].job
               t  == TickerOf(w)
               v  == VersionOf(w)
           IN /\ Running(w) /\ id \in DOMAIN jobs /\ HasVersion(registry, jobs[id])
              /\ jobs[id].ticker = t /\ jobs[id].version = v
              /\ t \in Tickers /\ v \in DOMAIN registry[t].versions
              /\ Restaged(registry, registry', t, v)
              /\ registry[t].versions[v].status \in {"queued", "training"}
              /\ UNCHANGED <<jobs, submitter, pool>>
              /\ \E pc \in ThreadPc \ {"idle"} : Goto(w, pc)
<1> DEFINE id == thread[w].job
           t == TickerOf(w)
           v == VersionOf(w)
<1>1. /\ Running(w) /\ UNCHANGED <<jobs, submitter, pool>>
      /\ \E pc \in ThreadPc \ {"idle"} : Goto(w, pc)
      /\ thread[w].pc \in {"mark", "publish", "fail"}
  BY DEF MarkTraining, Publish, MarkFailed, At, Running, ThreadPc
<1>2. /\ id \in DOMAIN jobs /\ HasVersion(registry, jobs[id])
      /\ StageOf(registry, jobs[id]) \in Expected(thread[w].pc)
      /\ jobs[id].ticker = t /\ jobs[id].version = v
  BY <1>1 DEF IInv, Hands, ThreadOK, TickerOf, VersionOf
<1>3. /\ registry \in [Tickers -> TickerData] /\ t \in Tickers
      /\ v \in DOMAIN registry[t].versions
      /\ registry[t].versions[v].status \in {"queued", "training"}
  <2>1. t \in Tickers /\ registry \in [Tickers -> TickerData]
    BY <1>2, JobType DEF IInv, Types
  <2>2. Expected(thread[w].pc) \subseteq {"queued", "training"}
    BY <1>1 DEF Expected
  <2> QED
    BY <1>2, <2>1, <2>2 DEF HasVersion, StageOf
<1>4. \/ \E status \in {"training", "failed"} : registry' = update_status(registry, t, v, status)
      \/ \E rmse \in Rmse : registry' = update_ready(registry, t, v, rmse)
  BY DEF MarkTraining, Publish, MarkFailed
<1> HIDE DEF id, t, v
<1>5. Restaged(registry, registry', t, v)
  <2>1. ASSUME NEW status \in {"training", "failed"},
               registry' = update_status(registry, t, v, status)
        PROVE  Restaged(registry, registry', t, v)
    <3> DEFINE e == update_status(registry, t, v, status)
    <3>1. status \in VALID_STATUSES
      BY DEF VALID_STATUSES
    <3>2. Restaged(registry, e, t, v)
      BY <1>3, <3>1, Updated
    <3> QED
      BY <2>1, <3>2
  <2>2. ASSUME NEW rmse \in Rmse, registry' = update_ready(registry, t, v, rmse)
        PROVE  Restaged(registry, registry', t, v)
    <3> DEFINE e == update_ready(registry, t, v, rmse)
    <3>1. Restaged(registry, e, t, v)
      BY <1>3, UpdatedReady
    <3> QED
      BY <2>2, <3>1
  <2> QED
    BY <1>4, <2>1, <2>2
<1> QED
  BY <1>1, <1>2, <1>3, <1>5 DEF id, t, v

\* Marking a model stale concerns a ready version.
LEMMA StaleRecorded ==
    ASSUME IInv, NEW tv \in todo, registry' = mark_stale(registry, tv[1], tv[2])
    PROVE  /\ tv[1] \in Tickers /\ tv[2] \in DOMAIN registry[tv[1]].versions
           /\ registry[tv[1]].versions[tv[2]].status = "ready"
           /\ Restaged(registry, registry', tv[1], tv[2])
           /\ registry'[tv[1]].versions[tv[2]].status = "stale"
<1> DEFINE t == tv[1]
           v == tv[2]
           e == update_status(registry, t, v, "stale")
<1>1. /\ t \in Tickers /\ v \in DOMAIN registry[t].versions
      /\ registry[t].versions[v].status = "ready"
      /\ registry \in [Tickers -> TickerData] /\ "stale" \in VALID_STATUSES
  BY DEF IInv, Types, StaleOK, Versions, Status, VALID_STATUSES
<1>2. registry' = e
  BY DEF mark_stale, update_status
<1> HIDE DEF t, v
<1>3. Restaged(registry, e, t, v) /\ e[t].versions[v].status = "stale"
  BY <1>1, Updated
<1> HIDE DEF e
<1> QED
  BY <1>1, <1>2, <1>3 DEF t, v

LEMMA ToldRecords ==
    ASSUME IInv, Told, NEW w \in Workers, MarkTraining(w) \/ Publish(w) \/ MarkFailed(w)
    PROVE  Told'
<1> DEFINE id == thread[w].job
           t == TickerOf(w)
           v == VersionOf(w)
<1>1. /\ Running(w) /\ UNCHANGED <<jobs, submitter, pool>>
      /\ \E pc \in ThreadPc \ {"idle"} : Goto(w, pc)
      /\ id \in DOMAIN jobs /\ HasVersion(registry, jobs[id])
      /\ jobs[id].ticker = t /\ jobs[id].version = v
      /\ t \in Tickers /\ Restaged(registry, registry', t, v)
  BY Recorded
<1>2. jobs[id].status = "running" /\ jobs \in Seq(TrainingJob)
  BY <1>1 DEF Told, HandsTell, IInv, Types
<1> HIDE DEF id, t, v
<1>3. JobsTell'
  <2> SUFFICES ASSUME NEW k \in DOMAIN jobs PROVE Tells(registry', jobs[k])
    BY <1>1 DEF JobsTell
  <2>1. CASE k = id
    BY <1>2, <2>1 DEF Tells
  <2>2. CASE k # id
    <3>1. jobs[k].version # 0 =>
             /\ HasVersion(registry, jobs[k])
             /\ ~ (jobs[k].ticker = t /\ jobs[k].version = v)
      BY <1>1, <2>2 DEF IInv, VersionsKnown, OneJobPerVersion
    <3>2. jobs[k].version # 0 => StageOf(registry', jobs[k]) = StageOf(registry, jobs[k])
      BY <1>1, <1>2, <3>1, OthersUnmoved
    <3> QED
      BY <3>2 DEF Told, JobsTell, Tells
  <2> QED
    BY <2>1, <2>2
<1>4. \A x \in Workers : Running(x)' => Running(x) /\ thread'[x].job = thread[x].job
  <2>1. PICK pc \in ThreadPc \ {"idle"} : Goto(w, pc)
    BY <1>1
  <2> QED
    BY <1>1, <2>1 DEF Goto, IInv, Types, Running
<1>5. HandsTell'
  BY <1>1, <1>4 DEF Told, HandsTell, Submitting
<1> QED
  BY <1>3, <1>5 DEF Told

LEMMA ToldStale == ASSUME IInv, Told, MarkStale PROVE Told'
<1>1. PICK tv \in todo : registry' = mark_stale(registry, tv[1], tv[2])
  BY DEF MarkStale
<1> DEFINE t == tv[1]
           v == tv[2]
<1>2. /\ t \in Tickers /\ v \in DOMAIN registry[t].versions
      /\ registry[t].versions[v].status = "ready"
      /\ Restaged(registry, registry', t, v) /\ registry'[t].versions[v].status = "stale"
  BY <1>1, StaleRecorded
<1>3. jobs \in Seq(TrainingJob) /\ UNCHANGED <<jobs, submitter, pool, thread>>
  BY DEF IInv, Types, MarkStale
<1> HIDE DEF t, v
<1>4. JobsTell'
  <2> SUFFICES ASSUME NEW k \in DOMAIN jobs PROVE Tells(registry', jobs[k])
    BY <1>3 DEF JobsTell
  <2>1. CASE jobs[k].ticker = t /\ jobs[k].version = v
    BY <1>2, <2>1 DEF Told, JobsTell, Tells, StageOf
  <2>2. CASE ~ (jobs[k].ticker = t /\ jobs[k].version = v)
    <3>1. jobs[k].version # 0 => StageOf(registry', jobs[k]) = StageOf(registry, jobs[k])
      BY <1>2, <1>3, <2>2, OthersUnmoved DEF IInv, VersionsKnown
    <3> QED
      BY <3>1 DEF Told, JobsTell, Tells
  <2> QED
    BY <2>1, <2>2
<1>5. HandsTell'
  BY <1>3 DEF Told, HandsTell, Submitting, Running
<1> QED
  BY <1>4, <1>5 DEF Told

LEMMA ToldStep == IInv /\ Told /\ [Next]_vars => Told'
<1> SUFFICES ASSUME IInv, Told, [Next]_vars PROVE Told'
  OBVIOUS
<1>1. ASSUME NEW c \in Clients, NEW t \in Tickers, ClientSubmit(c, t) PROVE Told'
  <2>1. c \in Submitters /\ NewJob(c, t) /\ UNCHANGED <<registry, pool, thread>>
    BY <1>1 DEF ClientSubmit, Submitters
  <2> QED
    BY <2>1, ToldNewJob
<1>2. ASSUME NEW s \in Submitters, RegisterFails(s) \/ Enqueue(s) PROVE Told'
  <2>1. /\ Submitting(s) /\ submitter' = [submitter EXCEPT ![s] = IdleSubmitter]
        /\ UNCHANGED <<registry, jobs, thread>>
        /\ pool' = pool \/ pool' = Append(pool, submitter[s].job)
    BY <1>2 DEF RegisterFails, Enqueue, Submitting
  <2>2. \A u \in Submitters :
            Submitting(u)' => Submitting(u) /\ submitter'[u].job = submitter[u].job
    BY <2>1 DEF IInv, Types, Submitting, IdleSubmitter
  <2>3. \A i \in DOMAIN pool' : jobs[pool'[i]].status = "queued"
    <3>1. CASE pool' = pool
      BY <3>1 DEF Told, HandsTell
    <3>2. CASE pool' = Append(pool, submitter[s].job)
      <4>1. pool \in Seq(Nat) /\ submitter[s].job \in Nat
        BY DEF IInv, Types
      <4>2. \A i \in DOMAIN pool' : pool'[i] = submitter[s].job
                \/ (i \in DOMAIN pool /\ pool'[i] = pool[i])
        BY <3>2, <4>1
      <4> QED
        BY <2>1, <4>2 DEF Told, HandsTell
    <3> QED
      BY <2>1, <3>1, <3>2
  <2> QED
    BY <2>1, <2>2, <2>3, ToldKept DEF Running
<1>3. ASSUME NEW w \in Workers, TrainFails(w) \/ SaveArtifacts(w) \/ PublishFails(w) \/ MarkFails(w)
      PROVE  Told'
  <2>1. /\ UNCHANGED <<registry, jobs, submitter, pool>> /\ Running(w)
        /\ \/ \E pc \in ThreadPc : Goto(w, pc)
           \/ thread' = [thread EXCEPT ![w] = IdleThread]
    BY <1>3 DEF TrainFails, SaveArtifacts, PublishFails, MarkFails, Running, At, ThreadPc
  <2>2. \A x \in Workers : Running(x)' => Running(x) /\ thread'[x].job = thread[x].job
    <3>1. ASSUME NEW pc \in ThreadPc, Goto(w, pc)
          PROVE  \A x \in Workers : Running(x)' => Running(x) /\ thread'[x].job = thread[x].job
      BY <2>1, <3>1 DEF IInv, Types, Running, Goto
    <3>2. ASSUME thread' = [thread EXCEPT ![w] = IdleThread]
          PROVE  \A x \in Workers : Running(x)' => Running(x) /\ thread'[x].job = thread[x].job
      BY <3>2 DEF IInv, Types, Running, IdleThread
    <3> QED
      BY <2>1, <3>1, <3>2
  <2> QED
    BY <2>1, <2>2, ToldKept DEF Told, HandsTell, Submitting
<1>4. CASE UNCHANGED <<registry, jobs, submitter, pool, thread>>
  BY <1>4, ToldKept DEF Told, HandsTell, Submitting, Running
<1>5. CASE SubmitRetraining
  <2>1. /\ Scheduler \in Submitters /\ NewJob(Scheduler, scheduler.ticker)
        /\ scheduler.ticker \in Tickers /\ UNCHANGED <<registry, pool, thread>>
    BY <1>5 DEF SubmitRetraining, Submitters, IInv, Types
  <2> QED
    BY <2>1, ToldNewJob
<1>6. CASE Crash
  BY <1>6 DEF Crash, Told, HandsTell, JobsTell, Submitting, Running, IdleSubmitter, IdleThread
<1>7. CASE ScanStale \/ MarkStaleFails \/ Sleep \/ UNCHANGED vars
           \/ \E t \in Tickers : \E v \in Versions(registry, t) : Age(t, v)
  BY <1>4, <1>7 DEF ScanStale, MarkStaleFails, Sleep, Age, vars
<1> QED
  BY <1>1, <1>2, <1>3, <1>5, <1>6, <1>7, ToldRegister, ToldStatus, ToldRecords, ToldStale
  DEF Next, RunJob, RunScheduler

-------------------------------------------------------------------------------
(* Who takes care of a version that is queued or training, as long as no   *)
(* registry write fails and the process lives.                             *)

Pending(t, v) == Status(t, v) \in {"queued", "training"}

\* Job id, on its way to the pool, in it, or with a thread.
Held(id) ==
    \/ \E s \in Submitters : submitter[s] = [pc |-> "enqueue", job |-> id]
    \/ \E i \in DOMAIN pool : pool[i] = id
    \/ \E w \in Workers : thread[w].job = id

LEMMA InProgressHeld ==
    ASSUME NEW t, NEW v
    PROVE  InProgress(t, v) <=>
              \E id \in DOMAIN jobs : jobs[id].ticker = t /\ jobs[id].version = v /\ Held(id)
BY DEF InProgress, Held

\* A registry that does not change.
LEMMA OwnedQuiet ==
    ASSUME IInv, PendingIsOwned, SameVersions, registry' = registry, faults' = faults,
           \A id \in DOMAIN jobs :
              Held(id) => Held(id)' \/ StageOf(registry, jobs[id]) \notin {"queued", "training"}
    PROVE  PendingIsOwned'
<1> SUFFICES ASSUME faults' = 0, NEW t \in Tickers, NEW v \in Versions(registry, t), Pending(t, v)
             PROVE  InProgress(t, v)'
  BY DEF PendingIsOwned, Pending, Versions, Status
<1>1. PICK id \in DOMAIN jobs : jobs[id].ticker = t /\ jobs[id].version = v /\ Held(id)
  BY InProgressHeld DEF PendingIsOwned, Pending
<1>2. StageOf(registry, jobs[id]) \in {"queued", "training"}
  BY <1>1 DEF Pending, Status, StageOf
<1>3. Held(id)' /\ id \in DOMAIN jobs' /\ jobs'[id].ticker = t /\ jobs'[id].version = v
  BY <1>1, <1>2 DEF SameVersions
<1> QED
  BY <1>3 DEF InProgress, Held

\* A record that changes, and does not become pending.
LEMMA OwnedRestaged ==
    ASSUME IInv, PendingIsOwned, NEW t \in Tickers, NEW v \in DOMAIN registry[t].versions,
           Restaged(registry, registry', t, v),
           Pending(t, v)' => Pending(t, v),
           UNCHANGED <<jobs, submitter, pool, faults>>,
           \A w \in Workers : thread'[w].job = thread[w].job
    PROVE  PendingIsOwned'
<1> SUFFICES ASSUME faults' = 0, NEW u \in Tickers, NEW x \in Versions(registry, u)',
                    Pending(u, x)'
             PROVE  InProgress(u, x)'
  BY DEF PendingIsOwned, Pending
<1>1. x \in Versions(registry, u) /\ Pending(u, x)
  BY DEF Restaged, Versions, Pending, Status
<1>2. InProgress(u, x)
  BY <1>1 DEF PendingIsOwned, Pending
<1> QED
  BY <1>2 DEF InProgress

Owned == faults \in Nat /\ PendingIsOwned /\ \A w \in Workers : ~Running(w) => thread[w].job = 0

LEMMA OwnedNewJob ==
    ASSUME IInv, PendingIsOwned, NEW s \in Submitters, NEW t \in Tickers, NewJob(s, t),
           UNCHANGED <<registry, pool, thread, faults>>
    PROVE  PendingIsOwned'
<1> DEFINE n == Len(jobs) + 1
           new == [ticker |-> t, version |-> 0, status |-> "queued"]
<1>1. /\ jobs \in Seq(TrainingJob) /\ new \in TrainingJob /\ jobs' = Append(jobs, new)
      /\ submitter[s].pc = "idle" /\ \A u \in Submitters \ {s} : submitter'[u] = submitter[u]
  BY DEF IInv, Types, NewJob, TrainingJob
<1> HIDE DEF new
<1>2. \A id \in DOMAIN jobs : id \in DOMAIN jobs' /\ jobs'[id] = jobs[id]
  BY <1>1
<1> SUFFICES ASSUME faults' = 0, NEW u \in Tickers, NEW v \in Versions(registry, u), Pending(u, v)
             PROVE  InProgress(u, v)'
  BY DEF PendingIsOwned, Pending, Versions, Status
<1>3. PICK id \in DOMAIN jobs : jobs[id].ticker = u /\ jobs[id].version = v /\ Held(id)
  BY InProgressHeld DEF PendingIsOwned, Pending
<1>4. Held(id)'
  BY <1>1, <1>3 DEF Held
<1> QED
  BY <1>2, <1>3, <1>4 DEF InProgress, Held

LEMMA OwnedRegister ==
    ASSUME IInv, PendingIsOwned, NEW s \in Submitters, Register(s)
    PROVE  PendingIsOwned'
<1> DEFINE id == submitter[s].job
           t == jobs[id].ticker
           n == _next_version(registry, t)
<1>1. /\ submitter[s].pc = "register" /\ id \in DOMAIN jobs /\ jobs[id].version = 0
  BY DEF Register, Submitting, IInv, Hands, SubmitterOK
<1>2. jobs \in Seq(TrainingJob) /\ registry \in [Tickers -> TickerData] /\ t \in Tickers
  BY <1>1, JobType DEF IInv, Types
<1>3. /\ registry' = register(registry, t) /\ jobs' = [jobs EXCEPT ![id].version = n]
      /\ submitter' = [submitter EXCEPT ![s].pc = "enqueue"]
      /\ UNCHANGED <<pool, thread, faults>>
  BY DEF Register
<1>4. /\ DOMAIN registry'[t].versions = DOMAIN registry[t].versions \cup {n}
      /\ \A u \in Tickers \ {t} : registry'[u] = registry[u]
      /\ \A v \in DOMAIN registry[t].versions :
            v # 0 /\ registry'[t].versions[v] = registry[t].versions[v]
  <2> DEFINE e == register(registry, t)
  <2> HIDE DEF id, t
  <2>1. registry' = e /\ n = _next_version(registry, t)
    BY <1>3
  <2>2. registry[t].versions \in Seq(Record)
    BY <1>2 DEF TickerData
  <2> HIDE DEF n
  <2> QED
    BY <1>2, <2>1, <2>2, Registered
<1>5. /\ DOMAIN jobs' = DOMAIN jobs /\ jobs'[id].ticker = t /\ jobs'[id].version = n
      /\ \A k \in DOMAIN jobs \ {id} : jobs'[k] = jobs[k]
  <2> HIDE DEF n
  <2>1. jobs[id] \in TrainingJob
    BY <1>1, <1>2
  <2> QED
    BY <1>1, <1>3, <2>1 DEF TrainingJob
<1>6. /\ submitter'[s] = [pc |-> "enqueue", job |-> id]
      /\ \A u \in Submitters \ {s} : submitter'[u] = submitter[u]
  BY <1>3 DEF IInv, Types
<1> SUFFICES ASSUME faults' = 0, NEW u \in Tickers, NEW v \in Versions(registry, u)', Pending(u, v)'
             PROVE  InProgress(u, v)'
  BY DEF PendingIsOwned, Pending
<1> HIDE DEF id, t, n
<1>7. CASE u = t /\ v = n
  BY <1>1, <1>5, <1>6, <1>7 DEF InProgress
<1>8. CASE ~ (u = t /\ v = n)
  <2>1. v \in Versions(registry, u) /\ Pending(u, v)
    BY <1>4, <1>8 DEF Versions, Pending, Status
  <2>2. PICK k \in DOMAIN jobs : jobs[k].ticker = u /\ jobs[k].version = v /\ Held(k)
    BY <1>3, <2>1, InProgressHeld DEF PendingIsOwned, Pending
  <2>3. k # id
    <3>1. registry[u].versions \in Seq(Record)
      BY <1>2 DEF TickerData
    <3>2. v # 0
      BY <2>1, <3>1 DEF Versions
    <3> QED
      BY <1>1, <2>2, <3>2
  <2>4. Held(k)'
    BY <1>1, <1>3, <1>6, <2>2 DEF Held
  <2> QED
    BY <1>5, <2>2, <2>3, <2>4 DEF InProgress, Held
<1> QED
  BY <1>7, <1>8

LEMMA OwnedThread ==
    ASSUME IInv, Owned, NEW w \in Workers,
           TakeJob(w) \/ TrainFails(w) \/ SaveArtifacts(w) \/ FinishJob(w)
    PROVE  PendingIsOwned'
<1>1. /\ jobs \in Seq(TrainingJob) /\ thread \in [Workers -> [pc : ThreadPc, job : Nat]]
      /\ pool \in Seq(Nat) /\ PendingIsOwned
      /\ UNCHANGED <<registry, submitter, faults>>
  BY DEF IInv, Types, Owned, TakeJob, TrainFails, SaveArtifacts, FinishJob
<1>2. CASE TakeJob(w)
  <2> DEFINE h == Head(pool)
  <2>1. /\ ~Running(w) /\ pool # <<>> /\ pool' = Tail(pool)
        /\ thread' = [thread EXCEPT ![w] = [pc |-> "mark", job |-> h]]
        /\ jobs' = [jobs EXCEPT ![h].status = "running"]
    BY <1>2 DEF TakeJob, At, Running
  <2>2. /\ 1 \in DOMAIN pool /\ pool[1] = h
        /\ \A i \in DOMAIN pool : i = 1 \/ (i - 1 \in DOMAIN pool' /\ pool'[i - 1] = pool[i])
    BY <1>1, <2>1
  <2>3. h \in DOMAIN jobs
    BY <2>2 DEF IInv, Hands, PoolOK
  <2>4. SameVersions
    BY <1>1, <2>1, <2>3, StatusOnly
  <2> HIDE DEF h
  <2>5. thread'[w].job = h /\ thread[w].job = 0 /\ \A x \in Workers \ {w} : thread'[x] = thread[x]
    BY <1>1, <2>1 DEF Owned
  <2>6. ASSUME NEW id \in DOMAIN jobs, Held(id) PROVE Held(id)'
    <3>1. id # 0
      BY <1>1
    <3>2. CASE \E s \in Submitters : submitter[s] = [pc |-> "enqueue", job |-> id]
      BY <1>1, <3>2 DEF Held
    <3>3. CASE \E i \in DOMAIN pool : pool[i] = id
      <4>1. PICK i \in DOMAIN pool : pool[i] = id
        BY <3>3
      <4>2. CASE i = 1
        BY <2>2, <2>5, <4>1, <4>2 DEF Held
      <4>3. CASE i # 1
        <5>1. i - 1 \in DOMAIN pool' /\ pool'[i - 1] = id
          BY <2>2, <4>1, <4>3
        <5> QED
          BY <5>1 DEF Held
      <4> QED
        BY <4>2, <4>3
    <3>4. CASE \E x \in Workers : thread[x].job = id
      BY <2>5, <3>1, <3>4 DEF Held
    <3> QED
      BY <2>6, <3>2, <3>3, <3>4 DEF Held
  <2> QED
    BY <1>1, <2>4, <2>6, OwnedQuiet
<1>3. CASE TrainFails(w) \/ SaveArtifacts(w)
  <2>1. UNCHANGED <<jobs, pool>> /\ (Goto(w, "fail") \/ Goto(w, "publish"))
    BY <1>3 DEF TrainFails, SaveArtifacts
  <2>2. \A x \in Workers : thread'[x].job = thread[x].job
    BY <1>1, <2>1 DEF Goto
  <2>3. \A id \in DOMAIN jobs : Held(id) => Held(id)'
    BY <1>1, <2>1, <2>2 DEF Held
  <2>4. SameVersions
    BY <2>1 DEF SameVersions
  <2> QED
    BY <1>1, <2>3, <2>4, OwnedQuiet
<1>4. CASE FinishJob(w)
  <2> DEFINE id == thread[w].job
  <2>1. /\ Running(w) /\ thread[w].pc \in {"finish", "failed"} /\ pool' = pool
        /\ thread' = [thread EXCEPT ![w] = IdleThread]
        /\ \E status \in {"done", "failed"} : jobs' = [jobs EXCEPT ![id].status = status]
    BY <1>4 DEF FinishJob, At, Running
  <2>2. /\ id \in DOMAIN jobs /\ StageOf(registry, jobs[id]) \in Expected(thread[w].pc)
    BY <2>1 DEF IInv, Hands, ThreadOK
  <2>3. StageOf(registry, jobs[id]) \notin {"queued", "training"}
    BY <2>1, <2>2 DEF Expected
  <2>4. SameVersions
    <3>1. PICK status \in {"done", "failed"} : jobs' = [jobs EXCEPT ![id].status = status]
      BY <2>1
    <3> HIDE DEF id
    <3> QED
      BY <1>1, <2>2, <3>1, StatusOnly
  <2>5. \A k \in DOMAIN jobs \ {id} : Held(k) => Held(k)'
    BY <1>1, <2>1 DEF Held
  <2> QED
    BY <1>1, <2>3, <2>4, <2>5, OwnedQuiet
<1> QED
  BY <1>2, <1>3, <1>4

LEMMA OwnedStep == IInv /\ Owned /\ [Next]_vars => Owned'
<1> SUFFICES ASSUME IInv, Owned, [Next]_vars PROVE Owned'
  OBVIOUS
<1>1. faults \in Nat /\ PendingIsOwned
  BY DEF Owned
<1>2. faults' \in Nat /\ (faults' = faults \/ faults' # 0)
  <2>1. ASSUME faults' = faults + 1 PROVE faults' \in Nat /\ faults' # 0
    BY <1>1, <2>1
  <2>2. CASE \/ \E s \in Submitters : RegisterFails(s)
             \/ \E w \in Workers : PublishFails(w) \/ MarkFails(w)
             \/ MarkStaleFails \/ Crash
    <3>1. faults' = faults + 1
      BY <2>2 DEF RegisterFails, PublishFails, MarkFails, MarkStaleFails, WriteFails, Crash
    <3> QED
      BY <2>1, <3>1
  <2>3. ASSUME NEW w \in Workers, RunJob(w) PROVE faults' = faults
    BY <2>3 DEF RunJob, TakeJob, MarkTraining, TrainFails, SaveArtifacts, Publish, MarkFailed,
           FinishJob
  <2>4. CASE \/ \E c \in Clients, t \in Tickers : ClientSubmit(c, t)
             \/ \E s \in Submitters : Register(s) \/ Enqueue(s)
             \/ RunScheduler \/ UNCHANGED vars
             \/ \E t \in Tickers : \E v \in Versions(registry, t) : Age(t, v)
    <3>1. faults' = faults
      BY <2>4 DEF ClientSubmit, Register, Enqueue, RunScheduler, ScanStale, MarkStale,
             SubmitRetraining, Sleep, Age, vars
    <3> QED
      BY <1>1, <3>1
  <2> QED
    BY <1>1, <2>2, <2>3, <2>4 DEF Next
<1>3. ASSUME faults' # 0 PROVE PendingIsOwned'
  BY <1>3 DEF PendingIsOwned
<1>4. ASSUME UNCHANGED <<registry, jobs, submitter, pool, thread, faults>> PROVE PendingIsOwned'
  BY <1>1, <1>4, OwnedQuiet DEF Held, SameVersions
<1>5. ASSUME NEW c \in Clients, NEW t \in Tickers, ClientSubmit(c, t) PROVE PendingIsOwned'
  <2>1. c \in Submitters /\ NewJob(c, t) /\ UNCHANGED <<registry, pool, thread, faults>>
    BY <1>5 DEF ClientSubmit, Submitters
  <2> QED
    BY <1>1, <2>1, OwnedNewJob
<1>6. ASSUME NEW s \in Submitters, Enqueue(s) PROVE PendingIsOwned'
  <2>1. /\ pool' = Append(pool, submitter[s].job) /\ submitter' = [submitter EXCEPT ![s] = IdleSubmitter]
        /\ UNCHANGED <<registry, jobs, thread, faults>>
    BY <1>6 DEF Enqueue
  <2>2. /\ pool \in Seq(Nat) /\ submitter[s].job \in Nat
        /\ \A u \in Submitters \ {s} : submitter'[u] = submitter[u]
    BY <2>1 DEF IInv, Types
  <2>3. /\ Len(pool) + 1 \in DOMAIN pool' /\ pool'[Len(pool) + 1] = submitter[s].job
        /\ \A i \in DOMAIN pool : i \in DOMAIN pool' /\ pool'[i] = pool[i]
    BY <2>1, <2>2
  <2>4. \A id \in DOMAIN jobs : Held(id) => Held(id)'
    BY <2>1, <2>2, <2>3 DEF Held
  <2>5. SameVersions
    BY <2>1 DEF SameVersions
  <2> QED
    BY <1>1, <2>1, <2>4, <2>5, OwnedQuiet
<1>7. ASSUME NEW w \in Workers, MarkTraining(w) \/ Publish(w) \/ MarkFailed(w)
      PROVE  PendingIsOwned'
  <2> DEFINE t == TickerOf(w)
             v == VersionOf(w)
  <2>1. /\ t \in Tickers /\ v \in DOMAIN registry[t].versions
        /\ Restaged(registry, registry', t, v)
        /\ registry[t].versions[v].status \in {"queued", "training"}
        /\ UNCHANGED <<jobs, submitter, pool>>
        /\ \E pc \in ThreadPc \ {"idle"} : Goto(w, pc)
    BY <1>7, Recorded
  <2>2. faults' = faults
    BY <1>7 DEF MarkTraining, Publish, MarkFailed
  <2>3. \A x \in Workers : thread'[x].job = thread[x].job
    BY <2>1 DEF Goto, IInv, Types
  <2> HIDE DEF t, v
  <2>4. Pending(t, v)
    BY <2>1 DEF Pending, Status
  <2> QED
    BY <1>1, <2>1, <2>2, <2>3, <2>4, OwnedRestaged
<1>8. ASSUME MarkStale PROVE PendingIsOwned'
  <2>1. PICK tv \in todo : registry' = mark_stale(registry, tv[1], tv[2])
    BY <1>8 DEF MarkStale
  <2> DEFINE t == tv[1]
             v == tv[2]
  <2>2. /\ t \in Tickers /\ v \in DOMAIN registry[t].versions
        /\ Restaged(registry, registry', t, v) /\ registry'[t].versions[v].status = "stale"
    BY <2>1, StaleRecorded
  <2>3. UNCHANGED <<jobs, submitter, pool, thread, faults>>
    BY <1>8 DEF MarkStale
  <2> HIDE DEF t, v
  <2>4. ~Pending(t, v)' /\ \A w \in Workers : thread'[w].job = thread[w].job
    BY <2>2, <2>3 DEF Pending, Status
  <2>5. UNCHANGED <<jobs, submitter, pool, faults>>
    BY <2>3
  <2> QED
    BY <1>1, <2>2, <2>4, <2>5, OwnedRestaged
<1>9. ASSUME SubmitRetraining PROVE PendingIsOwned'
  <2>1. /\ Scheduler \in Submitters /\ NewJob(Scheduler, scheduler.ticker)
        /\ scheduler.ticker \in Tickers /\ UNCHANGED <<registry, pool, thread, faults>>
    BY <1>9 DEF SubmitRetraining, Submitters, IInv, Types
  <2>2. \A t \in Tickers : NewJob(Scheduler, t) => PendingIsOwned'
    BY <1>1, <2>1, OwnedNewJob
  <2> QED
    BY <2>1, <2>2
<1>10. ASSUME \/ \E s \in Submitters : RegisterFails(s)
              \/ \E w \in Workers : PublishFails(w) \/ MarkFails(w)
              \/ MarkStaleFails \/ Crash
       PROVE  PendingIsOwned'
  <2>1. faults' = faults + 1
    BY <1>10 DEF RegisterFails, PublishFails, MarkFails, MarkStaleFails, WriteFails, Crash
  <2> QED
    BY <1>1, <1>3, <2>1
<1>11. ASSUME ScanStale \/ Sleep \/ UNCHANGED vars
                 \/ \E t \in Tickers : \E v \in Versions(registry, t) : Age(t, v)
       PROVE  PendingIsOwned'
  <2>1. UNCHANGED <<registry, jobs, submitter, pool, thread, faults>>
    BY <1>11 DEF ScanStale, Sleep, Age, vars
  <2> QED
    BY <1>4, <2>1
<1>12. PendingIsOwned'
  <2>1. \A s \in Submitters : Register(s) => PendingIsOwned'
    BY <1>1, OwnedRegister
  <2>2. \A w \in Workers : RunJob(w) => PendingIsOwned'
    BY <1>7, OwnedThread DEF RunJob
  <2> QED
    BY <1>5, <1>6, <1>8, <1>9, <1>10, <1>11, <2>1, <2>2 DEF Next, RunScheduler
<1>13. \A w \in Workers : ~Running(w)' => thread'[w].job = 0
  <2>1. CASE thread' = thread
    BY <2>1 DEF Owned, Running
  <2>2. CASE thread' = [w \in Workers |-> IdleThread]
    BY <2>2 DEF IdleThread
  <2>3. ASSUME NEW w \in Workers, NEW r,
               thread' = [thread EXCEPT ![w] = r], r.pc # "idle" \/ r.job = 0
        PROVE  \A x \in Workers : ~Running(x)' => thread'[x].job = 0
    BY <2>3 DEF Owned, Running, IInv, Types
  <2>4. IdleThread.job = 0
    BY DEF IdleThread
  <2>5. ASSUME NEW w \in Workers, RunJob(w) \/ PublishFails(w) \/ MarkFails(w)
        PROVE  \A x \in Workers : ~Running(x)' => thread'[x].job = 0
    <3>1. \E r : thread' = [thread EXCEPT ![w] = r] /\ (r.pc # "idle" \/ r.job = 0)
      <4>1. ASSUME NEW pc \in ThreadPc \ {"idle"}, Goto(w, pc)
            PROVE  \E r : thread' = [thread EXCEPT ![w] = r] /\ (r.pc # "idle" \/ r.job = 0)
        <5> DEFINE r == [thread[w] EXCEPT !.pc = pc]
        <5>1. thread' = [thread EXCEPT ![w] = r] /\ r.pc # "idle"
          BY <4>1 DEF Goto, IInv, Types
        <5> HIDE DEF r
        <5> QED
          BY <5>1
      <4>2. CASE TakeJob(w)
        <5> DEFINE r == [pc |-> "mark", job |-> Head(pool)]
        <5>1. thread' = [thread EXCEPT ![w] = r] /\ r.pc # "idle"
          BY <4>2 DEF TakeJob
        <5> HIDE DEF r
        <5> QED
          BY <5>1
      <4>3. CASE FinishJob(w) \/ MarkFails(w)
        BY <2>4, <4>3 DEF FinishJob, MarkFails
      <4>4. CASE \/ MarkTraining(w) \/ TrainFails(w) \/ SaveArtifacts(w)
                 \/ Publish(w) \/ MarkFailed(w) \/ PublishFails(w)
        <5>1. \E pc \in ThreadPc \ {"idle"} : Goto(w, pc)
          BY <4>4 DEF MarkTraining, TrainFails, SaveArtifacts, Publish, MarkFailed, PublishFails,
                 ThreadPc
        <5> QED
          BY <4>1, <5>1
      <4> QED
        BY <2>5, <4>2, <4>3, <4>4 DEF RunJob
    <3> QED
      BY <2>3, <3>1
  <2>6. thread' = thread \/ thread' = [w \in Workers |-> IdleThread]
           \/ \E w \in Workers : RunJob(w) \/ PublishFails(w) \/ MarkFails(w)
    BY DEF Next, vars, ClientSubmit, Register, RegisterFails, Enqueue, RunScheduler, ScanStale,
       MarkStale, SubmitRetraining, Sleep, MarkStaleFails, Age, Crash
  <2> QED
    BY <2>1, <2>2, <2>5, <2>6
<1> QED
  BY <1>2, <1>12, <1>13 DEF Owned

LEMMA OwnedInit == Init => Owned
BY DEF Init, Owned, PendingIsOwned, Versions, EmptyRegistry, IdleThread

-------------------------------------------------------------------------------
(* The bound on versions is one on what clients start and on models that   *)
(* age: what is under way always still fits.                               *)

\* Submissions for t without a version, and models of t to be retrained.
Waiting(t) ==
    {s \in Submitters : submitter[s].pc = "register" /\ jobs[submitter[s].job].ticker = t}
Due(t) == {tv \in aged : tv[1] = t /\ IsReady(registry, t, tv[2])}
Extra(t) == IF scheduler.pc = "submit" /\ scheduler.ticker = t THEN 1 ELSE 0

Fits(t) ==
    /\ IsFiniteSet(Waiting(t)) /\ IsFiniteSet(Due(t))
    /\ Len(registry[t].versions) + Cardinality(Waiting(t)) + Cardinality(Due(t)) + Extra(t)
          <= MaxVersions

Bounded ==
    /\ \A t \in Tickers : Fits(t)
    /\ \A tv \in aged : Status(tv[1], tv[2]) \in {"ready", "stale"}
    /\ todo \subseteq aged

LEMMA FitsInNat ==
    ASSUME IInv, NEW t \in Tickers, Fits(t)
    PROVE  /\ Len(registry[t].versions) \in Nat /\ Cardinality(Waiting(t)) \in Nat
           /\ Cardinality(Due(t)) \in Nat /\ Extra(t) \in {0, 1}
<1>1. registry[t].versions \in Seq(Record)
  BY DEF IInv, Types, TickerData
<1> QED
  BY <1>1, FS_CardinalityType DEF Fits, Extra

LEMMA Sums ==
    ASSUME NEW l \in Nat, NEW w \in Nat, NEW d \in Nat, NEW x \in Nat, NEW max \in Nat,
           NEW wn \in Nat, wn <= w + 1, l + w + d + 1 + x <= max
    PROVE  l + wn + d + x <= max
OBVIOUS

LEMMA RoomLeft ==
    ASSUME IInv, NEW t \in Tickers, Fits(t), Room(t)
    PROVE  Len(registry[t].versions) + Cardinality(Waiting(t)) + Cardinality(Due(t)) + Extra(t)
              < MaxVersions
<1>1. Unregistered(t) = Cardinality(Waiting(t)) /\ ToRetrain(t) = Cardinality(Due(t)) + Extra(t)
  BY DEF Unregistered, Waiting, ToRetrain, Due, Extra
<1> QED
  BY <1>1, FitsInNat DEF Room

\* Nothing gets under way.
LEMMA StillFits ==
    ASSUME IInv, NEW t \in Tickers, Fits(t),
           Waiting(t)' \subseteq Waiting(t), Due(t)' \subseteq Due(t),
           Len(registry'[t].versions) = Len(registry[t].versions), Extra(t)' <= Extra(t)
    PROVE  Fits(t)'
<1>1. /\ IsFiniteSet(Waiting(t)') /\ Cardinality(Waiting(t)') <= Cardinality(Waiting(t))
      /\ IsFiniteSet(Due(t)') /\ Cardinality(Due(t)') <= Cardinality(Due(t))
  BY FS_Subset DEF Fits
<1>2. Cardinality(Waiting(t)') \in Nat /\ Cardinality(Due(t)') \in Nat /\ Extra(t)' \in {0, 1}
  BY <1>1, FS_CardinalityType DEF Extra
<1>3. /\ Len(registry[t].versions) \in Nat /\ Cardinality(Waiting(t)) \in Nat
      /\ Cardinality(Due(t)) \in Nat /\ Extra(t) \in {0, 1} /\ MaxVersions \in Nat
      /\ Len(registry[t].versions) + Cardinality(Waiting(t)) + Cardinality(Due(t)) + Extra(t)
            <= MaxVersions
  BY FitsInNat, PipelineAssumption DEF Fits
<1>4. Len(registry'[t].versions) + Cardinality(Waiting(t)') + Cardinality(Due(t)') + Extra(t)'
         <= MaxVersions
  BY <1>1, <1>2, <1>3
<1> QED
  BY <1>1, <1>4 DEF Fits

\* Records that change, but no model that has aged becomes ready.
LEMMA DueKept ==
    ASSUME IInv, Bounded, NEW t \in Tickers, NEW v,
           Restaged(registry, registry', t, v), aged' = aged,
           registry'[t].versions[v].status = "ready" => <<t, v>> \notin aged
    PROVE  /\ \A u \in Tickers : Due(u)' \subseteq Due(u)
           /\ \A u \in Tickers : Len(registry'[u].versions) = Len(registry[u].versions)
<1>1. ASSUME NEW u \in Tickers, NEW tv \in Due(u)' PROVE tv \in Due(u)
  <2>1. tv \in aged /\ tv[1] = u /\ tv[2] # 0 /\ registry'[u].versions[tv[2]].status = "ready"
    BY <1>1 DEF Due, IsReady
  <2>2. tv = <<u, tv[2]>> /\ tv[2] \in DOMAIN registry[u].versions
    BY <2>1 DEF IInv, StaleOK, Versions
  <2>3. registry[u].versions[tv[2]].status = "ready"
    BY <2>1, <2>2 DEF Restaged
  <2> QED
    BY <2>1, <2>3 DEF Due, IsReady
<1>2. ASSUME NEW u \in Tickers PROVE Len(registry'[u].versions) = Len(registry[u].versions)
  <2>1. /\ registry[u].versions \in Seq(Record) /\ registry'[u].versions \in Seq(Record)
        /\ DOMAIN registry'[u].versions = DOMAIN registry[u].versions
    BY DEF Restaged, IInv, Types, TickerData
  <2> QED
    BY <2>1
<1> QED
  BY <1>1, <1>2

LEMMA WaitingKept ==
    ASSUME IInv, SameVersions,
           \A s \in Submitters : submitter'[s].pc = "register" => submitter'[s] = submitter[s]
    PROVE  \A t \in Tickers : Waiting(t)' \subseteq Waiting(t)
BY DEF Waiting, SameVersions, IInv, Hands, SubmitterOK, Submitting

\* A new job waits for its version.
LEMMA NewJobFits ==
    ASSUME IInv, Bounded, NEW s \in Submitters, NEW t \in Tickers, NewJob(s, t),
           UNCHANGED <<registry, aged>>,
           \A u \in Tickers : Extra(u)' <= Extra(u),
           Room(t) \/ Extra(t)' < Extra(t)
    PROVE  \A u \in Tickers : Fits(u)'
<1> DEFINE n == Len(jobs) + 1
           new == [ticker |-> t, version |-> 0, status |-> "queued"]
<1>1. /\ jobs \in Seq(TrainingJob) /\ new \in TrainingJob /\ jobs' = Append(jobs, new)
      /\ submitter[s].pc = "idle"
      /\ submitter' = [submitter EXCEPT ![s] = [pc |-> "register", job |-> Len(jobs')]]
  BY DEF IInv, Types, NewJob, TrainingJob
<1>2. /\ Len(jobs') = n /\ jobs'[n] = new /\ \A id \in DOMAIN jobs : jobs'[id] = jobs[id]
  BY <1>1
<1>3. new.ticker = t
  OBVIOUS
<1> HIDE DEF new, n
<1>4. /\ submitter'[s] = [pc |-> "register", job |-> n]
      /\ \A u \in Submitters \ {s} : submitter'[u] = submitter[u]
  BY <1>1, <1>2 DEF IInv, Types
<1>5. \A u \in Submitters \ {s} :
         submitter[u].pc = "register" => jobs'[submitter[u].job] = jobs[submitter[u].job]
  BY <1>2 DEF IInv, Hands, SubmitterOK, Submitting
<1>6. /\ Waiting(t)' \subseteq Waiting(t) \cup {s}
      /\ \A u \in Tickers \ {t} : Waiting(u)' \subseteq Waiting(u)
  BY <1>2, <1>3, <1>4, <1>5 DEF Waiting
<1>7. \A u \in Tickers : Due(u)' = Due(u) /\ Len(registry'[u].versions) = Len(registry[u].versions)
  BY DEF Due, IsReady
<1>8. \A u \in Tickers \ {t} : Fits(u)'
  BY <1>6, <1>7, StillFits DEF Bounded
<1>9. Fits(t)'
  <2>1. Fits(t) /\ IsFiniteSet(Waiting(t))
    BY DEF Bounded, Fits
  <2>2. /\ IsFiniteSet(Waiting(t) \cup {s})
        /\ Cardinality(Waiting(t) \cup {s}) <= Cardinality(Waiting(t)) + 1
    <3>1. Cardinality(Waiting(t)) \in Nat
      BY <2>1, FitsInNat
    <3> QED
      BY <2>1, <3>1, FS_AddElement
  <2>3. /\ IsFiniteSet(Waiting(t)') /\ Cardinality(Waiting(t)') \in Nat
        /\ Cardinality(Waiting(t)') <= Cardinality(Waiting(t) \cup {s})
        /\ Cardinality(Waiting(t) \cup {s}) \in Nat
    BY <1>6, <2>2, FS_Subset, FS_CardinalityType
  <2>4. Extra(t)' \in {0, 1} /\ Extra(t)' <= Extra(t)
    BY DEF Extra
  <2> DEFINE total == Len(registry[t].versions) + Cardinality(Waiting(t)) + Cardinality(Due(t))
  <2>5. total + 1 + Extra(t)' <= MaxVersions
    <3>1. total \in Nat /\ Extra(t) \in {0, 1} /\ MaxVersions \in Nat
      BY <2>1, FitsInNat, PipelineAssumption
    <3>2. total + Extra(t) <= MaxVersions /\ (Room(t) => total + Extra(t) < MaxVersions)
      BY <2>1, RoomLeft DEF Fits
    <3> HIDE DEF total
    <3> QED
      BY <2>4, <3>1, <3>2
  <2>6. Due(t)' = Due(t) /\ Len(registry'[t].versions) = Len(registry[t].versions)
    BY <1>7
  <2>7. Len(registry'[t].versions) + Cardinality(Waiting(t)') + Cardinality(Due(t)') + Extra(t)'
           <= MaxVersions
    <3>1. /\ Len(registry[t].versions) \in Nat /\ Cardinality(Waiting(t)) \in Nat
          /\ Cardinality(Due(t)) \in Nat /\ MaxVersions \in Nat
      BY <2>1, FitsInNat, PipelineAssumption
    <3>2. /\ Cardinality(Due(t)') = Cardinality(Due(t))
          /\ Cardinality(Waiting(t)') <= Cardinality(Waiting(t)) + 1
      BY <2>2, <2>3, <2>6, <3>1
    <3>3. Extra(t)' \in Nat
      BY <2>4
    <3>4. Len(registry[t].versions) + Cardinality(Waiting(t)') + Cardinality(Due(t)) + Extra(t)'
             <= MaxVersions
      BY <2>3, <2>5, <3>1, <3>2, <3>3, Sums
    <3> QED
      BY <2>6, <3>2, <3>4
  <2> QED
    BY <2>1, <2>3, <2>6, <2>7 DEF Fits
<1> QED
  BY <1>8, <1>9

\* A registered version takes the place of the submission that waited for it.
LEMMA RegisterFits ==
    ASSUME IInv, Bounded, NEW s \in Submitters, Register(s)
    PROVE  Bounded'
<1>0. /\ submitter[s].pc = "register" /\ submitter[s].job \in DOMAIN jobs
      /\ jobs \in Seq(TrainingJob) /\ registry \in [Tickers -> TickerData]
  BY DEF Register, Submitting, IInv, Types, Hands, SubmitterOK
<1>1. PICK id \in DOMAIN jobs : id = submitter[s].job
  BY <1>0
<1>2. PICK t \in Tickers : t = jobs[id].ticker
  BY <1>0, JobType
<1>3. /\ registry' = register(registry, t)
      /\ jobs' = [jobs EXCEPT ![id].version = _next_version(registry, t)]
      /\ submitter' = [submitter EXCEPT ![s].pc = "enqueue"]
      /\ UNCHANGED <<aged, scheduler, todo>>
  BY <1>1, <1>2 DEF Register
<1>4. /\ registry' \in [Tickers -> TickerData]
      /\ DOMAIN registry'[t].versions = DOMAIN registry[t].versions \cup {Len(registry[t].versions) + 1}
      /\ \A u \in Tickers \ {t} : registry'[u] = registry[u]
      /\ \A v \in DOMAIN registry[t].versions :
            registry'[t].versions[v] = registry[t].versions[v]
  <2> DEFINE e == register(registry, t)
             n == _next_version(registry, t)
  <2>1. /\ e \in [Tickers -> TickerData]
        /\ DOMAIN e[t].versions = DOMAIN registry[t].versions \cup {n}
        /\ \A u \in Tickers \ {t} : e[u] = registry[u]
        /\ \A v \in DOMAIN registry[t].versions : e[t].versions[v] = registry[t].versions[v]
    BY <1>0, Registered
  <2>2. n = Len(registry[t].versions) + 1 /\ registry' = e
    BY <1>3 DEF _next_version
  <2> HIDE DEF e, n
  <2> QED
    BY <2>1, <2>2
<1>5. /\ DOMAIN jobs' = DOMAIN jobs /\ jobs'[id].ticker = t
      /\ \A k \in DOMAIN jobs \ {id} : jobs'[k] = jobs[k]
  <2> DEFINE n == _next_version(registry, t)
  <2>1. jobs[id] \in TrainingJob /\ jobs' = [jobs EXCEPT ![id].version = n]
    BY <1>0, <1>3
  <2> HIDE DEF n
  <2> QED
    BY <1>2, <2>1 DEF TrainingJob
<1>6. /\ submitter'[s].pc = "enqueue" /\ \A u \in Submitters \ {s} : submitter'[u] = submitter[u]
  BY <1>3 DEF IInv, Types
<1>7. /\ s \in Waiting(t) /\ Waiting(t)' \subseteq Waiting(t) \ {s}
      /\ \A u \in Tickers : Waiting(u)' \subseteq Waiting(u)
  <2>1. \A u \in Submitters \ {s} : submitter[u].pc = "register" =>
            jobs'[submitter[u].job].ticker = jobs[submitter[u].job].ticker
    BY <1>2, <1>5 DEF IInv, Hands, SubmitterOK, Submitting
  <2> QED
    BY <1>0, <1>1, <1>2, <1>6, <2>1 DEF Waiting
<1>8. \A tv \in aged : /\ tv[1] \in Tickers
                       /\ registry'[tv[1]].versions[tv[2]] = registry[tv[1]].versions[tv[2]]
  BY <1>4 DEF IInv, StaleOK, Versions
<1>9. \A u \in Tickers : Due(u)' = Due(u)
  BY <1>3, <1>8 DEF Due, IsReady
<1>10. \A u \in Tickers \ {t} : Fits(u)'
  <2> SUFFICES ASSUME NEW u \in Tickers \ {t} PROVE Fits(u)'
    OBVIOUS
  <2>1. /\ Len(registry'[u].versions) = Len(registry[u].versions)
        /\ Extra(u)' = Extra(u) /\ Extra(u) \in {0, 1}
    BY <1>3, <1>4 DEF Extra
  <2>2. Extra(u)' <= Extra(u)
    BY <2>1
  <2> QED
    BY <1>7, <1>9, <2>1, <2>2, StillFits DEF Bounded
<1>11. Fits(t)'
  <2>1. Fits(t) /\ IsFiniteSet(Waiting(t))
    BY <1>2 DEF Bounded, Fits
  <2>2. /\ Len(registry[t].versions) \in Nat /\ Cardinality(Waiting(t)) \in Nat
        /\ Cardinality(Due(t)) \in Nat /\ Extra(t) \in {0, 1}
    BY <1>2, <2>1, FitsInNat
  <2>3. /\ IsFiniteSet(Waiting(t) \ {s})
        /\ Cardinality(Waiting(t) \ {s}) = Cardinality(Waiting(t)) - 1
    BY <1>7, <2>1, FS_RemoveElement
  <2>4. /\ IsFiniteSet(Waiting(t)') /\ Cardinality(Waiting(t)') \in Nat
        /\ Cardinality(Waiting(t)') <= Cardinality(Waiting(t)) - 1
    BY <1>7, <2>3, FS_Subset, FS_CardinalityType
  <2>5. Len(registry'[t].versions) = Len(registry[t].versions) + 1
    <3>1. /\ registry[t].versions \in Seq(Record) /\ registry'[t].versions \in Seq(Record)
      BY <1>0, <1>4 DEF TickerData
    <3> DEFINE k == Len(registry[t].versions)
               m == Len(registry'[t].versions)
    <3>2. k \in Nat /\ m \in Nat /\ 1..m = 1..k \cup {k + 1}
      <4>1. k \in Nat /\ m \in Nat
        BY <3>1
      <4>2. DOMAIN registry[t].versions = 1..k /\ DOMAIN registry'[t].versions = 1..m
        BY <3>1
      <4>3. DOMAIN registry'[t].versions = DOMAIN registry[t].versions \cup {k + 1}
        BY <1>4
      <4> QED
        BY <4>1, <4>2, <4>3
    <3> HIDE DEF k, m
    <3>3. k + 1 \in 1..m /\ m \in 1..k \cup {k + 1}
      <4>1. k + 1 \in 1..m
        BY <3>2
      <4>2. m \in 1..m
        BY <3>2, <4>1
      <4> QED
        BY <3>2, <4>1, <4>2
    <3>4. m = k + 1
      BY <3>2, <3>3
    <3> QED
      BY <3>4 DEF k, m
  <2>6. Extra(t)' = Extra(t)
    BY <1>3 DEF Extra
  <2>7. Len(registry[t].versions) + Cardinality(Waiting(t)) + Cardinality(Due(t)) + Extra(t)
           <= MaxVersions
    BY <2>1 DEF Fits
  <2>8. (Len(registry[t].versions) + 1) + Cardinality(Waiting(t)') + Cardinality(Due(t)) + Extra(t)
           <= MaxVersions
    BY <2>2, <2>4, <2>7, PipelineAssumption
  <2>9. Due(t)' = Due(t)
    BY <1>2, <1>9
  <2> QED
    BY <2>1, <2>4, <2>5, <2>6, <2>8, <2>9 DEF Fits
<1>12. \A tv \in aged' : Status(tv[1], tv[2])' \in {"ready", "stale"}
  BY <1>3, <1>8 DEF Bounded, Status
<1> QED
  BY <1>3, <1>10, <1>11, <1>12 DEF Bounded

\* A stale model is no longer due, its retraining is the scheduler's next step.
LEMMA StaleFits == ASSUME IInv, Bounded, MarkStale PROVE Bounded'
<1>1. PICK tv \in todo :
          /\ registry' = mark_stale(registry, tv[1], tv[2])
          /\ todo' = todo \ {tv} /\ scheduler' = [pc |-> "submit", ticker |-> tv[1]]
  BY DEF MarkStale
<1> DEFINE t == tv[1]
           v == tv[2]
<1>2. /\ t \in Tickers /\ v \in DOMAIN registry[t].versions
      /\ registry[t].versions[v].status = "ready"
      /\ Restaged(registry, registry', t, v) /\ registry'[t].versions[v].status = "stale"
  BY <1>1, StaleRecorded
<1>3. tv = <<t, v>> /\ tv \in aged /\ registry[t].versions \in Seq(Record)
  BY <1>1, <1>2 DEF IInv, Types, StaleOK, Bounded, TickerData
<1>4. /\ scheduler.pc = "next" /\ UNCHANGED <<aged, jobs, submitter>>
  BY DEF MarkStale
<1> HIDE DEF t, v
<1>5. /\ \A u \in Tickers : Due(u)' \subseteq Due(u)
      /\ \A u \in Tickers : Len(registry'[u].versions) = Len(registry[u].versions)
  BY <1>2, <1>4, DueKept
<1>6. /\ tv \in Due(t) /\ tv \notin Due(t)'
  BY <1>2, <1>3 DEF Due, IsReady
<1>7. \A u \in Tickers : Waiting(u)' = Waiting(u)
  BY <1>4 DEF Waiting
<1>8. /\ \A u \in Tickers : Extra(u) = 0
      /\ \A u \in Tickers \ {t} : Extra(u)' = 0
      /\ Extra(t)' = 1
  BY <1>1, <1>4 DEF Extra, t
<1>9. \A u \in Tickers \ {t} : Fits(u)'
  BY <1>5, <1>7, <1>8, StillFits DEF Bounded
<1>10. Fits(t)'
  <2>1. Fits(t) /\ IsFiniteSet(Waiting(t)) /\ IsFiniteSet(Due(t))
    BY <1>2 DEF Bounded, Fits
  <2>2. /\ Len(registry[t].versions) \in Nat /\ Cardinality(Waiting(t)) \in Nat
        /\ Cardinality(Due(t)) \in Nat
    BY <1>2, <2>1, FitsInNat
  <2>3. /\ IsFiniteSet(Due(t) \ {tv})
        /\ Cardinality(Due(t) \ {tv}) = Cardinality(Due(t)) - 1
    BY <1>6, <2>1, FS_RemoveElement
  <2>4. Due(t)' \subseteq Due(t) \ {tv}
    BY <1>2, <1>5, <1>6
  <2>5. /\ IsFiniteSet(Due(t)') /\ Cardinality(Due(t)') \in Nat
        /\ Cardinality(Due(t)') <= Cardinality(Due(t)) - 1
    BY <2>3, <2>4, FS_Subset, FS_CardinalityType
  <2>6. Len(registry[t].versions) + Cardinality(Waiting(t)) + Cardinality(Due(t)) <= MaxVersions
    BY <1>2, <1>8, <2>1, <2>2 DEF Fits
  <2>7. Len(registry[t].versions) + Cardinality(Waiting(t)) + Cardinality(Due(t)') + 1 <= MaxVersions
    BY <2>2, <2>5, <2>6, PipelineAssumption
  <2>8. Waiting(t)' = Waiting(t) /\ Len(registry'[t].versions) = Len(registry[t].versions)
    BY <1>2, <1>5, <1>7
  <2> QED
    BY <1>8, <2>1, <2>5, <2>7, <2>8 DEF Fits
<1>11. \A x \in aged' : Status(x[1], x[2])' \in {"ready", "stale"}
  <2> SUFFICES ASSUME NEW x \in aged PROVE registry'[x[1]].versions[x[2]].status \in {"ready", "stale"}
    BY <1>4 DEF Status
  <2>1. x[1] \in Tickers /\ x[2] \in DOMAIN registry[x[1]].versions
        /\ registry[x[1]].versions[x[2]].status \in {"ready", "stale"}
    BY DEF IInv, StaleOK, Versions, Bounded, Status
  <2> QED
    BY <1>2, <2>1 DEF Restaged
<1>12. todo' \subseteq aged'
  BY <1>1, <1>4 DEF Bounded
<1> QED
  BY <1>9, <1>10, <1>11, <1>12 DEF Bounded

\* What a thread records is not about a model that has aged.
LEMMA RecordFits ==
    ASSUME IInv, Bounded, NEW w \in Workers, MarkTraining(w) \/ Publish(w) \/ MarkFailed(w)
    PROVE  Bounded'
<1> DEFINE t == TickerOf(w)
           v == VersionOf(w)
<1>1. /\ t \in Tickers /\ v \in DOMAIN registry[t].versions
      /\ Restaged(registry, registry', t, v)
      /\ registry[t].versions[v].status \in {"queued", "training"}
      /\ UNCHANGED <<jobs, submitter>>
  BY Recorded
<1>2. UNCHANGED <<aged, scheduler, todo>>
  BY DEF MarkTraining, Publish, MarkFailed
<1> HIDE DEF t, v
<1>3. <<t, v>> \notin aged
  <2> SUFFICES ASSUME <<t, v>> \in aged PROVE FALSE
    OBVIOUS
  <2>1. Status(<<t, v>>[1], <<t, v>>[2]) \in {"ready", "stale"}
    BY DEF Bounded
  <2> QED
    BY <1>1, <2>1 DEF Status
<1>4. /\ \A u \in Tickers : Due(u)' \subseteq Due(u)
      /\ \A u \in Tickers : Len(registry'[u].versions) = Len(registry[u].versions)
  BY <1>1, <1>2, <1>3, DueKept
<1>5. \A u \in Tickers : /\ Waiting(u)' = Waiting(u) /\ Extra(u)' <= Extra(u)
  BY <1>1, <1>2 DEF Waiting, Extra
<1>6. \A u \in Tickers : Fits(u)'
  BY <1>4, <1>5, StillFits DEF Bounded
<1>7. \A x \in aged : registry'[x[1]].versions[x[2]].status \in {"ready", "stale"}
  <2> SUFFICES ASSUME NEW x \in aged PROVE registry'[x[1]].versions[x[2]].status \in {"ready", "stale"}
    OBVIOUS
  <2>1. /\ x = <<x[1], x[2]>> /\ x[1] \in Tickers /\ x[2] \in DOMAIN registry[x[1]].versions
        /\ registry[x[1]].versions[x[2]].status \in {"ready", "stale"}
    BY DEF IInv, StaleOK, Versions, Bounded, Status
  <2>2. ~ (x[1] = t /\ x[2] = v)
    BY <1>3, <2>1
  <2> QED
    BY <1>1, <2>1, <2>2 DEF Restaged
<1> QED
  BY <1>2, <1>6, <1>7 DEF Bounded, Status

\* The registry and what has aged stay as they are, and nobody starts anything.
LEMMA QuietFits ==
    ASSUME IInv, Bounded, SameVersions, UNCHANGED <<registry, aged>>, todo' \subseteq aged,
           \A s \in Submitters : submitter'[s].pc = "register" => submitter'[s] = submitter[s],
           scheduler'.pc = "submit" => scheduler' = scheduler
    PROVE  Bounded'
<1>1. \A t \in Tickers : Waiting(t)' \subseteq Waiting(t)
  BY WaitingKept
<1>2. \A t \in Tickers : /\ Due(t)' \subseteq Due(t)
                         /\ Len(registry'[t].versions) = Len(registry[t].versions)
  BY DEF Due, IsReady
<1>3. \A t \in Tickers : Extra(t)' <= Extra(t)
  BY DEF Extra
<1>4. \A t \in Tickers : Fits(t)'
  BY <1>1, <1>2, <1>3, StillFits DEF Bounded
<1> QED
  BY <1>4 DEF Bounded, Status

\* A model ages if there is room for its retraining.
LEMMA AgeFits ==
    ASSUME IInv, Bounded, NEW t \in Tickers, NEW v \in Versions(registry, t), Age(t, v)
    PROVE  Bounded'
<1>1. /\ IsReady(registry, t, v) /\ Room(t) /\ aged' = aged \cup {<<t, v>>}
      /\ UNCHANGED <<registry, jobs, submitter, scheduler, todo>>
  BY DEF Age
<1>2. \A u \in Tickers : /\ Waiting(u)' = Waiting(u) /\ Extra(u)' = Extra(u)
                         /\ Len(registry'[u].versions) = Len(registry[u].versions)
  BY <1>1 DEF Waiting, Extra
<1>3. /\ Due(t)' \subseteq Due(t) \cup {<<t, v>>}
      /\ \A u \in Tickers \ {t} : Due(u)' \subseteq Due(u)
  BY <1>1 DEF Due
<1>4. ASSUME NEW u \in Tickers \ {t} PROVE Fits(u)'
  <2>1. Extra(u)' <= Extra(u)
    BY <1>2 DEF Extra
  <2> QED
    BY <1>2, <1>3, <2>1, StillFits DEF Bounded
<1>5. Fits(t)'
  <2>1. Fits(t) /\ IsFiniteSet(Waiting(t)) /\ IsFiniteSet(Due(t))
    BY DEF Bounded, Fits
  <2>2. /\ Len(registry[t].versions) \in Nat /\ Cardinality(Waiting(t)) \in Nat
        /\ Cardinality(Due(t)) \in Nat /\ Extra(t) \in Nat /\ MaxVersions \in Nat
    BY <2>1, FitsInNat, PipelineAssumption
  <2>3. /\ IsFiniteSet(Due(t) \cup {<<t, v>>})
        /\ Cardinality(Due(t) \cup {<<t, v>>}) <= Cardinality(Due(t)) + 1
    <3> DEFINE x == <<t, v>>
               S == Due(t)
    <3>1. IsFiniteSet(S) /\ Cardinality(S) \in Nat
      BY <2>1, <2>2
    <3> HIDE DEF x, S
    <3>2. /\ IsFiniteSet(S \cup {x})
          /\ Cardinality(S \cup {x}) <= Cardinality(S) + 1
      <4>1. /\ IsFiniteSet(S \cup {x})
            /\ Cardinality(S \cup {x}) = IF x \in S THEN Cardinality(S) ELSE Cardinality(S) + 1
        BY <3>1, FS_AddElement
      <4> QED
        BY <3>1, <4>1
    <3> QED
      BY <3>2 DEF x, S
  <2>4. /\ IsFiniteSet(Due(t)') /\ Cardinality(Due(t)') \in Nat
        /\ Cardinality(Due(t)') <= Cardinality(Due(t)) + 1
    <3>1. IsFiniteSet(Due(t)') /\ Cardinality(Due(t)') <= Cardinality(Due(t) \cup {<<t, v>>})
      BY <1>3, <2>3, FS_Subset
    <3>2. Cardinality(Due(t)') \in Nat /\ Cardinality(Due(t) \cup {<<t, v>>}) \in Nat
      BY <2>3, <3>1, FS_CardinalityType
    <3> QED
      BY <2>2, <2>3, <3>1, <3>2
  <2>5. Len(registry[t].versions) + Cardinality(Waiting(t)) + Cardinality(Due(t)) + Extra(t)
           < MaxVersions
    BY <1>1, <2>1, RoomLeft
  <2>6. Len(registry[t].versions) + Cardinality(Waiting(t)) + Cardinality(Due(t)') + Extra(t)
           <= MaxVersions
    BY <2>2, <2>4, <2>5
  <2>7. /\ Waiting(t)' = Waiting(t) /\ Extra(t)' = Extra(t)
        /\ Len(registry'[t].versions) = Len(registry[t].versions)
    BY <1>2
  <2> QED
    BY <2>1, <2>4, <2>6, <2>7 DEF Fits
<1>6. \A tv \in aged' : Status(tv[1], tv[2])' \in {"ready", "stale"}
  BY <1>1 DEF Bounded, Status, IsReady
<1> QED
  BY <1>1, <1>4, <1>5, <1>6 DEF Bounded

LEMMA BoundedStep == IInv /\ Bounded /\ [Next]_vars => Bounded'
<1> SUFFICES ASSUME IInv, Bounded, [Next]_vars PROVE Bounded'
  OBVIOUS
<1>1. ASSUME NEW c \in Clients, NEW t \in Tickers, ClientSubmit(c, t) PROVE Bounded'
  <2>1. /\ c \in Submitters /\ Room(t) /\ NewJob(c, t)
        /\ UNCHANGED <<registry, aged, scheduler, todo>>
    BY <1>1 DEF ClientSubmit, Submitters
  <2>2. \A u \in Tickers : Extra(u)' <= Extra(u)
    BY <2>1 DEF Extra
  <2>3. \A u \in Tickers : Fits(u)'
    BY <2>1, <2>2, NewJobFits
  <2> QED
    BY <2>1, <2>3 DEF Bounded, Status
<1>2. ASSUME NEW s \in Submitters, RegisterFails(s) \/ Enqueue(s) PROVE Bounded'
  <2>1. /\ submitter' = [submitter EXCEPT ![s] = IdleSubmitter] /\ AfterSubmit(s)
        /\ UNCHANGED <<registry, aged, jobs, todo>>
    BY <1>2 DEF RegisterFails, Enqueue
  <2>2. \A u \in Submitters : submitter'[u].pc = "register" => submitter'[u] = submitter[u]
    BY <2>1 DEF IInv, Types, IdleSubmitter
  <2>3. scheduler'.pc = "submit" => scheduler' = scheduler
    BY <2>1 DEF AfterSubmit, IInv, Types
  <2>4. SameVersions /\ todo' \subseteq aged
    BY <2>1 DEF SameVersions, Bounded
  <2> QED
    BY <2>1, <2>2, <2>3, <2>4, QuietFits
<1>3. ASSUME NEW w \in Workers, RunJob(w) \/ PublishFails(w) \/ MarkFails(w) PROVE Bounded'
  <2>1. CASE MarkTraining(w) \/ Publish(w) \/ MarkFailed(w)
    BY <2>1, RecordFits
  <2>2. CASE TakeJob(w) \/ TrainFails(w) \/ SaveArtifacts(w) \/ FinishJob(w)
               \/ PublishFails(w) \/ MarkFails(w)
    <3>1. UNCHANGED <<registry, aged, submitter, scheduler, todo>>
      BY <2>2 DEF TakeJob, TrainFails, SaveArtifacts, FinishJob, PublishFails, MarkFails
    <3>2. SameVersions
      <4>1. jobs \in Seq(TrainingJob)
        BY DEF IInv, Types
      <4>2. CASE TakeJob(w)
        <5> DEFINE h == Head(pool)
        <5>1. pool \in Seq(Nat) /\ pool # <<>> /\ jobs' = [jobs EXCEPT ![h].status = "running"]
          BY <4>2 DEF TakeJob, IInv, Types
        <5>2. 1 \in DOMAIN pool /\ pool[1] = h
          BY <5>1
        <5>3. h \in DOMAIN jobs
          BY <5>2 DEF IInv, Hands, PoolOK
        <5> HIDE DEF h
        <5> QED
          BY <4>1, <5>1, <5>3, StatusOnly
      <4>3. CASE FinishJob(w)
        <5> DEFINE id == thread[w].job
        <5>1. /\ id \in DOMAIN jobs
              /\ \E status \in {"done", "failed"} : jobs' = [jobs EXCEPT ![id].status = status]
          BY <4>3 DEF FinishJob, At, Running, IInv, Hands, ThreadOK
        <5>2. PICK status \in {"done", "failed"} : jobs' = [jobs EXCEPT ![id].status = status]
          BY <5>1
        <5> HIDE DEF id
        <5> QED
          BY <4>1, <5>1, <5>2, StatusOnly
      <4>4. CASE jobs' = jobs
        BY <4>4 DEF SameVersions
      <4> QED
        BY <2>2, <4>2, <4>3, <4>4 DEF TrainFails, SaveArtifacts, PublishFails, MarkFails
    <3>3. todo' \subseteq aged
      BY <3>1 DEF Bounded
    <3> QED
      BY <3>1, <3>2, <3>3, QuietFits
  <2> QED
    BY <1>3, <2>1, <2>2 DEF RunJob
<1>4. CASE SubmitRetraining
  <2> DEFINE t == scheduler.ticker
  <2>1. /\ Scheduler \in Submitters /\ NewJob(Scheduler, t) /\ t \in Tickers
        /\ scheduler.pc = "submit" /\ scheduler' = [scheduler EXCEPT !.pc = "wait"]
        /\ UNCHANGED <<registry, aged, todo>>
    BY <1>4 DEF SubmitRetraining, Submitters, IInv, Types
  <2>2. PICK u \in Tickers : u = t
    BY <2>1
  <2> HIDE DEF t
  <2>3. \A x \in Tickers : Extra(x)' = 0 /\ Extra(x) \in {0, 1}
    BY <2>1 DEF Extra, IInv, Types
  <2>4. Extra(u) = 1
    BY <2>1, <2>2 DEF Extra, t
  <2>5. /\ \A x \in Tickers : Extra(x)' <= Extra(x)
        /\ Extra(u)' < Extra(u)
    BY <2>3, <2>4
  <2>6. \A x \in Tickers : Fits(x)'
    BY <2>1, <2>2, <2>5, NewJobFits
  <2> QED
    BY <2>1, <2>6 DEF Bounded, Status
<1>5. CASE ScanStale \/ Sleep \/ MarkStaleFails
  <2>1. /\ UNCHANGED <<registry, aged, jobs, submitter>>
        /\ scheduler' = Asleep \/ scheduler' = [scheduler EXCEPT !.pc = "next"]
    BY <1>5 DEF ScanStale, Sleep, MarkStaleFails
  <2>2. todo' \subseteq aged
    BY <1>5 DEF ScanStale, Sleep, MarkStaleFails, Bounded, get_stale_ready_models
  <2>3. scheduler'.pc # "submit"
    BY <2>1 DEF Asleep, IInv, Types
  <2>4. SameVersions
    BY <2>1 DEF SameVersions
  <2> QED
    BY <2>1, <2>2, <2>3, <2>4, QuietFits
<1>6. CASE Crash
  <2>1. /\ UNCHANGED <<registry, aged>> /\ submitter' = [s \in Submitters |-> IdleSubmitter]
        /\ scheduler' = Asleep /\ todo' = {}
    BY <1>6 DEF Crash
  <2>2. \A t \in Tickers : Waiting(t)' \subseteq Waiting(t)
    BY <2>1 DEF Waiting, IdleSubmitter
  <2>3. \A t \in Tickers : /\ Due(t)' \subseteq Due(t)
                           /\ Len(registry'[t].versions) = Len(registry[t].versions)
    BY <2>1 DEF Due, IsReady
  <2>4. \A t \in Tickers : Extra(t)' <= Extra(t)
    BY <2>1 DEF Extra, Asleep
  <2>5. \A t \in Tickers : Fits(t)'
    BY <2>2, <2>3, <2>4, StillFits DEF Bounded
  <2> QED
    BY <2>1, <2>5 DEF Bounded, Status
<1>7. CASE UNCHANGED vars
  <2>1. UNCHANGED <<registry, aged, jobs, submitter, scheduler, todo>>
    BY <1>7 DEF vars
  <2>2. SameVersions /\ todo' \subseteq aged
    BY <2>1 DEF SameVersions, Bounded
  <2> QED
    BY <2>1, <2>2, QuietFits
<1> QED
  BY <1>1, <1>2, <1>3, <1>4, <1>5, <1>6, <1>7, RegisterFits, StaleFits, AgeFits
  DEF Next, RunScheduler

\* What is left of the types.
Rest ==
    /\ \A s \in Submitters : ~Submitting(s) => submitter[s].job = 0
    /\ \A t \in Tickers : /\ DOMAIN store[t] \subseteq Versions(registry, t)
                          /\ \A v \in DOMAIN store[t] : store[t][v] \in Artifacts
    /\ scheduler \in [pc : {"sleep", "next", "submit", "wait"}, ticker : Tickers]
    /\ faults \in 0..MaxFaults

LEMMA AsleepType == Asleep \in [pc : {"sleep", "next", "submit", "wait"}, ticker : Tickers]
BY PipelineAssumption DEF Asleep

LEMMA RestInit == Init => Rest /\ Bounded
<1> SUFFICES ASSUME Init PROVE Rest /\ Bounded
  OBVIOUS
<1>1. Rest
  BY AsleepType, PipelineAssumption DEF Init, Rest, IdleSubmitter, Submitting
<1>2. ASSUME NEW t \in Tickers PROVE Fits(t)
  <2>1. Waiting(t) = {} /\ Due(t) = {} /\ Extra(t) = 0 /\ registry[t].versions = <<>>
    BY DEF Init, Waiting, Due, Extra, IdleSubmitter, EmptyRegistry, Asleep
  <2>2. Len(<<>>) = 0
    OBVIOUS
  <2> QED
    BY <2>1, <2>2, FS_EmptySet, PipelineAssumption DEF Fits
<1> QED
  BY <1>1, <1>2 DEF Init, Bounded

LEMMA RestStep == IInv /\ Rest /\ [Next]_vars => Rest'
<1> SUFFICES ASSUME IInv, Rest, [Next]_vars PROVE Rest'
  OBVIOUS
<1>1. faults' \in 0..MaxFaults
  <2>1. CASE WriteFails \/ Crash
    BY <2>1, PipelineAssumption DEF WriteFails, Crash, Rest
  <2>2. CASE faults' = faults
    BY <2>2 DEF Rest
  <2>3. ASSUME NEW w \in Workers, RunJob(w) \/ PublishFails(w) \/ MarkFails(w)
        PROVE  faults' = faults \/ WriteFails
    BY <2>3 DEF RunJob, TakeJob, MarkTraining, TrainFails, SaveArtifacts, Publish, MarkFailed,
           FinishJob, PublishFails, MarkFails
  <2>4. ASSUME NEW s \in Submitters, Register(s) \/ RegisterFails(s) \/ Enqueue(s)
        PROVE  faults' = faults \/ WriteFails
    BY <2>4 DEF Register, RegisterFails, Enqueue
  <2>5. CASE \/ \E c \in Clients, t \in Tickers : ClientSubmit(c, t)
             \/ RunScheduler \/ MarkStaleFails \/ UNCHANGED vars
             \/ \E t \in Tickers : \E v \in Versions(registry, t) : Age(t, v)
    <3>1. faults' = faults \/ WriteFails
      BY <2>5 DEF ClientSubmit, RunScheduler, ScanStale, MarkStale, SubmitRetraining, Sleep,
             MarkStaleFails, Age, vars
    <3> QED
      BY <2>1, <2>2, <3>1
  <2> QED
    BY <2>1, <2>2, <2>3, <2>4, <2>5 DEF Next
<1>2. scheduler' \in [pc : {"sleep", "next", "submit", "wait"}, ticker : Tickers]
  <2>1. scheduler \in [pc : {"sleep", "next", "submit", "wait"}, ticker : Tickers]
    BY DEF Rest
  <2>2. CASE scheduler' = scheduler \/ scheduler' = Asleep
    BY <2>1, <2>2, AsleepType
  <2>3. CASE \E pc \in {"next", "wait"} : scheduler' = [scheduler EXCEPT !.pc = pc]
    BY <2>1, <2>3
  <2>4. CASE MarkStale
    <3>1. PICK tv \in todo : scheduler' = [pc |-> "submit", ticker |-> tv[1]]
      BY <2>4 DEF MarkStale
    <3>2. tv[1] \in Tickers
      BY DEF IInv, StaleOK
    <3> QED
      BY <3>1, <3>2
  <2>5. ASSUME NEW w \in Workers, RunJob(w) \/ PublishFails(w) \/ MarkFails(w)
        PROVE  scheduler' = scheduler
    BY <2>5 DEF RunJob, TakeJob, MarkTraining, TrainFails, SaveArtifacts, Publish, MarkFailed,
           FinishJob, PublishFails, MarkFails
  <2>6. ASSUME NEW s \in Submitters, Register(s) \/ RegisterFails(s) \/ Enqueue(s)
        PROVE  scheduler' = scheduler \/ scheduler' = [scheduler EXCEPT !.pc = "next"]
    BY <2>6 DEF Register, RegisterFails, Enqueue, AfterSubmit
  <2>7. CASE \/ \E c \in Clients, t \in Tickers : ClientSubmit(c, t)
             \/ \E t \in Tickers : \E v \in Versions(registry, t) : Age(t, v)
             \/ UNCHANGED vars
    BY <2>2, <2>7 DEF ClientSubmit, Age, vars
  <2>8. CASE ScanStale \/ SubmitRetraining
    BY <2>3, <2>8 DEF ScanStale, SubmitRetraining
  <2>9. CASE Sleep \/ MarkStaleFails \/ Crash
    BY <2>2, <2>9 DEF Sleep, MarkStaleFails, Crash
  <2> QED
    BY <2>2, <2>3, <2>4, <2>5, <2>6, <2>7, <2>8, <2>9 DEF Next, RunScheduler
<1>3. \A s \in Submitters : ~Submitting(s)' => submitter'[s].job = 0
  <2>1. CASE submitter' = submitter
    BY <2>1 DEF Rest, Submitting
  <2>2. ASSUME NEW s \in Submitters, NEW r,
               submitter' = [submitter EXCEPT ![s] = r], r.pc # "idle" \/ r.job = 0
        PROVE  \A u \in Submitters : ~Submitting(u)' => submitter'[u].job = 0
    BY <2>2 DEF Rest, Submitting, IInv, Types
  <2>3. ASSUME NEW s \in Submitters, NEW t, NewJob(s, t)
        PROVE  \A u \in Submitters : ~Submitting(u)' => submitter'[u].job = 0
    BY <2>2, <2>3 DEF NewJob
  <2>4. ASSUME NEW s \in Submitters, Register(s)
        PROVE  \A u \in Submitters : ~Submitting(u)' => submitter'[u].job = 0
    BY <2>4 DEF Register, Rest, Submitting, IInv, Types
  <2>5. ASSUME NEW s \in Submitters, RegisterFails(s) \/ Enqueue(s)
        PROVE  \A u \in Submitters : ~Submitting(u)' => submitter'[u].job = 0
    BY <2>2, <2>5 DEF RegisterFails, Enqueue, IdleSubmitter
  <2>6. ASSUME NEW w \in Workers, RunJob(w) \/ PublishFails(w) \/ MarkFails(w)
        PROVE  submitter' = submitter
    BY <2>6 DEF RunJob, TakeJob, MarkTraining, TrainFails, SaveArtifacts, Publish, MarkFailed,
           FinishJob, PublishFails, MarkFails
  <2>7. CASE Crash
    BY <2>7 DEF Crash, IdleSubmitter
  <2>8. CASE \/ ScanStale \/ MarkStale \/ Sleep \/ MarkStaleFails \/ UNCHANGED vars
             \/ \E t \in Tickers : \E v \in Versions(registry, t) : Age(t, v)
    BY <2>1, <2>8 DEF ScanStale, MarkStale, Sleep, MarkStaleFails, Age, vars
  <2>9. CASE SubmitRetraining \/ \E c \in Clients, t \in Tickers : ClientSubmit(c, t)
    BY <2>3, <2>9 DEF SubmitRetraining, ClientSubmit, Submitters
  <2> QED
    BY <2>1, <2>4, <2>5, <2>6, <2>7, <2>8, <2>9 DEF Next, RunScheduler
<1>4. \A t \in Tickers : Versions(registry, t) \subseteq Versions(registry, t)'
  <2>1. CASE registry' = registry
    BY <2>1 DEF Versions
  <2>2. ASSUME NEW s \in Submitters, Register(s)
        PROVE  \A t \in Tickers : Versions(registry, t) \subseteq Versions(registry, t)'
    <3> DEFINE u == jobs[submitter[s].job].ticker
               e == register(registry, u)
    <3>1. /\ registry' = e /\ submitter[s].job \in DOMAIN jobs
          /\ registry \in [Tickers -> TickerData]
      BY <2>2 DEF Register, IInv, Types, Hands, SubmitterOK, Submitting
    <3>2. u \in Tickers
      BY <3>1, JobType DEF IInv, Types
    <3> HIDE DEF u
    <3>3. /\ \A t \in Tickers \ {u} : e[t] = registry[t]
          /\ DOMAIN e[u].versions = DOMAIN registry[u].versions \cup {_next_version(registry, u)}
      BY <3>1, <3>2, Registered
    <3> QED
      BY <3>1, <3>3 DEF Versions
  <2>3. ASSUME NEW w \in Workers, MarkTraining(w) \/ Publish(w) \/ MarkFailed(w)
        PROVE  \A t \in Tickers : Versions(registry, t) \subseteq Versions(registry, t)'
    BY <2>3, Recorded DEF Restaged, Versions
  <2>4. CASE MarkStale
    <3>1. PICK tv \in todo : registry' = mark_stale(registry, tv[1], tv[2])
      BY <2>4 DEF MarkStale
    <3> QED
      BY <3>1, StaleRecorded DEF Restaged, Versions
  <2>5. ASSUME NEW w \in Workers,
               \/ TakeJob(w) \/ TrainFails(w) \/ SaveArtifacts(w) \/ FinishJob(w)
               \/ PublishFails(w) \/ MarkFails(w)
        PROVE  registry' = registry
    BY <2>5 DEF TakeJob, TrainFails, SaveArtifacts, FinishJob, PublishFails, MarkFails
  <2>6. ASSUME NEW s \in Submitters, RegisterFails(s) \/ Enqueue(s) PROVE registry' = registry
    BY <2>6 DEF RegisterFails, Enqueue
  <2>7. CASE \/ \E c \in Clients, t \in Tickers : ClientSubmit(c, t)
             \/ ScanStale \/ SubmitRetraining \/ Sleep \/ MarkStaleFails \/ Crash
             \/ \E t \in Tickers : \E v \in Versions(registry, t) : Age(t, v)
             \/ UNCHANGED vars
    BY <2>1, <2>7 DEF ClientSubmit, ScanStale, SubmitRetraining, Sleep, MarkStaleFails, Crash,
           Age, vars
  <2> QED
    BY <2>1, <2>2, <2>3, <2>4, <2>5, <2>6, <2>7 DEF Next, RunJob, RunScheduler
<1>5. \A t \in Tickers : /\ DOMAIN store'[t] \subseteq Versions(registry, t)'
                         /\ \A v \in DOMAIN store'[t] : store'[t][v] \in Artifacts
  <2>1. CASE store' = store
    BY <1>4, <2>1 DEF Rest
  <2>2. ASSUME NEW w \in Workers, SaveArtifacts(w)
        PROVE  \A t \in Tickers : /\ DOMAIN store'[t] \subseteq Versions(registry, t)'
                                  /\ \A v \in DOMAIN store'[t] : store'[t][v] \in Artifacts
    <3> DEFINE u == TickerOf(w)
               x == VersionOf(w)
    <3>1. PICK kind \in Artifacts : store' = [store EXCEPT ![u] = Saved(@, x, kind)]
      BY <2>2 DEF SaveArtifacts, Artifacts
    <3>2. x \in Versions(registry, u)
      BY <2>2 DEF SaveArtifacts, At, Running, IInv, Hands, ThreadOK, HasVersion, TickerOf,
             VersionOf, Versions
    <3> HIDE DEF u, x
    <3>3. \A t \in Tickers : \A v \in DOMAIN store'[t] :
             v \in Versions(registry, t) /\ store'[t][v] \in Artifacts
      BY <3>1, <3>2 DEF Saved, Rest, IInv, Types
    <3> QED
      BY <1>4, <3>3
  <2>3. ASSUME NEW w \in Workers, TakeJob(w) \/ MarkTraining(w) \/ TrainFails(w) \/ Publish(w)
               \/ MarkFailed(w) \/ FinishJob(w) \/ PublishFails(w) \/ MarkFails(w)
        PROVE  store' = store
    BY <2>3 DEF TakeJob, MarkTraining, TrainFails, Publish, MarkFailed, FinishJob, PublishFails,
           MarkFails
  <2>4. ASSUME NEW s \in Submitters, Register(s) \/ RegisterFails(s) \/ Enqueue(s)
        PROVE  store' = store
    BY <2>4 DEF Register, RegisterFails, Enqueue
  <2>5. CASE \/ \E c \in Clients, t \in Tickers : ClientSubmit(c, t)
             \/ RunScheduler \/ MarkStaleFails \/ Crash \/ UNCHANGED vars
             \/ \E t \in Tickers : \E v \in Versions(registry, t) : Age(t, v)
    BY <2>1, <2>5 DEF ClientSubmit, RunScheduler, ScanStale, MarkStale, SubmitRetraining, Sleep,
           MarkStaleFails, Crash, Age, vars
  <2> QED
    BY <2>1, <2>2, <2>3, <2>4, <2>5 DEF Next, RunJob
<1> QED
  BY <1>1, <1>2, <1>3, <1>5 DEF Rest

LEMMA TypesFollow == IInv /\ Owned /\ Bounded /\ Rest => TypeOK
<1> SUFFICES ASSUME IInv, Owned, Bounded, Rest PROVE TypeOK
  OBVIOUS
<1>1. ASSUME NEW t \in Tickers
      PROVE  /\ Len(registry[t].versions) <= MaxVersions
             /\ Versions(registry, t) = 1..Len(registry[t].versions)
             /\ registry[t].latest <= Len(registry[t].versions)
             /\ registry[t].best <= Len(registry[t].versions)
  <2>1. registry[t].versions \in Seq(Record) /\ registry[t].latest \in Nat /\ registry[t].best \in Nat
    BY DEF IInv, Types, TickerData
  <2>2. Versions(registry, t) = 1..Len(registry[t].versions) /\ Len(registry[t].versions) \in Nat
    BY <2>1 DEF Versions
  <2>3. Len(registry[t].versions) <= MaxVersions
    <3>1. Fits(t)
      BY DEF Bounded
    <3> QED
      BY <3>1, FitsInNat, PipelineAssumption DEF Fits
  <2>4. /\ registry[t].latest = 0 \/ registry[t].latest \in Versions(registry, t)
        /\ registry[t].best = 0 \/ registry[t].best \in Versions(registry, t)
    BY DEF IInv, BestKept, BestOK, Scored
  <2> QED
    BY <2>1, <2>2, <2>3, <2>4
<1>2. aged \subseteq Tickers \X (1..MaxVersions)
  <2> SUFFICES ASSUME NEW tv \in aged PROVE tv \in Tickers \X (1..MaxVersions)
    OBVIOUS
  <2>1. tv = <<tv[1], tv[2]>> /\ tv[1] \in Tickers /\ tv[2] \in Versions(registry, tv[1])
    BY DEF IInv, StaleOK
  <2>2. Len(registry[tv[1]].versions) \in Nat
    BY <2>1 DEF IInv, Types, TickerData
  <2>3. tv[2] \in 1..MaxVersions
    BY <1>1, <2>1, <2>2, PipelineAssumption
  <2> QED
    BY <2>1, <2>3
<1>3. jobs \in Seq(TrainingJob) /\ DOMAIN jobs = 1..Len(jobs) /\ Len(jobs) \in Nat
  BY DEF IInv, Types
<1>4. submitter \in [Submitters -> [pc : {"idle", "register", "enqueue"}, job : 0..Len(jobs)]]
  <2>1. \A s \in Submitters : submitter[s].job \in 0..Len(jobs)
    BY <1>3 DEF Rest, IInv, Hands, SubmitterOK
  <2> QED
    BY <2>1 DEF IInv, Types
<1>5. pool \in Seq(1..Len(jobs))
  <2>1. pool \in Seq(Nat) /\ \A i \in DOMAIN pool : pool[i] \in 1..Len(jobs)
    BY <1>3 DEF IInv, Types, Hands, PoolOK
  <2> QED
    BY <2>1
<1>6. thread \in [Workers -> [pc : ThreadPc, job : 0..Len(jobs)]]
  <2>1. \A w \in Workers : thread[w].job \in 0..Len(jobs)
    BY <1>3 DEF Owned, IInv, Hands, ThreadOK
  <2> QED
    BY <2>1 DEF IInv, Types
<1> QED
  BY <1>1, <1>2, <1>3, <1>4, <1>5, <1>6 DEF TypeOK, Rest, Bounded, IInv, Types, ThreadPc

LEMMA Invariance == Spec => []IInv
<1>1. IInv /\ [Next]_vars => IInv'
  BY Step
<1> QED
  BY <1>1, InitHolds, PTL DEF Spec

\* A version the registry calls ready or stale has its scalers and metadata on
\* disk, whatever crashes and whichever step fails.  Its model files may be
\* missing, since save_artifacts goes on when save_model fails.
THEOREM OnDisk == Spec => []ReadyIsOnDisk
<1>1. IInv => ReadyIsOnDisk
  BY DEF IInv
<1> QED
  BY <1>1, Invariance, PTL

\* No version is trained by two jobs.
THEOREM OneJob == Spec => []OneJobPerVersion
<1>1. IInv => OneJobPerVersion
  BY DEF IInv
<1> QED
  BY <1>1, Invariance, PTL

\* "best" is the version with the lowest RMSE, in whatever order runs publish.
THEOREM Best == Spec => []BestIsLowest
<1>1. IInv => BestIsLowest
  BY DEF IInv, BestKept, BestOK, Scored, BestIsLowest, get_best, get_latest, Status
<1> QED
  BY <1>1, Invariance, PTL

\* The life of a version never goes back.
THEOREM Order == Spec => LifecycleOrder
<1>1. IInv /\ [Next]_vars => [Follows]_vars
  BY Step
<1> QED
  BY <1>1, Invariance, PTL DEF Spec, LifecycleOrder, Follows

\* The job a client polls and the registry tell the same story, whatever
\* fails and crashes.
THEOREM SameStory == Spec => []JobMatchesRegistry
<1>1. IInv /\ Told /\ [Next]_vars => (IInv /\ Told)'
  BY Step, ToldStep
<1>2. IInv /\ Told => JobMatchesRegistry
  BY DEF Told, JobsTell, Tells, StageOf, JobMatchesRegistry, Status
<1> QED
  BY <1>1, <1>2, InitHolds, ToldInit, PTL DEF Spec

\* Until a registry write fails or the process crashes, every version that is
\* queued or training is in somebody's hands.
THEOREM EveryPendingOwned == Spec => []PendingIsOwned
<1>1. IInv /\ Owned /\ [Next]_vars => (IInv /\ Owned)'
  BY Step, OwnedStep
<1>2. IInv /\ Owned => PendingIsOwned
  BY DEF Owned
<1> QED
  BY <1>1, <1>2, InitHolds, OwnedInit, PTL DEF Spec

\* Every value has its type, and the versions in the registry, those about to
\* be registered and those to be retrained stay within the bound: the bound
\* never stops a thread half way.
THEOREM TypeCorrect == Spec => []TypeOK
<1>1. IInv /\ Owned /\ Bounded /\ Rest /\ [Next]_vars => (IInv /\ Owned /\ Bounded /\ Rest)'
  BY Step, OwnedStep, BoundedStep, RestStep
<1> QED
  BY <1>1, InitHolds, OwnedInit, RestInit, TypesFollow, PTL DEF Spec
===============================================================================
