--------------------------- MODULE InferenceEngine ---------------------------
(***************************************************************************)
(* Serving predictions, ml/inference.py: requests resolve a version in the *)
(* registry, look into a two-level cache (a dict per process, pickle files *)
(* in a directory that all processes share), and on a miss load artifacts, *)
(* compute and fill both levels.  DELETE /api/v2/cache flushes, models go  *)
(* stale, and a process may be restarted between any two steps.            *)
(*                                                                         *)
(* A prediction is an object: the dict a request computed or unpickled,    *)
(* known by the number of that request; "by" and "born" say who computed   *)
(* it and when.  Threads and the memory level share it by reference; a     *)
(* file holds a copy.                                                      *)
(***************************************************************************)
EXTENDS ModelRegistry

CONSTANTS
    Threads,      \* request threads
    Procs,        \* server processes
    ProcessOf,    \* ProcessOf[t]: the process thread t belongs to
    TTL,          \* ttl_seconds
    MaxClock,     \* bound: length of an execution
    MaxVersions,  \* bound: versions published per ticker
    MaxRequests,  \* bound: requests
    MaxFaults     \* bound: failed saves, aging, flushes, restarts

ASSUME EngineAssumption ==
    /\ ProcessOf \in [Threads -> Procs]
    /\ TTL \in Nat \ {0} /\ MaxClock \in Nat
    /\ MaxVersions \in Nat /\ MaxRequests \in Nat /\ MaxFaults \in Nat

VARIABLES
    clock,
    registry,  \* registry.json
    store,     \* the kind of artifacts of each version on disk
    mem,       \* mem[p]: _mem, a function on the cached keys
    disk,      \* the pickle files
    object,    \* the prediction dicts
    thread,
    requests,  \* requests so far
    flush,     \* where a running flush is
    faults     \* such disturbances so far

vars == <<clock, registry, store, mem, disk, object, thread, requests,
          flush, faults>>

Keys == Tickers \X (1..MaxVersions)

\* pred_{ticker}_{version}_..., for one window of dates.
KeyOfTicker(t, v) == <<t, 1>>
cache_key(t, v)   == <<t, v>>

NoObject == [key |-> <<>>, by |-> 0, born |-> 0, from_cache |-> FALSE]
NoFile   == [state |-> "none", val |-> NoObject, ts |-> 0, writers |-> {}]
Idle     == [pc |-> "idle", id |-> 0, key |-> <<>>, now |-> 0, val |-> 0, ts |-> 0]
NoFlush  == [pc |-> "idle", proc |-> "none", files |-> {}]
Empty    == [k \in {} |-> 0]

Init ==
    /\ clock = 0
    /\ registry = EmptyRegistry
    /\ store = [k \in Keys |-> "none"]
    /\ mem = [p \in Procs |-> Empty]
    /\ disk = [k \in Keys |-> NoFile]
    /\ object = [i \in 1..MaxRequests |-> NoObject]
    /\ thread = [t \in Threads |-> Idle]
    /\ requests = 0
    /\ flush = NoFlush
    /\ faults = 0

At(t, pc) == thread[t].pc = pc
Goto(t, pc) == thread' = [thread EXCEPT ![t].pc = pc]
Home(t) == ProcessOf[t]
Key(t) == cache_key(thread[t].key[1], thread[t].key[2])

\* d with key k set or removed.
With(d, k, e) == [x \in DOMAIN d \cup {k} |-> IF x = k THEN e ELSE d[x]]
Without(d, k) == [x \in DOMAIN d \ {k} |-> d[x]]

\* One more disturbance.
Disturb == faults < MaxFaults /\ faults' = faults + 1

Fresh(now, ts) == now - ts < TTL

-------------------------------------------------------------------------------
(* The environment: time, training, aging.                                 *)

Tick ==
    /\ clock < MaxClock
    /\ clock' = clock + 1
    /\ UNCHANGED <<registry, store, mem, disk, object, thread, requests,
                   flush, faults>>

\* A training run ends: artifacts are saved (or only the scalers, if every
\* save_model failed), then the version is ready.
Train(t) ==
    /\ Len(registry[t].versions) < MaxVersions
    /\ LET v == _next_version(registry, t) IN
       /\ \E rmse \in Rmse :
             registry' = update_ready(register(registry, t), t, v, rmse)
       /\ \/ store' = [store EXCEPT ![<<t, v>>] = "full"] /\ UNCHANGED faults
          \/ store' = [store EXCEPT ![<<t, v>>] = "empty"] /\ Disturb
    /\ UNCHANGED <<clock, mem, disk, object, thread, requests, flush>>

\* RetrainingScheduler: mark_stale.
Stale(t, v) ==
    /\ IsReady(registry, t, v)
    /\ Disturb
    /\ registry' = mark_stale(registry, t, v)
    /\ UNCHANGED <<clock, store, mem, disk, object, thread, requests, flush>>

\* The process dies and is started again; its threads and memory are lost.
Restart(p) ==
    /\ Disturb
    /\ mem' = [mem EXCEPT ![p] = Empty]
    /\ thread' = [t \in Threads |-> IF Home(t) = p THEN Idle ELSE thread[t]]
    /\ flush' = IF flush.proc = p THEN NoFlush ELSE flush
    /\ UNCHANGED <<clock, registry, store, disk, object, requests>>

-------------------------------------------------------------------------------
(* InferenceEngine.predict and InferenceCache.get.                         *)

\* Resolves "best" or "latest" to a version, or takes the one that is named.
\* (If it is not ready the answer is an error, and nothing changes.)
predict(t) ==
    /\ At(t, "idle")
    /\ requests < MaxRequests
    /\ requests' = requests + 1
    /\ \E tk \in Tickers, force_refresh \in BOOLEAN :
       \E v \in Versions(registry, tk) \cup {get_best(registry, tk), get_latest(registry, tk)} :
          /\ IsReady(registry, tk, v)
          /\ thread' = [thread EXCEPT ![t] =
                [Idle EXCEPT !.pc = IF force_refresh THEN "load" ELSE "get",
                             !.id = requests + 1, !.key = <<tk, v>>, !.now = clock]]
    /\ UNCHANGED <<clock, registry, store, mem, disk, object, flush, faults>>

\* L1, under the lock: a fresh entry is returned, an expired one deleted.
GetMem(t) ==
    LET m == mem[Home(t)]
        k == Key(t)
        hit == k \in DOMAIN m /\ Fresh(thread[t].now, m[k].ts)
    IN /\ At(t, "get")
       /\ thread' = IF hit THEN [thread EXCEPT ![t].pc = "hit", ![t].val = m[k].val]
                           ELSE [thread EXCEPT ![t].pc = "disk"]
       /\ mem' = IF hit THEN mem ELSE [mem EXCEPT ![Home(t)] = Without(m, k)]
       /\ UNCHANGED <<clock, registry, store, disk, object, requests, flush,
                      faults>>

\* A file that exists can be read, or only one that was written to its end.
ReadableIfPresent(f) == f.state # "none"
Readable(f) == f.state = "full"

\* L2: a readable, fresh file becomes a new object; a torn file raises and
\* counts as a miss.
GetDisk(t) ==
    LET f == disk[Key(t)] IN
    /\ At(t, "disk")
    /\ IF Readable(f) /\ Fresh(thread[t].now, f.ts)
       THEN /\ object' = [object EXCEPT ![thread[t].id] = f.val]
            /\ thread' = [thread EXCEPT ![t].pc = "promote", ![t].ts = f.ts,
                                        ![t].val = thread[t].id]
       ELSE /\ Goto(t, IF Readable(f) THEN "expire" ELSE "load")
            /\ UNCHANGED object
    /\ UNCHANGED <<clock, registry, store, mem, disk, requests, flush, faults>>

\* The entry is promoted to L1 with the timestamp of the file (or of now).
PromotedTs(t) == clock
EntryTs(t) == thread[t].ts

Promote(t) ==
    /\ At(t, "promote")
    /\ mem' = [mem EXCEPT ![Home(t)] =
                  With(@, Key(t), [val |-> thread[t].val,
                                   ts |-> EntryTs(t)])]
    /\ Goto(t, "hit")
    /\ UNCHANGED <<clock, registry, store, disk, object, requests, flush, faults>>

\* os.remove(path): whatever file has that name by now.
Expire(t) ==
    /\ At(t, "expire")
    /\ disk' = [disk EXCEPT ![Key(t)] = NoFile]
    /\ Goto(t, "load")
    /\ UNCHANGED <<clock, registry, store, mem, object, requests, flush, faults>>

\* cached["from_cache"] = True, or nothing for an object from a file.
MarkSharedOnly(t) ==
    IF thread[t].val = thread[t].id THEN object
    ELSE [object EXCEPT ![thread[t].val].from_cache = TRUE]
MarkCached(t) == [object EXCEPT ![thread[t].val].from_cache = TRUE]

Hit(t) ==
    /\ At(t, "hit")
    /\ object' = MarkCached(t)
    /\ Goto(t, "reply")
    /\ UNCHANGED <<clock, registry, store, mem, disk, requests, flush, faults>>

-------------------------------------------------------------------------------
(* A miss: _load_artifacts, the pipeline, InferenceCache.set.              *)

\* load_artifacts: the scalers, the metadata and at least one of the models.
Loadable(k) == store[k] = "full"

\* None if no model can be read: the request ends with an error.  What
\* load_artifacts returns for a ready version never changes, so it makes no
\* difference whether the warm cache of the process has it.
_load_artifacts(t) ==
    /\ At(t, "load")
    /\ thread' = [thread EXCEPT ![t] =
          IF Loadable(@.key) THEN [@ EXCEPT !.pc = "compute"] ELSE Idle]
    /\ UNCHANGED <<clock, registry, store, mem, disk, object, requests, flush, faults>>

\* The pipeline raises, or the result dict is built and set() puts it into L1.
Compute(t) ==
    /\ At(t, "compute")
    /\ \/ /\ object' = [object EXCEPT ![thread[t].id] =
                          [key |-> thread[t].key, by |-> thread[t].id, born |-> clock,
                           from_cache |-> FALSE]]
          /\ thread' = [thread EXCEPT ![t].pc = "open", ![t].val = thread[t].id,
                                      ![t].ts = clock]
          /\ mem' = [mem EXCEPT ![Home(t)] =
                        With(@, Key(t), [val |-> thread[t].id, ts |-> clock])]
       \/ thread' = [thread EXCEPT ![t] = Idle] /\ UNCHANGED <<object, mem>>
    /\ UNCHANGED <<clock, registry, store, disk, requests, flush, faults>>

\* open(path, "wb") truncates the file.
OpenFile(t) ==
    /\ At(t, "open")
    /\ disk' = [disk EXCEPT ![Key(t)] =
                    [NoFile EXCEPT !.state = "torn", !.writers = disk[Key(t)].writers \cup {t}]]
    /\ Goto(t, "dump")
    /\ UNCHANGED <<clock, registry, store, mem, object, requests, flush, faults>>

\* pickle.dump of the object as it is now, into the file this thread opened if
\* it still has that name.  Errors are swallowed, and of two overlapping
\* writers either wins or nobody can read the file.
Dump(t) ==
    LET f == disk[Key(t)]
        written == [state |-> "full", val |-> object[thread[t].val],
                    ts |-> thread[t].ts, writers |-> f.writers \ {t}]
    IN /\ At(t, "dump")
       /\ \E g \in IF t \in f.writers THEN {written, [f EXCEPT !.state = "torn"]}
                                      ELSE {f} :
             disk' = [disk EXCEPT ![Key(t)] = g]
       /\ Goto(t, "reply")
       /\ UNCHANGED <<clock, registry, store, mem, object, requests, flush, faults>>

\* The dict goes into the response.
Reply(t) ==
    /\ At(t, "reply")
    /\ thread' = [thread EXCEPT ![t] = Idle]
    /\ UNCHANGED <<clock, registry, store, mem, disk, object, requests, flush,
                   faults>>

-------------------------------------------------------------------------------
(* DELETE /api/v2/cache: flush(), then evict_artifacts().                  *)

FlushMem(p) ==
    /\ flush.pc = "idle"
    /\ Disturb
    /\ mem' = [mem EXCEPT ![p] = Empty]
    /\ flush' = [NoFlush EXCEPT !.pc = "list", !.proc = p]
    /\ UNCHANGED <<clock, registry, store, disk, object, thread, requests>>

\* The flush goes on with these files, or ends.
Remaining(files) ==
    IF files = {} THEN NoFlush ELSE [flush EXCEPT !.pc = "remove", !.files = files]

ListFiles ==
    /\ flush.pc = "list"
    /\ flush' = Remaining({k \in Keys : disk[k].state # "none"})
    /\ UNCHANGED <<clock, registry, store, mem, disk, object, thread, requests,
                   faults>>

RemoveFile ==
    /\ flush.pc = "remove"
    /\ \E k \in flush.files :
          /\ disk' = [disk EXCEPT ![k] = NoFile]
          /\ flush' = Remaining(flush.files \ {k})
    /\ UNCHANGED <<clock, registry, store, mem, object, thread, requests, faults>>

-------------------------------------------------------------------------------
Serve(t) ==
    \/ predict(t) \/ GetMem(t) \/ GetDisk(t) \/ Promote(t) \/ Expire(t) \/ Hit(t)
    \/ _load_artifacts(t) \/ Compute(t) \/ OpenFile(t) \/ Dump(t) \/ Reply(t)

Next ==
    \/ Tick
    \/ \E t \in Tickers : Train(t) \/ \E v \in Versions(registry, t) : Stale(t, v)
    \/ \E p \in Procs : Restart(p) \/ FlushMem(p)
    \/ \E t \in Threads : Serve(t)
    \/ ListFiles \/ RemoveFile

Spec == Init /\ [][Next]_vars

-------------------------------------------------------------------------------
(* Properties.                                                             *)

\* Threads and entries refer to requests that exist, and an entry of the memory
\* level is a complete prediction, never what a torn file yields.
TypeOK ==
    /\ clock \in 0..MaxClock /\ requests \in 0..MaxRequests /\ faults \in 0..MaxFaults
    /\ \A t \in Threads : thread[t].id \in 0..requests /\ thread[t].val \in 0..requests
    /\ \A p \in Procs : \A k \in DOMAIN mem[p] : object[mem[p][k].val].by \in 1..requests
    /\ \A k \in Keys : disk[k].state \in {"none", "torn", "full"}

\* An answer from the cache was computed less than TTL before the request
\* read the clock, whichever levels it came through and however often the
\* entry was promoted, evicted and written again.
AnswersAreFresh ==
    \A t \in Threads : At(t, "reply") =>
        Fresh(thread[t].now, object[thread[t].val].born)

\* An answer is a prediction for the ticker and version that the request
\* resolved, also when versions change and files are replaced meanwhile.
AnswersMatchRequest ==
    \A t \in Threads : At(t, "reply") => object[thread[t].val].key = thread[t].key

\* An answer that says from_cache = False was computed by this request: the
\* label may be wrong the other way round (a shared object is marked by a
\* later hit before its first answer is sent), never this way.
LiveMeansLive ==
    \A t \in Threads : At(t, "reply") /\ ~object[thread[t].val].from_cache =>
        object[thread[t].val].by = thread[t].id
===============================================================================
