---------------------------- MODULE ModelRegistry ----------------------------
(***************************************************************************)
(* The contents of model_artifacts/registry.json and what the methods of   *)
(* ml/registry.py make of it.  An operator maps the data a method reads to *)
(* the data it writes; who calls it, and how reads and writes interleave,  *)
(* is the business of the modules that EXTEND this one.                    *)
(*                                                                         *)
(* Versions are never removed and the next one is max + 1, so the versions *)
(* of a ticker are a sequence and version "vN" is its N-th element.        *)
(***************************************************************************)
EXTENDS Integers, Sequences, FiniteSets

CONSTANTS Tickers,
          Rmse     \* the ensemble RMSE values an evaluation can produce

ASSUME RegistryAssumption == Rmse \subseteq Nat

NoScore == -1 \* metrics = {}: compared as float("inf")

VALID_STATUSES == {"queued", "training", "ready", "stale", "failed"}

Record == [status : VALID_STATUSES, rmse : Rmse \cup {NoScore}]

TickerData == [latest : Nat, best : Nat, versions : Seq(Record)]

EmptyRegistry == [t \in Tickers |-> [latest |-> 0, best |-> 0, versions |-> <<>>]]

Versions(d, t) == DOMAIN d[t].versions

\* "v1" for a new ticker, max + 1 afterwards (or max again, by mistake).
_last_version(d, t) == IF d[t].versions = <<>> THEN 1 ELSE Len(d[t].versions)
_next_version(d, t) == Len(d[t].versions) + 1

register(d, t) ==
    [d EXCEPT ![t].versions = Append(@, [status |-> "queued", rmse |-> NoScore])]

\* new_rmse < best_rmse, with a missing score as infinity.
Lower(a, b) == a # NoScore /\ (b = NoScore \/ a < b)

\* The newest version counts as the best one.
NewBestIsNewest(d, t, v, rmse) == v

NewBest(d, t, v, rmse) ==
    IF d[t].best = 0 \/ Lower(rmse, d[t].versions[d[t].best].rmse)
    THEN v ELSE d[t].best

\* update_status to "training" or "failed".
update_status(d, t, v, status) == [d EXCEPT ![t].versions[v].status = status]

\* update_status to "ready": the version becomes the latest, and the best one
\* if it is the first or has a lower RMSE than the best one so far.
update_ready_ahead(d, t, v, rmse) ==
    [d EXCEPT ![t].versions[v] = [status |-> "ready", rmse |-> rmse],
              ![t].latest = _next_version(d, t),
              ![t].best = NewBest(d, t, v, rmse)]
update_ready(d, t, v, rmse) ==
    [d EXCEPT ![t].versions[v] = [status |-> "ready", rmse |-> rmse],
              ![t].latest = v,
              ![t].best = NewBest(d, t, v, rmse)]

mark_stale(d, t, v) == [d EXCEPT ![t].versions[v].status = "stale"]

\* get_latest() and get_best(): the version a pointer names, 0 if none.
get_latest(d, t) == d[t].latest
get_best(d, t)   == d[t].best

IsReady(d, t, v) == v # 0 /\ d[t].versions[v].status = "ready"

\* get_stale_ready_models(): ready records among those trained too long ago.
get_stale_ready_models(d, aged) == {tv \in aged : IsReady(d, tv[1], tv[2])}
==============================================================================
