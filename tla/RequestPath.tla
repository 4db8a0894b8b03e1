----------------------------- MODULE RequestPath -----------------------------
(***************************************************************************)
(* The way of a request through one server process: the hooks of           *)
(* app/middleware/observability.py, the limiters, the handler with the     *)
(* error handlers behind it, and the metrics.  Three kinds of request are  *)
(* told apart: "api" (a POST, so rate limited; its endpoint is one of      *)
(* Endpoints), "metrics" (GET /metrics, which walks the live histogram)    *)
(* and "ready" (GET /ready, which writes and removes a probe file).        *)
(*                                                                         *)
(* Each critical section and each file operation is one action.            *)
(***************************************************************************)
EXTENDS RateLimiter, Metrics

CONSTANTS
    Threads,      \* request threads of the process
    Endpoints,    \* request paths of rate-limited requests
    Answers,      \* the statuses that handlers answer with themselves
    Raised,       \* the exceptions that handlers, or the routing, raise
    Kinds,        \* kinds of requests clients send
    MaxClock,     \* bound: length of an execution in units of time
    MaxLag,       \* bound: time between a clock read and the lock after it
    MaxRequests   \* bound: requests

\* What the routes answer with, the hooks and the error handlers included.
Statuses == {200, 201, 202, 400, 401, 404, 405, 409, 422, 429, 500, 502, 503}

ASSUME PathAssumption ==
    /\ Kinds \subseteq {"api", "metrics", "ready"}
    /\ Answers \subseteq Statuses \ {429}
    /\ IsFiniteSet(Threads)
    /\ MaxClock \in Nat /\ MaxLag \in Nat /\ MaxRequests \in Nat

VARIABLES
    clock,
    bucket,     \* the client's TokenBucket
    win,        \* the client's deque of the SlidingWindowLimiter
    latency,    \* http_latency_seconds.data: a function on the endpoints seen
    total,      \* http_requests_total by status
    probe,      \* TRUE: .health_check_tmp exists
    thread,     \* what each request thread is doing
    requests,   \* requests so far
    spent,      \* history: when the bucket let calls pass
    passed,     \* history: when the window let calls pass
    observed,   \* history: observed[e], the latencies of endpoint e
    answered    \* history: the responses that have passed _after

limiter == <<bucket, win, spent, passed>>
metrics == <<latency, total, observed, answered>>
vars == <<clock, limiter, metrics, probe, thread, requests>>

Paths == Endpoints \cup {"/metrics", "/ready"}

\* register_error_handlers: the handler of the most specific class wins, and
\* the one of Exception takes the rest, the other errors of werkzeug included.
status_of(exc) ==
    CASE exc = "DataFetchError"                      -> 502
      [] exc = "InsufficientDataError"               -> 422
      [] exc \in {"ModelNotFoundError", "NotFound"} -> 404
      [] exc = "MethodNotAllowed"                    -> 405
      [] OTHER                                       -> 500

Idle == [pc |-> "idle", path |-> "none", now |-> 0, status |-> 200,
         todo |-> {}, size |-> 0, report |-> {}]

Init ==
    /\ clock = 0
    /\ bucket = NewBucket(0)
    /\ win = <<>>
    /\ latency = [e \in {} |-> _init_label]
    /\ total = [s \in Statuses |-> 0]
    /\ probe = FALSE
    /\ thread = [t \in Threads |-> Idle]
    /\ requests = 0
    /\ spent = <<>> /\ passed = <<>>
    /\ observed = [e \in Paths |-> <<>>]
    /\ answered = <<>>

At(t, pc) == thread[t].pc = pc

Goto(t, pc) == thread' = [thread EXCEPT ![t].pc = pc]

Respond(t, status) ==
    thread' = [thread EXCEPT ![t].pc = "observe", ![t].status = status]

\* Time passes; how long a thread can be kept from a lock is bounded.
Tick ==
    /\ clock < MaxClock
    /\ \A t \in Threads : At(t, "window") => clock - thread[t].now < MaxLag
    /\ clock' = clock + 1
    /\ UNCHANGED <<limiter, metrics, probe, thread, requests>>

-------------------------------------------------------------------------------
(* _before: POST and DELETE pass the limiters, everything else does not.   *)

PathsOf(kind) ==
    CASE kind = "api" -> Endpoints
      [] kind = "metrics" -> {"/metrics"}
      [] kind = "ready" -> {"/ready"}

Arrive(t, kind) ==
    /\ At(t, "idle")
    /\ requests < MaxRequests
    /\ requests' = requests + 1
    /\ \E path \in PathsOf(kind) :
          thread' = [thread EXCEPT ![t].pc = IF kind = "api" THEN "bucket" ELSE kind,
                                   ![t].path = path]
    /\ UNCHANGED <<clock, limiter, metrics, probe>>

\* self._tb.allow(key), under the bucket's lock; a refusal ends the "and".
PassBucket(t) ==
    /\ At(t, "bucket")
    /\ bucket' = bucket_allow(bucket, clock)
    /\ IF HasTokens(bucket, clock)
       THEN spent' = Append(spent, clock) /\ Goto(t, "clock")
       ELSE UNCHANGED spent /\ Goto(t, "refuse")
    /\ UNCHANGED <<clock, win, passed, metrics, probe, requests>>

\* self._sw.allow(key): now = time.monotonic(), before the lock ...
ReadClock(t) ==
    /\ At(t, "clock")
    /\ thread' = [thread EXCEPT ![t].pc = "window", ![t].now = clock]
    /\ UNCHANGED <<clock, limiter, metrics, probe, requests>>

\* ... and the rest under it.
PassWindow(t) ==
    LET now == thread[t].now IN
    /\ At(t, "window")
    /\ win' = window_allow(win, now)
    /\ IF HasRoom(win, now)
       THEN passed' = Append(passed, clock) /\ Goto(t, "handle")
       ELSE UNCHANGED passed /\ Goto(t, "refuse")
    /\ UNCHANGED <<clock, bucket, spent, metrics, probe, requests>>

Inc(counter, status) == [counter EXCEPT ![status] = @ + 1]

\* http_requests_total.inc(status="429"); _after counts the response again.
Refuse(t) ==
    /\ At(t, "refuse")
    /\ total' = Inc(total, 429)
    /\ Respond(t, 429)
    /\ UNCHANGED <<clock, limiter, latency, observed, answered, probe, requests>>

-------------------------------------------------------------------------------
(* Handlers.                                                               *)

Handle(t) ==
    /\ At(t, "handle")
    /\ \E status \in Answers \cup {status_of(exc) : exc \in Raised} : Respond(t, status)
    /\ UNCHANGED <<clock, limiter, metrics, probe, requests>>

\* for key in m.data: the iteration starts, without the histogram's lock.
StartScrape(t) ==
    /\ At(t, "metrics")
    /\ thread' = [thread EXCEPT ![t].pc = "scrape", ![t].todo = DOMAIN latency,
                                ![t].size = Cardinality(DOMAIN latency)]
    /\ UNCHANGED <<clock, limiter, metrics, probe, requests>>

\* "dictionary changed size during iteration"
Changed(t) == Cardinality(DOMAIN latency) # thread[t].size

ScrapeFails(t) ==
    /\ At(t, "scrape")
    /\ Changed(t)
    /\ Respond(t, 500)
    /\ UNCHANGED <<clock, limiter, metrics, probe, requests>>

\* The snapshot of the next endpoint, under the lock.
ScrapeNext(t) ==
    /\ At(t, "scrape")
    /\ ~Changed(t)
    /\ \E e \in thread[t].todo :
          thread' = [thread EXCEPT ![t].todo = @ \ {e},
                        ![t].report = @ \cup {[path |-> e, snap |-> snapshot(latency[e]),
                                               seen |-> observed[e]]}]
    /\ UNCHANGED <<clock, limiter, metrics, probe, requests>>

ScrapeEnds(t) ==
    /\ At(t, "scrape")
    /\ ~Changed(t)
    /\ thread[t].todo = {}
    /\ Respond(t, 200)
    /\ UNCHANGED <<clock, limiter, metrics, probe, requests>>

\* open(test_path, "w"); os.remove(test_path).  The directory is writable.
WriteProbe(t) ==
    /\ At(t, "ready")
    /\ probe' = TRUE
    /\ Goto(t, "remove")
    /\ UNCHANGED <<clock, limiter, metrics, requests>>

\* A file that is gone raises, which the handler reports as "unready".
RemoveProbe(t) ==
    /\ At(t, "remove")
    /\ probe' = FALSE
    /\ Respond(t, IF probe THEN 200 ELSE 503)
    /\ UNCHANGED <<clock, limiter, metrics, requests>>

-------------------------------------------------------------------------------
(* _after: latency first, then the counter.                                *)

DataOf(e) == IF e \in DOMAIN latency THEN latency[e] ELSE _init_label

\* A hook that an exception in the handler would skip.
CountUnlessFailed(counter, status) ==
    IF status >= 500 THEN counter ELSE Inc(counter, status)

Counted(counter, status) == Inc(counter, status)

Observe(t) ==
    LET e == thread[t].path IN
    /\ At(t, "observe")
    /\ \E value \in Boundaries :
          /\ latency' = [p \in DOMAIN latency \cup {e} |->
                            IF p = e THEN observe(DataOf(e), value) ELSE latency[p]]
          /\ observed' = [observed EXCEPT ![e] = Append(@, value)]
    /\ Goto(t, "count")
    /\ UNCHANGED <<clock, limiter, total, answered, probe, requests>>

Count(t) ==
    /\ At(t, "count")
    /\ total' = Counted(total, thread[t].status)
    /\ answered' = Append(answered, [path |-> thread[t].path, status |-> thread[t].status])
    /\ thread' = [thread EXCEPT ![t] = Idle]
    /\ UNCHANGED <<clock, limiter, latency, observed, probe, requests>>

-------------------------------------------------------------------------------
Serve(t) ==
    \/ PassBucket(t) \/ ReadClock(t) \/ PassWindow(t) \/ Refuse(t) \/ Handle(t)
    \/ StartScrape(t) \/ ScrapeFails(t) \/ ScrapeNext(t) \/ ScrapeEnds(t)
    \/ WriteProbe(t) \/ RemoveProbe(t) \/ Observe(t) \/ Count(t)

Next ==
    \/ Tick
    \/ \E t \in Threads : (\E kind \in Kinds : Arrive(t, kind)) \/ Serve(t)

Spec == Init /\ [][Next]_vars

-------------------------------------------------------------------------------
(* Properties.                                                             *)

\* Types; the deque never holds more than max_calls timestamps, which is the
\* memory bound rate_limiter.py promises, and the bucket never overflows.
TypeOK ==
    /\ clock \in Nat
    /\ bucket \in [tokens : 0..Capacity, last : 0..clock]
    /\ win \in Seq(0..clock) /\ Len(win) <= MaxCalls
    /\ spent \in Seq(0..clock) /\ passed \in Seq(0..clock)
    /\ DOMAIN latency \subseteq Paths
    /\ \A e \in DOMAIN latency :
          latency[e] \in [counts : [Boundaries -> Nat], count : Nat]
    /\ total \in [Statuses -> Nat]
    /\ answered \in Seq([path : Paths, status : Statuses])
    /\ observed \in [Paths -> Seq(Boundaries)]
    /\ probe \in BOOLEAN
    /\ \A t \in Threads : thread[t].now \in 0..clock /\ thread[t].todo \subseteq Paths
    /\ requests \in 0..MaxRequests

\* "A burst of up to capacity tokens": between any two moments the bucket lets
\* no more calls pass than its capacity and the refill of the time between
\* them pay for, however the threads interleave.
BurstBound ==
    \A i, j \in DOMAIN spent :
        i <= j => (j - i + 1) * Cost <= Capacity + Rate * (spent[j] - spent[i])

\* What the sliding window guarantees: a call may read the clock MaxLag before
\* it gets the lock, and any period shorter than WindowS by that much holds at
\* most MaxCalls admitted calls.
WindowBound ==
    \A j \in DOMAIN passed :
        j > MaxCalls => passed[j] - passed[j - MaxCalls] > WindowS - MaxLag

\* How many elements of sequence s are in S.
Number(s, S) == Cardinality({i \in DOMAIN s : s[i] \in S})

\* Whatever a scrape reports of an endpoint is true of the latencies observed
\* there up to that moment: their number, and for each quantile the smallest
\* boundary that so large a part of them does not exceed.
ReportsAreSound ==
    \A t \in Threads : \A r \in thread[t].report :
        LET n == Len(r.seen)
            Quantile(pct) == Min({l \in Boundaries : Number(r.seen, 1..l) * 100 >= pct * n})
        IN r.snap = [count |-> n, p50 |-> Quantile(50), p95 |-> Quantile(95)]

\* Requests that are in the histogram and not yet in the counter.
Between(e) == {t \in Threads : At(t, "count") /\ thread[t].path = e}

\* The responses with status s, and those of endpoint e.
With(s) == Number(answered, [path : Paths, status : {s}])
Of(e)   == Number(answered, [path : {e}, status : Statuses])

\* What the two http metrics say about each other at any moment: no response is
\* missing from the counter by status, and apart from rejections none is there
\* twice; and the histogram by endpoint accounts for the same responses, one that
\* is between the two statements of _after being in the histogram alone.
CountersReconcile ==
    /\ \A s \in Statuses :
          total[s] >= With(s) /\ (s # 429 => total[s] = With(s))
    /\ \A e \in Paths : DataOf(e).count = Of(e) + Cardinality(Between(e))

\* "Total HTTP requests" (metrics.py:291): when no request is under way, the
\* counter has one count for each response, whatever its status.
OneCountPerResponse ==
    (\A t \in Threads : At(t, "idle")) => \A s \in Statuses : total[s] = With(s)
===============================================================================
