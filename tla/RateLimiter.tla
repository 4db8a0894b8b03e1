----------------------------- MODULE RateLimiter -----------------------------
(***************************************************************************)
(* The two limiters of core/rate_limiter.py as functions of their state:   *)
(* a token bucket (tokens, time of the last refill) and a sliding window   *)
(* (the deque of the timestamps it admitted).  Time and tokens are         *)
(* integers: a call costs Cost, a unit of time refills Rate, so any        *)
(* rational rate is an instance.  Buckets and windows of different clients *)
(* share nothing, so one client stands for each.                           *)
(***************************************************************************)
EXTENDS Integers, Sequences, SequencesExt

CONSTANTS
    Capacity,  \* burst_capacity
    Rate,      \* burst_rate per unit of time
    Cost,      \* what one call consumes
    MaxCalls,  \* window_max
    WindowS    \* window_s

ASSUME LimiterAssumption ==
    /\ Capacity \in Nat /\ Rate \in Nat /\ Cost \in Nat \ {0}
    /\ MaxCalls \in Nat \ {0}
    /\ WindowS \in Nat

NewBucket(now) == [tokens |-> Capacity, last |-> now]

Uncapped(b, now) == b.tokens + (now - b.last) * Rate

\* min(capacity, tokens + elapsed * rate), without the cap first.
RefilledFreely(b, now) == Uncapped(b, now)
Refilled(b, now) ==
    IF Uncapped(b, now) <= Capacity THEN Uncapped(b, now) ELSE Capacity

HasTokens(b, now) == Refilled(b, now) >= Cost

\* TokenBucket.allow: refills in either case, pays if it can.
bucket_allow(b, now) ==
    [tokens |-> Refilled(b, now) - (IF HasTokens(b, now) THEN Cost ELSE 0),
     last   |-> now]

\* A timestamp is kept while it is at most WindowS old, WindowS included.
KeptWhileYounger(ts, now) == ts > now - WindowS
Kept(ts, now)             == ts >= now - WindowS

\* while win and win[0] < cutoff: win.popleft() stops at the first timestamp
\* that is kept, also if an older one is behind it.
Evicted(win, now) ==
    LET i == SelectInSeq(win, LAMBDA ts : Kept(ts, now))
    IN IF i = 0 THEN <<>> ELSE SubSeq(win, i, Len(win))

HasRoomForOneMore(win, now) == Len(Evicted(win, now)) <= MaxCalls
HasRoom(win, now)           == Len(Evicted(win, now)) < MaxCalls

\* SlidingWindowLimiter.allow
window_allow(win, now) ==
    IF HasRoom(win, now) THEN Append(Evicted(win, now), now) ELSE Evicted(win, now)
==============================================================================
