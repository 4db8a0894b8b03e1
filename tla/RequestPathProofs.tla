-------------------------- MODULE RequestPathProofs --------------------------
(***************************************************************************)
(* What the two rate limiters guarantee, for any rates, capacities and     *)
(* windows, any number of threads and requests and any lag between reading *)
(* the clock and getting the lock; and that the metrics agree with the     *)
(* responses and with each other, for any endpoints and boundaries.        *)
(***************************************************************************)
EXTENDS RequestPath, WellFoundedInduction, FiniteSetTheorems, TLAPS

-------------------------------------------------------------------------------
(* The token bucket.                                                       *)

\* The tokens that m calls consume, and those that time d refills.
Price(m)  == m * Cost
Refund(d) == Rate * d

LEMMA PriceType == ASSUME NEW m \in Int PROVE Price(m) \in Int /\ Price(m + 1) = Price(m) + Cost
BY LimiterAssumption DEF Price

LEMMA PriceOfOne == Price(1) = Cost
BY LimiterAssumption DEF Price

LEMMA RefundType ==
    ASSUME NEW d \in Int
    PROVE  Refund(d) \in Int /\ (d >= 0 => Refund(d) >= 0) /\ (d = 0 => Refund(d) = 0)
BY LimiterAssumption DEF Refund

LEMMA RefundSum ==
    ASSUME NEW now \in Nat, NEW last \in Nat, NEW s \in Nat
    PROVE  Refund(now - s) = Refund(last - s) + Refund(now - last)
BY LimiterAssumption DEF Refund

\* A debt that was covered at time last is covered after a refill.
LEMMA Elapsed ==
    ASSUME NEW now \in Nat, NEW last \in Nat, NEW s \in Nat,
           NEW cost \in Int, NEW tokens \in Nat, NEW left \in Nat,
           left <= tokens + Refund(now - last),
           cost + tokens <= Capacity + Refund(last - s)
    PROVE  cost + left <= Capacity + Refund(now - s)
<1>1. now - s \in Int /\ last - s \in Int /\ now - last \in Int
  OBVIOUS
<1>2. Refund(now - s) \in Int /\ Refund(last - s) \in Int /\ Refund(now - last) \in Int
  BY <1>1, RefundType
<1>3. Refund(now - s) = Refund(last - s) + Refund(now - last)
  BY RefundSum
<1> QED
  BY <1>2, <1>3, LimiterAssumption

\* What was spent from the i-th call that passed until now, and what is left,
\* is paid for by the capacity and the refill since then.
BucketOK ==
    /\ clock \in Nat
    /\ bucket \in [tokens : 0..Capacity, last : 0..clock]
    /\ spent \in Seq(Nat)
    /\ \A i \in 1..Len(spent) :
          Price(Len(spent) + 1 - i) + bucket.tokens
              <= Capacity + Refund(bucket.last - spent[i])

LEMMA BurstBoundIs ==
    BurstBound <=>
        \A i, j \in DOMAIN spent :
            i <= j => Price(j - i + 1) <= Capacity + Refund(spent[j] - spent[i])
BY DEF BurstBound, Price, Refund

\* A refill never takes tokens away, and pays at most for the time elapsed.
LEMMA Refill ==
    ASSUME NEW b \in [tokens : 0..Capacity, last : Nat], NEW now \in Nat, b.last <= now
    PROVE  /\ Refilled(b, now) \in 0..Capacity
           /\ Refilled(b, now) <= b.tokens + Refund(now - b.last)
<1>1. now - b.last \in Int /\ now - b.last >= 0
  OBVIOUS
<1>2. Refund(now - b.last) \in Nat
  BY <1>1, RefundType
<1>3. (now - b.last) * Rate = Refund(now - b.last)
  BY LimiterAssumption DEF Refund
<1> QED
  BY <1>2, <1>3, LimiterAssumption DEF Refilled, Uncapped

LEMMA BucketInit == Init => BucketOK /\ BurstBound
BY LimiterAssumption DEF Init, BucketOK, NewBucket, BurstBound

LEMMA BucketStep ==
    ASSUME BucketOK, BurstBound, NEW t \in Threads, PassBucket(t)
    PROVE  BucketOK' /\ BurstBound'
<1> DEFINE n == Len(spent)
           full == Refilled(bucket, clock)
<1>1. /\ clock \in Nat /\ clock' = clock /\ bucket.last \in Nat /\ bucket.last <= clock
      /\ spent \in Seq(Nat) /\ n \in Nat /\ DOMAIN spent = 1..n
      /\ bucket.tokens \in 0..Capacity
      /\ Capacity \in Nat /\ Rate \in Nat /\ Cost \in Nat /\ Cost > 0
  BY LimiterAssumption DEF BucketOK, PassBucket
<1>2. full \in 0..Capacity /\ full <= bucket.tokens + Refund(clock - bucket.last)
  BY <1>1, Refill DEF BucketOK
<1> HIDE DEF full, n
<1>3. ASSUME NEW i \in 1..n
      PROVE  Price(n + 1 - i) + full <= Capacity + Refund(clock - spent[i])
  <2>1. Price(n + 1 - i) + bucket.tokens <= Capacity + Refund(bucket.last - spent[i])
    BY DEF BucketOK, n
  <2>2. spent[i] \in Nat /\ n + 1 - i \in Int
    BY <1>1
  <2>3. Price(n + 1 - i) \in Int
    BY <2>2, PriceType
  <2>4. bucket.tokens \in Nat /\ full \in Nat
    BY <1>1, <1>2
  <2> QED
    BY <1>1, <1>2, <2>1, <2>2, <2>3, <2>4, Elapsed
<1>4. bucket' = [tokens |-> full - (IF HasTokens(bucket, clock) THEN Cost ELSE 0), last |-> clock]
  BY DEF PassBucket, bucket_allow, full
<1>5. CASE HasTokens(bucket, clock)
  <2>1. bucket'.tokens = full - Cost /\ bucket'.last = clock /\ spent' = Append(spent, clock)
        /\ full >= Cost
        /\ bucket' \in [tokens : 0..Capacity, last : 0..clock]
    BY <1>1, <1>2, <1>4, <1>5 DEF PassBucket, HasTokens, full
  <2>2. /\ Len(spent') = n + 1 /\ spent' \in Seq(Nat) /\ spent'[n + 1] = clock
        /\ \A i \in 1..n : spent'[i] = spent[i] /\ spent[i] \in Nat
        /\ DOMAIN spent' = 1..(n + 1)
    BY <1>1, <2>1 DEF n
  <2>3. ASSUME NEW i \in 1..(n + 1)
        PROVE  Price(n + 2 - i) + bucket'.tokens <= Capacity + Refund(clock - spent'[i])
    <3>1. CASE i = n + 1
      <4>1. clock - spent'[i] = 0 /\ n + 2 - i = 1
        BY <1>1, <2>2, <3>1
      <4>2. Refund(clock - spent'[i]) = 0 /\ Price(n + 2 - i) = Cost
        BY <4>1, PriceOfOne, RefundType
      <4> QED
        BY <1>1, <1>2, <2>1, <4>2
    <3>2. CASE i \in 1..n
      <4>1. n + 2 - i = (n + 1 - i) + 1 /\ n + 1 - i \in Int /\ clock - spent[i] \in Int
        BY <1>1, <2>2, <3>2
      <4>2. /\ Price(n + 2 - i) = Price(n + 1 - i) + Cost
            /\ Price(n + 1 - i) \in Int /\ Refund(clock - spent[i]) \in Int
        BY <4>1, PriceType, RefundType
      <4>3. Price(n + 1 - i) + full <= Capacity + Refund(clock - spent[i])
        BY <1>3, <3>2
      <4>4. spent'[i] = spent[i]
        BY <2>2, <3>2
      <4> QED
        BY <1>1, <1>2, <2>1, <4>2, <4>3, <4>4
    <3> QED
      BY <1>1, <3>1, <3>2
  <2>4. BucketOK'
    <3>1. \A i \in 1..(n + 1) : Len(spent') + 1 - i = n + 2 - i
      BY <1>1, <2>2
    <3> QED
      BY <1>1, <2>1, <2>2, <2>3, <3>1 DEF BucketOK, Price, Refund
  <2>5. BurstBound'
    <3>1. ASSUME NEW i \in 1..(n + 1), NEW j \in 1..(n + 1), i <= j
          PROVE  Price(j - i + 1) <= Capacity + Refund(spent'[j] - spent'[i])
      <4>1. CASE j = n + 1
        <5>1. /\ j - i + 1 = n + 2 - i /\ n + 2 - i \in Int
              /\ spent'[j] = clock /\ spent'[i] \in Nat /\ clock - spent'[i] \in Int
          BY <1>1, <2>2, <4>1
        <5>2. Price(n + 2 - i) \in Int /\ Refund(clock - spent'[i]) \in Int
          BY <5>1, PriceType, RefundType
        <5>3. /\ Price(n + 2 - i) + bucket'.tokens <= Capacity + Refund(clock - spent'[i])
              /\ bucket'.tokens \in Nat
          <6>1. bucket'.tokens \in Nat
            BY <2>1
          <6> QED
            BY <2>3, <6>1
        <5>4. Price(n + 2 - i) <= Capacity + Refund(clock - spent'[i])
          BY <1>1, <5>2, <5>3
        <5> QED
          BY <5>1, <5>4
      <4>2. CASE j # n + 1
        <5>1. /\ i \in DOMAIN spent /\ j \in DOMAIN spent
              /\ spent'[i] = spent[i] /\ spent'[j] = spent[j]
          BY <1>1, <2>2, <3>1, <4>2
        <5> QED
          BY <3>1, <5>1, BurstBoundIs
      <4> QED
        BY <4>1, <4>2
    <3> QED
      BY <2>2, <3>1 DEF BurstBound, Price, Refund
  <2> QED
    BY <2>4, <2>5
<1>6. CASE ~HasTokens(bucket, clock)
  <2>1. bucket'.tokens = full /\ bucket'.last = clock /\ spent' = spent
        /\ bucket' \in [tokens : 0..Capacity, last : 0..clock]
    BY <1>1, <1>2, <1>4, <1>6 DEF PassBucket
  <2>2. BucketOK'
    BY <1>1, <1>3, <2>1 DEF BucketOK, Price, Refund, n
  <2> QED
    BY <2>1, <2>2 DEF BurstBound
<1> QED
  BY <1>5, <1>6

\* Only PassBucket touches the bucket.
LEMMA BucketInductive == BucketOK /\ BurstBound /\ [Next]_vars => BucketOK' /\ BurstBound'
<1> SUFFICES ASSUME BucketOK, BurstBound, [Next]_vars PROVE BucketOK' /\ BurstBound'
  OBVIOUS
<1>1. ASSUME clock' \in Nat, clock' >= clock, UNCHANGED <<bucket, spent>>
      PROVE  BucketOK' /\ BurstBound'
  BY <1>1 DEF BucketOK, BurstBound, Refund, Price
<1>2. ASSUME NEW t \in Threads, NEW kind \in Kinds, Arrive(t, kind)
      PROVE  BucketOK' /\ BurstBound'
  BY <1>1, <1>2 DEF Arrive, limiter, BucketOK
<1>3. ASSUME NEW t \in Threads, Serve(t)
      PROVE  BucketOK' /\ BurstBound'
  <2>1. CASE PassBucket(t)
    BY <2>1, BucketStep
  <2>2. CASE ~PassBucket(t)
    <3>1. clock' = clock /\ UNCHANGED <<bucket, spent>>
      BY <1>3, <2>2
      DEF Serve, ReadClock, PassWindow, Refuse, Handle, StartScrape, ScrapeFails, ScrapeNext,
          ScrapeEnds, WriteProbe, RemoveProbe, Observe, Count, limiter
    <3> QED
      BY <1>1, <3>1 DEF BucketOK
  <2> QED
    BY <2>1, <2>2
<1>4. CASE Tick
  BY <1>1, <1>4 DEF Tick, limiter, BucketOK
<1>5. CASE UNCHANGED vars
  BY <1>1, <1>5 DEF vars, limiter, BucketOK
<1> QED
  BY <1>2, <1>3, <1>4, <1>5 DEF Next

\* Between any two moments the bucket lets no more calls pass than its capacity
\* and the refill of the time between them pay for.
THEOREM Burst == Spec => []BurstBound
BY BucketInit, BucketInductive, PTL DEF Spec

-------------------------------------------------------------------------------
(* The sliding window.                                                     *)

LEMMA MinExists ==
    ASSUME NEW S \in SUBSET Nat, S # {}
    PROVE  Min(S) \in S /\ \A x \in S : Min(S) <= x
<1> DEFINE R == OpToRel(<, Nat)
<1>1. R = {ss \in Nat \X Nat : ss[1] < ss[2]}
  BY DEF OpToRel
<1>2. IsWellFoundedOn(R, Nat)
  BY NatLessThanWellFounded
<1> HIDE DEF R
<1>3. \E x \in S : \A y \in S : ~ (<<y, x>> \in R)
  BY <1>2, WFMin
<1>4. PICK x \in S : \A y \in S : ~ (<<y, x>> \in R)
  BY <1>3
<1>5. ASSUME NEW y \in S PROVE x <= y
  <2>1. <<y, x>> \in Nat \X Nat /\ <<y, x>>[1] = y /\ <<y, x>>[2] = x
    OBVIOUS
  <2>2. ~ (y < x)
    BY <1>1, <1>4, <2>1
  <2> QED
    BY <2>2
<1> QED
  BY <1>4, <1>5 DEF Min

\* Eviction drops timestamps from the front, too old ones only.
LEMMA Eviction ==
    ASSUME NEW w \in Seq(Nat), NEW now \in Nat
    PROVE  \E d \in 0..Len(w) :
              /\ Evicted(w, now) \in Seq(Nat) /\ Len(Evicted(w, now)) = Len(w) - d
              /\ \A i \in 1..(Len(w) - d) : Evicted(w, now)[i] = w[i + d]
              /\ \A i \in 1..d : w[i] < now - WindowS
<1> DEFINE I == {i \in 1..Len(w) : Kept(w[i], now)}
           m == Min(I)
<1>1. SelectInSeq(w, LAMBDA ts : Kept(ts, now)) = IF I # {} THEN m ELSE 0
  BY DEF SelectInSeq
<1>2. \A i \in 1..Len(w) : i \notin I => w[i] < now - WindowS
  BY LimiterAssumption DEF Kept
<1>9. Evicted(w, now) =
          LET i == IF I # {} THEN m ELSE 0 IN IF i = 0 THEN <<>> ELSE SubSeq(w, i, Len(w))
  BY <1>1 DEF Evicted
<1>3. CASE I = {}
  <2>1. Evicted(w, now) = <<>>
    BY <1>3, <1>9
  <2> HIDE DEF I
  <2> QED
    BY <1>2, <1>3, <2>1
<1>4. CASE I # {}
  <2>1. m \in I /\ \A x \in I : m <= x
    <3>1. I \in SUBSET Nat
      OBVIOUS
    <3> HIDE DEF I
    <3> QED
      BY <1>4, <3>1, MinExists
  <2>2. m \in 1..Len(w)
    BY <2>1
  <2>3. Evicted(w, now) = SubSeq(w, m, Len(w))
    <3> HIDE DEF I, m
    <3> QED
      BY <1>4, <1>9, <2>2
  <2> HIDE DEF I, m
  <2>4. \A i \in 1..(m - 1) : w[i] < now - WindowS
    BY <1>2, <2>1, <2>2
  <2>5. /\ Evicted(w, now) \in Seq(Nat) /\ Len(Evicted(w, now)) = Len(w) - (m - 1)
        /\ \A i \in 1..(Len(w) - (m - 1)) : Evicted(w, now)[i] = w[i + (m - 1)]
    BY <2>2, <2>3
  <2>6. m - 1 \in 0..Len(w)
    BY <2>2
  <2> QED
    BY <2>4, <2>5, <2>6
<1> QED
  BY <1>3, <1>4

\* How old the clock is that a thread at the lock has read.
ThreadsOK ==
    /\ clock \in Nat
    /\ DOMAIN thread = Threads
    /\ \A t \in Threads :
          /\ DOMAIN thread[t] = {"pc", "path", "now", "status", "todo", "size", "report"}
          /\ thread[t].now \in 0..clock
          /\ thread[t].pc = "window" => clock - thread[t].now <= MaxLag

\* The deque belongs to the last calls that passed; those that it has forgotten
\* passed too long ago to count.
WindowOK ==
    /\ win \in Seq(Nat) /\ Len(win) <= MaxCalls
    /\ passed \in Seq(Nat) /\ Len(win) <= Len(passed)
    /\ \A i \in 1..Len(win) : passed[Len(passed) - Len(win) + i] <= win[i] + MaxLag
    /\ \A k \in 1..(Len(passed) - Len(win)) : passed[k] < clock - WindowS + MaxLag

LEMMA WindowInit == Init => ThreadsOK /\ WindowOK /\ WindowBound
BY LimiterAssumption, PathAssumption DEF Init, ThreadsOK, WindowOK, WindowBound, Idle

\* A thread's step, unless it reads the clock.
LEMMA ThreadMoves ==
    ASSUME ThreadsOK, clock' = clock, NEW t \in Threads, NEW r,
           thread' = [thread EXCEPT ![t] = r],
           DOMAIN r = {"pc", "path", "now", "status", "todo", "size", "report"},
           r.now \in 0..clock, r.pc = "window" => clock - r.now <= MaxLag
    PROVE  ThreadsOK'
BY DEF ThreadsOK

LEMMA ThreadStep ==
    ASSUME ThreadsOK, NEW t \in Threads, (\E kind \in Kinds : Arrive(t, kind)) \/ Serve(t)
    PROVE  ThreadsOK'
<1> DEFINE th == thread[t]
<1>1. /\ DOMAIN th = {"pc", "path", "now", "status", "todo", "size", "report"}
      /\ th.now \in 0..clock /\ clock \in Nat
  BY DEF ThreadsOK
<1>2. ASSUME NEW pc, pc # "window", clock' = clock, Goto(t, pc) PROVE ThreadsOK'
  <2> DEFINE r == [th EXCEPT !.pc = pc]
  <2>1. thread' = [thread EXCEPT ![t] = r]
    BY <1>2 DEF Goto
  <2>2. DOMAIN r = DOMAIN th /\ r.now = th.now /\ r.pc = pc
    BY <1>1
  <2> HIDE DEF r
  <2> QED
    BY <1>1, <1>2, <2>1, <2>2, ThreadMoves
<1>3. ASSUME NEW status, clock' = clock, Respond(t, status) PROVE ThreadsOK'
  <2> DEFINE r == [th EXCEPT !.pc = "observe", !.status = status]
  <2>1. thread' = [thread EXCEPT ![t] = r]
    BY <1>3 DEF Respond
  <2>2. DOMAIN r = DOMAIN th /\ r.now = th.now /\ r.pc = "observe"
    BY <1>1
  <2> HIDE DEF r
  <2> QED
    BY <1>1, <1>3, <2>1, <2>2, ThreadMoves
<1>4. ASSUME NEW kind \in Kinds, Arrive(t, kind) PROVE ThreadsOK'
  <2> DEFINE pc == IF kind = "api" THEN "bucket" ELSE kind
  <2>1. PICK path : thread' = [thread EXCEPT ![t].pc = pc, ![t].path = path]
    BY <1>4 DEF Arrive
  <2> DEFINE r == [th EXCEPT !.pc = pc, !.path = path]
  <2>2. thread' = [thread EXCEPT ![t] = r] /\ clock' = clock
    BY <1>4, <2>1 DEF Arrive
  <2>3. DOMAIN r = DOMAIN th /\ r.now = th.now /\ r.pc = pc
    BY <1>1
  <2>4. pc # "window"
    BY PathAssumption
  <2> HIDE DEF r, pc
  <2> QED
    BY <1>1, <2>2, <2>3, <2>4, ThreadMoves
<1>5. ASSUME ReadClock(t) PROVE ThreadsOK'
  <2> DEFINE r == [th EXCEPT !.pc = "window", !.now = clock]
  <2>1. thread' = [thread EXCEPT ![t] = r] /\ clock' = clock
    BY <1>5 DEF ReadClock
  <2>2. DOMAIN r = DOMAIN th /\ r.now = clock
    BY <1>1
  <2> HIDE DEF r
  <2>3. r.now \in 0..clock /\ clock - r.now <= MaxLag
    BY <1>1, <2>2, PathAssumption
  <2> QED
    BY <1>1, <2>1, <2>2, <2>3, ThreadMoves
<1>6. ASSUME Count(t) PROVE ThreadsOK'
  <2>1. thread' = [thread EXCEPT ![t] = Idle] /\ clock' = clock
    BY <1>6 DEF Count
  <2>2. /\ DOMAIN Idle = {"pc", "path", "now", "status", "todo", "size", "report"}
        /\ Idle.now = 0 /\ Idle.pc = "idle"
    BY DEF Idle
  <2>3. Idle.now \in 0..clock /\ Idle.pc # "window"
    BY <1>1, <2>2
  <2> QED
    BY <2>1, <2>2, <2>3, ThreadMoves
<1>7. ASSUME StartScrape(t) PROVE ThreadsOK'
  <2> DEFINE r == [th EXCEPT !.pc = "scrape", !.todo = DOMAIN latency,
                             !.size = Cardinality(DOMAIN latency)]
  <2>1. thread' = [thread EXCEPT ![t] = r] /\ clock' = clock
    BY <1>7 DEF StartScrape
  <2>2. DOMAIN r = DOMAIN th /\ r.now = th.now /\ r.pc = "scrape"
    BY <1>1
  <2> HIDE DEF r
  <2> QED
    BY <1>1, <2>1, <2>2, ThreadMoves
<1>8. ASSUME ScrapeNext(t) PROVE ThreadsOK'
  <2>1. PICK todo, report : thread' = [thread EXCEPT ![t].todo = todo, ![t].report = report]
    BY <1>8 DEF ScrapeNext
  <2> DEFINE r == [th EXCEPT !.todo = todo, !.report = report]
  <2>2. thread' = [thread EXCEPT ![t] = r] /\ clock' = clock /\ th.pc = "scrape"
    BY <1>8, <2>1 DEF ScrapeNext, At
  <2>3. DOMAIN r = DOMAIN th /\ r.now = th.now /\ r.pc = th.pc
    BY <1>1
  <2> HIDE DEF r
  <2> QED
    BY <1>1, <2>2, <2>3, ThreadMoves
<1>9. ASSUME PassBucket(t) \/ PassWindow(t) \/ Refuse(t) \/ Handle(t) \/ ScrapeFails(t)
             \/ ScrapeEnds(t) \/ WriteProbe(t) \/ RemoveProbe(t) \/ Observe(t)
      PROVE  ThreadsOK'
  BY <1>2, <1>3, <1>9
  DEF PassBucket, PassWindow, Refuse, Handle, ScrapeFails, ScrapeEnds, WriteProbe,
      RemoveProbe, Observe
<1> QED
  BY <1>4, <1>5, <1>6, <1>7, <1>8, <1>9 DEF Serve

LEMMA WindowStep ==
    ASSUME ThreadsOK, WindowOK, WindowBound, NEW t \in Threads, PassWindow(t)
    PROVE  WindowOK' /\ WindowBound'
<1> DEFINE now == thread[t].now
           ev == Evicted(win, now)
           l == Len(passed)
           w == Len(win)
<1>1. /\ clock' = clock /\ clock \in Nat /\ now \in Nat /\ now <= clock
      /\ clock <= now + MaxLag
      /\ MaxLag \in Nat /\ WindowS \in Nat /\ MaxCalls \in Nat /\ MaxCalls > 0
  BY LimiterAssumption, PathAssumption DEF ThreadsOK, PassWindow, At
<1>2. /\ win \in Seq(Nat) /\ passed \in Seq(Nat) /\ l \in Nat /\ w \in Nat
      /\ w <= l /\ w <= MaxCalls /\ DOMAIN passed = 1..l /\ DOMAIN win = 1..w
  BY DEF WindowOK
<1>3. PICK d \in 0..w :
          /\ ev \in Seq(Nat) /\ Len(ev) = w - d
          /\ \A i \in 1..(w - d) : ev[i] = win[i + d]
          /\ \A i \in 1..d : win[i] < now - WindowS
  BY <1>1, <1>2, Eviction
<1> HIDE DEF l, w, ev, now
<1>4. (\A k \in 1..l : passed[k] \in Nat) /\ (\A i \in 1..w : win[i] \in Nat)
  BY <1>2
<1>5. ASSUME NEW k \in 1..(l - w + d) PROVE passed[k] < clock - WindowS + MaxLag
  <2>1. CASE k <= l - w
    BY <1>2, <2>1 DEF WindowOK, l, w
  <2>2. CASE k > l - w
    <3> DEFINE i == k - (l - w)
    <3>1. i \in 1..d /\ i \in 1..w /\ l - w + i = k /\ k \in 1..l
      BY <1>2, <1>3, <2>2
    <3> HIDE DEF i
    <3>2. passed[k] <= win[i] + MaxLag
      BY <3>1 DEF WindowOK, l, w
    <3>3. win[i] < now - WindowS /\ win[i] \in Nat /\ passed[k] \in Nat
      BY <1>3, <1>4, <3>1
    <3> QED
      BY <1>1, <3>2, <3>3
  <2> QED
    BY <1>2, <1>3, <2>1, <2>2
<1>6. ASSUME NEW i \in 1..(w - d) PROVE passed[l - (w - d) + i] <= ev[i] + MaxLag
  <2>1. i + d \in 1..w /\ l - w + (i + d) = l - (w - d) + i
    BY <1>2, <1>3
  <2>2. passed[l - w + (i + d)] <= win[i + d] + MaxLag
    BY <2>1 DEF WindowOK, l, w
  <2> QED
    BY <1>3, <2>1, <2>2
<1>7. CASE HasRoom(win, now)
  <2>1. /\ win' = Append(ev, now) /\ passed' = Append(passed, clock) /\ Len(ev) < MaxCalls
    BY <1>7 DEF PassWindow, window_allow, HasRoom, ev, now
  <2>2. /\ win' \in Seq(Nat) /\ Len(win') = w - d + 1 /\ win'[w - d + 1] = now
        /\ \A i \in 1..(w - d) : win'[i] = ev[i]
    <3>1. w - d \in Nat /\ now \in Nat /\ ev \in Seq(Nat) /\ Len(ev) = w - d
      BY <1>1, <1>2, <1>3
    <3> QED
      BY <2>1, <3>1
  <2>3. /\ passed' \in Seq(Nat) /\ Len(passed') = l + 1 /\ passed'[l + 1] = clock
        /\ \A k \in 1..l : passed'[k] = passed[k] /\ DOMAIN passed' = 1..(l + 1)
    BY <1>1, <1>2, <2>1 DEF l
  <2>4. l + 1 - (w - d + 1) = l - w + d /\ l - w + d \in 0..l
    BY <1>2, <1>3
  <2>5. \A i \in 1..(w - d + 1) : passed'[l - w + d + i] <= win'[i] + MaxLag
    <3> SUFFICES ASSUME NEW i \in 1..(w - d + 1)
                 PROVE  passed'[l - w + d + i] <= win'[i] + MaxLag
      OBVIOUS
    <3>1. CASE i = w - d + 1
      <4>1. l - w + d + i = l + 1
        BY <1>2, <1>3, <3>1
      <4> QED
        BY <1>1, <2>2, <2>3, <3>1, <4>1
    <3>2. CASE i \in 1..(w - d)
      <4>1. l - w + d + i = l - (w - d) + i /\ l - w + d + i \in 1..l
        BY <1>2, <1>3, <3>2
      <4> QED
        BY <1>6, <2>2, <2>3, <3>2, <4>1
    <3> QED
      BY <1>2, <1>3, <3>1, <3>2
  <2>6. \A k \in 1..(l - w + d) : passed'[k] < clock - WindowS + MaxLag
    <3>1. \A k \in 1..(l - w + d) : k \in 1..l
      BY <1>2, <2>4
    <3> QED
      BY <1>5, <2>3, <3>1
  <2>7. WindowOK'
    <3>1. Len(win') <= MaxCalls /\ Len(win') <= Len(passed')
      BY <1>1, <1>2, <1>3, <2>1, <2>2, <2>3
    <3>2. Len(passed') - Len(win') = l - w + d
      <4>1. Len(win') = w - d + 1 /\ Len(passed') = l + 1
        BY <2>2, <2>3
      <4> QED
        BY <1>2, <1>3, <4>1
    <3> QED
      BY <1>1, <2>2, <2>3, <2>5, <2>6, <3>1, <3>2 DEF WindowOK
  <2>8. WindowBound'
    <3> SUFFICES ASSUME NEW j \in 1..(l + 1), j > MaxCalls
                 PROVE  passed'[j] - passed'[j - MaxCalls] > WindowS - MaxLag
      BY <1>2, <2>3 DEF WindowBound
    <3>1. CASE j = l + 1
      <4>1. j - MaxCalls \in 1..(l - w + d) /\ j - MaxCalls \in 1..l
        BY <1>1, <1>2, <1>3, <2>1, <3>1
      <4>2. /\ passed'[j] = clock /\ passed'[j - MaxCalls] \in Nat
            /\ passed'[j - MaxCalls] < clock - WindowS + MaxLag
        BY <1>4, <2>3, <2>6, <3>1, <4>1
      <4> QED
        BY <1>1, <4>2
    <3>2. CASE j # l + 1
      <4>1. /\ j \in DOMAIN passed /\ passed'[j] = passed[j]
            /\ passed'[j - MaxCalls] = passed[j - MaxCalls]
        BY <1>1, <1>2, <2>3, <3>2
      <4> QED
        BY <4>1 DEF WindowBound
    <3> QED
      BY <3>1, <3>2
  <2> QED
    BY <2>7, <2>8
<1>8. CASE ~HasRoom(win, now)
  <2>1. win' = ev /\ passed' = passed
    BY <1>8 DEF PassWindow, window_allow, ev, now
  <2>2. l - (w - d) = l - w + d /\ w - d <= l /\ w - d <= MaxCalls
    BY <1>1, <1>2, <1>3
  <2>3. WindowOK'
    <3>1. Len(win') = w - d /\ Len(passed') = l /\ win' \in Seq(Nat) /\ passed' \in Seq(Nat)
      BY <1>2, <1>3, <2>1 DEF l
    <3> QED
      BY <1>1, <1>5, <1>6, <2>1, <2>2, <3>1 DEF WindowOK
  <2> QED
    BY <2>1, <2>3 DEF WindowBound
<1> QED
  BY <1>7, <1>8

LEMMA Later ==
    ASSUME NEW p \in Nat, NEW c \in Nat, NEW d \in Nat, d >= c, p < c - WindowS + MaxLag
    PROVE  p < d - WindowS + MaxLag
BY LimiterAssumption, PathAssumption

LEMMA WindowInductive ==
    ThreadsOK /\ WindowOK /\ WindowBound /\ [Next]_vars
        => ThreadsOK' /\ WindowOK' /\ WindowBound'
<1> SUFFICES ASSUME ThreadsOK, WindowOK, WindowBound, [Next]_vars
             PROVE  ThreadsOK' /\ WindowOK' /\ WindowBound'
  OBVIOUS
<1>1. ASSUME clock' \in Nat, clock' >= clock, UNCHANGED <<win, passed>>
      PROVE  WindowOK' /\ WindowBound'
  <2>1. \A k \in 1..(Len(passed) - Len(win)) : passed[k] \in Nat
    BY DEF WindowOK
  <2>2. clock \in Nat
    BY DEF ThreadsOK
  <2>3. \A k \in 1..(Len(passed) - Len(win)) : passed[k] < clock - WindowS + MaxLag
    BY DEF WindowOK
  <2>4. \A k \in 1..(Len(passed) - Len(win)) : passed[k] < clock' - WindowS + MaxLag
    BY <1>1, <2>1, <2>2, <2>3, Later
  <2> QED
    BY <1>1, <2>4 DEF WindowOK, WindowBound
<1>2. ASSUME NEW t \in Threads, (\E kind \in Kinds : Arrive(t, kind)) \/ Serve(t)
      PROVE  ThreadsOK' /\ WindowOK' /\ WindowBound'
  <2>1. ThreadsOK'
    BY <1>2, ThreadStep
  <2>2. CASE PassWindow(t)
    BY <2>1, <2>2, WindowStep
  <2>3. CASE ~PassWindow(t)
    <3>1. clock' = clock /\ UNCHANGED <<win, passed>>
      BY <1>2, <2>3
      DEF Arrive, Serve, PassBucket, ReadClock, Refuse, Handle, StartScrape, ScrapeFails,
          ScrapeNext, ScrapeEnds, WriteProbe, RemoveProbe, Observe, Count, limiter
    <3> QED
      BY <1>1, <2>1, <3>1 DEF ThreadsOK
  <2> QED
    BY <2>2, <2>3
<1>3. CASE Tick
  <2>1. /\ clock \in Nat /\ clock' = clock + 1 /\ UNCHANGED <<win, passed, thread>>
        /\ \A t \in Threads : thread[t].pc = "window" => clock - thread[t].now < MaxLag
    BY <1>3 DEF Tick, limiter, ThreadsOK, At
  <2>2. ThreadsOK'
    BY <2>1, PathAssumption DEF ThreadsOK
  <2> QED
    BY <1>1, <2>1, <2>2
<1>4. CASE UNCHANGED vars
  BY <1>1, <1>4 DEF vars, limiter, ThreadsOK
<1> QED
  BY <1>2, <1>3, <1>4 DEF Next

\* A period shorter than the window, by at most the lag between reading the
\* clock and getting the lock, sees at most MaxCalls calls pass.
THEOREM Window == Spec => []WindowBound
BY WindowInit, WindowInductive, PTL DEF Spec
-------------------------------------------------------------------------------
(* The metrics.                                                            *)

LEMMA NumberType ==
    ASSUME NEW T, NEW s \in Seq(T), NEW S
    PROVE  Number(s, S) \in Nat /\ IsFiniteSet({i \in DOMAIN s : s[i] \in S})
<1> DEFINE I == {i \in DOMAIN s : s[i] \in S}
<1>1. DOMAIN s = 1..Len(s) /\ Len(s) \in Nat
  OBVIOUS
<1>2. IsFiniteSet(1..Len(s)) /\ I \subseteq 1..Len(s)
  BY <1>1, FS_Interval
<1>3. IsFiniteSet(I)
  BY <1>2, FS_Subset
<1>4. Cardinality(I) \in Nat
  BY <1>3, FS_CardinalityType
<1> QED
  BY <1>3, <1>4 DEF Number

LEMMA NumberOfNone == ASSUME NEW S PROVE Number(<<>>, S) = 0
<1>1. {i \in DOMAIN <<>> : <<>>[i] \in S} = {}
  OBVIOUS
<1> QED
  BY <1>1, FS_EmptySet DEF Number

LEMMA NumberOfAll ==
    ASSUME NEW T, NEW s \in Seq(T)
    PROVE  Number(s, T) = Len(s)
<1>1. {i \in DOMAIN s : s[i] \in T} = 1..Len(s) /\ Len(s) \in Nat
  OBVIOUS
<1>2. Cardinality(1..Len(s)) = Len(s)
  <2> DEFINE n == Len(s)
  <2>1. n \in Nat /\ (1 <= n => n - 1 + 1 = n) /\ (1 > n => n = 0)
    OBVIOUS
  <2>2. Cardinality(1..n) = IF 1 > n THEN 0 ELSE n - 1 + 1
    BY <2>1, FS_Interval
  <2> QED
    BY <2>1, <2>2
<1> QED
  BY <1>1, <1>2 DEF Number

LEMMA NumberAppend ==
    ASSUME NEW T, NEW s \in Seq(T), NEW e \in T, NEW S
    PROVE  Number(Append(s, e), S) = Number(s, S) + (IF e \in S THEN 1 ELSE 0)
<1> DEFINE new == Append(s, e)
           n == Len(s)
           I == {i \in DOMAIN s : s[i] \in S}
           J == {i \in DOMAIN new : new[i] \in S}
<1>1. /\ n \in Nat /\ DOMAIN s = 1..n /\ DOMAIN new = 1..(n + 1) /\ new[n + 1] = e
      /\ \A i \in 1..n : new[i] = s[i]
  OBVIOUS
<1>2. IsFiniteSet(I) /\ Number(s, S) = Cardinality(I) /\ Cardinality(I) \in Nat
  BY NumberType DEF Number
<1>3. Number(new, S) = Cardinality(J)
  BY DEF Number
<1> HIDE DEF new
<1>4. n + 1 \notin I
  BY <1>1
<1>5. CASE e \in S
  <2>1. J = I \cup {n + 1}
    BY <1>1, <1>5
  <2> HIDE DEF I, J
  <2>2. Cardinality(I \cup {n + 1}) = Cardinality(I) + 1
    BY <1>2, <1>4, FS_AddElement
  <2> QED
    BY <1>2, <1>3, <1>5, <2>1, <2>2 DEF new
<1>6. CASE e \notin S
  <2>1. J = I
    BY <1>1, <1>6
  <2> HIDE DEF I, J
  <2> QED
    BY <1>2, <1>3, <1>6, <2>1 DEF new
<1> QED
  BY <1>5, <1>6

Response == [path : Paths, status : Statuses]

\* A histogram's counts are those of the latencies seen.
DataOK(d, seen) ==
    /\ d \in [counts : [Boundaries -> Nat], count : Nat]
    /\ d.count = Len(seen)
    /\ \A l \in Boundaries : d.counts[l] = Number(seen, 1..l)

LogsOK ==
    /\ total \in [Statuses -> Nat]
    /\ answered \in Seq(Response)
    /\ observed \in [Paths -> Seq(Boundaries)]
    /\ DOMAIN latency \subseteq Paths
    /\ \A e \in Paths : DataOK(DataOf(e), observed[e])

RequestsOK ==
    \A t \in Threads :
        /\ thread[t].status \in Statuses
        /\ thread[t].pc # "idle" => thread[t].path \in Paths
        /\ thread[t].todo \subseteq DOMAIN latency

Sound(r) ==
    LET n == Len(r.seen)
        Quantile(pct) == Min({l \in Boundaries : Number(r.seen, 1..l) * 100 >= pct * n})
    IN r.snap = [count |-> n, p50 |-> Quantile(50), p95 |-> Quantile(95)]

\* Rejected requests that _before has counted and _after has not.
Refused == {t \in Threads : (At(t, "observe") \/ At(t, "count")) /\ thread[t].status = 429}

\* The metrics to the unit: CountersReconcile, and the two counts of a rejection.
Balance ==
    /\ \A s \in Statuses :
          LET n == Number(answered, [path : Paths, status : {s}])
          IN total[s] = IF s = 429 THEN 2 * n + Cardinality(Refused) ELSE n
    /\ \A e \in Paths :
          DataOf(e).count = Number(answered, [path : {e}, status : Statuses])
                            + Cardinality(Between(e))

MInv == ThreadsOK /\ LogsOK /\ RequestsOK /\ Balance /\ ReportsAreSound

LEMMA DataInit == DataOK(_init_label, <<>>)
<1>1. \A l \in Boundaries : Number(<<>>, 1..l) = 0
  BY NumberOfNone
<1> QED
  BY <1>1 DEF DataOK, _init_label

\* Observing a latency increments the boundaries that are not below it.
LEMMA DataObserve ==
    ASSUME NEW d, NEW seen \in Seq(Boundaries), DataOK(d, seen), NEW value \in Boundaries
    PROVE  DataOK(observe(d, value), Append(seen, value)) /\ observe(d, value).count = d.count + 1
<1> DEFINE new == observe(d, value)
<1>1. /\ d.count \in Nat /\ d.count = Len(seen) /\ \A l \in Boundaries : d.counts[l] \in Nat
      /\ \A l \in Boundaries : d.counts[l] = Number(seen, 1..l)
  BY DEF DataOK
<1>2. /\ new.count = d.count + 1
      /\ DOMAIN new.counts = Boundaries
      /\ \A l \in Boundaries : new.counts[l] = d.counts[l] + (IF value <= l THEN 1 ELSE 0)
      /\ new \in [counts : [Boundaries -> Nat], count : Nat]
  BY <1>1 DEF observe
<1>3. Len(Append(seen, value)) = Len(seen) + 1
  OBVIOUS
<1>4. ASSUME NEW l \in Boundaries
      PROVE  new.counts[l] = Number(Append(seen, value), 1..l)
  <2>1. Number(Append(seen, value), 1..l) = Number(seen, 1..l) + (IF value \in 1..l THEN 1 ELSE 0)
    BY NumberAppend
  <2>2. value \in 1..l <=> value <= l
    BY MetricsAssumption DEF Boundaries
  <2> HIDE DEF new
  <2> QED
    BY <1>1, <1>2, <2>1, <2>2
<1> HIDE DEF new
<1>5. DataOK(new, Append(seen, value))
  BY <1>1, <1>2, <1>3, <1>4 DEF DataOK
<1> QED
  BY <1>2, <1>5 DEF new

\* Some boundary is always reached, +Inf at the latest.
LEMMA PercentileSound ==
    ASSUME NEW d, NEW seen \in Seq(Boundaries), DataOK(d, seen), NEW pct \in {50, 95}
    PROVE  percentile(d, pct)
             = Min({l \in Boundaries : Number(seen, 1..l) * 100 >= pct * Len(seen)})
<1> DEFINE A == {i \in Boundaries : d.counts[i] * 100 >= pct * d.count}
           B == {l \in Boundaries : Number(seen, 1..l) * 100 >= pct * Len(seen)}
<1>1. A = B
  BY DEF DataOK
<1>2. Buckets \in B
  <2>1. Number(seen, 1..Buckets) = Len(seen) /\ Buckets \in Boundaries
    BY NumberOfAll, MetricsAssumption DEF Boundaries
  <2>2. Len(seen) \in Nat
    OBVIOUS
  <2>3. Len(seen) * 100 >= pct * Len(seen)
    BY <2>2
  <2> QED
    BY <2>1, <2>3
<1>3. percentile(d, pct) = IF A = {} THEN Buckets - 1 ELSE Min(A)
  BY DEF percentile
<1> HIDE DEF A, B
<1>4. percentile(d, pct) = Min(B)
  BY <1>1, <1>2, <1>3
<1> QED
  BY <1>4 DEF B

LEMMA SnapshotSound ==
    ASSUME NEW d, NEW e, NEW seen \in Seq(Boundaries), DataOK(d, seen)
    PROVE  Sound([path |-> e, snap |-> snapshot(d), seen |-> seen])
<1> DEFINE r == [path |-> e, snap |-> snapshot(d), seen |-> seen]
<1>1. r.seen = seen /\ r.snap = snapshot(d)
  OBVIOUS
<1>2. d.count = Len(seen)
  BY DEF DataOK
<1>3. /\ percentile(d, 50) = Min({l \in Boundaries : Number(seen, 1..l) * 100 >= 50 * Len(seen)})
      /\ percentile(d, 95) = Min({l \in Boundaries : Number(seen, 1..l) * 100 >= 95 * Len(seen)})
  BY PercentileSound
<1> HIDE DEF r
<1>4. Sound(r)
  BY <1>1, <1>2, <1>3 DEF Sound, snapshot
<1> QED
  BY <1>4 DEF r

-------------------------------------------------------------------------------
(* Requests on their way through the hooks.                                *)

Others(t) == \A s \in Threads : s # t => thread'[s] = thread[s]

LEMMA GotoFacts ==
    ASSUME ThreadsOK, NEW t \in Threads, NEW pc, Goto(t, pc)
    PROVE  /\ Others(t) /\ thread'[t].pc = pc
           /\ thread'[t].path = thread[t].path /\ thread'[t].status = thread[t].status
           /\ thread'[t].todo = thread[t].todo /\ thread'[t].report = thread[t].report
BY DEF ThreadsOK, Goto, Others

LEMMA RespondFacts ==
    ASSUME ThreadsOK, NEW t \in Threads, NEW status, Respond(t, status)
    PROVE  /\ Others(t) /\ thread'[t].pc = "observe"
           /\ thread'[t].path = thread[t].path /\ thread'[t].status = status
           /\ thread'[t].todo = thread[t].todo /\ thread'[t].report = thread[t].report
BY DEF ThreadsOK, Respond, Others

LEMMA ReportsAre == ReportsAreSound <=> \A t \in Threads : \A r \in thread[t].report : Sound(r)
BY DEF ReportsAreSound, Sound

LEMMA StatusesAre ==
    /\ \A exc : status_of(exc) \in Statuses \ {429}
    /\ 200 \in Statuses \ {429} /\ 500 \in Statuses \ {429} /\ 503 \in Statuses \ {429}
    /\ 429 \in Statuses
BY DEF status_of, Statuses

LEMMA LogsQuiet ==
    ASSUME LogsOK, UNCHANGED <<total, answered, observed, latency>>
    PROVE  LogsOK'
<1>1. \A e \in Paths : DataOf(e)' = DataOf(e)
  BY DEF DataOf
<1> QED
  BY <1>1 DEF LogsOK, DataOK

\* A request of which the metrics know nothing yet, or no more.
Outside(r) == r.pc # "count" /\ (r.pc = "observe" => r.status # 429)

LEMMA HooksQuiet ==
    ASSUME NEW t \in Threads, Others(t), Outside(thread[t]), Outside(thread'[t])
    PROVE  Refused' = Refused /\ \A e \in Paths : Between(e)' = Between(e)
BY DEF Refused, Between, At, Others, Outside

\* Every step of a request but the four that touch the metrics.
LEMMA QuietStep ==
    ASSUME MInv, ThreadsOK', UNCHANGED <<total, answered, observed, latency>>,
           NEW t \in Threads, Others(t), Outside(thread[t]), Outside(thread'[t]),
           thread'[t].status \in Statuses, thread'[t].path \in Paths,
           thread'[t].todo \subseteq DOMAIN latency,
           \A r \in thread'[t].report : Sound(r)
    PROVE  MInv'
<1>1. LogsOK'
  BY LogsQuiet DEF MInv
<1>2. RequestsOK'
  BY DEF MInv, RequestsOK, Others
<1>3. Balance'
  <2>1. \A e \in Paths : DataOf(e)' = DataOf(e)
    BY DEF DataOf
  <2> QED
    BY <2>1, HooksQuiet DEF MInv, Balance
<1>4. ReportsAreSound'
  <2>1. \A s \in Threads : \A r \in thread'[s].report : Sound(r)
    BY ReportsAre DEF MInv, Others
  <2> QED
    BY <2>1 DEF ReportsAreSound, Sound
<1> QED
  BY <1>1, <1>2, <1>3, <1>4 DEF MInv

\* The actions of QuietStep.
Quiet(t) ==
    \/ PassBucket(t) \/ ReadClock(t) \/ PassWindow(t) \/ Handle(t) \/ StartScrape(t)
    \/ ScrapeFails(t) \/ ScrapeNext(t) \/ ScrapeEnds(t) \/ WriteProbe(t) \/ RemoveProbe(t)

LEMMA QuietActions ==
    ASSUME MInv, ThreadsOK', NEW t \in Threads, (\E kind \in Kinds : Arrive(t, kind)) \/ Quiet(t)
    PROVE  MInv'
<1> DEFINE th == thread[t]
<1>1. UNCHANGED <<total, answered, observed, latency>>
  BY DEF Arrive, Quiet, PassBucket, ReadClock, PassWindow, Handle, StartScrape, ScrapeFails,
         ScrapeNext, ScrapeEnds, WriteProbe, RemoveProbe, metrics
<1>2. /\ th.pc \notin {"observe", "count"}
      /\ Quiet(t) => th.pc # "idle"
  BY DEF Arrive, Quiet, PassBucket, ReadClock, PassWindow, Handle, StartScrape, ScrapeFails,
         ScrapeNext, ScrapeEnds, WriteProbe, RemoveProbe, At
<1>3. /\ th.status \in Statuses /\ (th.pc # "idle" => th.path \in Paths)
      /\ th.todo \subseteq DOMAIN latency /\ \A r \in th.report : Sound(r)
      /\ DOMAIN th = {"pc", "path", "now", "status", "todo", "size", "report"}
      /\ DOMAIN thread = Threads
  BY ReportsAre DEF MInv, RequestsOK, ThreadsOK
<1>4. Outside(th)
  BY <1>2 DEF Outside
<1>5. ASSUME NEW pc, pc \notin {"observe", "count"}, Goto(t, pc), th.pc # "idle" PROVE MInv'
  <2>1. ThreadsOK
    BY DEF MInv
  <2>2. Outside(thread'[t])
    BY <1>5, <2>1, GotoFacts DEF Outside
  <2> QED
    BY <1>1, <1>3, <1>4, <1>5, <2>1, <2>2, GotoFacts, QuietStep
<1>6. ASSUME NEW status \in Statuses \ {429}, Respond(t, status), th.pc # "idle" PROVE MInv'
  <2>1. ThreadsOK
    BY DEF MInv
  <2>2. Outside(thread'[t])
    BY <1>6, <2>1, RespondFacts DEF Outside
  <2> QED
    BY <1>1, <1>3, <1>4, <1>6, <2>1, <2>2, RespondFacts, QuietStep
<1>7. ASSUME NEW kind \in Kinds, Arrive(t, kind) PROVE MInv'
  <2> DEFINE pc == IF kind = "api" THEN "bucket" ELSE kind
  <2>1. pc \notin {"observe", "count"} /\ PathsOf(kind) \subseteq Paths
    BY PathAssumption DEF PathsOf, Paths
  <2>2. PICK path \in PathsOf(kind) : thread' = [thread EXCEPT ![t].pc = pc, ![t].path = path]
    BY <1>7 DEF Arrive
  <2> HIDE DEF pc
  <2>3. /\ thread'[t].pc = pc /\ thread'[t].path = path /\ thread'[t].status = th.status
        /\ thread'[t].todo = th.todo /\ thread'[t].report = th.report /\ Others(t)
    BY <1>3, <2>2 DEF Others
  <2>4. Outside(thread'[t])
    BY <2>1, <2>3 DEF Outside
  <2> QED
    BY <1>1, <1>3, <1>4, <2>1, <2>3, <2>4, QuietStep
<1>8. ASSUME ReadClock(t) PROVE MInv'
  <2>1. /\ thread'[t].pc = "window" /\ thread'[t].path = th.path /\ thread'[t].status = th.status
        /\ thread'[t].todo = th.todo /\ thread'[t].report = th.report /\ Others(t)
    BY <1>3, <1>8 DEF ReadClock, Others
  <2>2. Outside(thread'[t])
    BY <2>1 DEF Outside
  <2> QED
    BY <1>1, <1>2, <1>3, <1>4, <1>8, <2>1, <2>2, QuietStep DEF Quiet
<1>9. ASSUME StartScrape(t) PROVE MInv'
  <2>1. /\ thread'[t].pc = "scrape" /\ thread'[t].path = th.path /\ thread'[t].status = th.status
        /\ thread'[t].todo = DOMAIN latency /\ thread'[t].report = th.report /\ Others(t)
    BY <1>3, <1>9 DEF StartScrape, Others
  <2>2. Outside(thread'[t])
    BY <2>1 DEF Outside
  <2> QED
    BY <1>1, <1>2, <1>3, <1>4, <1>9, <2>1, <2>2, QuietStep DEF Quiet
<1>10. ASSUME ScrapeNext(t) PROVE MInv'
  <2>1. PICK e \in th.todo :
          thread' = [thread EXCEPT ![t].todo = @ \ {e},
                        ![t].report = @ \cup {[path |-> e, snap |-> snapshot(latency[e]),
                                               seen |-> observed[e]]}]
    BY <1>10 DEF ScrapeNext
  <2> DEFINE new == [path |-> e, snap |-> snapshot(latency[e]), seen |-> observed[e]]
  <2>2. Sound(new)
    <3>1. e \in DOMAIN latency /\ e \in Paths
      BY <1>3 DEF MInv, LogsOK
    <3>2. observed[e] \in Seq(Boundaries) /\ DataOK(latency[e], observed[e])
      BY <3>1 DEF MInv, LogsOK, DataOf
    <3> QED
      BY <3>2, SnapshotSound
  <2> HIDE DEF new
  <2>3. /\ thread'[t].pc = th.pc /\ thread'[t].path = th.path /\ thread'[t].status = th.status
        /\ thread'[t].todo = th.todo \ {e} /\ thread'[t].report = th.report \cup {new} /\ Others(t)
    BY <1>3, <2>1 DEF new, Others
  <2>4. Outside(thread'[t])
    BY <1>2, <2>3 DEF Outside
  <2> QED
    BY <1>1, <1>2, <1>3, <1>4, <1>10, <2>2, <2>3, <2>4, QuietStep DEF Quiet
<1>11. CASE Handle(t) \/ ScrapeFails(t) \/ ScrapeEnds(t) \/ RemoveProbe(t)
  <2>1. PICK status \in Statuses \ {429} : Respond(t, status)
    BY <1>11, StatusesAre, PathAssumption DEF Handle, ScrapeFails, ScrapeEnds, RemoveProbe
  <2> QED
    BY <1>2, <1>6, <1>11, <2>1 DEF Quiet
<1>12. CASE PassBucket(t) \/ PassWindow(t) \/ WriteProbe(t)
  <2>1. PICK pc \in {"clock", "refuse", "handle", "remove"} : Goto(t, pc)
    BY <1>12 DEF PassBucket, PassWindow, WriteProbe
  <2> QED
    BY <1>2, <1>5, <1>12, <2>1 DEF Quiet
<1> QED
  BY <1>7, <1>8, <1>9, <1>10, <1>11, <1>12 DEF Quiet

LEMMA IncFacts ==
    ASSUME total \in [Statuses -> Nat], NEW s \in Statuses
    PROVE  /\ Inc(total, s) \in [Statuses -> Nat] /\ Inc(total, s)[s] = total[s] + 1
           /\ \A x \in Statuses : x # s => Inc(total, s)[x] = total[x]
BY DEF Inc

LEMMA HooksFinite ==
    /\ IsFiniteSet(Refused) /\ Cardinality(Refused) \in Nat
    /\ \A e : IsFiniteSet(Between(e)) /\ Cardinality(Between(e)) \in Nat
<1>1. IsFiniteSet(Refused)
  BY PathAssumption, FS_Subset DEF Refused
<1>2. \A e : IsFiniteSet(Between(e))
  BY PathAssumption, FS_Subset DEF Between
<1> QED
  BY <1>1, <1>2, FS_CardinalityType

\* A rejection is counted once before _after has seen it.
LEMMA RefuseStep ==
    ASSUME MInv, ThreadsOK', NEW t \in Threads, Refuse(t)
    PROVE  MInv'
<1>1. /\ thread[t].pc = "refuse" /\ total' = Inc(total, 429) /\ Respond(t, 429)
      /\ UNCHANGED <<answered, observed, latency>> /\ ThreadsOK
  BY DEF Refuse, At, MInv
<1>2. /\ Others(t) /\ thread'[t].pc = "observe"
      /\ thread'[t].path = thread[t].path /\ thread'[t].status = 429
      /\ thread'[t].todo = thread[t].todo /\ thread'[t].report = thread[t].report
  BY <1>1, RespondFacts
<1>3. /\ total' \in [Statuses -> Nat] /\ total'[429] = total[429] + 1
      /\ \A x \in Statuses : x # 429 => total'[x] = total[x]
  <2>1. total \in [Statuses -> Nat] /\ 429 \in Statuses
    BY StatusesAre DEF MInv, LogsOK
  <2> QED
    BY <1>1, <2>1, IncFacts
<1>4. \A e \in Paths : DataOf(e)' = DataOf(e)
  BY <1>1 DEF DataOf
<1>5. LogsOK'
  BY <1>1, <1>3, <1>4 DEF MInv, LogsOK, DataOK
<1>6. RequestsOK'
  BY <1>1, <1>2, StatusesAre DEF MInv, RequestsOK, Others
<1>7. Refused' = Refused \cup {t} /\ t \notin Refused
  BY <1>1, <1>2 DEF Refused, At, Others
<1>8. \A e \in Paths : Between(e)' = Between(e)
  BY <1>1, <1>2 DEF Between, At, Others
<1>9. Cardinality(Refused') = Cardinality(Refused) + 1 /\ Cardinality(Refused) \in Nat
  <2>1. Cardinality(Refused \cup {t}) = Cardinality(Refused) + 1
    BY <1>7, HooksFinite, FS_AddElement
  <2> QED
    BY <1>7, <2>1, HooksFinite
<1>10. Balance'
  <2> DEFINE N(s) == Number(answered, [path : Paths, status : {s}])
  <2>1. \A s \in Statuses : N(s) \in Nat
    BY NumberType DEF MInv, LogsOK
  <2>2. \A s \in Statuses : total[s] = IF s = 429 THEN 2 * N(s) + Cardinality(Refused) ELSE N(s)
    BY DEF MInv, Balance
  <2>3. \A s \in Statuses : total'[s] = IF s = 429 THEN 2 * N(s) + Cardinality(Refused') ELSE N(s)
    <3> HIDE DEF N
    <3> QED
      BY <1>3, <1>9, <2>1, <2>2, StatusesAre
  <2> QED
    BY <1>1, <1>4, <1>8, <2>3 DEF MInv, Balance
<1>11. ReportsAreSound'
  <2>1. \A s \in Threads : \A r \in thread'[s].report : Sound(r)
    BY <1>2, ReportsAre DEF MInv, Others
  <2> QED
    BY <2>1 DEF ReportsAreSound, Sound
<1> QED
  BY <1>5, <1>6, <1>10, <1>11 DEF MInv

\* A latency is observed at the endpoint of the request, where it is in the
\* histogram and not yet in the counter.
LEMMA ObserveStep ==
    ASSUME MInv, ThreadsOK', NEW t \in Threads, Observe(t)
    PROVE  MInv'
<1>1. PICK e \in Paths : e = thread[t].path
  BY DEF MInv, RequestsOK, Observe, At
<1>2. PICK value \in Boundaries :
         /\ latency' = [p \in DOMAIN latency \cup {e} |->
                            IF p = e THEN observe(DataOf(e), value) ELSE latency[p]]
         /\ observed' = [observed EXCEPT ![e] = Append(@, value)]
  BY <1>1 DEF Observe
<1>3. /\ thread[t].pc = "observe" /\ Goto(t, "count") /\ ThreadsOK
      /\ UNCHANGED <<total, answered>>
  BY DEF Observe, At, MInv
<1>4. /\ Others(t) /\ thread'[t].pc = "count"
      /\ thread'[t].path = e /\ thread'[t].status = thread[t].status
      /\ thread'[t].todo = thread[t].todo /\ thread'[t].report = thread[t].report
  BY <1>1, <1>3, GotoFacts
<1>5. /\ DataOf(e)' = observe(DataOf(e), value)
      /\ \A p \in Paths : p # e => DataOf(p)' = DataOf(p)
  BY <1>2 DEF DataOf
<1>6. /\ observed \in [Paths -> Seq(Boundaries)] /\ DOMAIN latency \subseteq Paths
      /\ \A p \in Paths : DataOK(DataOf(p), observed[p])
  BY DEF MInv, LogsOK
<1>7. /\ observed' \in [Paths -> Seq(Boundaries)]
      /\ observed'[e] = Append(observed[e], value)
      /\ \A p \in Paths : p # e => observed'[p] = observed[p]
  BY <1>2, <1>6
<1>8. /\ DataOK(observe(DataOf(e), value), Append(observed[e], value))
      /\ observe(DataOf(e), value).count = DataOf(e).count + 1
  BY <1>6, DataObserve
<1>9. LogsOK'
  <2>1. DOMAIN latency' = DOMAIN latency \cup {e}
    BY <1>2
  <2>2. ASSUME NEW p \in Paths PROVE DataOK(DataOf(p), observed[p])'
    <3>1. CASE p = e
      BY <1>5, <1>7, <1>8, <3>1 DEF DataOK
    <3>2. CASE p # e
      BY <1>5, <1>6, <1>7, <3>2 DEF DataOK
    <3> QED
      BY <3>1, <3>2
  <2> QED
    BY <1>3, <1>6, <1>7, <2>1, <2>2 DEF MInv, LogsOK
<1>10. RequestsOK'
  <2>1. DOMAIN latency \subseteq DOMAIN latency'
    BY <1>2
  <2>2. thread[t].status \in Statuses /\ thread[t].todo \subseteq DOMAIN latency
    BY DEF MInv, RequestsOK
  <2>3. ASSUME NEW s \in Threads, s # t
        PROVE  /\ thread'[s].status \in Statuses
               /\ thread'[s].pc # "idle" => thread'[s].path \in Paths
               /\ thread'[s].todo \subseteq DOMAIN latency'
    BY <1>4, <2>1, <2>3 DEF MInv, RequestsOK, Others
  <2> QED
    BY <1>4, <2>1, <2>2, <2>3 DEF RequestsOK
<1>11. Refused' = Refused
  BY <1>3, <1>4 DEF Refused, At, Others
<1>12. /\ Between(e)' = Between(e) \cup {t} /\ t \notin Between(e)
       /\ \A p \in Paths : p # e => Between(p)' = Between(p)
  BY <1>3, <1>4 DEF Between, At, Others
<1>13. Cardinality(Between(e)') = Cardinality(Between(e)) + 1 /\ Cardinality(Between(e)) \in Nat
  <2>1. Cardinality(Between(e) \cup {t}) = Cardinality(Between(e)) + 1
    BY <1>12, HooksFinite, FS_AddElement
  <2> QED
    BY <1>12, <2>1, HooksFinite
<1>14. Balance'
  <2> DEFINE N(p) == Number(answered, [path : {p}, status : Statuses])
  <2>1. \A p \in Paths : N(p) \in Nat
    BY NumberType DEF MInv, LogsOK
  <2>2. \A p \in Paths : DataOf(p).count = N(p) + Cardinality(Between(p))
    BY DEF MInv, Balance
  <2>3. DataOf(e)'.count = N(e) + Cardinality(Between(e)')
    <3> HIDE DEF N
    <3> QED
      BY <1>5, <1>8, <1>13, <2>1, <2>2
  <2>4. \A p \in Paths : p # e => DataOf(p)'.count = N(p) + Cardinality(Between(p)')
    BY <1>5, <1>12, <2>2
  <2> QED
    BY <1>3, <1>11, <2>3, <2>4 DEF MInv, Balance
<1>15. ReportsAreSound'
  <2>1. \A s \in Threads : \A r \in thread'[s].report : Sound(r)
    BY <1>4, ReportsAre DEF MInv, Others
  <2> QED
    BY <2>1 DEF ReportsAreSound, Sound
<1> QED
  BY <1>9, <1>10, <1>14, <1>15 DEF MInv

\* The response enters the counter, where it has been once if it is a rejection.
LEMMA CountStep ==
    ASSUME MInv, ThreadsOK', NEW t \in Threads, Count(t)
    PROVE  MInv'
<1>1. PICK e \in Paths, st \in Statuses : e = thread[t].path /\ st = thread[t].status
  BY DEF MInv, RequestsOK, Count, At
<1> DEFINE r == [path |-> e, status |-> st]
<1>2. /\ thread[t].pc = "count" /\ total' = Inc(total, st) /\ answered' = Append(answered, r)
      /\ UNCHANGED <<latency, observed>> /\ thread' = [thread EXCEPT ![t] = Idle]
  BY <1>1 DEF Count, Counted, At
<1>3. Others(t) /\ thread'[t] = Idle
  BY <1>2 DEF MInv, ThreadsOK, Others
<1>4. /\ total' \in [Statuses -> Nat] /\ total'[st] = total[st] + 1
      /\ \A x \in Statuses : x # st => total'[x] = total[x]
  BY <1>2, IncFacts DEF MInv, LogsOK
<1>5. r \in Response /\ answered \in Seq(Response) /\ answered' \in Seq(Response)
  BY <1>2 DEF MInv, LogsOK, Response
<1>6. \A p \in Paths : DataOf(p)' = DataOf(p)
  BY <1>2 DEF DataOf
<1>7. LogsOK'
  BY <1>2, <1>4, <1>5, <1>6 DEF MInv, LogsOK, DataOK
<1>8. RequestsOK'
  <2>1. Idle.status \in Statuses /\ Idle.pc = "idle" /\ Idle.todo = {}
    BY DEF Idle, Statuses
  <2>2. ASSUME NEW s \in Threads, s # t
        PROVE  /\ thread'[s].status \in Statuses
               /\ thread'[s].pc # "idle" => thread'[s].path \in Paths
               /\ thread'[s].todo \subseteq DOMAIN latency'
    BY <1>2, <1>3, <2>2 DEF MInv, RequestsOK, Others
  <2> QED
    BY <1>3, <2>1, <2>2 DEF RequestsOK
<1>9. /\ \A s \in Statuses : Number(answered', [path : Paths, status : {s}])
            = Number(answered, [path : Paths, status : {s}]) + (IF s = st THEN 1 ELSE 0)
      /\ \A p \in Paths : Number(answered', [path : {p}, status : Statuses])
            = Number(answered, [path : {p}, status : Statuses]) + (IF p = e THEN 1 ELSE 0)
  <2>1. /\ \A s \in Statuses : r \in [path : Paths, status : {s}] <=> s = st
        /\ \A p \in Paths : r \in [path : {p}, status : Statuses] <=> p = e
    OBVIOUS
  <2> HIDE DEF r
  <2>2. \A S : Number(answered', S) = Number(answered, S) + (IF r \in S THEN 1 ELSE 0)
    BY <1>2, <1>5, NumberAppend
  <2> QED
    BY <2>1, <2>2
<1>10. Idle.pc = "idle"
  BY DEF Idle
<1>11. /\ Between(e)' = Between(e) \ {t} /\ t \in Between(e)
       /\ \A p \in Paths : p # e => Between(p)' = Between(p)
  BY <1>1, <1>2, <1>3, <1>10 DEF Between, At, Others
<1>12. Cardinality(Between(e)') = Cardinality(Between(e)) - 1 /\ Cardinality(Between(e)) \in Nat
  <2>1. Cardinality(Between(e) \ {t}) = Cardinality(Between(e)) - 1
    BY <1>11, HooksFinite, FS_RemoveElement
  <2> QED
    BY <1>11, <2>1, HooksFinite
<1>13. Cardinality(Refused') = Cardinality(Refused) - (IF st = 429 THEN 1 ELSE 0)
       /\ Cardinality(Refused) \in Nat
  <2>1. CASE st = 429
    <3>1. Refused' = Refused \ {t} /\ t \in Refused
      <4>1. t \in Refused
        BY <1>1, <1>2, <2>1 DEF Refused, At
      <4>2. \A s \in Threads \ {t} : s \in Refused' <=> s \in Refused
        BY <1>3 DEF Refused, At, Others
      <4>3. t \notin Refused'
        BY <1>3, <1>10 DEF Refused, At
      <4> QED
        BY <4>1, <4>2, <4>3 DEF Refused
    <3>2. Cardinality(Refused \ {t}) = Cardinality(Refused) - 1
      BY <3>1, HooksFinite, FS_RemoveElement
    <3> QED
      BY <2>1, <3>1, <3>2, HooksFinite
  <2>2. CASE st # 429
    <3>1. Refused' = Refused
      BY <1>1, <1>2, <1>3, <1>10, <2>2 DEF Refused, At, Others
    <3> QED
      BY <2>2, <3>1, HooksFinite
  <2> QED
    BY <2>1, <2>2
<1>14. Balance'
  <2> DEFINE N(s) == Number(answered, [path : Paths, status : {s}])
             M(p) == Number(answered, [path : {p}, status : Statuses])
             O(s) == Number(answered', [path : Paths, status : {s}])
             Q(p) == Number(answered', [path : {p}, status : Statuses])
  <2>1. (\A s \in Statuses : N(s) \in Nat) /\ (\A p \in Paths : M(p) \in Nat)
    BY <1>5, NumberType
  <2>2. /\ \A s \in Statuses : total[s] = IF s = 429 THEN 2 * N(s) + Cardinality(Refused) ELSE N(s)
        /\ \A p \in Paths : DataOf(p).count = M(p) + Cardinality(Between(p))
    BY DEF MInv, Balance
  <2>3. /\ \A s \in Statuses : O(s) = N(s) + (IF s = st THEN 1 ELSE 0)
        /\ \A p \in Paths : Q(p) = M(p) + (IF p = e THEN 1 ELSE 0)
    BY <1>9
  <2> HIDE DEF N, M, O, Q
  <2>4. ASSUME NEW s \in Statuses
        PROVE  total'[s] = IF s = 429 THEN 2 * O(s) + Cardinality(Refused') ELSE O(s)
    <3>1. CASE s = st
      BY <1>4, <1>13, <2>1, <2>2, <2>3, <3>1
    <3>2. CASE s # st
      BY <1>4, <1>13, <2>1, <2>2, <2>3, <3>2
    <3> QED
      BY <3>1, <3>2
  <2>5. ASSUME NEW p \in Paths
        PROVE  DataOf(p)'.count = Q(p) + Cardinality(Between(p)')
    <3>1. CASE p = e
      BY <1>6, <1>12, <2>1, <2>2, <2>3, <3>1
    <3>2. CASE p # e
      BY <1>6, <1>11, <2>1, <2>2, <2>3, <3>2
    <3> QED
      BY <3>1, <3>2
  <2> QED
    BY <2>4, <2>5 DEF Balance, O, Q
<1>15. ReportsAreSound'
  <2>1. \A s \in Threads : \A x \in thread'[s].report : Sound(x)
    <3>1. Idle.report = {}
      BY DEF Idle
    <3> QED
      BY <1>3, <3>1, ReportsAre DEF MInv, Others
  <2> QED
    BY <2>1 DEF ReportsAreSound, Sound
<1> QED
  BY <1>7, <1>8, <1>14, <1>15 DEF MInv

LEMMA MetricsInit == Init => MInv
<1> SUFFICES ASSUME Init PROVE MInv
  OBVIOUS
<1>1. ThreadsOK
  BY WindowInit
<1>2. /\ answered = <<>> /\ \A t \in Threads : thread[t] = Idle
      /\ total = [s \in Statuses |-> 0] /\ observed = [e \in Paths |-> <<>>]
      /\ DOMAIN latency = {}
  BY DEF Init
<1>3. \A e \in Paths : DataOf(e) = _init_label
  BY <1>2 DEF DataOf
<1>4. LogsOK
  BY <1>2, <1>3, DataInit DEF LogsOK
<1>5. RequestsOK
  BY <1>2 DEF RequestsOK, Idle, Statuses
<1>6. Refused = {} /\ \A e \in Paths : Between(e) = {}
  BY <1>2 DEF Refused, Between, At, Idle
<1>7. Balance
  <2>1. /\ \A s \in Statuses : Number(answered, [path : Paths, status : {s}]) = 0
        /\ \A e \in Paths : Number(answered, [path : {e}, status : Statuses]) = 0
    BY <1>2, NumberOfNone
  <2>2. Cardinality(Refused) = 0 /\ \A e \in Paths : Cardinality(Between(e)) = 0
    BY <1>6, FS_EmptySet
  <2>3. /\ \A s \in Statuses : total[s] = 0
        /\ \A e \in Paths : DataOf(e).count = 0
    BY <1>2, <1>3 DEF _init_label
  <2> QED
    BY <2>1, <2>2, <2>3 DEF Balance
<1>8. ReportsAreSound
  BY <1>2 DEF ReportsAreSound, Idle
<1> QED
  BY <1>1, <1>4, <1>5, <1>7, <1>8 DEF MInv

LEMMA MetricsStep == MInv /\ [Next]_vars => MInv'
<1> SUFFICES ASSUME MInv, [Next]_vars PROVE MInv'
  OBVIOUS
<1>1. ASSUME NEW t \in Threads, (\E kind \in Kinds : Arrive(t, kind)) \/ Serve(t) PROVE MInv'
  <2>1. ThreadsOK'
    BY <1>1, ThreadStep DEF MInv
  <2> QED
    BY <1>1, <2>1, QuietActions, RefuseStep, ObserveStep, CountStep DEF Serve, Quiet
<1>2. ASSUME ThreadsOK', UNCHANGED <<metrics, thread>> PROVE MInv'
  <2>1. LogsOK'
    BY <1>2, LogsQuiet DEF metrics, MInv
  <2>2. RequestsOK' /\ ReportsAreSound'
    BY <1>2 DEF metrics, MInv, RequestsOK, ReportsAreSound
  <2>3. Balance'
    <3>1. UNCHANGED <<total, answered>>
      BY <1>2 DEF metrics
    <3>2. Refused' = Refused
      BY <1>2 DEF Refused, At
    <3>3. \A e \in Paths : Between(e)' = Between(e) /\ DataOf(e)' = DataOf(e)
      BY <1>2 DEF Between, At, DataOf, metrics
    <3> QED
      BY <3>1, <3>2, <3>3 DEF MInv, Balance
  <2> QED
    BY <1>2, <2>1, <2>2, <2>3 DEF MInv
<1>3. CASE Tick
  <2>1. ThreadsOK'
    BY <1>3, PathAssumption DEF Tick, At, ThreadsOK, MInv
  <2> QED
    BY <1>2, <1>3, <2>1 DEF Tick
<1>4. CASE UNCHANGED vars
  BY <1>2, <1>4 DEF vars, ThreadsOK, MInv
<1> QED
  BY <1>1, <1>3, <1>4 DEF Next

\* The counter misses no response and repeats none but rejections, and the
\* histogram accounts for the same responses, at every moment and for any
\* threads, endpoints and statuses.
THEOREM Reconciled == Spec => []CountersReconcile
<1>1. MInv => CountersReconcile
  <2> SUFFICES ASSUME MInv PROVE CountersReconcile
    OBVIOUS
  <2>1. answered \in Seq(Response) /\ Balance
    BY DEF MInv, LogsOK, Response
  <2>2. ASSUME NEW s \in Statuses
        PROVE  total[s] >= With(s) /\ (s # 429 => total[s] = With(s))
    <3>1. With(s) \in Nat
      BY <2>1, NumberType DEF With
    <3>2. total[s] = IF s = 429 THEN 2 * With(s) + Cardinality(Refused) ELSE With(s)
      BY <2>1 DEF Balance, With
    <3>3. Cardinality(Refused) \in Nat
      BY HooksFinite
    <3> QED
      BY <3>1, <3>2, <3>3
  <2>3. \A e \in Paths : DataOf(e).count = Of(e) + Cardinality(Between(e))
    BY <2>1 DEF Balance, Of
  <2> QED
    BY <2>2, <2>3 DEF CountersReconcile
<1> QED
  BY <1>1, MetricsInit, MetricsStep, PTL DEF Spec

\* What a scrape reports is true of the latencies observed before, although it
\* walks the histogram while others insert.
THEOREM ReportsSound == Spec => []ReportsAreSound
<1>1. MInv => ReportsAreSound
  BY DEF MInv
<1> QED
  BY <1>1, MetricsInit, MetricsStep, PTL DEF Spec

-------------------------------------------------------------------------------
(* Types.                                                                  *)

\* A sequence of moments that have come.
Past(s) == s \in Seq(Nat) /\ \A i \in 1..Len(s) : s[i] <= clock

Rest == /\ Past(win) /\ Past(spent) /\ Past(passed)
        /\ probe \in BOOLEAN
        /\ requests \in 0..MaxRequests

LEMMA PastAppend ==
    ASSUME NEW s, Past(s), NEW x \in Nat, x <= clock
    PROVE  Past(Append(s, x))
BY DEF Past

LEMMA PastEvicted ==
    ASSUME NEW w, Past(w), NEW now \in Nat
    PROVE  Past(Evicted(w, now))
<1>1. w \in Seq(Nat) /\ Len(w) \in Nat
  BY DEF Past
<1>2. PICK d \in 0..Len(w) :
         /\ Evicted(w, now) \in Seq(Nat) /\ Len(Evicted(w, now)) = Len(w) - d
         /\ \A i \in 1..(Len(w) - d) : Evicted(w, now)[i] = w[i + d]
  BY <1>1, Eviction
<1>3. \A i \in 1..(Len(w) - d) : i + d \in 1..Len(w)
  BY <1>1
<1> QED
  BY <1>2, <1>3 DEF Past

LEMMA RestStep == ThreadsOK /\ Rest /\ [Next]_vars => Rest'
<1> SUFFICES ASSUME ThreadsOK, Rest, [Next]_vars PROVE Rest'
  OBVIOUS
<1>1. clock \in Nat
  BY DEF ThreadsOK
<1>2. ASSUME clock' = clock \/ clock' = clock + 1, UNCHANGED limiter,
             probe' \in BOOLEAN, requests' \in 0..MaxRequests
      PROVE  Rest'
  BY <1>1, <1>2 DEF limiter, Rest, Past
<1>3. CASE Tick
  BY <1>2, <1>3 DEF Tick, Rest
<1>4. ASSUME NEW t \in Threads, NEW kind \in Kinds, Arrive(t, kind) PROVE Rest'
  BY <1>2, <1>4, PathAssumption DEF Arrive, Rest
<1>5. ASSUME NEW t \in Threads, PassBucket(t) PROVE Rest'
  <2>1. Past(Append(spent, clock))
    BY <1>1, PastAppend DEF Rest
  <2>2. spent' \in {spent, Append(spent, clock)} /\ UNCHANGED <<clock, win, passed, probe, requests>>
    BY <1>5 DEF PassBucket
  <2> QED
    BY <2>1, <2>2 DEF Rest, Past
<1>6. ASSUME NEW t \in Threads, PassWindow(t) PROVE Rest'
  <2> DEFINE now == thread[t].now
  <2>1. now \in Nat /\ now <= clock
    BY <1>1 DEF ThreadsOK
  <2> HIDE DEF now
  <2>2. Past(Evicted(win, now)) /\ Past(Append(Evicted(win, now), now)) /\ Past(Append(passed, clock))
    BY <1>1, <2>1, PastAppend, PastEvicted DEF Rest
  <2>3. /\ win' \in {Evicted(win, now), Append(Evicted(win, now), now)}
        /\ passed' \in {passed, Append(passed, clock)}
        /\ UNCHANGED <<clock, spent, probe, requests>>
    BY <1>6 DEF PassWindow, window_allow, now
  <2> QED
    BY <2>2, <2>3 DEF Rest, Past
<1>7. ASSUME NEW t \in Threads, Serve(t), ~PassBucket(t), ~PassWindow(t) PROVE Rest'
  <2>1. clock' = clock /\ UNCHANGED limiter /\ probe' \in BOOLEAN /\ requests' = requests
    BY <1>7
    DEF Serve, ReadClock, Refuse, Handle, StartScrape, ScrapeFails, ScrapeNext, ScrapeEnds,
        WriteProbe, RemoveProbe, Observe, Count, Rest
  <2> QED
    BY <1>2, <2>1 DEF Rest
<1>8. CASE UNCHANGED vars
  BY <1>2, <1>8 DEF vars, Rest
<1> QED
  BY <1>3, <1>4, <1>5, <1>6, <1>7, <1>8 DEF Next

LEMMA PastIs == ASSUME NEW s, Past(s), clock \in Nat PROVE s \in Seq(0..clock)
<1>1. /\ Len(s) \in Nat /\ DOMAIN s = 1..Len(s)
      /\ \A i \in 1..Len(s) : s[i] \in 0..clock
      /\ s = [i \in 1..Len(s) |-> s[i]]
  BY DEF Past
<1> QED
  BY <1>1

\* The bucket never overflows, the deque keeps its bound, and every number and
\* label has its type.
THEOREM TypeCorrect == Spec => []TypeOK
<1> DEFINE Inv == BucketOK /\ BurstBound /\ WindowOK /\ WindowBound /\ MInv /\ Rest
<1>1. Init => Inv
  <2>1. Init => Rest
    <3> SUFFICES ASSUME Init PROVE Rest
      OBVIOUS
    <3>1. win = <<>> /\ spent = <<>> /\ passed = <<>> /\ requests = 0
      BY DEF Init
    <3>2. Past(win) /\ Past(spent) /\ Past(passed)
      BY <3>1 DEF Past
    <3>3. probe \in BOOLEAN
      BY DEF Init
    <3>4. requests \in 0..MaxRequests
      BY <3>1, PathAssumption
    <3> QED
      BY <3>2, <3>3, <3>4 DEF Rest
  <2> QED
    BY <2>1, BucketInit, WindowInit, MetricsInit
<1>2. Inv /\ [Next]_vars => Inv'
  <2> SUFFICES ASSUME Inv, [Next]_vars PROVE Inv'
    OBVIOUS
  <2>1. ThreadsOK
    BY DEF MInv
  <2> QED
    BY <2>1, BucketInductive, WindowInductive, MetricsStep, RestStep
<1>3. Inv => TypeOK
  <2> SUFFICES ASSUME Inv PROVE TypeOK
    OBVIOUS
  <2>1. clock \in Nat /\ bucket \in [tokens : 0..Capacity, last : 0..clock] /\ Len(win) <= MaxCalls
    BY DEF BucketOK, WindowOK
  <2>2. win \in Seq(0..clock) /\ spent \in Seq(0..clock) /\ passed \in Seq(0..clock)
    BY <2>1, PastIs DEF Rest
  <2>3. \A e \in DOMAIN latency : latency[e] \in [counts : [Boundaries -> Nat], count : Nat]
    BY DEF MInv, LogsOK, DataOK, DataOf
  <2>4. \A t \in Threads : thread[t].now \in 0..clock /\ thread[t].todo \subseteq Paths
    BY DEF MInv, LogsOK, RequestsOK, ThreadsOK
  <2> QED
    BY <2>1, <2>2, <2>3, <2>4 DEF TypeOK, Rest, MInv, LogsOK, Response
<1> HIDE DEF Inv
<1> QED
  BY <1>1, <1>2, <1>3, PTL DEF Spec
==============================================================================
