------------------------ MODULE BatchPredictorProofs ------------------------
(***************************************************************************)
(* The answers of the batch predictor, for any number of callers, models   *)
(* and shapes and any batch size: rows find their way back to the futures  *)
(* they belong to, and a caller only ever collects its own.  A request     *)
(* that waits for a model is in one place of its queue or batch.           *)
(***************************************************************************)
EXTENDS BatchPredictor, SequenceTheorems, TLAPS

\* A future that has a value has the prediction for its own request.
FuturesOK ==
    /\ DOMAIN future = Models
    /\ \A m \in Models :
          /\ DOMAIN future[m] = Requests
          /\ \A r \in Requests : future[m][r].state = "done" => future[m][r].of = r

\* A caller is at one of the models, and a call that has begun has a number.
CallersOK ==
    /\ DOMAIN caller = Callers
    /\ \A c \in Callers :
          /\ DOMAIN caller[c] = {"pc", "n", "k", "results"}
          /\ caller[c].n \in 0..MaxCalls
          /\ caller[c].pc \in {"submit", "wait"} =>
                caller[c].n \in 1..MaxCalls /\ caller[c].k \in 1..Len(Order)
          /\ \A x \in caller[c].results : x[2] = Request(c)

IInv == FuturesOK /\ CallersOK

LEMMA OrderType ==
    /\ Len(Order) \in Nat /\ 1 \in 1..Len(Order) /\ DOMAIN Order = 1..Len(Order)
    /\ \A k \in 1..Len(Order) : Order[k] \in Models
BY BatchAssumption DEF Models, ToSet

\* From a model on, the caller is at the next one or done.
LEMMA AdvanceType ==
    ASSUME NEW k \in 1..Len(Order), NEW now, NEW next
    PROVE  LET a == Advance(k, now, next) IN
           /\ a.pc = now \/ a.pc = next
           /\ a.k \in 1..Len(Order)
BY OrderType DEF Advance

\* Each future of a batch gets the row of its own request.
LEMMA ResolveOwn ==
    ASSUME FuturesOK, NEW m \in Models, NEW state,
           NEW r \in Requests, Resolve(m, batch[m], state)[r].state = "done"
    PROVE  Resolve(m, batch[m], state)[r].of = r
<1> DEFINE b == batch[m]
<1>1. CASE r \in ToSet(b)
  <2>1. \E i \in DOMAIN b : b[i] = r
    BY <1>1 DEF ToSet
  <2>2. b[CHOOSE i \in DOMAIN b : b[i] = r] = r
    BY <2>1
  <2> QED
    BY <1>1, <2>2 DEF Resolve, Row
<1>2. CASE r \notin ToSet(b)
  BY <1>2 DEF Resolve, FuturesOK
<1> QED
  BY <1>1, <1>2

\* What the caller knows of itself; r is its next state.
Sound(c, r) ==
    /\ DOMAIN r = {"pc", "n", "k", "results"}
    /\ r.n \in 0..MaxCalls
    /\ r.pc \in {"submit", "wait"} => r.n \in 1..MaxCalls /\ r.k \in 1..Len(Order)
    /\ \A x \in r.results : x[2] = <<c, r.n>>

LEMMA CallerStep ==
    ASSUME CallersOK, NEW c \in Callers, NEW r, Sound(c, r),
           caller' = [caller EXCEPT ![c] = r]
    PROVE  CallersOK'
<1>1. caller'[c] = r /\ DOMAIN caller' = Callers
      /\ \A d \in Callers : d # c => caller'[d] = caller[d]
  BY DEF CallersOK
<1> QED
  BY <1>1 DEF CallersOK, Sound, Request

LEMMA StepBegin ==
    ASSUME CallersOK, NEW c \in Callers, Begin(c)
    PROVE  CallersOK'
<1> DEFINE r == [Idle EXCEPT !.pc = "submit", !.n = caller[c].n + 1]
<1>1. caller' = [caller EXCEPT ![c] = r] /\ caller[c].n < MaxCalls
  BY DEF Begin
<1>2. Sound(c, r)
  BY <1>1, OrderType, BatchAssumption DEF CallersOK, Sound, Idle
<1> HIDE DEF r
<1> QED
  BY <1>1, <1>2, CallerStep

LEMMA StepSubmit ==
    ASSUME CallersOK, NEW c \in Callers, predict_async(c)
    PROVE  CallersOK'
<1> DEFINE a == Advance(caller[c].k, "submit", "wait")
           r == [caller[c] EXCEPT !.pc = a.pc, !.k = a.k]
<1>1. caller[c].pc = "submit" /\ caller' = [caller EXCEPT ![c].pc = a.pc, ![c].k = a.k]
  BY DEF predict_async
<1>2. a.k \in 1..Len(Order)
  BY <1>1, AdvanceType DEF CallersOK
<1> HIDE DEF a
<1>3. caller' = [caller EXCEPT ![c] = r]
  BY <1>1
<1>4. Sound(c, r)
  BY <1>1, <1>2 DEF CallersOK, Sound, Request
<1> HIDE DEF r
<1> QED
  BY <1>3, <1>4, CallerStep

\* A value that is collected comes from the caller's own future.
LEMMA StepAwait ==
    ASSUME IInv, NEW c \in Callers, Await(c)
    PROVE  CallersOK'
<1> DEFINE m == Order[caller[c].k]
           f == future[m][Request(c)]
           a == Advance(caller[c].k, "wait", "mean")
           results == IF f.state = "done" THEN caller[c].results \cup {<<m, f.of>>}
                                          ELSE caller[c].results
           r == [caller[c] EXCEPT !.pc = a.pc, !.k = a.k, !.results = results]
<1>1. /\ caller[c].pc = "wait"
      /\ caller' = [caller EXCEPT ![c].pc = a.pc, ![c].k = a.k, ![c].results = results]
  BY DEF Await
<1>2. caller[c].n \in 1..MaxCalls /\ caller[c].k \in 1..Len(Order) /\ a.k \in 1..Len(Order)
  BY <1>1, AdvanceType DEF IInv, CallersOK
<1>3. m \in Models /\ Request(c) \in Requests
  BY <1>2, OrderType DEF Request, Requests
<1>4. \A x \in results : x[2] = <<c, caller[c].n>>
  BY <1>3 DEF IInv, FuturesOK, CallersOK, Request
<1> HIDE DEF a, results
<1>5. caller' = [caller EXCEPT ![c] = r]
  BY <1>1
<1>6. Sound(c, r)
  BY <1>2, <1>4 DEF IInv, CallersOK, Sound
<1> HIDE DEF r
<1> QED
  BY <1>5, <1>6, CallerStep DEF IInv

LEMMA StepReturn ==
    ASSUME CallersOK, NEW c \in Callers, Return(c)
    PROVE  CallersOK'
<1> DEFINE r == [Idle EXCEPT !.n = caller[c].n]
<1>1. caller' = [caller EXCEPT ![c] = r]
  BY DEF Return
<1>2. Sound(c, r)
  BY DEF CallersOK, Sound, Idle
<1> HIDE DEF r
<1> QED
  BY <1>1, <1>2, CallerStep

\* Submitting makes a future pending, and nothing but a batch resolves one.
LEMMA FutureSteps ==
    ASSUME FuturesOK, NEW c \in Callers, predict_sync(c)
    PROVE  FuturesOK'
<1>1. CASE future' = future
  BY <1>1 DEF FuturesOK
<1>2. CASE predict_async(c)
  <2> DEFINE m == Order[caller[c].k]
             q == Request(c)
  <2>1. future' = [future EXCEPT ![m][q].state = "pending"]
    BY <1>2 DEF predict_async
  <2> HIDE DEF m, q
  <2>2. /\ DOMAIN future' = Models
        /\ \A x \in Models : DOMAIN future'[x] = Requests
        /\ \A x \in Models : \A r \in Requests :
              future'[x][r] = future[x][r] \/ future'[x][r].state = "pending"
    BY <2>1 DEF FuturesOK
  <2> QED
    BY <2>2 DEF FuturesOK
<1> QED
  BY <1>1, <1>2 DEF predict_sync, Begin, Await, Return

LEMMA StepModel ==
    ASSUME IInv, NEW m \in Models, _batch_loop(m)
    PROVE  IInv'
<1>1. caller' = caller
  BY DEF _batch_loop, Exit, First, Drain, Take, EndCollect, _run_batch
<1>2. CallersOK'
  BY <1>1 DEF IInv, CallersOK, Request
<1>3. CASE future' = future
  BY <1>2, <1>3 DEF IInv, FuturesOK
<1>4. ASSUME NEW state, future' = [future EXCEPT ![m] = Resolve(m, batch[m], state)]
      PROVE  FuturesOK'
  <2>1. /\ DOMAIN future' = Models /\ future'[m] = Resolve(m, batch[m], state)
        /\ \A x \in Models : x # m => future'[x] = future[x]
    BY <1>4 DEF IInv, FuturesOK
  <2>2. DOMAIN Resolve(m, batch[m], state) = Requests
    BY DEF Resolve
  <2>3. \A r \in Requests : future'[m][r].state = "done" => future'[m][r].of = r
    BY <2>1, ResolveOwn DEF IInv
  <2> QED
    BY <2>1, <2>2, <2>3 DEF IInv, FuturesOK
<1> QED
  BY <1>2, <1>3, <1>4
  DEF IInv, _batch_loop, Exit, First, Drain, Take, EndCollect, _run_batch

LEMMA Inductive == IInv /\ [Next]_vars => IInv'
<1> SUFFICES ASSUME IInv, [Next]_vars PROVE IInv'
  OBVIOUS
<1>1. ASSUME NEW c \in Callers, predict_sync(c) PROVE IInv'
  BY <1>1, StepBegin, StepSubmit, StepAwait, StepReturn, FutureSteps DEF IInv, predict_sync
<1>2. ASSUME NEW m \in Models, _batch_loop(m) PROVE IInv'
  BY <1>2, StepModel
<1>3. ASSUME UNCHANGED <<future, caller>> PROVE IInv'
  BY <1>3 DEF IInv, FuturesOK, CallersOK, Request
<1> QED
  BY <1>1, <1>2, <1>3 DEF Next, Stop, vars

-------------------------------------------------------------------------------
(* Where requests wait.                                                    *)

\* No request twice in queue q and batch b of a model.
Once(q, b) == IsInjective(q) /\ IsInjective(b) /\ ToSet(q) \cap ToSet(b) = {}

PendingAt(m) == {r \in Requests : future[m][r].state = "pending"}

LoopPc == {"check", "drain", "run", "exited", "dead"}

\* A model between two batches has collected nothing.
Collecting ==
    /\ DOMAIN queue = Models /\ DOMAIN batch = Models /\ DOMAIN loop = Models
    /\ \A m \in Models :
          /\ queue[m] \in Seq(Requests) /\ batch[m] \in Seq(Requests)
          /\ loop[m] \in LoopPc
          /\ Len(batch[m]) <= MaxBatch
          /\ loop[m] = "check" => batch[m] = <<>>

Waiting ==
    \A m \in Models : /\ Once(queue[m], batch[m])
                      /\ ToSet(queue[m]) \cup ToSet(batch[m]) = PendingAt(m)

\* The i-th request of caller c has not reached the k-th model.
Ahead(c, i, k) ==
    i > caller[c].n \/ (i = caller[c].n /\ caller[c].pc = "submit" /\ k >= caller[c].k)

\* A future is made when the request is put into the queue, not before.
Unasked ==
    \A c \in Callers, i \in 1..MaxCalls, k \in DOMAIN Order :
        Ahead(c, i, k) => future[Order[k]][<<c, i>>].state = "none"

WInv == Collecting /\ Waiting /\ Unasked

LEMMA SetOfSeq ==
    ASSUME NEW S, NEW s \in Seq(S)
    PROVE  /\ ToSet(s) = {s[i] : i \in 1..Len(s)}
           /\ ToSet(s) \subseteq S
BY LenProperties, ElementOfSeq DEF ToSet

LEMMA AppendSet ==
    ASSUME NEW S, NEW s \in Seq(S), NEW e \in S
    PROVE  /\ ToSet(Append(s, e)) = ToSet(s) \cup {e}
           /\ IsInjective(s) /\ e \notin ToSet(s) => IsInjective(Append(s, e))
<1>1. /\ Append(s, e) \in Seq(S) /\ Len(s) \in Nat /\ Len(Append(s, e)) = Len(s) + 1
      /\ \A i \in 1..Len(s) : Append(s, e)[i] = s[i]
      /\ Append(s, e)[Len(s) + 1] = e
  OBVIOUS
<1>2. /\ DOMAIN s = 1..Len(s)
      /\ DOMAIN Append(s, e) = 1..(Len(s) + 1)
  BY <1>1
<1>3. ToSet(Append(s, e)) = ToSet(s) \cup {e}
  BY <1>1, <1>2 DEF ToSet
<1>4. IsInjective(s) /\ e \notin ToSet(s) => IsInjective(Append(s, e))
  BY <1>1, <1>2 DEF ToSet, IsInjective
<1> QED
  BY <1>3, <1>4

LEMMA TailSet ==
    ASSUME NEW S, NEW s \in Seq(S), s # <<>>
    PROVE  /\ Head(s) \in S /\ Tail(s) \in Seq(S)
           /\ ToSet(s) = {Head(s)} \cup ToSet(Tail(s))
           /\ IsInjective(s) => IsInjective(Tail(s)) /\ Head(s) \notin ToSet(Tail(s))
<1>1. /\ Tail(s) \in Seq(S) /\ Len(s) \in Nat \ {0} /\ Len(Tail(s)) = Len(s) - 1
      /\ \A i \in 1..(Len(s) - 1) : Tail(s)[i] = s[i + 1]
      /\ Head(s) = s[1] /\ Head(s) \in S
  BY HeadTailProperties, EmptySeq
<1>2. DOMAIN s = 1..Len(s) /\ DOMAIN Tail(s) = 1..(Len(s) - 1)
  BY <1>1
<1> DEFINE t == Tail(s)
           n == Len(s)
<1>3. /\ n \in Nat \ {0} /\ DOMAIN s = 1..n /\ DOMAIN t = 1..(n - 1)
      /\ \A i \in 1..(n - 1) : t[i] = s[i + 1]
  BY <1>1, <1>2
<1> HIDE DEF t, n
<1>4. \A i \in 1..n : i = 1 \/ (i - 1 \in 1..(n - 1) /\ s[i] = t[i - 1])
  BY <1>3
<1>5. \A i \in 1..(n - 1) : i + 1 \in 1..n /\ i + 1 # 1
  BY <1>3
<1>6. ToSet(s) = {s[1]} \cup ToSet(t)
  <2>1. ToSet(s) \subseteq {s[1]} \cup ToSet(t)
    BY <1>3, <1>4 DEF ToSet
  <2>2. 1 \in 1..n
    BY <1>3
  <2>3. {s[1]} \cup ToSet(t) \subseteq ToSet(s)
    BY <1>3, <1>5, <2>2 DEF ToSet
  <2> QED
    BY <2>1, <2>3
<1>7. ASSUME IsInjective(s)
      PROVE  IsInjective(t) /\ s[1] \notin ToSet(t)
  <2>1. \A i, j \in 1..n : s[i] = s[j] => i = j
    BY <1>3, <1>7 DEF IsInjective
  <2>2. \A i, j \in 1..(n - 1) : t[i] = t[j] => i = j
    <3>1. \A i, j \in 1..(n - 1) : i + 1 = j + 1 => i = j
      OBVIOUS
    <3> QED
      BY <1>3, <1>5, <2>1, <3>1
  <2>3. 1 \in 1..n
    BY <1>3
  <2>4. \A i \in 1..(n - 1) : t[i] # s[1]
    BY <1>3, <1>5, <2>1, <2>3
  <2> QED
    BY <1>3, <2>2, <2>4 DEF ToSet, IsInjective
<1> QED
  BY <1>1, <1>6, <1>7 DEF t

LEMMA JoinInjective ==
    ASSUME NEW S, NEW q \in Seq(S), NEW b \in Seq(S)
    PROVE  /\ ToSet(q \o b) = ToSet(q) \cup ToSet(b)
           /\ Once(q, b) => IsInjective(q \o b)
<1> DEFINE j == q \o b
           m == Len(q)
           n == Len(b)
<1>1. /\ m \in Nat /\ n \in Nat
      /\ DOMAIN q = 1..m /\ DOMAIN b = 1..n /\ DOMAIN j = 1..(m + n)
      /\ \A i \in 1..(m + n) : j[i] = IF i <= m THEN q[i] ELSE b[i - m]
  BY ConcatProperties, LenProperties
<1> HIDE DEF j, m, n
<1>2. /\ \A i \in 1..m : i \in 1..(m + n) /\ j[i] = q[i]
      /\ \A i \in 1..n : m + i \in 1..(m + n) /\ j[m + i] = b[i]
  BY <1>1
<1>3. \A i \in 1..(m + n) : \/ i \in 1..m /\ j[i] = q[i]
                            \/ i - m \in 1..n /\ j[i] = b[i - m]
  BY <1>1
<1>4. ToSet(j) = ToSet(q) \cup ToSet(b)
  <2>1. ToSet(j) \subseteq ToSet(q) \cup ToSet(b)
    BY <1>1, <1>3 DEF ToSet
  <2>2. ToSet(q) \subseteq ToSet(j)
    <3> SUFFICES ASSUME NEW i \in 1..m PROVE q[i] \in ToSet(j)
      BY <1>1 DEF ToSet
    <3> QED
      BY <1>1, <1>2 DEF ToSet
  <2>3. ToSet(b) \subseteq ToSet(j)
    <3> SUFFICES ASSUME NEW i \in 1..n PROVE b[i] \in ToSet(j)
      BY <1>1 DEF ToSet
    <3>1. m + i \in DOMAIN j /\ j[m + i] = b[i]
      BY <1>1, <1>2
    <3> QED
      BY <3>1 DEF ToSet
  <2> QED
    BY <2>1, <2>2, <2>3
<1>5. ASSUME Once(q, b), NEW x \in 1..(m + n), NEW y \in 1..(m + n), j[x] = j[y]
      PROVE  x = y
  <2>1. \A i \in 1..m, k \in 1..n : q[i] # b[k]
    BY <1>1, <1>5 DEF Once, ToSet
  <2>2. /\ \A i, k \in 1..m : q[i] = q[k] => i = k
        /\ \A i, k \in 1..n : b[i] = b[k] => i = k
    BY <1>1, <1>5 DEF Once, IsInjective
  <2>3. CASE x \in 1..m /\ j[x] = q[x]
    BY <1>3, <1>5, <2>1, <2>2, <2>3
  <2>4. CASE x - m \in 1..n /\ j[x] = b[x - m]
    <3>1. y - m \in 1..n /\ j[y] = b[y - m]
      BY <1>3, <1>5, <2>1, <2>4
    <3>2. x - m = y - m
      BY <1>5, <2>2, <2>4, <3>1
    <3> QED
      BY <1>1, <3>2
  <2> QED
    BY <1>3, <2>3, <2>4
<1>6. Once(q, b) => IsInjective(j)
  BY <1>1, <1>5 DEF IsInjective
<1> QED
  BY <1>4, <1>6 DEF j

\* A step of model m leaves q in its queue and b in its batch.
LEMMA OneModel ==
    ASSUME WInv, NEW m \in Models, NEW q \in Seq(Requests), NEW b \in Seq(Requests),
           DOMAIN queue' = Models, DOMAIN batch' = Models, DOMAIN loop' = Models,
           queue'[m] = q, batch'[m] = b, loop'[m] \in LoopPc,
           Len(b) <= MaxBatch, loop'[m] = "check" => b = <<>>,
           Once(q, b), ToSet(q) \cup ToSet(b) = {r \in Requests : future'[m][r].state = "pending"},
           \A x \in Models : x # m => /\ queue'[x] = queue[x] /\ batch'[x] = batch[x]
                                     /\ loop'[x] = loop[x] /\ future'[x] = future[x]
    PROVE  Collecting' /\ Waiting'
<1>1. Collecting'
  BY DEF WInv, Collecting
<1>2. ASSUME NEW x \in Models
      PROVE  /\ Once(queue'[x], batch'[x])
             /\ ToSet(queue'[x]) \cup ToSet(batch'[x])
                   = {r \in Requests : future'[x][r].state = "pending"}
  BY DEF WInv, Waiting, PendingAt
<1> QED
  BY <1>1, <1>2 DEF Waiting, PendingAt

LEMMA NoneTwice == Once(<<>>, <<>>) /\ ToSet(<<>>) = {}
BY DEF Once, IsInjective, ToSet

LEMMA StepTake ==
    ASSUME WInv, NEW m \in Models, Take(m, "drain"), Len(batch[m]) < MaxBatch
    PROVE  WInv'
<1> DEFINE q == queue[m]
           b == batch[m]
           e == Head(q)
<1>1. /\ q \in Seq(Requests) /\ b \in Seq(Requests) /\ q # <<>>
      /\ Once(q, b) /\ ToSet(q) \cup ToSet(b) = PendingAt(m)
  BY DEF WInv, Collecting, Waiting, Take
<1>2. /\ DOMAIN queue' = Models /\ DOMAIN batch' = Models /\ DOMAIN loop' = Models
      /\ queue'[m] = Tail(q) /\ batch'[m] = Append(b, e) /\ loop'[m] = "drain"
      /\ \A x \in Models : x # m => /\ queue'[x] = queue[x] /\ batch'[x] = batch[x]
                                    /\ loop'[x] = loop[x]
      /\ future' = future /\ caller' = caller
  BY DEF WInv, Collecting, Take
<1>3. /\ e \in Requests /\ Tail(q) \in Seq(Requests)
      /\ ToSet(q) = {e} \cup ToSet(Tail(q))
      /\ IsInjective(Tail(q)) /\ e \notin ToSet(Tail(q))
  BY <1>1, TailSet DEF Once
<1>4. /\ Append(b, e) \in Seq(Requests) /\ Len(Append(b, e)) <= MaxBatch
  BY <1>1, <1>3, BatchAssumption
<1>5. e \notin ToSet(b)
  BY <1>1, <1>3 DEF Once
<1>6. ToSet(Append(b, e)) = ToSet(b) \cup {e} /\ IsInjective(Append(b, e))
  BY <1>1, <1>3, <1>5, AppendSet DEF Once
<1>7. Once(Tail(q), Append(b, e))
  BY <1>1, <1>3, <1>6 DEF Once
<1>8. ToSet(Tail(q)) \cup ToSet(Append(b, e)) = PendingAt(m)
  BY <1>1, <1>3, <1>6
<1>9. Collecting' /\ Waiting'
  BY <1>2, <1>3, <1>4, <1>7, <1>8, OneModel DEF PendingAt, LoopPc
<1>10. Unasked'
  BY <1>2 DEF WInv, Unasked, Ahead
<1> QED
  BY <1>9, <1>10 DEF WInv

\* A forward pass resolves the futures of its batch, and no others.
LEMMA StepRun ==
    ASSUME WInv, FuturesOK, NEW m \in Models, NEW state \in {"done", "error"},
           future' = [future EXCEPT ![m] = Resolve(m, batch[m], state)],
           loop' = [loop EXCEPT ![m] = "check"], batch' = [batch EXCEPT ![m] = <<>>],
           queue' = queue, caller' = caller
    PROVE  WInv'
<1> DEFINE q == queue[m]
           b == batch[m]
<1>1. /\ q \in Seq(Requests) /\ b \in Seq(Requests)
      /\ Once(q, b) /\ ToSet(q) \cup ToSet(b) = PendingAt(m)
  BY DEF WInv, Collecting, Waiting
<1>2. /\ DOMAIN queue' = Models /\ DOMAIN batch' = Models /\ DOMAIN loop' = Models
      /\ queue'[m] = q /\ batch'[m] = <<>> /\ loop'[m] = "check"
      /\ \A x \in Models : x # m => /\ queue'[x] = queue[x] /\ batch'[x] = batch[x]
                                    /\ loop'[x] = loop[x] /\ future'[x] = future[x]
      /\ future'[m] = Resolve(m, b, state)
  BY DEF WInv, Collecting, FuturesOK
<1>3. \A r \in Requests :
         /\ r \in ToSet(b) => future'[m][r].state = state
         /\ r \notin ToSet(b) => future'[m][r] = future[m][r]
  BY <1>2 DEF Resolve
<1>4. ToSet(q) = {r \in Requests : future'[m][r].state = "pending"}
  <2>1. ToSet(q) \subseteq Requests /\ ToSet(b) \subseteq Requests
    BY <1>1, SetOfSeq
  <2>2. \A r \in Requests : r \in ToSet(q) <=> future[m][r].state = "pending" /\ r \notin ToSet(b)
    BY <1>1 DEF Once, PendingAt
  <2>3. \A r \in Requests : r \in ToSet(q) <=> future'[m][r].state = "pending"
    BY <1>3, <2>2
  <2> QED
    BY <2>1, <2>3
<1>5. Once(q, <<>>) /\ ToSet(<<>>) = {} /\ <<>> \in Seq(Requests) /\ Len(<<>>) <= MaxBatch
  BY <1>1, NoneTwice, BatchAssumption DEF Once
<1>6. Collecting' /\ Waiting'
  <2>1. /\ ToSet(q) \cup ToSet(<<>>) = {r \in Requests : future'[m][r].state = "pending"}
        /\ loop'[m] \in LoopPc
    BY <1>2, <1>4, <1>5 DEF LoopPc
  <2> HIDE DEF q, b
  <2> QED
    BY <1>1, <1>2, <1>5, <2>1, OneModel
<1>7. \A r \in Requests : future[m][r].state = "none" => future'[m][r].state = "none"
  BY <1>1, <1>3 DEF PendingAt
<1>8. ASSUME NEW c \in Callers, NEW i \in 1..MaxCalls, NEW k \in DOMAIN Order, Ahead(c, i, k)'
      PROVE  future'[Order[k]][<<c, i>>].state = "none"
  <2>1. future[Order[k]][<<c, i>>].state = "none" /\ Order[k] \in Models /\ <<c, i>> \in Requests
    BY <1>8, OrderType DEF WInv, Unasked, Ahead, Requests
  <2> QED
    BY <1>2, <1>7, <2>1
<1> QED
  BY <1>6, <1>8 DEF WInv, Unasked

LEMMA ModelWaiting ==
    ASSUME WInv, FuturesOK, NEW m \in Models, _batch_loop(m)
    PROVE  WInv'
<1>1. CASE First(m)
  BY <1>1, StepTake, BatchAssumption DEF First, WInv, Collecting
<1>2. CASE Drain(m)
  <2>1. Len(batch[m]) < MaxBatch
    BY <1>2, BatchAssumption DEF Drain, Full, WInv, Collecting
  <2> QED
    BY <1>2, <2>1, StepTake DEF Drain
<1>3. ASSUME loop' = [loop EXCEPT ![m] = "exited"] \/ loop' = [loop EXCEPT ![m] = "run"]
                \/ loop' = [loop EXCEPT ![m] = "dead"],
             UNCHANGED <<queue, batch, future, caller>>
      PROVE  WInv'
  <2>1. Collecting'
    BY <1>3 DEF WInv, Collecting, LoopPc
  <2>2. Waiting' /\ Unasked'
    BY <1>3 DEF WInv, Waiting, PendingAt, Unasked, Ahead
  <2> QED
    BY <2>1, <2>2 DEF WInv
<1>4. CASE _run_batch(m)
  BY <1>3, <1>4, StepRun DEF _run_batch
<1> QED
  BY <1>1, <1>2, <1>3, <1>4 DEF _batch_loop, Exit, EndCollect

\* The queue of the next model gets a request it has not seen.
LEMMA SubmitWaiting ==
    ASSUME WInv, IInv, NEW c \in Callers, predict_async(c)
    PROVE  WInv'
<1> PICK k \in 1..Len(Order) : k = caller[c].k
  BY DEF predict_async, IInv, CallersOK
<1> PICK r \in Requests : r = Request(c)
  BY DEF predict_async, IInv, CallersOK, Request, Requests
<1> DEFINE m == Order[k]
           q == queue[m]
           b == batch[m]
           a == Advance(k, "submit", "wait")
<1>1. /\ caller[c].pc = "submit" /\ caller[c].n \in 1..MaxCalls
      /\ caller' = [caller EXCEPT ![c].pc = a.pc, ![c].k = a.k]
      /\ queue' = [queue EXCEPT ![m] = Append(q, r)]
      /\ future' = [future EXCEPT ![m][r].state = "pending"]
      /\ batch' = batch /\ loop' = loop /\ r = <<c, caller[c].n>>
  BY DEF predict_async, IInv, CallersOK, Request
<1>2. m \in Models
  BY OrderType
<1>3. future[m][r].state = "none"
  <2>1. k \in DOMAIN Order /\ k >= caller[c].k
    BY OrderType
  <2>2. Ahead(c, caller[c].n, k)
    BY <1>1, <2>1 DEF Ahead
  <2>3. future[Order[k]][<<c, caller[c].n>>].state = "none"
    BY <1>1, <2>1, <2>2 DEF WInv, Unasked
  <2> QED
    BY <1>1, <2>3
<1>4. /\ q \in Seq(Requests) /\ b \in Seq(Requests)
      /\ Once(q, b) /\ ToSet(q) \cup ToSet(b) = PendingAt(m)
      /\ Len(b) <= MaxBatch /\ loop[m] \in LoopPc /\ (loop[m] = "check" => b = <<>>)
  BY <1>2 DEF WInv, Collecting, Waiting
<1>5. r \notin ToSet(q) /\ r \notin ToSet(b)
  BY <1>3, <1>4 DEF PendingAt
<1> HIDE DEF m, a
<1>6. /\ DOMAIN queue' = Models /\ DOMAIN batch' = Models /\ DOMAIN loop' = Models
      /\ queue'[m] = Append(q, r) /\ batch'[m] = b /\ loop'[m] = loop[m]
      /\ \A x \in Models : x # m => /\ queue'[x] = queue[x] /\ batch'[x] = batch[x]
                                    /\ loop'[x] = loop[x] /\ future'[x] = future[x]
      /\ \A x \in Requests : x # r => future'[m][x] = future[m][x]
      /\ future'[m][r].state = "pending"
  BY <1>1, <1>2 DEF WInv, Collecting, IInv, FuturesOK
<1>7. ToSet(Append(q, r)) = ToSet(q) \cup {r} /\ IsInjective(Append(q, r))
      /\ Append(q, r) \in Seq(Requests)
  BY <1>4, <1>5, AppendSet DEF Once
<1>8. Once(Append(q, r), b)
  BY <1>4, <1>5, <1>7 DEF Once
<1>9. ToSet(Append(q, r)) \cup ToSet(b) = {x \in Requests : future'[m][x].state = "pending"}
  BY <1>4, <1>6, <1>7 DEF PendingAt
<1>10. Collecting' /\ Waiting'
  BY <1>2, <1>4, <1>6, <1>7, <1>8, <1>9, OneModel
<1>11. Unasked'
  <2> SUFFICES ASSUME NEW d \in Callers, NEW i \in 1..MaxCalls, NEW j \in DOMAIN Order, Ahead(d, i, j)'
               PROVE  future'[Order[j]][<<d, i>>].state = "none"
    BY DEF Unasked
  <2>1. /\ caller'[c].n = caller[c].n
        /\ caller'[c].pc = "submit" => caller'[c].k = k + 1
        /\ \A x \in Callers : x # c => caller'[x] = caller[x]
    BY <1>1 DEF IInv, CallersOK, a, Advance
  <2>2. Ahead(d, i, j) /\ ~(d = c /\ i = caller[c].n /\ j = k)
    BY <1>1, <2>1, OrderType DEF Ahead, IInv, CallersOK
  <2>3. /\ future[Order[j]][<<d, i>>].state = "none"
        /\ Order[j] \in Models /\ <<d, i>> \in Requests
    BY <2>2, OrderType DEF WInv, Unasked, Requests
  <2>4. Order[j] # m \/ <<d, i>> # r
    <3>1. CASE j = k
      BY <1>1, <2>2, <3>1
    <3>2. CASE j # k
      <4>1. k \in DOMAIN Order
        BY OrderType
      <4> QED
        BY <3>2, <4>1, BatchAssumption DEF IsInjective, m
    <3> QED
      BY <3>1, <3>2
  <2> QED
    BY <1>6, <2>3, <2>4
<1> QED
  BY <1>10, <1>11 DEF WInv

LEMMA CallerWaiting ==
    ASSUME WInv, IInv, NEW c \in Callers, predict_sync(c)
    PROVE  WInv'
<1>1. CASE predict_async(c)
  BY <1>1, SubmitWaiting
<1>2. ASSUME UNCHANGED <<queue, batch, loop, future>>,
             \A d \in Callers, i \in 1..MaxCalls, k \in DOMAIN Order : Ahead(d, i, k)' => Ahead(d, i, k)
      PROVE  WInv'
  BY <1>2 DEF WInv, Collecting, Waiting, PendingAt, Unasked
<1>3. ASSUME NEW d \in Callers, d # c, ~predict_async(c)
      PROVE  caller'[d] = caller[d]
  BY <1>3 DEF predict_sync, Begin, Await, Return, IInv, CallersOK
<1>4. CASE Begin(c)
  <2>1. caller'[c].n = caller[c].n + 1 /\ caller'[c].k = 1 /\ caller[c].n \in Nat
    BY <1>4 DEF Begin, IInv, CallersOK, Idle
  <2>2. \A d \in Callers : d # c => caller'[d] = caller[d]
    BY <1>4 DEF Begin, IInv, CallersOK
  <2>3. \A d \in Callers, i \in 1..MaxCalls, k \in DOMAIN Order : Ahead(d, i, k)' => Ahead(d, i, k)
    BY <2>1, <2>2 DEF Ahead
  <2> QED
    BY <1>2, <1>4, <2>3 DEF Begin
<1>5. CASE Await(c) \/ Return(c)
  <2>1. caller'[c].n = caller[c].n /\ caller'[c].pc # "submit"
    BY <1>5 DEF Await, Return, IInv, CallersOK, Idle, Advance
  <2>2. \A d \in Callers : d # c => caller'[d] = caller[d]
    BY <1>5 DEF Await, Return, IInv, CallersOK
  <2>3. \A d \in Callers, i \in 1..MaxCalls, k \in DOMAIN Order : Ahead(d, i, k)' => Ahead(d, i, k)
    BY <2>1, <2>2 DEF Ahead
  <2> QED
    BY <1>2, <1>5, <2>3 DEF Await, Return
<1> QED
  BY <1>1, <1>4, <1>5 DEF predict_sync

LEMMA WaitingInit == Init => WInv
<1> SUFFICES ASSUME Init PROVE WInv
  OBVIOUS
<1>1. Collecting
  BY BatchAssumption DEF Init, Collecting, LoopPc
<1>2. Waiting
  BY NoneTwice DEF Init, Waiting, PendingAt, NoFuture
<1>3. Unasked
  BY OrderType DEF Init, Unasked, NoFuture, Requests
<1> QED
  BY <1>1, <1>2, <1>3 DEF WInv

LEMMA WaitingStep == IInv /\ WInv /\ [Next]_vars => WInv'
<1> SUFFICES ASSUME IInv, WInv, [Next]_vars PROVE WInv'
  OBVIOUS
<1>1. ASSUME NEW c \in Callers, predict_sync(c) PROVE WInv'
  BY <1>1, CallerWaiting
<1>2. ASSUME NEW m \in Models, _batch_loop(m) PROVE WInv'
  BY <1>2, ModelWaiting DEF IInv
<1>3. ASSUME UNCHANGED <<queue, batch, loop, future, caller>> PROVE WInv'
  BY <1>3 DEF WInv, Collecting, Waiting, PendingAt, Unasked, Ahead
<1> QED
  BY <1>1, <1>2, <1>3 DEF Next, Stop, vars

LEMMA WaitingTypes == WInv => TypeOK
<1> SUFFICES ASSUME WInv, NEW m \in Models
             PROVE  /\ IsInjective(queue[m] \o batch[m])
                    /\ ToSet(queue[m] \o batch[m]) = PendingAt(m)
  BY DEF WInv, Collecting, LoopPc, TypeOK, PendingAt
<1> PICK q \in Seq(Requests), b \in Seq(Requests) : q = queue[m] /\ b = batch[m]
  BY DEF WInv, Collecting
<1>1. Once(q, b) /\ ToSet(q) \cup ToSet(b) = PendingAt(m)
  BY DEF WInv, Waiting
<1>2. IsInjective(q \o b) /\ ToSet(q \o b) = PendingAt(m)
  BY <1>1, JoinInjective
<1> QED
  BY <1>2

-------------------------------------------------------------------------------
(* The theorems.                                                           *)

LEMMA Initial == Init => IInv
BY OrderType, BatchAssumption DEF Init, IInv, FuturesOK, CallersOK, NoFuture, Idle, Request

\* What an ensemble averages are predictions for its own sequence.
THEOREM OwnAnswers == Spec => []AnswersAreOwn
<1>1. IInv => AnswersAreOwn
  BY DEF IInv, CallersOK, AnswersAreOwn
<1> QED
  BY <1>1, Initial, Inductive, PTL DEF Spec

\* A request that waits for a model is in its queue or its batch, in one place
\* only, and no batch exceeds max_batch.
THEOREM WaitsOnce == Spec => []TypeOK
<1>1. IInv /\ WInv /\ [Next]_vars => (IInv /\ WInv)'
  BY Inductive, WaitingStep
<1> QED
  BY <1>1, Initial, WaitingInit, WaitingTypes, PTL DEF Spec
=============================================================================
