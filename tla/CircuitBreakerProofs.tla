------------------------- MODULE CircuitBreakerProofs -------------------------
(***************************************************************************)
(* The safety of the circuit breaker, for every number of threads, window  *)
(* size, threshold and number of probes.                                   *)
(***************************************************************************)
EXTENDS CircuitBreaker, FiniteSetTheorems, TLAPS

-------------------------------------------------------------------------------
(* How the number of failures of a window changes with its two ends.       *)

\* The failures of a window are finitely many.
LEMMA FailuresFinite ==
    ASSUME NEW w \in Seq(BOOLEAN)
    PROVE  IsFiniteSet(Failures(w)) /\ Cardinality(Failures(w)) \in Nat
<1>1. Failures(w) \subseteq 1..Len(w)
  BY DEF Failures
<1>2. IsFiniteSet(1..Len(w))
  BY FS_Interval
<1> QED
  BY <1>1, <1>2, FS_Subset, FS_CardinalityType

\* Appending an outcome adds one failure if the outcome is one.
LEMMA FailuresAppend ==
    ASSUME NEW w \in Seq(BOOLEAN), NEW success \in BOOLEAN
    PROVE  Cardinality(Failures(Append(w, success)))
             = Cardinality(Failures(w)) + (IF success THEN 0 ELSE 1)
<1>1. CASE success = TRUE
  <2>1. Failures(Append(w, success)) = Failures(w)
    BY <1>1 DEF Failures
  <2> QED
    BY <1>1, <2>1, FailuresFinite
<1>2. CASE success = FALSE
  <2>1. Failures(Append(w, success)) = Failures(w) \cup {Len(w) + 1}
    BY <1>2 DEF Failures
  <2>2. Len(w) + 1 \notin Failures(w)
    BY DEF Failures
  <2> QED
    BY <1>2, <2>1, <2>2, FailuresFinite, FS_AddElement
<1> QED
  BY <1>1, <1>2

\* Dropping the oldest outcome takes one failure away if it was one.
LEMMA FailuresTail ==
    ASSUME NEW w \in Seq(BOOLEAN), w # <<>>
    PROVE  Cardinality(Failures(Tail(w)))
             = Cardinality(Failures(w)) - (IF w[1] THEN 0 ELSE 1)
<1> DEFINE rest == Failures(w) \ {1}
           shift == [i \in Failures(Tail(w)) |-> i + 1]
<1>1. shift \in Bijection(Failures(Tail(w)), rest)
  <2>1. \A i \in Failures(Tail(w)) : i \in Nat /\ i + 1 \in rest
    BY DEF Failures
  <2>2. \A k \in rest : k - 1 \in Failures(Tail(w)) /\ (k - 1) + 1 = k
    BY DEF Failures
  <2> QED
    BY <2>1, <2>2 DEF Bijection, Injection, Surjection, IsInjective
<1>2. ExistsBijection(Failures(Tail(w)), rest)
  BY <1>1 DEF ExistsBijection
<1>3. Tail(w) \in Seq(BOOLEAN)
  OBVIOUS
<1>4. IsFiniteSet(Failures(w)) /\ Cardinality(Failures(w)) \in Nat
  BY FailuresFinite
<1>5. Cardinality(rest) = Cardinality(Failures(Tail(w)))
  BY <1>2, <1>3, FailuresFinite, FS_Bijection
<1>6. CASE w[1] = TRUE
  <2>1. 1 \notin Failures(w)
    BY <1>6 DEF Failures
  <2>2. Cardinality(rest) = Cardinality(Failures(w))
    BY <1>4, <2>1, FS_RemoveElement
  <2>3. (IF w[1] THEN 0 ELSE 1) = 0
    BY <1>6
  <2> HIDE DEF rest
  <2> QED
    BY <1>4, <1>5, <2>2, <2>3
<1>7. CASE w[1] = FALSE
  <2>1. 1 \in Failures(w)
    BY <1>7 DEF Failures
  <2> QED
    BY <1>4, <1>5, <1>7, <2>1, FS_RemoveElement
<1>8. w[1] \in BOOLEAN
  OBVIOUS
<1> QED
  BY <1>6, <1>7, <1>8

-------------------------------------------------------------------------------
(* Type correctness.                                                       *)

\* Recording one outcome keeps the window within its maxlen.
LEMMA PushedType ==
    ASSUME TypeOK, NEW success \in BOOLEAN
    PROVE  /\ Pushed(success) \in Seq(BOOLEAN)
           /\ Len(Pushed(success)) <= WindowSize
           /\ CountAfter(success) \in Int
<1>1. WindowSize \in Nat \ {0} /\ window \in Seq(BOOLEAN)
      /\ Len(window) <= WindowSize /\ failure_count \in Int
  BY BreakerAssumption DEF TypeOK
<1>2. Pushed(success) \in Seq(BOOLEAN) /\ Len(Pushed(success)) <= WindowSize
  <2>1. CASE Full
    BY <1>1, <2>1 DEF Pushed, Full
  <2>2. CASE ~Full
    BY <1>1, <2>2 DEF Pushed, Full
  <2> QED
    BY <2>1, <2>2
<1>3. CountAfter(success) \in Int
  BY <1>1 DEF CountAfter
<1> QED
  BY <1>2, <1>3

\* No step leaves the types.
LEMMA TypeInductive == TypeOK /\ [Next]_vars => TypeOK'
<1> SUFFICES ASSUME TypeOK, [Next]_vars PROVE TypeOK'
  OBVIOUS
<1> USE BreakerAssumption
<1>1. ASSUME NEW t \in Threads, call(t) PROVE TypeOK'
  <2>1. Admission \in Running
    BY DEF Admission, Running
  <2>2. running' \in [Threads -> Running]
    BY <1>1, <2>1 DEF TypeOK, call
  <2>3. state' \in BreakerState /\ probes' \in Nat /\ total_blocked' \in Nat
        /\ total_calls' \in Nat
    BY <1>1 DEF TypeOK, call, StateNow, ProbesNow, BreakerState
  <2> QED
    BY <1>1, <2>2, <2>3 DEF TypeOK, call
<1>2. ASSUME NEW t \in Threads, CallReturns(t) PROVE TypeOK'
  <2>1. PICK success \in BOOLEAN : _record(success)
    BY <1>2 DEF CallReturns
  <2>2. running' \in [Threads -> Running]
    BY <1>2 DEF TypeOK, CallReturns, Running
  <2>3. total_failures' \in Nat
    BY <2>1 DEF TypeOK, _record
  <2>4. /\ window' \in Seq(BOOLEAN) /\ Len(window') <= WindowSize
        /\ failure_count' \in Int
        /\ state' \in BreakerState
        /\ elapsed' \in BOOLEAN
    <3>1. CASE RecordClosed(success)
      BY <3>1, PushedType DEF TypeOK, RecordClosed, RecordInWindow, BreakerState
    <3>2. CASE RecordOpen(success)
      BY <3>2, PushedType DEF TypeOK, RecordOpen, RecordInWindow
    <3>3. CASE Close
      BY <3>3 DEF TypeOK, Close, BreakerState
    <3>4. CASE Reopen
      BY <3>4, PushedType DEF TypeOK, Reopen, RecordInWindow, BreakerState
    <3> QED
      BY <2>1, <3>1, <3>2, <3>3, <3>4 DEF _record
  <2> QED
    BY <1>2, <2>2, <2>3, <2>4 DEF TypeOK, CallReturns
<1>3. CASE QueryState
  BY <1>3 DEF TypeOK, QueryState, _check_transition, StateNow, ProbesNow,
              BreakerState, counters
<1>4. CASE reset
  <2>1. elapsed' \in BOOLEAN
    BY <1>4 DEF reset
  <2>2. window' \in Seq(BOOLEAN) /\ Len(window') <= WindowSize
    BY <1>4 DEF reset
  <2> QED
    BY <1>4, <2>1, <2>2 DEF TypeOK, reset, BreakerState, counters
<1>5. CASE TimeoutElapses
  BY <1>5 DEF TypeOK, TimeoutElapses, counters
<1>6. CASE UNCHANGED vars
  BY <1>6 DEF TypeOK, vars, counters
<1> QED
  BY <1>1, <1>2, <1>3, <1>4, <1>5, <1>6 DEF Next

\* The state of the breaker keeps its types, and the window its maxlen.
THEOREM TypeCorrect == Spec => []TypeOK
<1>1. Init => TypeOK
  <2> SUFFICES ASSUME Init PROVE TypeOK
    OBVIOUS
  <2>1. window \in Seq(BOOLEAN) /\ Len(window) <= WindowSize
    BY BreakerAssumption DEF Init
  <2>2. running \in [Threads -> Running]
    BY DEF Init, Running
  <2>3. elapsed \in BOOLEAN
    BY DEF Init
  <2> QED
    BY <2>1, <2>2, <2>3 DEF Init, TypeOK, BreakerState
<1> QED
  BY <1>1, TypeInductive, PTL DEF Spec

-------------------------------------------------------------------------------
(* The failure count and what the breaker decides by it.                   *)

\* The count kept incrementally stays right when an outcome is recorded,
\* whether or not another one is evicted.
LEMMA CountAfterCorrect ==
    ASSUME TypeOK, CountMatchesWindow, NEW success \in BOOLEAN
    PROVE  CountAfter(success) = Cardinality(Failures(Pushed(success)))
<1>1. window \in Seq(BOOLEAN) /\ WindowSize \in Nat \ {0}
  BY BreakerAssumption DEF TypeOK
<1>2. CASE Full
  <2>1. window # <<>>
    BY <1>1, <1>2 DEF Full
  <2>2. Tail(window) \in Seq(BOOLEAN)
    BY <1>1, <2>1
  <2>3. Cardinality(Failures(Tail(window)))
          = failure_count - (IF ~window[1] THEN 1 ELSE 0)
    BY <1>1, <2>1, FailuresTail DEF CountMatchesWindow
  <2>4. Cardinality(Failures(Append(Tail(window), success)))
          = Cardinality(Failures(Tail(window))) + (IF success THEN 0 ELSE 1)
    BY <2>2, FailuresAppend
  <2>5. Pushed(success) = Append(Tail(window), success)
    BY <1>2 DEF Pushed
  <2>6. CountAfter(success) = failure_count - (IF ~window[1] THEN 1 ELSE 0)
                              + (IF success THEN 0 ELSE 1)
    BY <1>2 DEF CountAfter
  <2> QED
    BY <2>3, <2>4, <2>5, <2>6
<1>3. CASE ~Full
  <2>1. Cardinality(Failures(Append(window, success)))
          = failure_count + (IF success THEN 0 ELSE 1)
    BY <1>1, FailuresAppend DEF CountMatchesWindow
  <2>2. Pushed(success) = Append(window, success)
    BY <1>3 DEF Pushed
  <2>3. failure_count \in Int
    BY DEF TypeOK
  <2>4. CountAfter(success) = failure_count + (IF success THEN 0 ELSE 1)
    BY <1>3, <2>3 DEF CountAfter
  <2> QED
    BY <2>1, <2>2, <2>4
<1> QED
  BY <1>2, <1>3

\* A cleared window holds no failure.
LEMMA ClearedWindow == Cardinality(Failures(<<>>)) = 0
<1>1. Failures(<<>>) = {}
  BY DEF Failures
<1> QED
  BY <1>1, FS_EmptySet

\* The failure rate the breaker decides by is that of its window.
THEOREM CountCorrect == Spec => []CountMatchesWindow
<1>1. Init => CountMatchesWindow
  BY ClearedWindow DEF Init, CountMatchesWindow
<1>2. TypeOK /\ CountMatchesWindow /\ [Next]_vars => CountMatchesWindow'
  <2> SUFFICES ASSUME TypeOK, CountMatchesWindow, [Next]_vars
               PROVE  failure_count' = Cardinality(Failures(window'))
    BY DEF CountMatchesWindow, Failures
  <2>1. ASSUME NEW t \in Threads, CallReturns(t)
        PROVE  failure_count' = Cardinality(Failures(window'))
    <3>1. PICK success \in BOOLEAN : _record(success)
      BY <2>1 DEF CallReturns
    <3>2. CASE RecordInWindow(success)
      BY <3>2, CountAfterCorrect DEF RecordInWindow
    <3>3. CASE Close
      BY <3>3, ClearedWindow DEF Close
    <3>4. RecordInWindow(success) \/ Close
      BY <3>1 DEF _record, RecordClosed, RecordOpen, Reopen
    <3> QED
      BY <3>2, <3>3, <3>4
  <2>2. CASE reset
    BY <2>2, ClearedWindow DEF reset
  <2>3. CASE UNCHANGED <<window, failure_count>>
    BY <2>3 DEF CountMatchesWindow
  <2>4. \/ \E t \in Threads : CallReturns(t)
        \/ reset
        \/ UNCHANGED <<window, failure_count>>
    BY DEF Next, call, QueryState, TimeoutElapses, vars
  <2> QED
    BY <2>1, <2>2, <2>3, <2>4
<1> QED
  BY <1>1, <1>2, TypeCorrect, PTL DEF Spec

\* A cleared window does not call for opening the breaker.
LEMMA ClearedIsHealthy == ~Trips(Len(<<>>), 0)
BY BreakerAssumption DEF Trips

\* A closed breaker's window never calls for opening it: the check in
\* _record is made at every outcome that can change the answer.
THEOREM ClosedHealthy == Spec => []ClosedIsHealthy
<1>1. Init => ClosedIsHealthy
  BY ClearedIsHealthy DEF Init, ClosedIsHealthy
<1>2. ClosedIsHealthy /\ [Next]_vars => ClosedIsHealthy'
  <2> SUFFICES ASSUME ClosedIsHealthy, [Next]_vars, state' = "closed"
               PROVE  ~Trips(Len(window'), failure_count')
    BY DEF ClosedIsHealthy, Trips
  <2>1. ASSUME NEW t \in Threads, CallReturns(t)
        PROVE  ~Trips(Len(window'), failure_count')
    <3>1. PICK success \in BOOLEAN : _record(success)
      BY <2>1 DEF CallReturns
    <3>2. CASE RecordClosed(success)
      BY <3>2 DEF RecordClosed
    <3>3. CASE Close
      BY <3>3, ClearedIsHealthy DEF Close
    <3>4. state # "open" \/ ~RecordOpen(success)
      BY DEF RecordOpen
    <3>5. ~Reopen
      BY DEF Reopen
    <3> QED
      BY <3>1, <3>2, <3>3, <3>4, <3>5 DEF _record
  <2>2. CASE reset
    BY <2>2, ClearedIsHealthy DEF reset
  <2>3. CASE state = "closed" /\ UNCHANGED <<window, failure_count>>
    BY <2>3 DEF ClosedIsHealthy
  <2>4. \/ \E t \in Threads : CallReturns(t)
        \/ reset
        \/ state = "closed" /\ UNCHANGED <<window, failure_count>>
    BY DEF Next, call, QueryState, _check_transition, StateNow, Due,
           TimeoutElapses, vars
  <2> QED
    BY <2>1, <2>2, <2>3, <2>4
<1> QED
  BY <1>1, <1>2, PTL DEF Spec

-------------------------------------------------------------------------------
(* Admission.                                                              *)

\* One half-open period hands out at most half_open_max probe slots, however
\* the calls, late outcomes and resets of the threads interleave.
THEOREM SlotsBounded == Spec => []ProbeSlots
<1>1. Init => ProbeSlots
  BY BreakerAssumption DEF Init, ProbeSlots
<1>2. TypeOK /\ ProbeSlots /\ [Next]_vars => ProbeSlots'
  <2> SUFFICES ASSUME TypeOK, ProbeSlots, [Next]_vars PROVE ProbeSlots'
    OBVIOUS
  <2>1. ProbesNow \in Nat /\ ProbesNow <= HalfOpenMax
    BY BreakerAssumption DEF TypeOK, ProbeSlots, ProbesNow
  <2>2. ASSUME NEW t \in Threads, call(t) PROVE ProbeSlots'
    BY <2>1, <2>2, BreakerAssumption
       DEF call, Blocked, SlotsTaken, ProbeSlots
  <2>3. CASE QueryState
    BY <2>1, <2>3 DEF QueryState, _check_transition, ProbeSlots
  <2>4. CASE UNCHANGED probes
    BY <2>4 DEF ProbeSlots
  <2>5. (\E t \in Threads : call(t)) \/ QueryState \/ UNCHANGED probes
    BY DEF Next, CallReturns, reset, TimeoutElapses, vars
  <2> QED
    BY <2>2, <2>3, <2>4, <2>5
<1> QED
  BY <1>1, <1>2, TypeCorrect, PTL DEF Spec

\* Blocked calls, failed calls and calls in progress are distinct calls, in
\* every interleaving of the two critical sections of call().
THEOREM CallsCounted == Spec => []CallsAccounted
<1>1. Init => CallsAccounted
  <2> SUFFICES ASSUME Init PROVE CallsAccounted
    OBVIOUS
  <2>1. ActiveCalls = {}
    BY DEF Init, ActiveCalls
  <2> QED
    BY <2>1, FS_EmptySet DEF Init, CallsAccounted
<1>2. TypeOK /\ CallsAccounted /\ [Next]_vars => CallsAccounted'
  <2> SUFFICES ASSUME TypeOK, CallsAccounted, [Next]_vars
               PROVE  CallsAccounted'
    OBVIOUS
  <2>1. IsFiniteSet(ActiveCalls) /\ Cardinality(ActiveCalls) \in Nat
    BY BreakerAssumption, FS_Subset, FS_CardinalityType DEF ActiveCalls
  <2>2. total_calls \in Nat /\ total_failures \in Nat /\ total_blocked \in Nat
        /\ running \in [Threads -> Running]
    BY DEF TypeOK
  <2>3. ASSUME NEW t \in Threads, call(t) PROVE CallsAccounted'
    <3>1. CASE Blocked
      <4>1. ActiveCalls' = ActiveCalls
        BY <2>2, <2>3, <3>1 DEF call, Admission, ActiveCalls
      <4> QED
        BY <2>1, <2>2, <2>3, <3>1, <4>1 DEF call, CallsAccounted
    <3>2. CASE ~Blocked
      <4>1. ActiveCalls' = ActiveCalls \cup {t} /\ t \notin ActiveCalls
        BY <2>2, <2>3, <3>2 DEF call, Admission, ActiveCalls
      <4>2. Cardinality(ActiveCalls') = Cardinality(ActiveCalls) + 1
        BY <2>1, <4>1, FS_AddElement
      <4> QED
        BY <2>1, <2>2, <2>3, <3>2, <4>2 DEF call, CallsAccounted
    <3> QED
      BY <3>1, <3>2
  <2>4. ASSUME NEW t \in Threads, CallReturns(t) PROVE CallsAccounted'
    <3>1. ActiveCalls' = ActiveCalls \ {t} /\ t \in ActiveCalls
      BY <2>2, <2>4 DEF CallReturns, ActiveCalls
    <3>2. Cardinality(ActiveCalls') = Cardinality(ActiveCalls) - 1
      BY <2>1, <3>1, FS_RemoveElement
    <3>3. total_failures' \in {total_failures, total_failures + 1}
      BY <2>4 DEF CallReturns, _record
    <3> QED
      BY <2>1, <2>2, <2>4, <3>2, <3>3 DEF CallReturns, CallsAccounted
  <2>5. CASE UNCHANGED <<counters, running>>
    BY <2>5 DEF counters, CallsAccounted, ActiveCalls
  <2>6. (\E t \in Threads : call(t) \/ CallReturns(t))
        \/ UNCHANGED <<counters, running>>
    BY DEF Next, QueryState, reset, TimeoutElapses, vars
  <2> QED
    BY <2>3, <2>4, <2>5, <2>6
<1> QED
  BY <1>1, <1>2, TypeCorrect, PTL DEF Spec
===============================================================================
