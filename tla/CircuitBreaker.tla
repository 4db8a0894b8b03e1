---------------------------- MODULE CircuitBreaker ----------------------------
(***************************************************************************)
(* The three-state circuit breaker of core/circuit_breaker.py, called by   *)
(* several threads.  Admission and recording are critical sections of the  *)
(* breaker's lock; the protected function runs outside the lock, so any    *)
(* number of steps of other threads lie between the two.                   *)
(*                                                                         *)
(* Time appears in one comparison, elapsed >= reset_timeout_s since        *)
(* _open_since; `elapsed` is its outcome.  window[i] = TRUE is a success,  *)
(* as in the code.                                                         *)
(***************************************************************************)
EXTENDS Integers, Sequences, FiniteSets

CONSTANTS
    Threads,       \* threads that call through the breaker
    WindowSize,    \* window_size
    ThresholdNum,  \* failure_threshold = ThresholdNum / ThresholdDen
    ThresholdDen,
    HalfOpenMax,   \* half_open_max
    MaxCalls,      \* bound: calls an execution contains
    MaxResets      \* bound: operator resets an execution contains

ASSUME BreakerAssumption ==
    /\ IsFiniteSet(Threads)
    /\ WindowSize \in Nat \ {0}
    /\ ThresholdNum \in Nat \ {0}
    /\ ThresholdDen \in Nat \ {0}
    /\ HalfOpenMax \in Nat \ {0}
    /\ MaxCalls \in Nat
    /\ MaxResets \in Nat

VARIABLES
    state,         \* _state
    window,        \* _window, deque(maxlen = WindowSize)
    failure_count, \* _failure_count
    probes,        \* _half_open_probes
    elapsed,       \* reset_timeout_s has passed since _open_since
    total_calls, total_failures, total_blocked, \* the counters of stats()
    running,       \* running[t]: "no", or how t's call in progress was admitted
    resets         \* number of operator resets so far

counters == <<total_calls, total_failures, total_blocked>>

vars == <<state, window, failure_count, probes, elapsed, counters, running,
          resets>>

BreakerState == {"closed", "open", "half_open"}

\* "call": admitted while CLOSED; "probe": admitted while HALF_OPEN.
Running == {"no", "call", "probe"}

Init ==
    /\ state = "closed"
    /\ window = <<>>
    /\ failure_count = 0
    /\ probes = 0
    /\ elapsed = FALSE
    /\ total_calls = 0 /\ total_failures = 0 /\ total_blocked = 0
    /\ running = [t \in Threads |-> "no"]
    /\ resets = 0

-------------------------------------------------------------------------------
(* State transitions that depend on the clock, and admission.              *)

Due == state = "open" /\ elapsed

\* An open breaker becomes half open once it is due, with fresh probe slots.
StateNow  == IF Due THEN "half_open" ELSE state
ProbesNow == IF Due THEN 0 ELSE probes

_check_transition ==
    /\ state' = StateNow
    /\ probes' = ProbesNow

\* The state property, read by the dashboards and by the reset route.
QueryState ==
    /\ _check_transition
    /\ UNCHANGED <<window, failure_count, elapsed, counters, running, resets>>

SlotsTakenLate == ProbesNow > HalfOpenMax
SlotsTaken     == ProbesNow >= HalfOpenMax

Blocked == StateNow = "open" \/ (StateNow = "half_open" /\ SlotsTaken)

\* The CircuitBreakerError of a blocked call ends up in the try block that
\* records outcomes.
AdmissionIgnoresBlock == IF StateNow = "half_open" THEN "probe" ELSE "call"

Admission ==
    CASE Blocked                              -> "no"
      [] ~Blocked /\ StateNow = "half_open" -> "probe"
      [] OTHER                                -> "call"

\* First critical section of call(): blocked with CircuitBreakerError, or
\* admitted, using a probe slot if the breaker is half open.
call(t) ==
    /\ running[t] = "no"
    /\ total_calls < MaxCalls
    /\ total_calls' = total_calls + 1
    /\ total_blocked' = IF Blocked THEN total_blocked + 1 ELSE total_blocked
    /\ state' = StateNow
    /\ probes' = IF StateNow = "half_open" /\ ~Blocked
                 THEN ProbesNow + 1 ELSE ProbesNow
    /\ running' = [running EXCEPT ![t] = Admission]
    /\ UNCHANGED <<window, failure_count, elapsed, total_failures, resets>>

-------------------------------------------------------------------------------
(* Recording an outcome.                                                   *)

Full == Len(window) = WindowSize

\* Appending to the full deque drops its oldest entry.
PushedGrows(success) == Append(window, success)
Pushed(success)      == Append(IF Full THEN Tail(window) ELSE window, success)

\* The failure that leaves the window is taken off the count.
CountNoEviction(success) == failure_count + (IF success THEN 0 ELSE 1)
CountAfter(success) ==
    failure_count - (IF Full /\ ~window[1] THEN 1 ELSE 0)
                  + (IF success THEN 0 ELSE 1)

RecordInWindow(success) ==
    /\ window' = Pushed(success)
    /\ failure_count' = CountAfter(success)

\* len(window) >= window_size and failure_rate >= failure_threshold
Trips(n, failures) ==
    n >= WindowSize /\ failures * ThresholdDen >= ThresholdNum * n

RecordClosed(success) ==
    /\ RecordInWindow(success)
    /\ IF Trips(Len(window'), failure_count')
       THEN state' = "open" /\ elapsed' = FALSE
       ELSE UNCHANGED <<state, elapsed>>

RecordOpen(success) ==
    /\ RecordInWindow(success)
    /\ UNCHANGED <<state, elapsed>>

\* The breaker closes with the failures that opened it still in its window.
CloseKeepsWindow ==
    /\ RecordInWindow(TRUE)
    /\ state' = "closed"
    /\ UNCHANGED elapsed

Close ==
    /\ state' = "closed"
    /\ window' = <<>>
    /\ failure_count' = 0
    /\ UNCHANGED elapsed

\* A failed probe leaves the breaker half open.
ReopenForgotten ==
    /\ RecordInWindow(FALSE)
    /\ UNCHANGED <<state, elapsed>>

Reopen ==
    /\ RecordInWindow(FALSE)
    /\ state' = "open"
    /\ elapsed' = FALSE

\* The outcome is judged by the state the breaker is in now, not by the one
\* that admitted the call.
_record(success) ==
    /\ total_failures' = IF success THEN total_failures ELSE total_failures + 1
    /\ \/ state = "closed"                  /\ RecordClosed(success)
       \/ state = "open"                    /\ RecordOpen(success)
       \/ (state = "half_open" /\ success)  /\ Close
       \/ (state = "half_open" /\ ~success) /\ Reopen

\* fn returned, or raised an Exception: second critical section of call().
CallReturns(t) ==
    /\ running[t] # "no"
    /\ \E success \in BOOLEAN : _record(success)
    /\ running' = [running EXCEPT ![t] = "no"]
    /\ UNCHANGED <<probes, total_calls, total_blocked, resets>>

\* Operator override.  The probe slots are left as they are.
reset ==
    /\ resets < MaxResets
    /\ resets' = resets + 1
    /\ state' = "closed"
    /\ window' = <<>>
    /\ failure_count' = 0
    /\ elapsed' = FALSE
    /\ UNCHANGED <<probes, counters, running>>

\* reset_timeout_s passes.
TimeoutElapses ==
    /\ state = "open"
    /\ ~elapsed
    /\ elapsed' = TRUE
    /\ UNCHANGED <<state, window, failure_count, probes, counters, running, resets>>

Next ==
    \/ \E t \in Threads : call(t) \/ CallReturns(t)
    \/ QueryState
    \/ reset
    \/ TimeoutElapses

Spec == Init /\ [][Next]_vars

\* A protected call returns or raises, and time passes; nobody is obliged to
\* call, to look at the state or to reset.
FairSpec ==
    /\ Spec
    /\ WF_vars(TimeoutElapses)
    /\ \A t \in Threads : WF_vars(CallReturns(t))

-------------------------------------------------------------------------------
(* Properties.                                                             *)

Failures(w) == {i \in DOMAIN w : ~w[i]}

\* Types, and the window within its maxlen.
TypeOK ==
    /\ state \in BreakerState
    /\ window \in Seq(BOOLEAN) /\ Len(window) <= WindowSize
    /\ failure_count \in Int
    /\ probes \in Nat
    /\ elapsed \in BOOLEAN
    /\ total_calls \in Nat /\ total_failures \in Nat /\ total_blocked \in Nat
    /\ running \in [Threads -> Running]
    /\ resets \in Nat

\* The count kept incrementally for an O(1) failure rate is the number of
\* failures in the window after every eviction, recovery and reset, so the
\* rate the breaker decides by is the real one.
CountMatchesWindow == failure_count = Cardinality(Failures(window))

\* A closed breaker is closed for a reason: whatever order the outcomes of
\* overlapping calls arrived in, its window does not call for opening it.
ClosedIsHealthy ==
    state = "closed" => ~Trips(Len(window), failure_count)

\* The slots handed out in one half-open period never exceed HalfOpenMax.
ProbeSlots == probes <= HalfOpenMax

\* Every call is accounted for: those blocked, in progress or failed are
\* distinct calls.
ActiveCalls == {t \in Threads : running[t] # "no"}

CallsAccounted ==
    total_blocked + total_failures + Cardinality(ActiveCalls) <= total_calls

\* The breaker is not wedged half open: once the probe slots are used up,
\* the outcome of a call opens or closes it.
HalfOpenResolves ==
    (state = "half_open" /\ probes = HalfOpenMax) ~> (state # "half_open")
===============================================================================
