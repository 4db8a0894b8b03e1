------------------------------- MODULE JobQueue -------------------------------
(***************************************************************************)
(* The priority job queue of ml/queue.py: a heap of (priority, seq, job)   *)
(* entries, a dispatcher thread that moves eligible entries into a         *)
(* ThreadPoolExecutor, worker threads that run them, retries with backoff, *)
(* and a dead-letter queue from which an operator can requeue.             *)
(*                                                                         *)
(* Every critical section of the code is one action.  Clock values are     *)
(* abstracted to the one comparison the code makes with them:              *)
(* job[j].delayed stands for next_eligible_at > now.  The heap is a bag,   *)
(* because the same tuple can be pushed twice; the pool's work queue is a  *)
(* sequence, because ThreadPoolExecutor hands out work first in first out. *)
(***************************************************************************)
EXTENDS Integers, Sequences, FiniteSets, BagsExt

CONSTANTS
    Jobs,         \* job ids; submit() draws a fresh uuid per call
    Workers,      \* threads of the executor (max_workers of them)
    None,         \* "no job"
    Priority,     \* Priority[j]: the priority j is submitted with
    MaxRetries,   \* RetryPolicy.max_retries
    DlqMax,       \* DLQ_MAX_SIZE
    AllowShutdown,\* TRUE: shutdown() may be called
    MaxRequeues   \* bound: requeue requests an execution contains

ASSUME JobQueueAssumption ==
    /\ None \notin Jobs
    /\ None \notin Workers
    /\ Priority \in [Jobs -> Nat]
    /\ MaxRetries \in Nat
    /\ DlqMax \in Nat \ {0}
    /\ MaxRequeues \in Nat
    /\ AllowShutdown \in BOOLEAN

VARIABLES
    seq,        \* _seq, the arrival counter
    reserved,   \* reserved[j]: seq a submitting thread drew for j, 0 if none
    job,        \* the QueuedJob objects (_jobs)
    heap,       \* _heap, a bag of entries
    dlq,        \* _dlq, a bounded deque of jobs
    dispatcher, \* where _dispatch_loop is
    inHand,     \* the job _dispatch_loop has popped and not yet handed over
    backlog,    \* the executor's own work queue
    worker,     \* worker[w]: the job thread w is running
    shutdown,   \* how far shutdown() got
    requeues,   \* number of requeue requests so far
    careless    \* history: a job that was not dead has been requeued

vars == <<seq, reserved, job, heap, dlq, dispatcher, inHand, backlog, worker,
          shutdown, requeues, careless>>

Statuses == {"new", "queued", "running", "done", "dead"}

QueuedJob == [status : Statuses, attempt : Nat, delayed : BOOLEAN]

Entry == [prio : Nat, seq : Nat, job : Jobs]

heap_key(j, n) == [prio |-> Priority[j], seq |-> n, job |-> j]

\* Tuple order of the heap.  Job ids are random uuids, so which of two
\* entries with equal (priority, seq) comes first is left open.
Before(e, f) == e.prio < f.prio \/ (e.prio = f.prio /\ e.seq < f.seq)

Entries == DOMAIN heap

Eligible == {e \in Entries : ~job[e.job].delayed}

\* deque(maxlen = DLQ_MAX_SIZE): appending to a full deque drops the oldest.
AppendUncapped(d, j) == Append(d, j)

AppendCapped(d, j) ==
    IF Len(d) < DlqMax THEN Append(d, j) ELSE Append(Tail(d), j)

Init ==
    /\ seq = 0
    /\ reserved = [j \in Jobs |-> 0]
    /\ job = [j \in Jobs |-> [status |-> "new", attempt |-> 0, delayed |-> FALSE]]
    /\ heap = [e \in {} |-> 0]
    /\ dlq = <<>>
    /\ dispatcher = "loop"
    /\ inHand = None
    /\ backlog = <<>>
    /\ worker = [w \in Workers |-> None]
    /\ shutdown = "no"
    /\ requeues = 0
    /\ careless = FALSE

-------------------------------------------------------------------------------
(* submit(): the sequence number is drawn in one critical section and the  *)
(* entry pushed in a second one.                                           *)

_next_seq(j) ==
    /\ job[j].status = "new"
    /\ reserved[j] = 0
    /\ seq' = seq + 1
    /\ reserved' = [reserved EXCEPT ![j] = seq + 1]
    /\ UNCHANGED <<job, heap, dlq, dispatcher, inHand, backlog, worker,
                   shutdown, requeues, careless>>

submit(j) ==
    /\ job[j].status = "new"
    /\ reserved[j] # 0
    /\ job' = [job EXCEPT ![j].status = "queued"]
    /\ heap' = BagAdd(heap, heap_key(j, reserved[j]))
    /\ UNCHANGED <<seq, reserved, dlq, dispatcher, inHand, backlog, worker,
                   shutdown, requeues, careless>>

-------------------------------------------------------------------------------
(* The dispatcher thread.                                                  *)

\* while self._running
_dispatch_loop ==
    /\ dispatcher = "loop"
    /\ dispatcher' = IF shutdown = "no" THEN "pop" ELSE "exited"
    /\ UNCHANGED <<seq, reserved, job, heap, dlq, inHand, backlog, worker,
                   shutdown, requeues, careless>>

\* Popping e removes it; entries skipped on the way are pushed back.
PopPeeks(e)        == heap
PopLosesSkipped(e) == BagRemove([f \in Eligible |-> heap[f]], e)
Popped(e)          == BagRemove(heap, e)

\* Takes the first entry whose job is past its backoff, if there is one.
_pop_eligible ==
    /\ dispatcher = "pop"
    /\ \/ /\ Eligible = {}
          /\ dispatcher' = "loop"
          /\ UNCHANGED <<job, heap, inHand>>
       \/ /\ \E e \in Eligible :
                /\ \A f \in Eligible : ~Before(f, e)
                /\ heap' = Popped(e)
                /\ job' = [job EXCEPT ![e.job].status = "running"]
                /\ inHand' = e.job
          /\ dispatcher' = "submit"
    /\ UNCHANGED <<seq, reserved, dlq, backlog, worker, shutdown, requeues,
                   careless>>

PoolOpen == shutdown \in {"no", "flagged"}

\* The error of a closed pool is swallowed and the loop goes on.
RejectionSwallowed == dispatcher' = "loop" /\ inHand' = None

\* The RuntimeError of a closed pool ends the dispatcher with the job in hand.
Rejection == dispatcher' = "crashed" /\ UNCHANGED inHand

\* self._pool.submit(self._run_job, job)
pool_submit ==
    /\ dispatcher = "submit"
    /\ \/ /\ PoolOpen
          /\ backlog' = Append(backlog, inHand)
          /\ inHand' = None
          /\ dispatcher' = "loop"
       \/ /\ ~PoolOpen
          /\ Rejection
          /\ UNCHANGED backlog
    /\ UNCHANGED <<seq, reserved, job, heap, dlq, worker, shutdown, requeues,
                   careless>>

-------------------------------------------------------------------------------
(* Worker threads of the executor.                                         *)

\* An idle thread takes the oldest work item.
TakeWork(w) ==
    /\ worker[w] = None
    /\ backlog # <<>>
    /\ worker' = [worker EXCEPT ![w] = Head(backlog)]
    /\ backlog' = Tail(backlog)
    /\ UNCHANGED <<seq, reserved, job, heap, dlq, dispatcher, inHand, shutdown,
                   requeues, careless>>

\* job.fn() returned: the outcome is set under the lock.
_run_job(w) ==
    /\ worker[w] # None
    /\ job' = [job EXCEPT ![worker[w]].status = "done"]
    /\ worker' = [worker EXCEPT ![w] = None]
    /\ UNCHANGED <<seq, reserved, heap, dlq, dispatcher, inHand, backlog,
                   shutdown, requeues, careless>>

AttemptsLeftStrict(n) == n < MaxRetries
AttemptsLeft(n)       == n <= MaxRetries

\* A retry is pushed with the current value of _seq, not with a new one.
RetryForgotten(j) == heap
RetryPushed(j)    == BagAdd(heap, heap_key(j, seq))

\* job.fn() raised: retry with backoff while attempts are left, otherwise
\* the job is dead and goes to the DLQ.
_handle_failure(w) ==
    LET j == worker[w]
        n == job[j].attempt + 1
    IN /\ j # None
       /\ worker' = [worker EXCEPT ![w] = None]
       /\ \/ /\ AttemptsLeft(n)
             /\ job' = [job EXCEPT ![j] =
                          [status |-> "queued", attempt |-> n, delayed |-> TRUE]]
             /\ heap' = RetryPushed(j)
             /\ UNCHANGED dlq
          \/ /\ ~AttemptsLeft(n)
             /\ job' = [job EXCEPT ![j].status = "dead", ![j].attempt = n]
             /\ dlq' = AppendCapped(dlq, j)
             /\ UNCHANGED heap
       /\ UNCHANGED <<seq, reserved, dispatcher, inHand, backlog, shutdown, requeues,
                      careless>>

\* The clock passes the job's next_eligible_at.
BackoffElapses(j) ==
    /\ job[j].delayed
    /\ job' = [job EXCEPT ![j].delayed = FALSE]
    /\ UNCHANGED <<seq, reserved, heap, dlq, dispatcher, inHand, backlog,
                   worker, shutdown, requeues, careless>>

-------------------------------------------------------------------------------
(* The operator: requeue_from_dlq() and shutdown().                        *)

InDlq(j) == \E i \in DOMAIN dlq : dlq[i] = j

RevivedSpent(j) == [status |-> "queued", attempt |-> job[j].attempt, delayed |-> FALSE]
Revived(j)      == [status |-> "queued", attempt |-> 0, delayed |-> FALSE]

\* The job stays in _dlq, and is requeued whatever state it is in.  The history
\* variable remembers that an operator requeued a job that was not dead.
requeue_from_dlq(j) ==
    /\ requeues < MaxRequeues
    /\ InDlq(j)
    /\ job' = [job EXCEPT ![j] = Revived(j)]
    /\ seq' = seq + 1
    /\ heap' = BagAdd(heap, heap_key(j, seq + 1))
    /\ requeues' = requeues + 1
    /\ careless' = (careless \/ job[j].status # "dead")
    /\ UNCHANGED <<reserved, dlq, dispatcher, inHand, backlog, worker, shutdown>>

\* self._running = False, then ThreadPoolExecutor.shutdown(wait=True), which
\* returns once the work items it already has are finished.
Shutdown ==
    /\ AllowShutdown
    /\ \/ shutdown = "no"      /\ shutdown' = "flagged"
       \/ shutdown = "flagged" /\ shutdown' = "closing"
       \/ /\ shutdown = "closing"
          /\ backlog = <<>>
          /\ \A w \in Workers : worker[w] = None
          /\ shutdown' = "returned"
    /\ UNCHANGED <<seq, reserved, job, heap, dlq, dispatcher, inHand, backlog,
                   worker, requeues, careless>>

-------------------------------------------------------------------------------
Dispatch == _dispatch_loop \/ _pop_eligible \/ pool_submit

RunWork(w) == _run_job(w) \/ _handle_failure(w)

Next ==
    \/ \E j \in Jobs : _next_seq(j) \/ submit(j) \/ BackoffElapses(j)
                       \/ requeue_from_dlq(j)
    \/ Dispatch
    \/ \E w \in Workers : TakeWork(w) \/ RunWork(w)
    \/ Shutdown

Spec == Init /\ [][Next]_vars

\* The dispatcher and the pool threads are scheduled, a job function returns
\* or raises, clocks advance, and a client inside submit() finishes it.
\* Nothing obliges clients to submit or operators to requeue.
Fairness ==
    /\ WF_vars(Dispatch)
    /\ \A w \in Workers : WF_vars(TakeWork(w)) /\ WF_vars(RunWork(w))
    /\ \A j \in Jobs : WF_vars(submit(j)) /\ WF_vars(BackoffElapses(j))

FairSpec == Spec /\ Fairness

-------------------------------------------------------------------------------
(* Properties.                                                             *)

\* The objects keep their types, and the DLQ never exceeds DLQ_MAX_SIZE.
TypeOK ==
    /\ seq \in Nat
    /\ reserved \in [Jobs -> Nat]
    /\ job \in [Jobs -> QueuedJob]
    /\ Entries \subseteq Entry /\ \A e \in Entries : heap[e] \in Nat \ {0}
    /\ dlq \in Seq(Jobs) /\ Len(dlq) <= DlqMax
    /\ dispatcher \in {"loop", "pop", "submit", "exited", "crashed"}
    /\ inHand \in Jobs \cup {None}
    /\ inHand # None <=> dispatcher \in {"submit", "crashed"}
    /\ backlog \in Seq(Jobs)
    /\ worker \in [Workers -> Jobs \cup {None}]
    /\ shutdown \in {"no", "flagged", "closing", "returned"}
    /\ requeues \in 0..MaxRequeues /\ careless \in BOOLEAN

\* No job is dropped while it waits: a job whose status is "queued" has an
\* entry in the heap from which the dispatcher can still pop it, through
\* retries, requeues and duplicated entries.
QueuedIsDispatchable ==
    \A j \in Jobs : job[j].status = "queued" => \E e \in Entries : e.job = j

\* Where a job the dispatcher has popped can be, if somebody will go on with it:
\* a dispatcher that died has the job in hand and does nothing more.
InFlight(j) ==
    \/ inHand = j /\ dispatcher # "crashed"
    \/ \E i \in DOMAIN backlog : backlog[i] = j
    \/ \E w \in Workers : worker[w] = j

\* "success", "retry queue" or "DLQ" is where the job of a worker ends
\* (queue.py:14-31): a status of "running" is backed by somebody who will still
\* set it.  A shutdown between pop and hand-over leaves one that is not.
RunningIsInFlight ==
    \A j \in Jobs : job[j].status = "running" => InFlight(j)

\* What a shutdown does to running jobs at most: work that the executor has
\* accepted is still finished, and the only job that stays "running" for ever is
\* the one the dispatcher had in hand when the pool refused it.
OrphanedByShutdownOnly ==
    \A j \in Jobs : job[j].status = "running" =>
        InFlight(j) \/ (~PoolOpen /\ dispatcher = "crashed" /\ inHand = j)

\* The queue still owes j an outcome.
InProgress(j) == job[j].status \in {"queued", "running"}

\* Copies of j anywhere between the heap and the threads.
HeapCopies == UNION {{e} \X (1..heap[e]) : e \in Entries}

Copies(j) ==
    Cardinality({c \in HeapCopies : c[1].job = j})
    + Cardinality({i \in DOMAIN backlog : backlog[i] = j})
    + Cardinality({w \in Workers : worker[w] = j})
    + (IF inHand = j THEN 1 ELSE 0)

\* Until an operator requeues a job that is not dead, which the code lets him, a
\* job exists at most once between the heap and the threads, so no two threads
\* ever execute the same job and no execution overwrites the outcome of another.
SingleCopy ==
    ~careless => \A j \in Jobs : Copies(j) = IF InProgress(j) THEN 1 ELSE 0

\* Until then the retry budget of the policy is exact: a job in progress has
\* failed at most MaxRetries times, a dead one exactly MaxRetries + 1 times.
RetryBudget ==
    ~careless => \A j \in Jobs :
        /\ InProgress(j) => job[j].attempt <= MaxRetries
        /\ job[j].status = "dead" => job[j].attempt = MaxRetries + 1

\* The abstract queue this one implements.
phase == [j \in Jobs |-> IF InProgress(j) THEN "pending"
                         ELSE IF job[j].status = "new" THEN "unknown"
                         ELSE job[j].status]

left == [j \in Jobs |-> IF InProgress(j) THEN MaxRetries + 1 - job[j].attempt ELSE 0]

Lifecycle == INSTANCE JobLifecycle
                 WITH closed <- shutdown # "no", misused <- careless

\* Until an operator requeues a job that is not dead, every step of the queue is
\* a step of the abstract life cycle of a job or leaves it unchanged: budgets are
\* exact, settled jobs stay settled, with a shutdown at any moment.
ImplementsLifecycle == Lifecycle!Spec

\* As long as, in addition, nobody shuts the queue down, every accepted job
\* settles as done or dead: neither backoff nor urgent traffic starves it for ever.
ImplementsFairLifecycle == Lifecycle!FairSpec
===============================================================================
