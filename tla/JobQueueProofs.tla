---------------------------- MODULE JobQueueProofs ----------------------------
(***************************************************************************)
(* For any number of jobs and threads, any priorities and any retry        *)
(* policy, the job queue never loses a waiting job, whatever operators     *)
(* requeue, and a running one only to a shutdown.  Until an operator       *)
(* requeues a job that is not dead, it keeps the promise of JobLifecycle:  *)
(* a job is in one place at a time, so its executions follow one another   *)
(* and each uses one unit of its budget.                                   *)
(***************************************************************************)
EXTENDS JobQueue, FiniteSetTheorems, TLAPS

-------------------------------------------------------------------------------
(* The heap as a bag.                                                      *)

\* Every entry of a bag occurs in it.
IsHeap(B) == DOMAIN B \subseteq Entry /\ \A e \in DOMAIN B : B[e] \in Nat \ {0}

\* Adding an entry to a heap.
LEMMA HeapAdd ==
    ASSUME NEW B, IsHeap(B), NEW x \in Entry
    PROVE  IsHeap(BagAdd(B, x)) /\ DOMAIN BagAdd(B, x) = DOMAIN B \cup {x}
<1>1. CASE x \in DOMAIN B
  BY <1>1 DEF IsHeap, BagAdd
<1>2. CASE x \notin DOMAIN B
  BY <1>2 DEF IsHeap, BagAdd
<1> QED
  BY <1>1, <1>2

\* Removing an entry from a heap leaves the other ones there.
LEMMA HeapRemove ==
    ASSUME NEW B, IsHeap(B), NEW x \in DOMAIN B
    PROVE  /\ IsHeap(BagRemove(B, x))
           /\ DOMAIN B \ {x} \subseteq DOMAIN BagRemove(B, x)
           /\ DOMAIN BagRemove(B, x) \subseteq DOMAIN B
<1>1. CASE B[x] = 1
  BY <1>1 DEF IsHeap, BagRemove
<1>2. CASE B[x] # 1
  BY <1>2 DEF IsHeap, BagRemove
<1> QED
  BY <1>1, <1>2

\* The entries the queue pushes are entries of its heap.
LEMMA KeyIsEntry ==
    ASSUME NEW j \in Jobs, NEW n \in Nat
    PROVE  heap_key(j, n) \in Entry /\ heap_key(j, n).job = j
BY JobQueueAssumption DEF heap_key, Entry

-------------------------------------------------------------------------------
(* Type correctness.                                                       *)

\* The bounded deque never exceeds its bound.
LEMMA DlqType ==
    ASSUME NEW d \in Seq(Jobs), Len(d) <= DlqMax, NEW j \in Jobs
    PROVE  AppendCapped(d, j) \in Seq(Jobs) /\ Len(AppendCapped(d, j)) <= DlqMax
<1>1. DlqMax \in Nat \ {0}
  BY JobQueueAssumption
<1>2. CASE Len(d) < DlqMax
  BY <1>1, <1>2 DEF AppendCapped
<1>3. CASE Len(d) >= DlqMax
  <2>1. d # <<>>
    BY <1>1, <1>3
  <2>2. Tail(d) \in Seq(Jobs) /\ Len(Tail(d)) = Len(d) - 1
    BY <2>1
  <2> QED
    BY <1>1, <1>3, <2>2 DEF AppendCapped
<1> QED
  BY <1>1, <1>2, <1>3

\* No step leaves the types.
LEMMA TypeInductive == TypeOK /\ [Next]_vars => TypeOK'
<1> SUFFICES ASSUME TypeOK, [Next]_vars PROVE TypeOK'
  OBVIOUS
<1> USE JobQueueAssumption
<1>h. IsHeap(heap)
  BY DEF TypeOK, IsHeap, Entries
<1>1. ASSUME NEW j \in Jobs, _next_seq(j) PROVE TypeOK'
  BY <1>1 DEF TypeOK, _next_seq, Entries
<1>2. ASSUME NEW j \in Jobs, submit(j) PROVE TypeOK'
  <2>1. heap_key(j, reserved[j]) \in Entry
    BY KeyIsEntry DEF TypeOK
  <2>2. IsHeap(heap')
    BY <1>h, <1>2, <2>1, HeapAdd DEF submit
  <2>3. job' \in [Jobs -> QueuedJob]
    BY <1>2 DEF TypeOK, submit, QueuedJob, Statuses
  <2> QED
    BY <1>2, <2>2, <2>3 DEF TypeOK, submit, IsHeap, Entries
<1>3. ASSUME NEW j \in Jobs, BackoffElapses(j) PROVE TypeOK'
  <2>1. job' \in [Jobs -> QueuedJob]
    BY <1>3 DEF TypeOK, BackoffElapses, QueuedJob
  <2> QED
    BY <1>3, <2>1 DEF TypeOK, BackoffElapses, Entries
<1>4. ASSUME NEW j \in Jobs, requeue_from_dlq(j) PROVE TypeOK'
  <2>1. seq + 1 \in Nat
    BY DEF TypeOK
  <2>2. IsHeap(heap')
    BY <1>h, <1>4, <2>1, KeyIsEntry, HeapAdd DEF requeue_from_dlq
  <2>3. job' \in [Jobs -> QueuedJob]
    BY <1>4 DEF TypeOK, requeue_from_dlq, Revived, QueuedJob, Statuses
  <2>4. requeues' \in 0..MaxRequeues /\ careless' \in BOOLEAN
    BY <1>4 DEF TypeOK, requeue_from_dlq
  <2> QED
    BY <1>4, <2>1, <2>2, <2>3, <2>4 DEF TypeOK, requeue_from_dlq, IsHeap, Entries
<1>5. CASE _dispatch_loop
  BY <1>5 DEF TypeOK, _dispatch_loop, Entries
<1>6. CASE _pop_eligible
  <2>1. CASE Eligible = {} /\ dispatcher' = "loop" /\ UNCHANGED <<job, heap, inHand>>
    BY <1>6, <2>1 DEF TypeOK, _pop_eligible, Entries
  <2>2. ASSUME NEW e \in Eligible, heap' = Popped(e), inHand' = e.job,
               job' = [job EXCEPT ![e.job].status = "running"],
               dispatcher' = "submit"
        PROVE  TypeOK'
    <3>1. e \in DOMAIN heap /\ e.job \in Jobs
      BY DEF TypeOK, Eligible, Entries, Entry
    <3>2. IsHeap(heap')
      BY <1>h, <2>2, <3>1, HeapRemove DEF Popped
    <3>3. job' \in [Jobs -> QueuedJob]
      BY <2>2, <3>1 DEF TypeOK, QueuedJob, Statuses
    <3> QED
      BY <1>6, <2>2, <3>1, <3>2, <3>3 DEF TypeOK, _pop_eligible, IsHeap, Entries
  <2> QED
    BY <1>6, <2>1, <2>2 DEF _pop_eligible
<1>7. CASE pool_submit
  <2>1. inHand \in Jobs
    BY <1>7 DEF TypeOK, pool_submit
  <2>2. CASE backlog' = Append(backlog, inHand) /\ inHand' = None
             /\ dispatcher' = "loop"
    BY <1>7, <2>1, <2>2 DEF TypeOK, pool_submit, Entries
  <2>3. CASE Rejection /\ UNCHANGED backlog
    BY <1>7, <2>1, <2>3 DEF TypeOK, pool_submit, Rejection, Entries
  <2> QED
    BY <1>7, <2>2, <2>3 DEF pool_submit
<1>8. ASSUME NEW w \in Workers, TakeWork(w) PROVE TypeOK'
  <2>1. Head(backlog) \in Jobs /\ Tail(backlog) \in Seq(Jobs)
    BY <1>8 DEF TypeOK, TakeWork
  <2> QED
    BY <1>8, <2>1 DEF TypeOK, TakeWork, Entries
<1>9. ASSUME NEW w \in Workers, _run_job(w) PROVE TypeOK'
  <2>1. worker[w] \in Jobs
    BY <1>9 DEF TypeOK, _run_job
  <2>2. job' \in [Jobs -> QueuedJob] /\ worker' \in [Workers -> Jobs \cup {None}]
    BY <1>9, <2>1 DEF TypeOK, _run_job, QueuedJob, Statuses
  <2> QED
    BY <1>9, <2>2 DEF TypeOK, _run_job, Entries
<1>10. ASSUME NEW w \in Workers, _handle_failure(w) PROVE TypeOK'
  <2>1. worker[w] \in Jobs /\ job[worker[w]].attempt + 1 \in Nat
    BY <1>10 DEF TypeOK, _handle_failure, QueuedJob
  <2>2. job' \in [Jobs -> QueuedJob]
    <3> DEFINE j == worker[w]
               n == job[j].attempt + 1
    <3>1. CASE job' = [job EXCEPT ![j] =
                         [status |-> "queued", attempt |-> n, delayed |-> TRUE]]
      BY <2>1, <3>1 DEF TypeOK, QueuedJob, Statuses
    <3>2. CASE job' = [job EXCEPT ![j].status = "dead", ![j].attempt = n]
      BY <2>1, <3>2 DEF TypeOK, QueuedJob, Statuses
    <3> QED
      BY <1>10, <3>1, <3>2 DEF _handle_failure
  <2>3. worker' \in [Workers -> Jobs \cup {None}]
    BY <1>10 DEF TypeOK, _handle_failure
  <2>4. IsHeap(heap')
    <3>1. IsHeap(RetryPushed(worker[w]))
      BY <1>h, <2>1, KeyIsEntry, HeapAdd DEF TypeOK, RetryPushed
    <3> QED
      BY <1>h, <1>10, <3>1 DEF _handle_failure
  <2>5. dlq' \in Seq(Jobs) /\ Len(dlq') <= DlqMax
    BY <1>10, <2>1, DlqType DEF TypeOK, _handle_failure
  <2> QED
    BY <1>10, <2>2, <2>3, <2>4, <2>5 DEF TypeOK, _handle_failure, IsHeap, Entries
<1>11. CASE Shutdown
  BY <1>11 DEF TypeOK, Shutdown, Entries
<1>12. CASE UNCHANGED vars
  BY <1>12 DEF TypeOK, vars, Entries
<1> QED
  BY <1>1, <1>2, <1>3, <1>4, <1>5, <1>6, <1>7, <1>8, <1>9, <1>10, <1>11, <1>12
     DEF Next, Dispatch, RunWork

\* The queue's data keep their types, and the DLQ stays within DLQ_MAX_SIZE.
THEOREM TypeCorrect == Spec => []TypeOK
<1>1. Init => TypeOK
  <2> SUFFICES ASSUME Init PROVE TypeOK
    OBVIOUS
  <2>1. Entries = {}
    BY DEF Init, Entries
  <2>2. job \in [Jobs -> QueuedJob]
    BY DEF Init, QueuedJob, Statuses
  <2>3. dlq \in Seq(Jobs) /\ Len(dlq) <= DlqMax /\ backlog \in Seq(Jobs)
    BY JobQueueAssumption DEF Init
  <2>4. requeues \in 0..MaxRequeues
    BY JobQueueAssumption DEF Init
  <2> QED
    BY <2>1, <2>2, <2>3, <2>4 DEF Init, TypeOK
<1> QED
  BY <1>1, TypeInductive, PTL DEF Spec

-------------------------------------------------------------------------------
(* Jobs that wait.                                                         *)

\* j can be popped from the heap B.
Waits(B, j) == \E e \in DOMAIN B : e.job = j

\* No job is lost while it waits, even if operators requeue jobs that are
\* waiting, running or done, and whatever shutdown() interrupts: a queued
\* job has an entry in the heap.
THEOREM QueuedDispatchable == Spec => []QueuedIsDispatchable
<1>1. Init => QueuedIsDispatchable
  BY DEF Init, QueuedIsDispatchable
<1>2. TypeOK /\ QueuedIsDispatchable /\ [Next]_vars => QueuedIsDispatchable'
  <2> SUFFICES ASSUME TypeOK, QueuedIsDispatchable, [Next]_vars,
                      NEW j \in Jobs, job'[j].status = "queued"
               PROVE  Waits(heap', j)
    BY DEF QueuedIsDispatchable, Waits, Entries
  <2>h. IsHeap(heap) /\ (job[j].status = "queued" => Waits(heap, j))
    BY DEF TypeOK, IsHeap, QueuedIsDispatchable, Waits, Entries
  <2>1. ASSUME NEW k \in Jobs, NEW n \in Nat, heap' = BagAdd(heap, heap_key(k, n)),
               k = j \/ job[j].status = "queued"
        PROVE  Waits(heap', j)
    <3>1. heap_key(k, n) \in Entry /\ heap_key(k, n).job = k
      BY KeyIsEntry
    <3>2. DOMAIN heap' = DOMAIN heap \cup {heap_key(k, n)}
      BY <2>h, <2>1, <3>1, HeapAdd
    <3>3. CASE k = j
      BY <3>1, <3>2, <3>3 DEF Waits
    <3>4. CASE job[j].status = "queued"
      BY <2>h, <3>2, <3>4 DEF Waits
    <3> QED
      BY <2>1, <3>3, <3>4
  <2>2. ASSUME NEW k \in Jobs, submit(k) PROVE Waits(heap', j)
    <3>1. k = j \/ job[j].status = "queued"
      BY <2>2 DEF TypeOK, submit
    <3> QED
      BY <2>1, <2>2, <3>1 DEF TypeOK, submit
  <2>3. ASSUME NEW k \in Jobs, requeue_from_dlq(k) PROVE Waits(heap', j)
    <3>1. k = j \/ job[j].status = "queued"
      BY <2>3 DEF TypeOK, requeue_from_dlq
    <3>2. seq + 1 \in Nat
      BY DEF TypeOK
    <3> QED
      BY <2>1, <2>3, <3>1, <3>2 DEF requeue_from_dlq
  <2>4. ASSUME NEW w \in Workers, _handle_failure(w) PROVE Waits(heap', j)
    <3> DEFINE k == worker[w]
               n == job[k].attempt + 1
    <3>1. k \in Jobs /\ seq \in Nat
      BY <2>4 DEF TypeOK, _handle_failure
    <3>2. CASE /\ job' = [job EXCEPT ![k] =
                            [status |-> "queued", attempt |-> n, delayed |-> TRUE]]
               /\ heap' = RetryPushed(k)
      <4>1. k = j \/ job[j].status = "queued"
        BY <3>1, <3>2 DEF TypeOK
      <4> QED
        BY <2>1, <3>1, <3>2, <4>1 DEF RetryPushed
    <3>3. CASE /\ job' = [job EXCEPT ![k].status = "dead", ![k].attempt = n]
               /\ UNCHANGED heap
      <4>1. job[j].status = "queued"
        BY <3>1, <3>3 DEF TypeOK, QueuedJob
      <4> QED
        BY <2>h, <3>3, <4>1
    <3> QED
      BY <2>4, <3>2, <3>3 DEF _handle_failure
  <2>5. ASSUME NEW e \in Eligible, heap' = Popped(e),
               job' = [job EXCEPT ![e.job].status = "running"]
        PROVE  Waits(heap', j)
    <3>1. e \in DOMAIN heap /\ e.job \in Jobs
      BY DEF TypeOK, Eligible, Entries, Entry
    <3>2. e.job # j /\ job[j].status = "queued"
      BY <2>5, <3>1 DEF TypeOK, QueuedJob
    <3> QED
      BY <2>h, <2>5, <3>1, <3>2, HeapRemove DEF Popped, Waits
  <2>6. ASSUME UNCHANGED heap, job[j].status = "queued" PROVE Waits(heap', j)
    BY <2>h, <2>6
  <2>7. ASSUME NEW k \in Jobs, BackoffElapses(k) PROVE Waits(heap', j)
    <3>1. job[j].status = "queued"
      BY <2>7 DEF TypeOK, BackoffElapses, QueuedJob
    <3> QED
      BY <2>6, <2>7, <3>1 DEF BackoffElapses
  <2>8. ASSUME NEW w \in Workers, _run_job(w) PROVE Waits(heap', j)
    <3>1. job[j].status = "queued"
      BY <2>8 DEF TypeOK, _run_job, QueuedJob
    <3> QED
      BY <2>6, <2>8, <3>1 DEF _run_job
  <2>9. CASE UNCHANGED <<job, heap>>
    BY <2>6, <2>9
  <2>10. CASE _pop_eligible
    BY <2>5, <2>9, <2>10 DEF _pop_eligible
  <2>11. CASE _dispatch_loop \/ pool_submit \/ Shutdown \/ UNCHANGED vars
              \/ (\E k \in Jobs : _next_seq(k)) \/ (\E w \in Workers : TakeWork(w))
    BY <2>9, <2>11 DEF _dispatch_loop, pool_submit, Shutdown, vars, _next_seq, TakeWork
  <2> QED
    BY <2>2, <2>3, <2>4, <2>7, <2>8, <2>10, <2>11 DEF Next, Dispatch, RunWork
<1> QED
  BY <1>1, <1>2, TypeCorrect, PTL DEF Spec

-------------------------------------------------------------------------------
(* Jobs that run.                                                          *)

\* Somebody has j in hand, be it a dispatcher that died.
Held(j) ==
    \/ inHand = j
    \/ \E i \in DOMAIN backlog : backlog[i] = j
    \/ \E w \in Workers : worker[w] = j

RunningIsHeld == \A j \in Jobs : job[j].status = "running" => Held(j)

\* A holder lets go of a running job only when it passes it on or settles it.
LEMMA HeldInductive ==
    /\ Init => RunningIsHeld
    /\ TypeOK /\ RunningIsHeld /\ [Next]_vars => RunningIsHeld'
<1>1. Init => RunningIsHeld
  BY DEF Init, RunningIsHeld
<1>2. TypeOK /\ RunningIsHeld /\ [Next]_vars => RunningIsHeld'
  <2> SUFFICES ASSUME TypeOK, RunningIsHeld, [Next]_vars,
                      NEW j \in Jobs, job'[j].status = "running"
               PROVE  Held(j)'
    BY DEF RunningIsHeld
  <2>h. job[j].status = "running" => Held(j)
    BY DEF RunningIsHeld
  <2>1. ASSUME job[j].status = "running", UNCHANGED <<inHand, backlog, worker>>
        PROVE  Held(j)'
    BY <2>h, <2>1 DEF Held
  <2>2. ASSUME NEW k \in Jobs,
               \/ _next_seq(k) \/ submit(k) \/ BackoffElapses(k)
               \/ requeue_from_dlq(k)
        PROVE  Held(j)'
    <3>1. CASE _next_seq(k)
      BY <2>1, <3>1 DEF _next_seq
    <3>2. CASE submit(k)
      <4>1. job[j].status = "running"
        BY <3>2 DEF TypeOK, submit, QueuedJob
      <4> QED
        BY <2>1, <3>2, <4>1 DEF submit
    <3>3. CASE BackoffElapses(k)
      <4>1. job[j].status = "running"
        BY <3>3 DEF TypeOK, BackoffElapses, QueuedJob
      <4> QED
        BY <2>1, <3>3, <4>1 DEF BackoffElapses
    <3>4. CASE requeue_from_dlq(k)
      <4>1. job[j].status = "running"
        BY <3>4 DEF TypeOK, requeue_from_dlq, Revived
      <4> QED
        BY <2>1, <3>4, <4>1 DEF requeue_from_dlq
    <3> QED
      BY <2>2, <3>1, <3>2, <3>3, <3>4
  <2>3. CASE _pop_eligible
    <3>1. CASE UNCHANGED <<job, inHand>>
      BY <2>1, <2>3, <3>1 DEF _pop_eligible
    <3>2. ASSUME NEW e \in Eligible, inHand' = e.job,
                 job' = [job EXCEPT ![e.job].status = "running"]
          PROVE  Held(j)'
      <4>1. CASE j = e.job
        BY <3>2, <4>1 DEF Held
      <4>2. CASE j # e.job
        <5>1. job[j].status = "running"
          BY <3>2, <4>2 DEF TypeOK
        <5>2. inHand # j
          BY <2>3, JobQueueAssumption DEF TypeOK, _pop_eligible
        <5> QED
          BY <2>h, <2>3, <5>1, <5>2 DEF Held, _pop_eligible
      <4> QED
        BY <4>1, <4>2
    <3> QED
      BY <2>3, <3>1, <3>2 DEF _pop_eligible
  <2>4. CASE pool_submit
    <3>1. Held(j) /\ backlog \in Seq(Jobs)
      BY <2>4, <2>h DEF pool_submit, TypeOK
    <3>2. CASE backlog' = Append(backlog, inHand)
      <4>1. CASE inHand = j
        <5>1. backlog'[Len(backlog) + 1] = j /\ Len(backlog) + 1 \in DOMAIN backlog'
          BY <3>1, <3>2, <4>1
        <5> QED
          BY <5>1 DEF Held
      <4>2. CASE \E i \in DOMAIN backlog : backlog[i] = j
        <5>1. \E i \in DOMAIN backlog' : backlog'[i] = j
          BY <3>1, <3>2, <4>2
        <5> QED
          BY <5>1 DEF Held
      <4>3. CASE \E w \in Workers : worker[w] = j
        BY <2>4, <4>3 DEF pool_submit, Held
      <4> QED
        BY <3>1, <4>1, <4>2, <4>3 DEF Held
    <3>3. CASE Rejection /\ UNCHANGED backlog
      BY <2>4, <3>1, <3>3 DEF pool_submit, Rejection, Held
    <3> QED
      BY <2>4, <3>2, <3>3 DEF pool_submit
  <2>5. ASSUME NEW w \in Workers, TakeWork(w) PROVE Held(j)'
    <3>1. Held(j) /\ backlog \in Seq(Jobs) /\ backlog # <<>>
          /\ worker \in [Workers -> Jobs \cup {None}]
      BY <2>5, <2>h DEF TakeWork, TypeOK
    <3>2. CASE inHand = j
      BY <2>5, <3>2 DEF TakeWork, Held
    <3>3. ASSUME NEW i \in DOMAIN backlog, backlog[i] = j PROVE Held(j)'
      <4>1. CASE i = 1
        <5>1. worker'[w] = j
          BY <2>5, <3>1, <3>3, <4>1 DEF TakeWork
        <5> QED
          BY <5>1 DEF Held
      <4>2. CASE i # 1
        <5>1. i - 1 \in DOMAIN backlog' /\ backlog'[i - 1] = j
          BY <2>5, <3>1, <3>3, <4>2 DEF TakeWork
        <5> QED
          BY <5>1 DEF Held
      <4> QED
        BY <4>1, <4>2
    <3>4. ASSUME NEW v \in Workers, worker[v] = j PROVE Held(j)'
      <4>1. v # w
        BY <2>5, <3>4, JobQueueAssumption DEF TakeWork
      <4>2. worker'[v] = j
        BY <2>5, <3>1, <3>4, <4>1 DEF TakeWork
      <4> QED
        BY <4>2 DEF Held
    <3> QED
      BY <3>1, <3>2, <3>3, <3>4 DEF Held
  <2>6. ASSUME NEW w \in Workers, RunWork(w) PROVE Held(j)'
    <3>1. worker[w] \in Jobs
      BY <2>6 DEF TypeOK, RunWork, _run_job, _handle_failure
    <3>2. worker[w] # j /\ job[j].status = "running"
      <4>1. CASE _run_job(w)
        BY <3>1, <4>1 DEF TypeOK, _run_job, QueuedJob
      <4>2. CASE _handle_failure(w)
        <5> DEFINE k == worker[w]
                   n == job[k].attempt + 1
        <5>1. CASE job' = [job EXCEPT ![k] =
                             [status |-> "queued", attempt |-> n, delayed |-> TRUE]]
          BY <3>1, <5>1 DEF TypeOK
        <5>2. CASE job' = [job EXCEPT ![k].status = "dead", ![k].attempt = n]
          BY <3>1, <5>2 DEF TypeOK, QueuedJob
        <5> QED
          BY <4>2, <5>1, <5>2 DEF _handle_failure
      <4> QED
        BY <2>6, <4>1, <4>2 DEF RunWork
    <3>3. Held(j) /\ worker \in [Workers -> Jobs \cup {None}]
      BY <2>h, <3>2 DEF TypeOK
    <3>4. \A v \in Workers : worker[v] = j => worker'[v] = j
      BY <2>6, <3>2, <3>3 DEF RunWork, _run_job, _handle_failure
    <3> QED
      BY <2>6, <3>3, <3>4 DEF Held, RunWork, _run_job, _handle_failure
  <2>7. CASE _dispatch_loop \/ Shutdown \/ UNCHANGED vars
    BY <2>1, <2>7 DEF _dispatch_loop, Shutdown, vars
  <2> QED
    BY <2>2, <2>3, <2>4, <2>5, <2>6, <2>7 DEF Next, Dispatch
<1> QED
  BY <1>1, <1>2

\* The dispatcher dies of a closed pool only, and pools are not opened again.
DeadOfShutdown == dispatcher = "crashed" => ~PoolOpen

LEMMA DeadInductive == TypeOK /\ DeadOfShutdown /\ [Next]_vars => DeadOfShutdown'
<1> SUFFICES ASSUME TypeOK, DeadOfShutdown, [Next]_vars PROVE DeadOfShutdown'
  OBVIOUS
<1>1. ASSUME UNCHANGED <<dispatcher, shutdown>> PROVE DeadOfShutdown'
  BY <1>1 DEF DeadOfShutdown, PoolOpen
<1>2. CASE pool_submit
  BY <1>2 DEF pool_submit, Rejection, DeadOfShutdown, PoolOpen
<1>3. CASE _dispatch_loop \/ _pop_eligible
  BY <1>3 DEF _dispatch_loop, _pop_eligible, DeadOfShutdown, PoolOpen
<1>4. CASE Shutdown
  BY <1>4 DEF Shutdown, DeadOfShutdown, PoolOpen
<1> QED
  BY <1>1, <1>2, <1>3, <1>4
  DEF Next, Dispatch, RunWork, vars, _next_seq, submit, BackoffElapses,
      requeue_from_dlq, TakeWork, _run_job, _handle_failure

\* A job whose status is running is with somebody who will still set it, except
\* for the one that a shutdown caught between the heap and the executor.
THEOREM OrphansOfShutdown == Spec => []OrphanedByShutdownOnly
<1>1. Init => DeadOfShutdown
  BY DEF Init, DeadOfShutdown
<1>2. TypeOK /\ DeadOfShutdown /\ [Next]_vars => DeadOfShutdown'
  BY DeadInductive
<1>3. RunningIsHeld /\ DeadOfShutdown => OrphanedByShutdownOnly
  BY DEF RunningIsHeld, Held, DeadOfShutdown, OrphanedByShutdownOnly, InFlight
<1> QED
  BY <1>1, <1>2, <1>3, HeldInductive, TypeCorrect, PTL DEF Spec

\* A queue that nobody shuts down has no such job: whatever is running is with the
\* dispatcher, in the executor's queue or on a thread, which will settle it.
THEOREM RunningInFlight ==
    ASSUME ~AllowShutdown PROVE Spec => []RunningIsInFlight
<1> DEFINE Open == shutdown = "no"
<1>1. Init => Open
  BY DEF Init
<1>2. Open /\ [Next]_vars => Open'
  BY DEF Next, Dispatch, RunWork, vars, _next_seq, submit, BackoffElapses,
         requeue_from_dlq, _dispatch_loop, _pop_eligible, pool_submit, TakeWork,
         _run_job, _handle_failure, Shutdown
<1>3. Open /\ OrphanedByShutdownOnly => RunningIsInFlight
  BY DEF OrphanedByShutdownOnly, RunningIsInFlight, PoolOpen
<1> QED
  BY <1>1, <1>2, <1>3, OrphansOfShutdown, PTL DEF Spec

-------------------------------------------------------------------------------
(* The invariant: where a job is depends on its status.                    *)

\* The heap holds one entry of each queued job, once.
HeapOnce(h, jobs) ==
    /\ \A e \in DOMAIN h : h[e] = 1 /\ jobs[e.job].status = "queued"
    /\ \A e, f \in DOMAIN h : e.job = f.job => e = f

\* What is in flight is running, and in one of the three places.
FlightOnce(jobs, hand, work, on) ==
    /\ hand # None => jobs[hand].status = "running"
    /\ \A i \in DOMAIN work : jobs[work[i]].status = "running" /\ work[i] # hand
    /\ \A i, k \in DOMAIN work : work[i] = work[k] => i = k
    /\ \A w \in Workers : on[w] # None =>
          /\ jobs[on[w]].status = "running" /\ on[w] # hand
          /\ \A i \in DOMAIN work : work[i] # on[w]
          /\ \A v \in Workers : on[v] = on[w] => v = w

\* Failures are counted exactly.
BudgetOK(jobs) ==
    \A j \in Jobs :
        /\ jobs[j].status = "new" => jobs[j].attempt = 0
        /\ jobs[j].status \in {"queued", "running"} => jobs[j].attempt <= MaxRetries
        /\ jobs[j].status = "dead" => jobs[j].attempt = MaxRetries + 1

IInv ==
    /\ HeapOnce(heap, job)
    /\ FlightOnce(job, inHand, backlog, worker)
    /\ BudgetOK(job)

\* What the steps below know about the state before them.
LEMMA Places ==
    ASSUME TypeOK
    PROVE  /\ \A e \in DOMAIN heap : e.job \in Jobs
           /\ \A i \in DOMAIN backlog : backlog[i] \in Jobs
           /\ \A w \in Workers : worker[w] # None => worker[w] \in Jobs
           /\ inHand # None => inHand \in Jobs
           /\ job \in [Jobs -> QueuedJob]
           /\ None \notin Jobs
  BY JobQueueAssumption DEF TypeOK, Entries, Entry

\* A job that is not queued is pushed.
LEMMA PushOnce ==
    ASSUME TypeOK, HeapOnce(heap, job), NEW k \in Jobs, NEW n \in Nat,
           job[k].status # "queued", heap' = BagAdd(heap, heap_key(k, n)),
           DOMAIN job' = Jobs, job'[k].status = "queued",
           \A j \in Jobs : j # k => job'[j] = job[j]
    PROVE  HeapOnce(heap', job')
<1> DEFINE x == heap_key(k, n)
<1>1. x.job = k
  BY KeyIsEntry
<1>2. x \notin DOMAIN heap /\ \A e \in DOMAIN heap : e.job # k
  BY <1>1 DEF HeapOnce
<1> HIDE DEF x
<1>3. heap' = [e \in DOMAIN heap \cup {x} |-> IF e = x THEN 1 ELSE heap[e]]
  BY <1>2 DEF BagAdd, x
<1> QED
  BY <1>1, <1>2, <1>3, Places DEF HeapOnce

\* A job that was not running, or has just left its place, changes.
LEMMA FlightKept ==
    ASSUME TypeOK, NEW k \in Jobs, DOMAIN job' = Jobs,
           \A j \in Jobs : j # k => job'[j] = job[j],
           FlightOnce(job, inHand, backlog, worker),
           job[k].status # "running", UNCHANGED <<inHand, backlog, worker>>
    PROVE  FlightOnce(job', inHand', backlog', worker')
  BY Places DEF FlightOnce

LEMMA FlightDone ==
    ASSUME TypeOK, NEW w \in Workers, worker[w] # None, DOMAIN job' = Jobs,
           \A j \in Jobs : j # worker[w] => job'[j] = job[j],
           FlightOnce(job, inHand, backlog, worker),
           worker' = [worker EXCEPT ![w] = None], UNCHANGED <<inHand, backlog>>
    PROVE  FlightOnce(job', inHand', backlog', worker')
<1>1. \A v \in Workers : worker'[v] = IF v = w THEN None ELSE worker[v]
  BY DEF TypeOK
<1> QED
  BY <1>1, Places DEF FlightOnce

LEMMA SubmitOnce ==
    ASSUME TypeOK, IInv, NEW j \in Jobs, submit(j) PROVE IInv'
<1>1. /\ job[j].status = "new" /\ job' = [job EXCEPT ![j].status = "queued"]
      /\ heap' = BagAdd(heap, heap_key(j, reserved[j])) /\ reserved[j] \in Nat
      /\ UNCHANGED <<inHand, backlog, worker>>
  BY DEF submit, TypeOK
<1>2. /\ DOMAIN job' = Jobs /\ \A k \in Jobs : k # j => job'[k] = job[k]
      /\ job'[j].status = "queued" /\ job'[j].attempt = job[j].attempt
  BY <1>1, Places DEF QueuedJob
<1>3. BudgetOK(job')
  BY <1>1, <1>2, JobQueueAssumption DEF IInv, BudgetOK
<1> QED
  BY <1>1, <1>2, <1>3, PushOnce, FlightKept DEF IInv

LEMMA RequeueOnce ==
    ASSUME TypeOK, IInv, NEW j \in Jobs, requeue_from_dlq(j), ~careless' PROVE IInv'
<1>0. job[j].status = "dead"
  BY Zenon DEF requeue_from_dlq
<1>1. /\ job[j].status = "dead" /\ job' = [job EXCEPT ![j] = Revived(j)]
      /\ heap' = BagAdd(heap, heap_key(j, seq + 1)) /\ seq + 1 \in Nat
      /\ UNCHANGED <<inHand, backlog, worker>>
  BY <1>0 DEF requeue_from_dlq, TypeOK
<1>2. /\ DOMAIN job' = Jobs /\ \A k \in Jobs : k # j => job'[k] = job[k]
      /\ job'[j].status = "queued" /\ job'[j].attempt = 0
  BY <1>1, Places DEF Revived
<1>3. BudgetOK(job')
  BY <1>2, JobQueueAssumption DEF IInv, BudgetOK
<1> QED
  BY <1>1, <1>2, <1>3, PushOnce, FlightKept DEF IInv

LEMMA BackoffOnce ==
    ASSUME TypeOK, IInv, NEW j \in Jobs, BackoffElapses(j) PROVE IInv'
<1>1. \A k \in Jobs : job'[k].status = job[k].status /\ job'[k].attempt = job[k].attempt
  BY Places DEF BackoffElapses, QueuedJob
<1> QED
  BY <1>1, Places DEF BackoffElapses, IInv, HeapOnce, FlightOnce, BudgetOK

LEMMA PopOnce ==
    ASSUME TypeOK, IInv, _pop_eligible PROVE IInv'
<1>1. CASE UNCHANGED <<job, heap, inHand>>
  BY <1>1 DEF _pop_eligible, IInv
<1>2. ASSUME NEW e \in Eligible, heap' = Popped(e), inHand' = e.job,
             job' = [job EXCEPT ![e.job].status = "running"]
      PROVE  IInv'
  <2>1. e \in DOMAIN heap /\ e.job \in Jobs /\ heap[e] = 1 /\ job[e.job].status = "queued"
    BY Places DEF Eligible, Entries, IInv, HeapOnce
  <2>2. /\ DOMAIN job' = Jobs /\ \A k \in Jobs : k # e.job => job'[k] = job[k]
        /\ job'[e.job].status = "running" /\ job'[e.job].attempt = job[e.job].attempt
    BY <1>2, <2>1, Places DEF QueuedJob
  <2>3. heap' = [f \in DOMAIN heap \ {e} |-> heap[f]]
    BY <1>2, <2>1 DEF Popped, BagRemove
  <2>4. HeapOnce(heap', job')
    BY <2>1, <2>2, <2>3, Places DEF IInv, HeapOnce
  <2>5. inHand = None /\ UNCHANGED <<backlog, worker>>
    BY DEF _pop_eligible, TypeOK
  <2>6. FlightOnce(job', inHand', backlog', worker')
    BY <1>2, <2>1, <2>2, <2>5, Places DEF IInv, FlightOnce
  <2>7. BudgetOK(job')
    BY <2>1, <2>2 DEF IInv, BudgetOK
  <2> QED
    BY <2>4, <2>6, <2>7 DEF IInv
<1> QED
  BY <1>1, <1>2 DEF _pop_eligible

LEMMA HandOverOnce ==
    ASSUME TypeOK, IInv, pool_submit PROVE IInv'
<1>1. UNCHANGED <<job, heap, worker>>
  BY DEF pool_submit
<1>2. CASE backlog' = Append(backlog, inHand) /\ inHand' = None
  <2>1. backlog \in Seq(Jobs) /\ inHand \in Jobs
    BY DEF pool_submit, TypeOK
  <2>2. /\ DOMAIN backlog' = 1..(Len(backlog) + 1) /\ Len(backlog) \in Nat
        /\ backlog'[Len(backlog) + 1] = inHand
        /\ DOMAIN backlog = 1..Len(backlog)
        /\ \A i \in DOMAIN backlog : backlog'[i] = backlog[i]
    BY <1>2, <2>1
  <2>3. \A i \in DOMAIN backlog' : i \in DOMAIN backlog \/ i = Len(backlog) + 1
    BY <2>2
  <2>4. FlightOnce(job', inHand', backlog', worker')
    BY <1>1, <1>2, <2>1, <2>2, <2>3, Places DEF IInv, FlightOnce
  <2> QED
    BY <1>1, <2>4 DEF IInv
<1>3. CASE UNCHANGED <<backlog, inHand>>
  BY <1>1, <1>3 DEF IInv
<1> QED
  BY <1>2, <1>3 DEF pool_submit, Rejection

LEMMA TakeOnce ==
    ASSUME TypeOK, IInv, NEW w \in Workers, TakeWork(w) PROVE IInv'
<1>1. /\ UNCHANGED <<job, heap, inHand>> /\ worker[w] = None
      /\ \A v \in Workers : worker'[v] = IF v = w THEN Head(backlog) ELSE worker[v]
  BY DEF TakeWork, TypeOK
<1>2. backlog \in Seq(Jobs) /\ backlog # <<>> /\ backlog' = Tail(backlog)
  BY DEF TakeWork, TypeOK
<1>3. /\ Head(backlog) = backlog[1] /\ 1 \in DOMAIN backlog
      /\ \A i \in DOMAIN backlog' : /\ i + 1 \in DOMAIN backlog /\ i + 1 # 1
                                    /\ backlog'[i] = backlog[i + 1] /\ i \in Int
  BY <1>2
<1>4. FlightOnce(job', inHand', backlog', worker')
  BY <1>1, <1>3, Places DEF IInv, FlightOnce
<1> QED
  BY <1>1, <1>4 DEF IInv

LEMMA RunOnce ==
    ASSUME TypeOK, IInv, NEW w \in Workers, _run_job(w) PROVE IInv'
<1>1. /\ worker[w] \in Jobs /\ worker[w] # None /\ job[worker[w]].status = "running"
      /\ job' = [job EXCEPT ![worker[w]].status = "done"]
      /\ UNCHANGED heap
  BY Places DEF _run_job, IInv, FlightOnce
<1>2. /\ DOMAIN job' = Jobs /\ \A k \in Jobs : k # worker[w] => job'[k] = job[k]
      /\ job'[worker[w]].status = "done"
  BY <1>1, Places DEF QueuedJob
<1>3. HeapOnce(heap', job')
  BY <1>1, <1>2, Places DEF IInv, HeapOnce
<1>4. BudgetOK(job')
  BY <1>2 DEF IInv, BudgetOK
<1>5. FlightOnce(job', inHand', backlog', worker')
  BY <1>1, <1>2, FlightDone DEF _run_job, IInv
<1> QED
  BY <1>3, <1>4, <1>5 DEF IInv

LEMMA FailOnce ==
    ASSUME TypeOK, IInv, NEW w \in Workers, _handle_failure(w) PROVE IInv'
<1> DEFINE j == worker[w]
           n == job[j].attempt + 1
<1>a. j \in Jobs /\ j # None /\ seq \in Nat /\ job[j].attempt \in Nat
  BY Places DEF _handle_failure, QueuedJob, TypeOK
<1>b. job[j].status = "running"
  BY <1>a DEF IInv, FlightOnce
<1>1. /\ j \in Jobs /\ j # None /\ job[j].status = "running" /\ n \in Nat
      /\ seq \in Nat /\ job[j].attempt <= MaxRetries /\ n <= MaxRetries + 1
  BY <1>a, <1>b, JobQueueAssumption DEF IInv, BudgetOK
<1>2. worker' = [worker EXCEPT ![w] = None] /\ UNCHANGED <<inHand, backlog>>
  BY DEF _handle_failure
<1>3. CASE /\ n <= MaxRetries
           /\ job' = [job EXCEPT ![j] =
                        [status |-> "queued", attempt |-> n, delayed |-> TRUE]]
           /\ heap' = RetryPushed(j)
  <2>1. /\ DOMAIN job' = Jobs /\ \A k \in Jobs : k # j => job'[k] = job[k]
        /\ job'[j].status = "queued" /\ job'[j].attempt = n
    BY <1>1, <1>3, Places
  <2>2. BudgetOK(job')
    BY <1>3, <2>1 DEF IInv, BudgetOK
  <2>3. HeapOnce(heap', job')
    BY <1>1, <1>3, <2>1, PushOnce DEF IInv, RetryPushed
  <2> QED
    BY <1>1, <1>2, <2>1, <2>2, <2>3, FlightDone DEF IInv
<1>4. CASE /\ ~(n <= MaxRetries) /\ UNCHANGED heap
           /\ job' = [job EXCEPT ![j].status = "dead", ![j].attempt = n]
  <2>1. /\ DOMAIN job' = Jobs /\ \A k \in Jobs : k # j => job'[k] = job[k]
        /\ job'[j].status = "dead" /\ job'[j].attempt = n
    BY <1>1, <1>4, Places DEF QueuedJob
  <2>2. n = MaxRetries + 1
    BY <1>1, <1>4, JobQueueAssumption
  <2>3. BudgetOK(job')
    BY <2>1, <2>2 DEF IInv, BudgetOK
  <2>4. HeapOnce(heap', job')
    BY <1>1, <1>4, <2>1, Places DEF IInv, HeapOnce
  <2> QED
    BY <1>1, <1>2, <2>1, <2>3, <2>4, FlightDone DEF IInv
<1> QED
  BY <1>3, <1>4 DEF _handle_failure, AttemptsLeft

\* Once careless, always careless.
LEMMA CareStays == [Next]_vars /\ ~careless' => ~careless
  BY DEF Next, Dispatch, RunWork, vars, _next_seq, submit, BackoffElapses,
         requeue_from_dlq, _dispatch_loop, _pop_eligible, pool_submit, TakeWork,
         _run_job, _handle_failure, Shutdown

\* The invariant, as long as operators requeue dead jobs only.
CareInv == ~careless => IInv

LEMMA OnceInductive == TypeOK /\ CareInv /\ [Next]_vars => CareInv'
<1> SUFFICES ASSUME TypeOK, IInv, [Next]_vars, ~careless' PROVE IInv'
  BY CareStays DEF CareInv
<1>1. ASSUME UNCHANGED <<heap, job, inHand, backlog, worker>> PROVE IInv'
  BY <1>1 DEF IInv
<1>2. CASE _dispatch_loop \/ Shutdown \/ (\E j \in Jobs : _next_seq(j)) \/ UNCHANGED vars
  BY <1>1, <1>2 DEF _dispatch_loop, Shutdown, _next_seq, vars
<1> QED
  BY <1>2, SubmitOnce, BackoffOnce, RequeueOnce, PopOnce, HandOverOnce,
     TakeOnce, RunOnce, FailOnce DEF Next, Dispatch, RunWork

LEMMA OnceInitially == Init => CareInv
<1>1. Init => IInv
  BY JobQueueAssumption DEF Init, IInv, HeapOnce, FlightOnce, BudgetOK
<1> QED
  BY <1>1 DEF CareInv

\* The retry budget of the policy is exact until an operator requeues a job that is
\* not dead, which requeue_from_dlq() does not check.
THEOREM BudgetExact == Spec => []RetryBudget
<1>1. TypeOK /\ CareInv /\ [Next]_vars => CareInv'
  BY OnceInductive
<1>2. CareInv => RetryBudget
  BY DEF CareInv, IInv, BudgetOK, RetryBudget, InProgress
<1> QED
  BY <1>1, <1>2, OnceInitially, TypeCorrect, PTL DEF Spec

-------------------------------------------------------------------------------
(* Counting copies.                                                        *)

\* A set with one element at most.
LEMMA AtMostOne ==
    ASSUME NEW S, \A x, y \in S : x = y
    PROVE  Cardinality(S) = IF S = {} THEN 0 ELSE 1
<1>1. CASE S = {}
  BY <1>1, FS_EmptySet
<1>2. CASE S # {}
  <2>1. PICK x \in S : S = {x}
    BY <1>2
  <2> QED
    BY <1>2, <2>1, FS_Singleton
<1> QED
  BY <1>1, <1>2

HeapCopiesOf(j) == {c \in HeapCopies : c[1].job = j}
BacklogOf(j) == {i \in DOMAIN backlog : backlog[i] = j}
ThreadsOf(j) == {w \in Workers : worker[w] = j}

\* Each entry of the heap is there once.
LEMMA CopiesAre ==
    ASSUME IInv
    PROVE  HeapCopies = {<<e, 1>> : e \in DOMAIN heap}
<1>1. \A e \in DOMAIN heap : {e} \X (1..heap[e]) = {<<e, 1>>}
  BY DEF IInv, HeapOnce
<1> QED
  BY <1>1 DEF HeapCopies, Entries

LEMMA CountedOnce ==
    ASSUME TypeOK, IInv, NEW j \in Jobs
    PROVE  /\ Cardinality(HeapCopiesOf(j)) = IF HeapCopiesOf(j) = {} THEN 0 ELSE 1
           /\ Cardinality(BacklogOf(j)) = IF BacklogOf(j) = {} THEN 0 ELSE 1
           /\ Cardinality(ThreadsOf(j)) = IF ThreadsOf(j) = {} THEN 0 ELSE 1
<1>1. \A c \in HeapCopies : \E e \in DOMAIN heap : c = <<e, 1>>
  BY CopiesAre
<1>2. \A c, d \in HeapCopiesOf(j) : c = d
  BY <1>1 DEF HeapCopiesOf, IInv, HeapOnce
<1>3. \A i, k \in BacklogOf(j) : i = k
  BY DEF BacklogOf, IInv, FlightOnce
<1>4. \A v, w \in ThreadsOf(j) : v = w
  BY Places DEF ThreadsOf, IInv, FlightOnce
<1> QED
  BY <1>2, <1>3, <1>4, AtMostOne

\* Where the copies are says what the status is.
LEMMA PlacesApart ==
    ASSUME TypeOK, IInv, QueuedIsDispatchable, RunningIsHeld, NEW j \in Jobs
    PROVE  /\ HeapCopiesOf(j) # {} <=> job[j].status = "queued"
           /\ BacklogOf(j) # {} \/ ThreadsOf(j) # {} \/ inHand = j
                 <=> job[j].status = "running"
           /\ BacklogOf(j) # {} => ThreadsOf(j) = {} /\ inHand # j
           /\ ThreadsOf(j) # {} => inHand # j
<1>1. HeapCopiesOf(j) # {} <=> \E e \in DOMAIN heap : e.job = j
  <2>1. HeapCopies = {<<e, 1>> : e \in DOMAIN heap}
    BY CopiesAre
  <2>2. \A c : c \in HeapCopies <=> \E e \in DOMAIN heap : c = <<e, 1>>
    BY <2>1
  <2>3. \A e : <<e, 1>>[1] = e
    OBVIOUS
  <2>4. ASSUME NEW c \in HeapCopiesOf(j) PROVE \E e \in DOMAIN heap : e.job = j
    <3>1. c \in HeapCopies /\ c[1].job = j
      BY <2>4 DEF HeapCopiesOf
    <3>2. PICK e \in DOMAIN heap : c = <<e, 1>>
      BY <2>2, <3>1
    <3>3. e.job = j
      BY <2>3, <3>1, <3>2
    <3> QED
      BY <3>3
  <2>5. ASSUME NEW e \in DOMAIN heap, e.job = j PROVE HeapCopiesOf(j) # {}
    <3>1. <<e, 1>> \in HeapCopies /\ <<e, 1>>[1].job = j
      BY <2>2, <2>3, <2>5
    <3> QED
      BY <3>1 DEF HeapCopiesOf
  <2> QED
    BY <2>4, <2>5
<1>2. (\E e \in DOMAIN heap : e.job = j) <=> job[j].status = "queued"
  BY DEF IInv, HeapOnce, QueuedIsDispatchable, Entries
<1>3. /\ BacklogOf(j) # {} <=> \E i \in DOMAIN backlog : backlog[i] = j
      /\ ThreadsOf(j) # {} <=> \E w \in Workers : worker[w] = j
  BY DEF BacklogOf, ThreadsOf
<1>4. job[j].status = "running" =>
         BacklogOf(j) # {} \/ ThreadsOf(j) # {} \/ inHand = j
  BY <1>3 DEF RunningIsHeld, Held
<1> QED
  BY <1>1, <1>2, <1>3, <1>4, Places DEF IInv, FlightOnce

\* Until an operator requeues a job that is not dead, a job exists at most once
\* between the heap and the threads: no two threads execute it, and no execution
\* overwrites the outcome of another.
THEOREM Single == Spec => []SingleCopy
<1>1. TypeOK /\ CareInv /\ [Next]_vars => CareInv'
  BY OnceInductive
<1>2. TypeOK /\ CareInv /\ QueuedIsDispatchable /\ RunningIsHeld => SingleCopy
  <2> SUFFICES ASSUME TypeOK, IInv, QueuedIsDispatchable, RunningIsHeld,
                      NEW j \in Jobs
               PROVE  Copies(j) = IF InProgress(j) THEN 1 ELSE 0
    BY DEF SingleCopy, CareInv
  <2>1. Copies(j) = Cardinality(HeapCopiesOf(j)) + Cardinality(BacklogOf(j))
                    + Cardinality(ThreadsOf(j)) + (IF inHand = j THEN 1 ELSE 0)
    BY DEF Copies, HeapCopiesOf, BacklogOf, ThreadsOf
  <2> QED
    BY <2>1, CountedOnce, PlacesApart DEF InProgress
<1> QED
  BY <1>1, <1>2, OnceInitially, TypeCorrect, QueuedDispatchable, HeldInductive,
     PTL DEF Spec

-------------------------------------------------------------------------------
(* Every step is a step of the life cycle of one job or leaves it alone.   *)

\* What JobLifecycle sees of a job.
Shown(r) == IF r.status \in {"queued", "running"} THEN "pending"
            ELSE IF r.status = "new" THEN "unknown" ELSE r.status
LeftOf(r) == IF r.status \in {"queued", "running"} THEN MaxRetries + 1 - r.attempt ELSE 0

LEMMA Seen ==
    /\ phase = [j \in Jobs |-> Shown(job[j])]
    /\ left = [j \in Jobs |-> LeftOf(job[j])]
  BY DEF phase, left, Shown, LeftOf, InProgress

LEMMA SeenNext ==
    /\ phase' = [j \in Jobs |-> Shown(job'[j])]
    /\ left' = [j \in Jobs |-> LeftOf(job'[j])]
  BY DEF phase, left, Shown, LeftOf, InProgress

\* One job changes.
LEMMA Moves ==
    ASSUME NEW j \in Jobs, \A k \in Jobs : k # j => job'[k] = job[k]
    PROVE  /\ phase[j] = Shown(job[j]) /\ left[j] = LeftOf(job[j])
           /\ phase' = [phase EXCEPT ![j] = Shown(job'[j])]
           /\ left' = [left EXCEPT ![j] = LeftOf(job'[j])]
  BY Seen, SeenNext

\* What a step of the queue is to one of its jobs.
StepOf(j) == Lifecycle!Accept(j) \/ Lifecycle!Settle(j) \/ Lifecycle!Revive(j)

LEMMA CarefulStep ==
    ASSUME TypeOK, IInv, ~careless, ~careless', [Next]_vars
    PROVE  \/ (\E j \in Jobs : StepOf(j)) /\ UNCHANGED shutdown
           \/ UNCHANGED <<phase, left>>
<1>1. ASSUME NEW j \in Jobs, submit(j) PROVE StepOf(j)
  <2>1. /\ \A k \in Jobs : k # j => job'[k] = job[k]
        /\ job[j].status = "new" /\ job[j].attempt = 0
        /\ job'[j].status = "queued" /\ job'[j].attempt = job[j].attempt
    BY <1>1, Places DEF submit, QueuedJob, IInv, BudgetOK
  <2>2. /\ Shown(job[j]) = "unknown" /\ Shown(job'[j]) = "pending"
        /\ LeftOf(job'[j]) = MaxRetries + 1
    BY <2>1, JobQueueAssumption DEF Shown, LeftOf
  <2> QED
    BY <2>1, <2>2, Moves
    DEF StepOf, Lifecycle!Accept, Lifecycle!Budget
<1>2. ASSUME NEW j \in Jobs, requeue_from_dlq(j) PROVE StepOf(j)
  <2>1. /\ \A k \in Jobs : k # j => job'[k] = job[k]
        /\ job[j].status = "dead"
        /\ job'[j].status = "queued" /\ job'[j].attempt = 0
    BY <1>2, Places DEF requeue_from_dlq, Revived
  <2>2. /\ Shown(job[j]) = "dead" /\ Shown(job'[j]) = "pending"
        /\ LeftOf(job'[j]) = MaxRetries + 1
    BY <2>1, JobQueueAssumption DEF Shown, LeftOf
  <2> QED
    BY <2>1, <2>2, Moves
    DEF StepOf, Lifecycle!Revive, Lifecycle!Budget
<1>3. ASSUME NEW w \in Workers, _run_job(w) PROVE \E j \in Jobs : StepOf(j)
  <2>1. worker[w] \in Jobs /\ job[worker[w]].status = "running"
    BY <1>3, Places DEF _run_job, IInv, FlightOnce
  <2>2. /\ \A k \in Jobs : k # worker[w] => job'[k] = job[k]
        /\ job'[worker[w]].status = "done"
    BY <1>3, <2>1, Places DEF _run_job, QueuedJob
  <2>3. /\ Shown(job[worker[w]]) = "pending" /\ Shown(job'[worker[w]]) = "done"
        /\ LeftOf(job'[worker[w]]) = 0
    BY <2>1, <2>2 DEF Shown, LeftOf
  <2>4. Lifecycle!Complete(worker[w])
    BY <2>1, <2>2, <2>3, Moves DEF Lifecycle!Complete
  <2> QED
    BY <2>1, <2>4 DEF StepOf, Lifecycle!Settle
<1>4. ASSUME NEW w \in Workers, _handle_failure(w) PROVE \E j \in Jobs : StepOf(j)
  <2> DEFINE j == worker[w]
             n == job[j].attempt + 1
  <2>1. /\ j \in Jobs /\ job[j].status = "running" /\ n \in Nat
        /\ job[j].attempt \in Nat /\ job[j].attempt <= MaxRetries
        /\ MaxRetries \in Nat
    BY <1>4, Places, JobQueueAssumption
    DEF _handle_failure, IInv, FlightOnce, BudgetOK, QueuedJob
  <2>2. Shown(job[j]) = "pending" /\ LeftOf(job[j]) = MaxRetries + 2 - n
    BY <2>1 DEF Shown, LeftOf
  <2>3. CASE /\ n <= MaxRetries
             /\ job' = [job EXCEPT ![j] =
                          [status |-> "queued", attempt |-> n, delayed |-> TRUE]]
    <3>1. /\ \A k \in Jobs : k # j => job'[k] = job[k]
          /\ job'[j].status = "queued" /\ job'[j].attempt = n
      BY <2>1, <2>3, Places
    <3>2. /\ Shown(job'[j]) = "pending" /\ LeftOf(job'[j]) = LeftOf(job[j]) - 1
          /\ LeftOf(job[j]) # 1
      BY <2>1, <2>2, <2>3, <3>1 DEF Shown, LeftOf
    <3>3. Lifecycle!Fail(j)
      BY <2>1, <2>2, <3>1, <3>2, Moves DEF Lifecycle!Fail
    <3> QED
      BY <2>1, <3>3 DEF StepOf, Lifecycle!Settle
  <2>4. CASE /\ ~(n <= MaxRetries)
             /\ job' = [job EXCEPT ![j].status = "dead", ![j].attempt = n]
    <3>1. /\ \A k \in Jobs : k # j => job'[k] = job[k]
          /\ job'[j].status = "dead"
      BY <2>1, <2>4, Places DEF QueuedJob
    <3>2. /\ Shown(job'[j]) = "dead" /\ LeftOf(job'[j]) = 0
          /\ LeftOf(job[j]) = 1
      BY <2>1, <2>2, <2>4, <3>1 DEF Shown, LeftOf
    <3>3. Lifecycle!Fail(j)
      BY <2>1, <2>2, <3>1, <3>2, Moves DEF Lifecycle!Fail
    <3> QED
      BY <2>1, <3>3 DEF StepOf, Lifecycle!Settle
  <2> QED
    BY <1>4, <2>3, <2>4 DEF _handle_failure, AttemptsLeft
<1>5. ASSUME \A k \in Jobs : job'[k].status = job[k].status
                            /\ job'[k].attempt = job[k].attempt
      PROVE  UNCHANGED <<phase, left>>
  BY <1>5, Seen, SeenNext DEF Shown, LeftOf
<1>6. ASSUME NEW j \in Jobs, BackoffElapses(j) PROVE UNCHANGED <<phase, left>>
  BY <1>5, <1>6, Places DEF BackoffElapses, QueuedJob
<1>7. CASE _pop_eligible
  <2>1. ASSUME NEW e \in Eligible, job' = [job EXCEPT ![e.job].status = "running"]
        PROVE  UNCHANGED <<phase, left>>
    <3>1. e.job \in Jobs /\ job[e.job].status = "queued"
      BY Places DEF Eligible, Entries, IInv, HeapOnce
    <3>2. /\ \A k \in Jobs : k # e.job => job'[k] = job[k]
          /\ job'[e.job].status = "running" /\ job'[e.job].attempt = job[e.job].attempt
      BY <2>1, <3>1, Places DEF QueuedJob
    <3>3. \A k \in Jobs : Shown(job'[k]) = Shown(job[k]) /\ LeftOf(job'[k]) = LeftOf(job[k])
      BY <3>1, <3>2 DEF Shown, LeftOf
    <3> QED
      BY <3>3, Seen, SeenNext
  <2>2. CASE job' = job
    BY <1>5, <2>2
  <2> QED
    BY <1>7, <2>1, <2>2 DEF _pop_eligible
<1>8. CASE job' = job
  BY <1>5, <1>8
<1>9. CASE UNCHANGED shutdown
  BY <1>1, <1>2, <1>3, <1>4, <1>6, <1>7, <1>8, <1>9
  DEF Next, Dispatch, RunWork, _next_seq, _dispatch_loop, pool_submit, TakeWork,
      Shutdown, vars
<1>10. CASE ~UNCHANGED shutdown
  <2>1. job' = job
    BY <1>10 DEF Next, Dispatch, RunWork, vars, _next_seq, submit, BackoffElapses,
         requeue_from_dlq, _dispatch_loop, _pop_eligible, pool_submit, TakeWork,
         _run_job, _handle_failure, Shutdown
  <2> QED
    BY <1>8, <2>1
<1> QED
  BY <1>9, <1>10

\* Only shutdown() changes "shutdown", which never becomes "no" again.
LEMMA ShutdownStep ==
    [Next]_vars /\ shutdown' # shutdown => shutdown' # "no"
  BY DEF Next, Dispatch, RunWork, vars, _next_seq, submit, BackoffElapses,
         requeue_from_dlq, _dispatch_loop, _pop_eligible, pool_submit, TakeWork,
         _run_job, _handle_failure, Shutdown

LEMMA StepImplements ==
    TypeOK /\ TypeOK' /\ CareInv /\ [Next]_vars => [Lifecycle!Next]_(Lifecycle!vars)
<1> SUFFICES ASSUME TypeOK, TypeOK', CareInv, [Next]_vars
             PROVE  Lifecycle!Next \/ UNCHANGED Lifecycle!vars
  OBVIOUS
<1>1. CASE careless'
  BY <1>1 DEF TypeOK, Lifecycle!Next, Lifecycle!Misuse
<1>2. CASE ~careless'
  <2>1. ~careless /\ IInv
    BY <1>2, CareStays DEF CareInv
  <2>c. careless = FALSE /\ careless' = FALSE
    BY <1>2, <2>1 DEF TypeOK
  <2>2. CASE (\E j \in Jobs : StepOf(j)) /\ UNCHANGED shutdown
    BY <1>2, <2>1, <2>2 DEF Lifecycle!Next, Lifecycle!Step, StepOf
  <2>3. CASE UNCHANGED <<phase, left>>
    <3>1. CASE (shutdown # "no") = (shutdown # "no")'
      BY <2>c, <2>3, <3>1 DEF Lifecycle!vars
    <3>2. CASE (shutdown # "no") # (shutdown # "no")'
      <4>1. (shutdown # "no")' = TRUE
        BY <3>2, ShutdownStep
      <4> QED
        BY <1>2, <2>1, <2>3, <4>1 DEF Lifecycle!Next, Lifecycle!Step, Lifecycle!Close
    <3> QED
      BY <3>1, <3>2
  <2> QED
    BY <1>2, <2>1, <2>2, <2>3, CarefulStep
<1> QED
  BY <1>1, <1>2

\* The queue implements the life cycle it promises, for any number of jobs and
\* threads and whatever is shut down when: until an operator requeues a job that is
\* not dead, executions follow one another, each uses one unit of the budget, and a
\* settled job stays settled until it is revived.
THEOREM Implements == Spec => ImplementsLifecycle
<1>1. Init => Lifecycle!Init
  BY Seen DEF Init, Lifecycle!Init, Shown, LeftOf
<1>2. TypeOK /\ CareInv /\ [Next]_vars => CareInv'
  BY OnceInductive
<1>3. TypeOK /\ TypeOK' /\ CareInv /\ [Next]_vars => [Lifecycle!Next]_(Lifecycle!vars)
  BY StepImplements
<1> QED
  BY <1>1, <1>2, <1>3, OnceInitially, TypeCorrect, PTL
  DEF Spec, ImplementsLifecycle, Lifecycle!Spec
===============================================================================
