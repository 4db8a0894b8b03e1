--------------------------- MODULE BatchPredictor ---------------------------
(***************************************************************************)
(* ml/batch_predictor.py: an ensemble puts every request into the queue of *)
(* each model; a thread per model collects the requests into batches, runs *)
(* one forward pass per batch and resolves the futures; the caller waits   *)
(* for one model after the other, with a timeout, and averages what came.  *)
(*                                                                         *)
(* A request is a pair of a caller and a number.  The prediction of a      *)
(* model for a request is known by the request.                            *)
(***************************************************************************)
EXTENDS Integers, Sequences, SequencesExt

CONSTANTS
    Callers,
    Order,     \* the models, in the order of _predictors
    Shapes,    \* the shapes of sequences callers submit
    MaxBatch,  \* max_batch
    MaxCalls   \* bound: requests per caller

ASSUME BatchAssumption ==
    /\ Order \in Seq(STRING) /\ Order # <<>> /\ IsInjective(Order)
    /\ MaxBatch \in Nat \ {0} /\ MaxCalls \in Nat

Models == ToSet(Order)
Requests == Callers \X (1..MaxCalls)

VARIABLES
    queue,   \* queue[m]: _queue
    future,  \* future[m][r]: the Future of request r
    shape,   \* shape[r]
    loop,    \* loop[m]: where the thread of model m is
    batch,   \* batch[m]: what it has collected
    stopped, \* stopped[m]: _stop
    caller

vars == <<queue, future, shape, loop, batch, stopped, caller>>

NoFuture == [state |-> "none", of |-> <<>>]
Resolved(f) == f.state \in {"done", "error"}

Idle == [pc |-> "idle", n |-> 0, k |-> 1, results |-> {}]

Init ==
    /\ queue = [m \in Models |-> <<>>]
    /\ future = [m \in Models |-> [r \in Requests |-> NoFuture]]
    /\ shape = [r \in Requests |-> "none"]
    /\ loop = [m \in Models |-> "check"]
    /\ batch = [m \in Models |-> <<>>]
    /\ stopped = [m \in Models |-> FALSE]
    /\ caller = [c \in Callers |-> Idle]

-------------------------------------------------------------------------------
(* EnsembleBatchPredictor.predict_sync.                                    *)

Request(c) == <<c, caller[c].n>>

Begin(c) ==
    /\ caller[c].pc = "idle"
    /\ caller[c].n < MaxCalls
    /\ caller' = [caller EXCEPT ![c] = 
                    [Idle EXCEPT !.pc = "submit", !.n = caller[c].n + 1]]
    /\ \E s \in Shapes : shape' = [shape EXCEPT ![<<c, caller[c].n + 1>>] = s]
    /\ UNCHANGED <<queue, future, loop, batch, stopped>>

\* The next model, or on to the first one.
Advance(k, now, next) ==
    IF k < Len(Order) THEN [pc |-> now, k |-> k + 1] ELSE [pc |-> next, k |-> 1]

\* predict_async: also after the thread has ended.
predict_async(c) ==
    LET m == Order[caller[c].k]
        a == Advance(caller[c].k, "submit", "wait")
    IN /\ caller[c].pc = "submit"
       /\ queue' = [queue EXCEPT ![m] = Append(@, Request(c))]
       /\ future' = [future EXCEPT ![m][Request(c)].state = "pending"]
       /\ caller' = [caller EXCEPT ![c].pc = a.pc, ![c].k = a.k]
       /\ UNCHANGED <<shape, loop, batch, stopped>>

\* f.result(timeout): a value, or the exception of the model, or TimeoutError.
Await(c) ==
    LET m == Order[caller[c].k]
        f == future[m][Request(c)]
        a == Advance(caller[c].k, "wait", "mean")
    IN /\ caller[c].pc = "wait"
       /\ caller' = [caller EXCEPT
             ![c].pc = a.pc, ![c].k = a.k,
             ![c].results = IF f.state = "done" THEN @ \cup {<<m, f.of>>} ELSE @]
       /\ UNCHANGED <<queue, future, shape, loop, batch, stopped>>

\* The mean of the results, or RuntimeError if there is none.
Return(c) ==
    /\ caller[c].pc = "mean"
    /\ caller' = [caller EXCEPT ![c] = [Idle EXCEPT !.n = caller[c].n]]
    /\ UNCHANGED <<queue, future, shape, loop, batch, stopped>>

-------------------------------------------------------------------------------
(* The thread of model m.                                                  *)

\* Exits when told to, whatever is queued, or only once the queue is empty.
ExitsAtOnce(m) == stopped[m]
Exits(m) == stopped[m] /\ queue[m] = <<>>

Exit(m) ==
    /\ loop[m] = "check"
    /\ Exits(m)
    /\ loop' = [loop EXCEPT ![m] = "exited"]
    /\ UNCHANGED <<queue, future, shape, batch, stopped, caller>>

\* One request out of the queue into the batch.
Take(m, next) ==
    /\ queue[m] # <<>>
    /\ batch' = [batch EXCEPT ![m] = Append(@, Head(queue[m]))]
    /\ queue' = [queue EXCEPT ![m] = Tail(@)]
    /\ loop' = [loop EXCEPT ![m] = next]
    /\ UNCHANGED <<future, shape, stopped, caller>>

\* The loop goes on; while nothing arrives, get() times out again and again.
First(m) == loop[m] = "check" /\ ~Exits(m) /\ Take(m, "drain")

Full(m) == Len(batch[m]) = MaxBatch

Drain(m) == loop[m] = "drain" /\ ~Full(m) /\ Take(m, "drain")

\* The batch is full, the queue is empty, or the deadline has passed.
EndCollect(m) ==
    /\ loop[m] = "drain"
    /\ loop' = [loop EXCEPT ![m] = "run"]
    /\ UNCHANGED <<queue, future, shape, batch, stopped, caller>>

\* The i-th row of the output belongs to the i-th request of the batch.
RowFromTheEnd(b, i) == b[Len(b) + 1 - i]
Row(b, i) == b[i]

\* The exception of the model is only logged.
ResolveUnlessRaised(m, b, state) ==
    [r \in Requests |->
        IF state = "done" /\ r \in ToSet(b)
        THEN [state |-> state,
              of |-> Row(b, CHOOSE i \in DOMAIN b : b[i] = r)]
        ELSE future[m][r]]

\* Every future of batch b gets its row, or the exception of the model.
Resolve(m, b, state) ==
    [r \in Requests |->
        IF r \in ToSet(b)
        THEN [state |-> state,
              of |-> Row(b, CHOOSE i \in DOMAIN b : b[i] = r)]
        ELSE future[m][r]]

\* np.stack raises outside the try block if the shapes differ: the exception
\* ends the thread, and the futures stay as they are.
_run_batch(m) ==
    LET b == batch[m]
        stackable == \A i, j \in DOMAIN b : shape[b[i]] = shape[b[j]]
    IN /\ loop[m] = "run"
       /\ IF stackable
          THEN /\ \E state \in {"done", "error"} :
                     future' = [future EXCEPT ![m] = Resolve(m, b, state)]
               /\ loop' = [loop EXCEPT ![m] = "check"]
               /\ batch' = [batch EXCEPT ![m] = <<>>]
          ELSE /\ loop' = [loop EXCEPT ![m] = "dead"]
               /\ UNCHANGED <<future, batch>>
       /\ UNCHANGED <<queue, shape, stopped, caller>>

\* EnsembleBatchPredictor.stop(): model after model; join() gives up after 5 s.
Stop(k) ==
    /\ ~stopped[Order[k]]
    /\ k > 1 => stopped[Order[k - 1]]
    /\ stopped' = [stopped EXCEPT ![Order[k]] = TRUE]
    /\ UNCHANGED <<queue, future, shape, loop, batch, caller>>

-------------------------------------------------------------------------------
_batch_loop(m) ==
    Exit(m) \/ First(m) \/ Drain(m) \/ EndCollect(m) \/ _run_batch(m)

predict_sync(c) == Begin(c) \/ predict_async(c) \/ Await(c) \/ Return(c)

Next ==
    \/ \E c \in Callers : predict_sync(c)
    \/ \E m \in Models : _batch_loop(m)
    \/ \E k \in DOMAIN Order : Stop(k)

\* The thread of a model runs whenever it can.
Spec == Init /\ [][Next]_vars /\ \A m \in Models : WF_vars(_batch_loop(m))

-------------------------------------------------------------------------------
(* Properties.                                                             *)

\* A batch is never larger than max_batch, and a request whose future is
\* pending is in the queue or the batch of the model, in one place only.
TypeOK ==
    \A m \in Models :
        /\ Len(batch[m]) <= MaxBatch
        /\ loop[m] \in {"check", "drain", "run", "exited", "dead"}
        /\ IsInjective(queue[m] \o batch[m])
        /\ ToSet(queue[m] \o batch[m]) = {r \in Requests : future[m][r].state = "pending"}

\* What an ensemble averages are predictions for its own sequence, also when
\* batches mix callers and late answers to abandoned requests still arrive.
AnswersAreOwn ==
    \A c \in Callers : \A x \in caller[c].results : x[2] = Request(c)

\* A request that is queued before the thread has exited gets an answer, also
\* when stop() is called meanwhile, unless a batch of mixed shapes ended the
\* thread.
Served ==
    \A m \in Models : \A r \in Requests :
        r \in ToSet(queue[m]) /\ loop[m] # "exited" ~>
            Resolved(future[m][r]) \/ loop[m] = "dead"
=============================================================================
