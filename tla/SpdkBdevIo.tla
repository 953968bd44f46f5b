----------------------------- MODULE SpdkBdevIo -----------------------------
(***************************************************************************)
(* bdev/csrc/spdk/spdk_bdev_context.cpp and spdk_buffer_pool.cpp: the path  *)
(* of a batch of segments from a ConnectorBase worker (a caller) through    *)
(* the SPDK I/O workers and back, with DMA-buffer backpressure, ENOMEM      *)
(* retries and the teardown a bdev event starts while I/O is running.       *)
(*                                                                          *)
(* An I/O worker is an spdk_thread: a queue of messages and callbacks it    *)
(* runs one at a time. Worker 0 is the application thread. A handler is     *)
(* several steps where another thread can see the difference: each segment  *)
(* it submits, and the gap in complete_request between the unlock of the    *)
(* batch's mutex and notify_one. Until its handler ends a worker takes no   *)
(* other message or callback.                                               *)
(*                                                                          *)
(* SPDK is external: a submitted command completes once, on its thread, at  *)
(* any later time, with success or failure; submission may answer ENOMEM or *)
(* another error; an exiting thread runs the messages it already has and is *)
(* destroyed when nothing is left for it.                                   *)
(***************************************************************************)
EXTENDS Naturals, Sequences, FiniteSets

CONSTANTS
    Callers,       \* ConnectorBase workers inside submit_batch_and_wait
    Readers,       \* the callers whose batches are reads
    WorkerCount,   \* io_workers_.size()
    BufferCount,   \* geometry_.spdk_buffer_count, per worker
    ItemCount,     \* items.size() of a batch
    MaxBatches,    \* bound: batches begun in one behaviour
    MaxRetries,    \* bound: ENOMEM answers in one behaviour
    MaxErrors,     \* bound: messages and submissions that fail otherwise
    BdevEvents,    \* may the bdev be removed or resized?
    None

ASSUME IoAssumption ==
    /\ Readers \subseteq Callers
    /\ WorkerCount \in Nat \ {0}
    /\ BufferCount \in Nat \ {0}
    /\ ItemCount \in Nat \ {0}
    /\ MaxBatches \in Nat
    /\ MaxRetries \in Nat
    /\ MaxErrors \in Nat
    /\ BdevEvents \in BOOLEAN
    /\ None \notin Callers \cup Nat \cup {"ok", "failed"}

Workers == 0 .. WorkerCount - 1
Buffers == 0 .. BufferCount - 1
Requests == Callers \X (1 .. ItemCount)

VARIABLES
    shutdown_requested,    \* shutdown_requested_
    workers_shutting_down, \* workers_shutting_down_
    shutdown_complete,     \* shutdown_complete_
    next_io_worker,        \* next_io_worker_ modulo the worker count
    cpc,         \* caller: "idle", "post", "send", "wait", "asleep"
    first,       \* caller: first_worker of its batch
    unsent,      \* caller: the dispatches not posted yet
    alive,       \* caller: its IoBatchRequest exists
    remaining,   \* IoBatchRequest::remaining
    result,      \* per request None, "ok" or "failed"
    lease,       \* IoRequest::buffer_index
    msgs,        \* worker: messages of its spdk_thread
    thread,      \* worker: "running", "exiting" or "gone"
    initialized, \* worker: buffer_pool.initialized_
    free,        \* worker: buffer_pool.free_indexes_
    pending,     \* worker: pending_io
    inflight,    \* worker: commands the bdev has accepted
    iowait,      \* worker: requests in spdk_bdev_queue_io_wait
    todo,        \* worker: rest of execute_worker_batch's loop
    draining,    \* worker: draining_pending_io
    stopping,    \* worker: inside shutdown_io_worker
    notify,      \* worker: the caller whose batch it is about to notify
    begun, retries, errors   \* what the bounds count

callerVars == <<next_io_worker, cpc, first, unsent, alive, begun>>
batchVars == <<remaining, result>>
queueVars == <<pending, inflight, iowait, todo, draining>>
poolVars == <<initialized, free, lease>>
lifeVars == <<shutdown_requested, workers_shutting_down, shutdown_complete,
              thread, stopping>>
vars == <<callerVars, batchVars, queueVars, poolVars, lifeVars, msgs, notify,
          retries, errors>>

Init ==
    /\ shutdown_requested = FALSE
    /\ workers_shutting_down = 0
    /\ shutdown_complete = FALSE
    /\ next_io_worker = 0
    /\ cpc = [c \in Callers |-> "idle"]
    /\ first = [c \in Callers |-> 0]
    /\ unsent = [c \in Callers |-> {}]
    /\ alive = [c \in Callers |-> FALSE]
    /\ remaining = [c \in Callers |-> 0]
    /\ result = [r \in Requests |-> None]
    /\ lease = [r \in Requests |-> None]
    /\ msgs = [w \in Workers |-> <<>>]
    /\ thread = [w \in Workers |-> "running"]
    /\ initialized = [w \in Workers |-> TRUE]
    /\ free = [w \in Workers |-> [i \in 1 .. BufferCount |-> BufferCount - i]]
    /\ pending = [w \in Workers |-> <<>>]
    /\ inflight = [w \in Workers |-> {}]
    /\ iowait = [w \in Workers |-> {}]
    /\ todo = [w \in Workers |-> {}]
    /\ draining = [w \in Workers |-> FALSE]
    /\ stopping = [w \in Workers |-> FALSE]
    /\ notify = [w \in Workers |-> None]
    /\ begun = 0
    /\ retries = 0
    /\ errors = 0

-----------------------------------------------------------------------------
(* submit_batch_and_wait *)

WorkerOf(c, i) == (first[c] + (i - 1)) % WorkerCount

\* The requests of caller c's batch that worker w serves. The vector has them in
\* item order, in which execute_worker_batch takes them.
DispatchOf(c, w) == {r \in Requests : r[1] = c /\ WorkerOf(c, r[2]) = w}
Earliest(dispatch) == CHOOSE r \in dispatch : \A q \in dispatch : r[2] <= q[2]

\* The availability check passes and the batch is built on the stack.
BeginBatch(c) ==
    /\ cpc[c] = "idle"
    /\ begun < MaxBatches
    /\ ~ shutdown_requested
    /\ begun' = begun + 1
    /\ first' = [first EXCEPT ![c] = next_io_worker]
    /\ next_io_worker' = (next_io_worker + 1) % WorkerCount
    /\ unsent' = [unsent EXCEPT ![c] =
                    {(next_io_worker + (i - 1)) % WorkerCount : i \in 1 .. ItemCount}]
    /\ alive' = [alive EXCEPT ![c] = TRUE]
    /\ remaining' = [remaining EXCEPT ![c] = ItemCount]
    /\ result' = [r \in Requests |-> IF r[1] = c THEN None ELSE result[r]]
    /\ cpc' = [cpc EXCEPT ![c] = "post"]
    /\ UNCHANGED <<queueVars, poolVars, lifeVars, msgs, notify, retries, errors>>

\* The next dispatch of the loop.
Lowest(S) == CHOOSE w \in S : \A v \in S : w <= v

\* Every request of the dispatch fails without leaving the caller. The batch
\* is the caller's own, so the notify_one wakes nobody.
FailDispatch(c, w) ==
    LET lost == DispatchOf(c, w)
    IN /\ result' = [r \in Requests |-> IF r \in lost THEN "failed" ELSE result[r]]
       /\ remaining' = [remaining EXCEPT ![c] = @ - Cardinality(lost)]

AfterDispatch(c, w) ==
    /\ unsent' = [unsent EXCEPT ![c] = @ \ {w}]
    /\ cpc' = [cpc EXCEPT ![c] = IF unsent[c] = {w} THEN "wait" ELSE "post"]

\* send_message: the lifecycle check, under state_mutex_, passes.
CheckLifecycle(c) ==
    /\ cpc[c] = "post"
    /\ ~ shutdown_requested
    /\ cpc' = [cpc EXCEPT ![c] = "send"]
    /\ UNCHANGED <<next_io_worker, first, unsent, alive, begun, batchVars,
                   queueVars, poolVars, lifeVars, msgs, notify, retries, errors>>

\* send_message: the check throws.
SendRefused(c) ==
    /\ cpc[c] = "post"
    /\ shutdown_requested
    /\ FailDispatch(c, Lowest(unsent[c]))
    /\ AfterDispatch(c, Lowest(unsent[c]))
    /\ UNCHANGED <<next_io_worker, first, alive, begun, queueVars, poolVars,
                   lifeVars, msgs, notify, retries, errors>>

\* send_message: the message goes out, after the mutex was dropped.
Send(c) ==
    LET w == Lowest(unsent[c]) IN
    /\ cpc[c] = "send"
    /\ thread[w] # "gone"
    /\ msgs' = [msgs EXCEPT ![w] = Append(@, [type |-> "batch", arg |-> c])]
    /\ AfterDispatch(c, w)
    /\ UNCHANGED <<next_io_worker, first, alive, begun, batchVars, queueVars,
                   poolVars, lifeVars, notify, retries, errors>>

\* The runtime throws: the thread no longer exists, or its message cannot be
\* posted (the runtime is unavailable, SPDK has no memory for it).
SendFails(c) ==
    LET w == Lowest(unsent[c]) IN
    /\ cpc[c] = "send"
    /\ \/ thread[w] = "gone" /\ UNCHANGED errors
       \/ thread[w] # "gone" /\ errors < MaxErrors /\ errors' = errors + 1
    /\ FailDispatch(c, w)
    /\ AfterDispatch(c, w)
    /\ UNCHANGED <<next_io_worker, first, alive, begun, queueVars, poolVars,
                   lifeVars, msgs, notify, retries>>

\* completion_cv.wait finds the batch unfinished and sleeps.
Sleep(c) ==
    /\ cpc[c] = "wait"
    /\ remaining[c] > 0
    /\ cpc' = [cpc EXCEPT ![c] = "asleep"]
    /\ UNCHANGED <<next_io_worker, first, unsent, alive, begun, batchVars,
                   queueVars, poolVars, lifeVars, msgs, notify, retries, errors>>

\* It finds it finished: the results move out and the batch is destroyed.
BatchReturns(c) ==
    /\ cpc[c] = "wait"
    /\ remaining[c] = 0
    /\ alive' = [alive EXCEPT ![c] = FALSE]
    /\ cpc' = [cpc EXCEPT ![c] = "idle"]
    /\ UNCHANGED <<next_io_worker, first, unsent, begun, batchVars, queueVars,
                   poolVars, lifeVars, msgs, notify, retries, errors>>

-----------------------------------------------------------------------------
(* I/O workers *)

\* At its message loop: no handler is running.
AtLoop(w) ==
    /\ thread[w] # "gone"
    /\ notify[w] = None
    /\ ~ stopping[w]
    /\ ~ draining[w]
    /\ todo[w] = {}

\* Faulty: a request is counted twice.
CompleteRequestTwice(w, r, outcome) ==
    /\ result' = [result EXCEPT ![r] = outcome]
    /\ remaining' = [remaining EXCEPT ![r[1]] = @ - 2]
    /\ notify' = [notify EXCEPT ![w] = IF remaining[r[1]] = 2 THEN r[1] ELSE None]

\* Faulty: the count is compared before it is decremented.
CompleteRequestSilently(w, r, outcome) ==
    /\ result' = [result EXCEPT ![r] = outcome]
    /\ remaining' = [remaining EXCEPT ![r[1]] = @ - 1]
    /\ notify' = [notify EXCEPT ![w] = IF remaining[r[1]] = 0 THEN r[1] ELSE None]

\* complete_request on worker w: the part under the batch's mutex.
CompleteRequest(w, r, outcome) ==
    /\ result' = [result EXCEPT ![r] = outcome]
    /\ remaining' = [remaining EXCEPT ![r[1]] = @ - 1]
    /\ notify' = [notify EXCEPT ![w] = IF remaining[r[1]] = 1 THEN r[1] ELSE None]

\* completion_cv.notify_one(), after the mutex was dropped.
Notify(w) ==
    /\ notify[w] # None
    /\ cpc' = [cpc EXCEPT ![notify[w]] = IF @ = "asleep" THEN "wait" ELSE @]
    /\ notify' = [notify EXCEPT ![w] = None]
    /\ UNCHANGED <<next_io_worker, first, unsent, alive, begun, batchVars,
                   queueVars, poolVars, lifeVars, msgs, retries, errors>>

\* Faulty: the request forgets its lease and the pool is not told.
ReleaseBufferLeaks(w, r) ==
    /\ lease' = [lease EXCEPT ![r] = None]
    /\ UNCHANGED free

\* release_buffer: a pool that was torn down throws, which is swallowed.
ReleaseBuffer(w, r) ==
    /\ lease' = [lease EXCEPT ![r] = None]
    /\ free' = IF initialized[w] /\ lease[r] # None
               THEN [free EXCEPT ![w] = Append(@, lease[r])] ELSE free

\* Faulty: the last buffer is kept back.
DrainOnTooFew(w) == pending[w] # <<>> /\ Len(free[w]) > 1

\* drain_pending_io's loop condition.
DrainOn(w) == pending[w] # <<>> /\ free[w] # <<>>

\* What execute_io_on_worker is called with next, as the running handler
\* decides: the head of the FIFO in the drain, else the next request of the
\* dispatch. With it, what is left of both.
Turn(w) ==
    IF notify[w] # None \/ stopping[w] THEN {}
    ELSE IF draining[w]
    THEN IF DrainOn(w)
         THEN {[request |-> Head(pending[w]), pending |-> Tail(pending[w]),
                todo |-> todo[w]]}
         ELSE {}
    ELSE IF todo[w] # {}
    THEN {[request |-> Earliest(todo[w]), pending |-> pending[w],
           todo |-> todo[w] \ {Earliest(todo[w])}]}
    ELSE {}

\* The worker runs ExecuteWorkerBatchCallback: its loop begins.
TakeBatch(w) ==
    /\ AtLoop(w)
    /\ msgs[w] # <<>>
    /\ Head(msgs[w]).type = "batch"
    /\ todo' = [todo EXCEPT ![w] = DispatchOf(Head(msgs[w]).arg, w)]
    /\ msgs' = [msgs EXCEPT ![w] = Tail(@)]
    /\ UNCHANGED <<callerVars, batchVars, pending, inflight, iowait, draining,
                   poolVars, lifeVars, notify, retries, errors>>

\* RetryIoCallback, from the bdev's wait queue or as a message.
TakeRetry(w) ==
    /\ AtLoop(w)
    /\ \/ \E r \in iowait[w] :
            /\ iowait' = [iowait EXCEPT ![w] = @ \ {r}]
            /\ todo' = [todo EXCEPT ![w] = {r}]
            /\ UNCHANGED msgs
       \/ /\ msgs[w] # <<>>
          /\ Head(msgs[w]).type = "retry"
          /\ todo' = [todo EXCEPT ![w] = {Head(msgs[w]).arg}]
          /\ msgs' = [msgs EXCEPT ![w] = Tail(@)]
          /\ UNCHANGED iowait
    /\ UNCHANGED <<callerVars, batchVars, pending, inflight, draining, poolVars,
                   lifeVars, notify, retries, errors>>

\* Faulty: the request without a buffer is not queued.
ExecuteStarvedForgets(w) ==
    /\ initialized[w]
    /\ free[w] = <<>>
    /\ \E x \in Turn(w) : todo' = [todo EXCEPT ![w] = x.todo]
    /\ UNCHANGED <<callerVars, batchVars, pending, inflight, iowait, draining,
                   poolVars, lifeVars, msgs, notify, retries, errors>>

\* try_acquire finds no buffer: the request joins the FIFO.
ExecuteStarved(w) ==
    /\ initialized[w]
    /\ free[w] = <<>>
    /\ \E x \in Turn(w) :
         /\ pending' = [pending EXCEPT ![w] = Append(x.pending, x.request)]
         /\ todo' = [todo EXCEPT ![w] = x.todo]
    /\ UNCHANGED <<callerVars, batchVars, inflight, iowait, draining, poolVars,
                   lifeVars, msgs, notify, retries, errors>>

\* A buffer is leased and the bdev accepts the command.
ExecuteSubmitted(w) ==
    /\ initialized[w]
    /\ free[w] # <<>>
    /\ \E x \in Turn(w) :
         /\ lease' = [lease EXCEPT ![x.request] = free[w][Len(free[w])]]
         /\ free' = [free EXCEPT ![w] = SubSeq(@, 1, Len(@) - 1)]
         /\ inflight' = [inflight EXCEPT ![w] = @ \cup {x.request}]
         /\ pending' = [pending EXCEPT ![w] = x.pending]
         /\ todo' = [todo EXCEPT ![w] = x.todo]
    /\ UNCHANGED <<callerVars, batchVars, iowait, draining, initialized,
                   lifeVars, msgs, notify, retries, errors>>

\* The bdev answers ENOMEM: the lease goes straight back to the top of the
\* free list, and the request waits for the bdev or, when that answers EINVAL,
\* for a message to itself. The FIFO is not drained.
ExecuteNoMemory(w) ==
    /\ initialized[w]
    /\ free[w] # <<>>
    /\ retries < MaxRetries
    /\ retries' = retries + 1
    /\ \E x \in Turn(w) :
         /\ \/ /\ iowait' = [iowait EXCEPT ![w] = @ \cup {x.request}]
               /\ UNCHANGED msgs
            \/ /\ msgs' = [msgs EXCEPT ![w] =
                             Append(@, [type |-> "retry", arg |-> x.request])]
               /\ UNCHANGED iowait
         /\ pending' = [pending EXCEPT ![w] = x.pending]
         /\ todo' = [todo EXCEPT ![w] = x.todo]
    /\ UNCHANGED <<callerVars, batchVars, inflight, draining, poolVars,
                   lifeVars, notify, errors>>

\* The bdev refuses the command, or the wait after ENOMEM cannot be queued:
\* the lease is returned, the request fails and the FIFO is drained.
ExecuteFails(w) ==
    /\ initialized[w]
    /\ free[w] # <<>>
    /\ errors < MaxErrors
    /\ errors' = errors + 1
    /\ \E x \in Turn(w) :
         /\ CompleteRequest(w, x.request, "failed")
         /\ pending' = [pending EXCEPT ![w] = x.pending]
         /\ todo' = [todo EXCEPT ![w] = x.todo]
    /\ draining' = [draining EXCEPT ![w] = TRUE]
    /\ UNCHANGED <<callerVars, inflight, iowait, poolVars, lifeVars, msgs,
                   retries>>

\* The pool is gone and try_acquire throws.
ExecuteTornDown(w) ==
    /\ ~ initialized[w]
    /\ \E x \in Turn(w) :
         /\ CompleteRequest(w, x.request, "failed")
         /\ pending' = [pending EXCEPT ![w] = x.pending]
         /\ todo' = [todo EXCEPT ![w] = x.todo]
    /\ draining' = [draining EXCEPT ![w] = TRUE]
    /\ UNCHANGED <<callerVars, inflight, iowait, poolVars, lifeVars, msgs,
                   retries, errors>>

\* drain_pending_io's loop ends.
DrainEnds(w) ==
    /\ draining[w]
    /\ notify[w] = None
    /\ ~ DrainOn(w)
    /\ draining' = [draining EXCEPT ![w] = FALSE]
    /\ UNCHANGED <<callerVars, batchVars, pending, inflight, iowait, todo,
                   poolVars, lifeVars, msgs, notify, retries, errors>>

\* A successful read is copied out of its DMA buffer, which throws when the
\* pool was torn down; a write needs its buffer no more.
OutcomeOf(w, r, success) ==
    IF success /\ (r[1] \in Readers => initialized[w]) THEN "ok" ELSE "failed"

\* Faulty: a completion does not drain the FIFO.
CompleteIoUndrained(w, r, success) ==
    /\ AtLoop(w)
    /\ r \in inflight[w]
    /\ inflight' = [inflight EXCEPT ![w] = @ \ {r}]
    /\ ReleaseBuffer(w, r)
    /\ CompleteRequest(w, r, OutcomeOf(w, r, success))
    /\ UNCHANGED <<callerVars, pending, iowait, todo, draining, initialized,
                   lifeVars, msgs, retries, errors>>

\* complete_io_on_worker: copy, release the lease, complete, drain.
CompleteIo(w, r, success) ==
    /\ AtLoop(w)
    /\ r \in inflight[w]
    /\ inflight' = [inflight EXCEPT ![w] = @ \ {r}]
    /\ ReleaseBuffer(w, r)
    /\ CompleteRequest(w, r, OutcomeOf(w, r, success))
    /\ draining' = [draining EXCEPT ![w] = TRUE]
    /\ UNCHANGED <<callerVars, pending, iowait, todo, initialized, lifeVars,
                   msgs, retries, errors>>

-----------------------------------------------------------------------------
(* Teardown after a bdev event *)

\* on_bdev_event runs on the thread that opened the bdev. The first event
\* marks the context and posts the teardown.
BdevEvent ==
    /\ BdevEvents
    /\ AtLoop(0)
    /\ ~ shutdown_requested
    /\ shutdown_requested' = TRUE
    /\ msgs' = [msgs EXCEPT ![0] = Append(@, [type |-> "begin", arg |-> None])]
    /\ UNCHANGED <<callerVars, batchVars, queueVars, poolVars,
                   workers_shutting_down, shutdown_complete, thread, stopping,
                   notify, retries, errors>>

\* Faulty: the application's own worker is counted twice.
BeginShutdownMiscounts ==
    /\ AtLoop(0)
    /\ msgs[0] # <<>>
    /\ Head(msgs[0]).type = "begin"
    /\ msgs' = [w \in Workers |->
                  IF w = 0 THEN Tail(msgs[0])
                  ELSE Append(msgs[w], [type |-> "shutdown", arg |-> None])]
    /\ workers_shutting_down' = WorkerCount + 1
    /\ stopping' = [stopping EXCEPT ![0] = TRUE]
    /\ UNCHANGED <<callerVars, batchVars, queueVars, poolVars,
                   shutdown_requested, shutdown_complete, thread, notify,
                   retries, errors>>

\* begin_shutdown_on_app_thread: messages to the secondaries, then worker 0
\* itself.
BeginShutdown ==
    /\ AtLoop(0)
    /\ msgs[0] # <<>>
    /\ Head(msgs[0]).type = "begin"
    /\ msgs' = [w \in Workers |->
                  IF w = 0 THEN Tail(msgs[0])
                  ELSE Append(msgs[w], [type |-> "shutdown", arg |-> None])]
    /\ workers_shutting_down' = WorkerCount
    /\ stopping' = [stopping EXCEPT ![0] = TRUE]
    /\ UNCHANGED <<callerVars, batchVars, queueVars, poolVars,
                   shutdown_requested, shutdown_complete, thread, notify,
                   retries, errors>>

\* ShutdownIoWorkerCallback on a secondary.
TakeShutdown(w) ==
    /\ AtLoop(w)
    /\ msgs[w] # <<>>
    /\ Head(msgs[w]).type = "shutdown"
    /\ msgs' = [msgs EXCEPT ![w] = Tail(@)]
    /\ stopping' = [stopping EXCEPT ![w] = TRUE]
    /\ UNCHANGED <<callerVars, batchVars, queueVars, poolVars,
                   shutdown_requested, workers_shutting_down, shutdown_complete,
                   thread, notify, retries, errors>>

\* Faulty: the FIFO is emptied and its requests are not completed.
FailPendingForgets(w) ==
    /\ stopping[w]
    /\ notify[w] = None
    /\ pending[w] # <<>>
    /\ pending' = [pending EXCEPT ![w] = Tail(@)]
    /\ UNCHANGED <<callerVars, batchVars, inflight, iowait, todo, draining,
                   poolVars, lifeVars, msgs, notify, retries, errors>>

\* shutdown_io_worker: one request of the FIFO fails.
FailPending(w) ==
    /\ stopping[w]
    /\ notify[w] = None
    /\ pending[w] # <<>>
    /\ CompleteRequest(w, Head(pending[w]), "failed")
    /\ pending' = [pending EXCEPT ![w] = Tail(@)]
    /\ UNCHANGED <<callerVars, inflight, iowait, todo, draining, poolVars,
                   lifeVars, msgs, retries, errors>>

\* Faulty: shutdown completes one acknowledgement early.
WorkerStoppedEarly ==
    LET left == IF workers_shutting_down # 0 THEN workers_shutting_down - 1 ELSE 0
    IN /\ workers_shutting_down' = left
       /\ shutdown_complete' = (shutdown_complete \/ left <= 1)

\* on_io_worker_shutdown and, at the last one, finish_shutdown_on_app_thread.
WorkerStopped ==
    LET left == IF workers_shutting_down # 0 THEN workers_shutting_down - 1 ELSE 0
    IN /\ workers_shutting_down' = left
       /\ shutdown_complete' = (shutdown_complete \/ left = 0)

\* shutdown_io_worker: the FIFO is empty; pool and channel go. Worker 0
\* reports at once, a secondary by message, and its thread exits.
ReleaseWorker(w) ==
    /\ stopping[w]
    /\ notify[w] = None
    /\ pending[w] = <<>>
    /\ initialized' = [initialized EXCEPT ![w] = FALSE]
    /\ free' = [free EXCEPT ![w] = <<>>]
    /\ stopping' = [stopping EXCEPT ![w] = FALSE]
    /\ IF w = 0
       THEN WorkerStopped /\ UNCHANGED <<msgs, thread>>
       ELSE /\ msgs' = [msgs EXCEPT ![0] = Append(@, [type |-> "ack", arg |-> None])]
            /\ thread' = [thread EXCEPT ![w] = "exiting"]
            /\ UNCHANGED <<workers_shutting_down, shutdown_complete>>
    /\ UNCHANGED <<callerVars, batchVars, queueVars, lease, shutdown_requested,
                   notify, retries, errors>>

\* FinishShutdownCallback on the application thread.
TakeAck ==
    /\ AtLoop(0)
    /\ msgs[0] # <<>>
    /\ Head(msgs[0]).type = "ack"
    /\ msgs' = [msgs EXCEPT ![0] = Tail(@)]
    /\ WorkerStopped
    /\ UNCHANGED <<callerVars, batchVars, queueVars, poolVars,
                   shutdown_requested, thread, stopping, notify, retries, errors>>

\* SPDK destroys a thread that exits once nothing is left for it.
ThreadDestroyed(w) ==
    /\ thread[w] = "exiting"
    /\ AtLoop(w)
    /\ msgs[w] = <<>>
    /\ inflight[w] = {}
    /\ iowait[w] = {}
    /\ thread' = [thread EXCEPT ![w] = "gone"]
    /\ UNCHANGED <<callerVars, batchVars, queueVars, poolVars,
                   shutdown_requested, workers_shutting_down, shutdown_complete,
                   stopping, msgs, notify, retries, errors>>

-----------------------------------------------------------------------------
CallerStep(c) ==
    \/ CheckLifecycle(c)
    \/ SendRefused(c)
    \/ Send(c)
    \/ SendFails(c)
    \/ Sleep(c)
    \/ BatchReturns(c)

\* What the running handler, or the next message of the queue, does.
WorkerStep(w) ==
    \/ Notify(w)
    \/ TakeBatch(w)
    \/ TakeRetry(w)
    \/ ExecuteStarved(w)
    \/ ExecuteSubmitted(w)
    \/ ExecuteNoMemory(w)
    \/ ExecuteFails(w)
    \/ ExecuteTornDown(w)
    \/ DrainEnds(w)
    \/ TakeShutdown(w)
    \/ FailPending(w)
    \/ ReleaseWorker(w)

AppStep == BeginShutdown \/ TakeAck

Completion(r) ==
    \E w \in Workers : \E success \in BOOLEAN : CompleteIo(w, r, success)

Next ==
    \/ \E c \in Callers : BeginBatch(c) \/ CallerStep(c)
    \/ \E w \in Workers : WorkerStep(w) \/ ThreadDestroyed(w)
    \/ \E r \in Requests : Completion(r)
    \/ AppStep
    \/ BdevEvent

Spec == Init /\ [][Next]_vars

\* Callers are threads the scheduler runs; an spdk_thread is polled for ever,
\* so its queue moves on and a handler goes to its end; the bdev ends every
\* command it accepted. Nothing obliges a caller to begin a batch or a bdev to
\* be removed.
FairSpec ==
    /\ Spec
    /\ \A c \in Callers : WF_vars(CallerStep(c))
    /\ \A w \in Workers : WF_vars(WorkerStep(w))
    /\ WF_vars(AppStep)
    /\ \A r \in Requests : WF_vars(Completion(r))

-----------------------------------------------------------------------------
(* Properties *)

Message == [type : {"batch"}, arg : Callers]
             \cup [type : {"retry"}, arg : Requests]
             \cup [type : {"begin", "shutdown", "ack"}, arg : {None}]

CallerType ==
    /\ next_io_worker \in Workers
    /\ cpc \in [Callers -> {"idle", "post", "send", "wait", "asleep"}]
    /\ first \in [Callers -> Workers]
    /\ unsent \in [Callers -> SUBSET Workers]
    /\ alive \in [Callers -> BOOLEAN]
    /\ remaining \in [Callers -> 0 .. ItemCount]
    /\ result \in [Requests -> {None, "ok", "failed"}]

QueueType ==
    /\ msgs \in [Workers -> Seq(Message)]
    /\ pending \in [Workers -> Seq(Requests)]
    /\ inflight \in [Workers -> SUBSET Requests]
    /\ iowait \in [Workers -> SUBSET Requests]
    /\ todo \in [Workers -> SUBSET Requests]
    /\ draining \in [Workers -> BOOLEAN]

PoolType ==
    /\ initialized \in [Workers -> BOOLEAN]
    /\ free \in [Workers -> Seq(Buffers)]
    /\ lease \in [Requests -> Buffers \cup {None}]

LifeType ==
    /\ shutdown_requested \in BOOLEAN
    /\ workers_shutting_down \in 0 .. WorkerCount
    /\ shutdown_complete \in BOOLEAN
    /\ thread \in [Workers -> {"running", "exiting", "gone"}]
    /\ stopping \in [Workers -> BOOLEAN]

\* The type invariant: what the fields of the context, its workers and the
\* batches hold.
TypeOK ==
    /\ CallerType
    /\ QueueType
    /\ PoolType
    /\ LifeType
    /\ notify \in [Workers -> Callers \cup {None}]

Elements(seq) == {seq[i] : i \in DOMAIN seq}

\* How often request r is referenced: by the dispatch its caller has not
\* posted, by messages, by its worker's loop and FIFO, by the bdev.
Copies(r) ==
    LET w == WorkerOf(r[1], r[2])
        times(S) == Cardinality(S)
    IN (IF cpc[r[1]] \in {"post", "send"} /\ w \in unsent[r[1]] THEN 1 ELSE 0)
         + times({i \in DOMAIN msgs[w] :
                    \/ msgs[w][i].type = "batch" /\ msgs[w][i].arg = r[1]
                    \/ msgs[w][i].type = "retry" /\ msgs[w][i].arg = r})
         + times({r} \cap todo[w])
         + times({i \in DOMAIN pending[w] : pending[w][i] = r})
         + times({r} \cap inflight[w])
         + times({r} \cap iowait[w])

\* "Waiting for remaining==0 guarantees no callback retains either pointer"
\* (spdk_bdev_context.cpp:731), for the request and the dispatch: a request
\* without a result is in one place only, one with a result, or of a batch
\* that returned, in none, and remaining counts those without. So each request
\* completes exactly once, through starvation, retries, errors and teardown.
RequestsInOnePlace ==
    \A c \in Callers :
        /\ \A i \in 1 .. ItemCount :
             Copies(<<c, i>>) = IF alive[c] /\ result[<<c, i>>] = None THEN 1 ELSE 0
        /\ alive[c] => remaining[c] =
             Cardinality({i \in 1 .. ItemCount : result[<<c, i>>] = None})

\* A pool's buffers are its free list and the leases of its commands in
\* flight, each buffer once: no DMA buffer is lost on an error path, none
\* carries two commands.
LeasesExact ==
    \A w \in Workers : initialized[w] =>
        /\ Elements(free[w]) \cup {lease[r] : r \in inflight[w]} = Buffers
        /\ Len(free[w]) + Cardinality(inflight[w]) = BufferCount
        /\ \A r \in Requests : WorkerOf(r[1], r[2]) = w /\ r \notin inflight[w]
                                 /\ alive[r[1]] => lease[r] = None

\* Whenever a worker is at its loop and its FIFO is not empty, every buffer is
\* leased to a command in flight, whose completion will drain it. The ENOMEM
\* path gives its buffer back without draining (spdk_bdev_context.cpp:852-866):
\* this is why it may.
NoStrandedRequest ==
    \A w \in Workers :
        AtLoop(w) /\ initialized[w] /\ pending[w] # <<>> =>
            free[w] = <<>> /\ inflight[w] # {}

\* "Retain the stable request in FIFO order" (spdk_bdev_context.cpp:803): no
\* request gets a buffer while an earlier one waits for it.
NoOvertaking ==
    [][\A w \in Workers : \A r \in inflight'[w] \ inflight[w] :
         pending[w] = <<>> \/ r = Head(pending[w])]_vars

\* Once the bdev event arrived, shutdown completes: the acknowledgements of
\* begin_shutdown_on_app_thread's workers add up, with I/O still running.
ShutdownEnds == shutdown_requested ~> shutdown_complete

\* shutdown_complete_, on which close() returns, is set only after every
\* worker released its pool and failed its FIFO in shutdown_io_worker.
PoolsReleasedFirst ==
    shutdown_complete => \A w \in Workers : ~ initialized[w] /\ pending[w] = <<>>

\* Every batch returns to its caller, also across a teardown: no wakeup of
\* the condition variable is lost and no request is forgotten.
BatchesReturn ==
    \A c \in Callers : (cpc[c] # "idle") ~> (cpc[c] = "idle")

\* "The ordinary caller thread owns the stack batch and waits until every SPDK
\* callback has released its retained request pointer"
\* (spdk_bdev_context.h:183-184): a worker about to notify a batch's condition
\* variable still finds the batch.
NotifiesLiveBatch ==
    \A w \in Workers : notify[w] # None => alive[notify[w]]

\* "Return the address associated with a currently leased index"
\* (spdk_buffer_pool.h:42), asserted by the throws of data and release: the
\* DMA buffer of a command in flight exists.
InFlightBuffersExist ==
    \A w \in Workers : inflight[w] # {} => initialized[w]
=============================================================================
