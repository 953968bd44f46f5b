---------------------------- MODULE SpdkLifecycle ----------------------------
(***************************************************************************)
(* bdev/csrc/spdk/spdk_runtime.cpp and the construction and teardown of     *)
(* spdk_bdev_context.cpp: contexts that share the one SPDK application of a *)
(* process open their bdevs, initialize one worker per SPDK thread, and     *)
(* close again, after bdev events, failures, or because their owner says so.*)
(*                                                                          *)
(* Each context is one C++ object, constructed, closed and destroyed by a   *)
(* thread of its own, its owner. SPDK threads run messages one at a time:   *)
(* the application thread, which is worker 0 of every context, and the      *)
(* secondaries of each context. A handler is cut where it drops             *)
(* state_mutex_ and goes on: publication, notify_all, request_shutdown's    *)
(* check, its send, and the end of the shared_ptr it copied.                *)
(*                                                                          *)
(* The shared_ptr<SpdkRuntime> is counted by who has one: the runtime is    *)
(* destroyed by the thread that drops the last.                             *)
(***************************************************************************)
EXTENDS Naturals, Sequences, FiniteSets

CONSTANTS
    Contexts,     \* SpdkBdevContext objects
    Bdev,         \* config_.bdev_name of each
    Config,       \* SpdkRuntimeConfig of each
    WorkerCount,  \* config_.io_thread_count
    Failures,     \* which calls into SPDK may fail
    Events,       \* may bdevs be removed or resized?
    None

ASSUME LifecycleAssumption ==
    /\ WorkerCount \in Nat \ {0}
    /\ DOMAIN Bdev = Contexts
    /\ DOMAIN Config = Contexts
    /\ Failures \subseteq {"flag", "start", "open", "geometry", "thread", "init",
                           "send", "ack"}
    /\ Events \in BOOLEAN
    /\ None \notin Contexts
    /\ Contexts \cap ((Contexts \cup {None}) \X Nat) = {}

App == <<None, 0>>                              \* the application thread
Secondaries == Contexts \X (1 .. WorkerCount - 1)
Threads == {App} \cup Secondaries
Workers == 0 .. WorkerCount - 1

VARIABLES
    app,          \* the SPDK application: "off", "starting", "running", "left"
    started_once, \* runtime_started_once
    config,       \* config_ of the runtime, None before there is one
    registry,     \* the owner that holds runtime_registry_mutex, or None
    stopping,     \* stopping_ of the runtime
    claimed,      \* claimed_bdevs_
    pc,           \* where each owner is
    holds,        \* contexts whose runtime_ is set
    init,         \* initialization: "pending", "ok" or "failed"
    last_error,   \* is last_error_ set?
    closed,       \* closed_
    requested,    \* shutdown_requested_
    started,      \* shutdown_started_
    complete,     \* shutdown_complete_
    initializing, \* workers_initializing_
    shutting,     \* workers_shutting_down_
    descriptor,   \* bdev_descriptor_ # nullptr
    workers,      \* io_workers_.size()
    pools,        \* workers whose DMA buffers are allocated
    evented,      \* contexts whose bdev event happened
    msgs,         \* messages of each SPDK thread
    at            \* what each SPDK thread does next: [step, context]

runtimeVars == <<app, started_once, config, registry, stopping, claimed>>
contextVars == <<init, last_error, initializing, descriptor, workers>>
shutdownVars == <<requested, started, complete, shutting>>
vars == <<runtimeVars, contextVars, shutdownVars, pc, holds, closed, pools,
          evented, msgs, at>>

Idle == [step |-> "idle", context |-> None]

Init ==
    /\ app = "off"
    /\ started_once = FALSE
    /\ config = None
    /\ registry = None
    /\ stopping = FALSE
    /\ claimed = {}
    /\ pc = [c \in Contexts |-> "new"]
    /\ holds = {}
    /\ init = [c \in Contexts |-> "pending"]
    /\ last_error = [c \in Contexts |-> FALSE]
    /\ closed = [c \in Contexts |-> FALSE]
    /\ requested = [c \in Contexts |-> FALSE]
    /\ started = [c \in Contexts |-> FALSE]
    /\ complete = [c \in Contexts |-> FALSE]
    /\ initializing = [c \in Contexts |-> 0]
    /\ shutting = [c \in Contexts |-> 0]
    /\ descriptor = [c \in Contexts |-> FALSE]
    /\ workers = [c \in Contexts |-> 0]
    /\ pools = [c \in Contexts |-> {}]
    /\ evented = {}
    /\ msgs = [t \in Threads |-> <<>>]
    /\ at = [t \in Threads |-> Idle]

-----------------------------------------------------------------------------
(* SpdkRuntime *)

\* Who has a shared_ptr to the runtime: members, the local copies of close
\* and request_shutdown on an owner's thread, and those on an SPDK thread.
Holders ==
    holds \cup {c \in Contexts : pc[c] \in {"post", "drop"}}
          \cup {t \in Threads : at[t].step \in {"post", "release"}}

\* SpdkRuntime::is_available
RuntimeAvailable == app = "running" /\ ~ stopping

Posted(t, type, c) ==
    msgs' = [msgs EXCEPT ![t] = Append(@, [type |-> type, context |-> c])]

\* Acquire finds the live runtime with the same configuration.
AcquireShared(c) ==
    /\ pc[c] = "new"
    /\ registry = None
    /\ Holders # {}
    /\ config = Config[c]
    /\ holds' = holds \cup {c}
    /\ pc' = [pc EXCEPT ![c] = "claim"]
    /\ UNCHANGED <<runtimeVars, contextVars, shutdownVars, closed, pools,
                   evented, msgs, at>>

\* Acquire throws: another configuration, or a second application.
AcquireThrows(c) ==
    /\ pc[c] = "new"
    /\ registry = None
    /\ IF Holders # {} THEN config # Config[c] ELSE started_once
    /\ pc' = [pc EXCEPT ![c] = "dead"]
    /\ UNCHANGED <<runtimeVars, contextVars, shutdownVars, holds, closed, pools,
                   evented, msgs, at>>

\* Acquire makes the runtime: its thread starts SPDK while the constructor,
\* under runtime_registry_mutex, waits.
AcquireFirst(c) ==
    /\ pc[c] = "new"
    /\ registry = None
    /\ Holders = {}
    /\ ~ started_once
    /\ registry' = c
    /\ config' = Config[c]
    /\ app' = "starting"
    /\ pc' = [pc EXCEPT ![c] = "starting"]
    /\ UNCHANGED <<started_once, stopping, claimed, contextVars, shutdownVars,
                   holds, closed, pools, evented, msgs, at>>

\* thread_main and on_app_start: SPDK runs.
StartApp ==
    /\ app = "starting"
    /\ started_once' = TRUE
    /\ app' = "running"
    /\ UNCHANGED <<config, registry, stopping, claimed, contextVars,
                   shutdownVars, pc, holds, closed, pools, evented, msgs, at>>

\* thread_main: an unknown log flag, before SPDK was entered, or a failed
\* start, after which the process gets no other.
StartFails ==
    /\ app = "starting"
    /\ \/ "flag" \in Failures /\ UNCHANGED started_once
       \/ "start" \in Failures /\ started_once' = TRUE
    /\ app' = "left"
    /\ UNCHANGED <<config, registry, stopping, claimed, contextVars,
                   shutdownVars, pc, holds, closed, pools, evented, msgs, at>>

\* The runtime's constructor wakes up: it returns, or joins and throws.
Acquired(c) ==
    /\ pc[c] = "starting"
    /\ app \in {"running", "left"}
    /\ registry' = None
    /\ IF app = "running"
       THEN /\ holds' = holds \cup {c}
            /\ pc' = [pc EXCEPT ![c] = "claim"]
            /\ UNCHANGED app
       ELSE /\ pc' = [pc EXCEPT ![c] = "dead"]
            /\ app' = "off"
            /\ UNCHANGED holds
    /\ UNCHANGED <<started_once, config, stopping, claimed, contextVars,
                   shutdownVars, closed, pools, evented, msgs, at>>

\* Faulty: the claim is entered under the wrong name.
ClaimByConfig(c) ==
    /\ pc[c] = "claim"
    /\ claimed' = claimed \cup {Config[c]}
    /\ pc' = [pc EXCEPT ![c] = "send"]
    /\ UNCHANGED <<app, started_once, config, registry, stopping, contextVars,
                   shutdownVars, holds, closed, pools, evented, msgs, at>>

\* ClaimBdev, under the runtime's mutex.
Claim(c) ==
    /\ pc[c] = "claim"
    /\ IF Bdev[c] \in claimed
       THEN /\ holds' = holds \ {c}
            /\ pc' = [pc EXCEPT ![c] = "drop"]
            /\ UNCHANGED claimed
       ELSE /\ claimed' = claimed \cup {Bdev[c]}
            /\ pc' = [pc EXCEPT ![c] = "send"]
            /\ UNCHANGED holds
    /\ UNCHANGED <<app, started_once, config, registry, stopping, contextVars,
                   shutdownVars, closed, pools, evented, msgs, at>>

\* The constructor posts OpenCallback and waits.
SendOpen(c) ==
    /\ pc[c] = "send"
    /\ RuntimeAvailable
    /\ Posted(App, "open", c)
    /\ pc' = [pc EXCEPT ![c] = "opening"]
    /\ UNCHANGED <<runtimeVars, contextVars, shutdownVars, holds, closed, pools,
                   evented, at>>

\* It cannot: the claim and the runtime go back and the constructor throws.
SendOpenFails(c) ==
    /\ pc[c] = "send"
    /\ ~ RuntimeAvailable \/ "send" \in Failures
    /\ claimed' = claimed \ {Bdev[c]}
    /\ holds' = holds \ {c}
    /\ pc' = [pc EXCEPT ![c] = "drop"]
    /\ UNCHANGED <<app, started_once, config, registry, stopping, contextVars,
                   shutdownVars, closed, pools, evented, msgs, at>>

\* An owner drops its last shared_ptr. If it was the last of all, stop() posts
\* StopCallback, when there is a thread to post it to, and joins the runtime's
\* thread.
Drop(c) ==
    /\ pc[c] = "drop"
    /\ IF Holders = {c}
       THEN /\ stopping' = TRUE
            /\ IF app = "running" THEN Posted(App, "stop", None) ELSE UNCHANGED msgs
            /\ pc' = [pc EXCEPT ![c] = "join"]
       ELSE /\ pc' = [pc EXCEPT ![c] = "dead"]
            /\ UNCHANGED <<stopping, msgs>>
    /\ UNCHANGED <<app, started_once, config, registry, claimed, contextVars,
                   shutdownVars, holds, closed, pools, evented, at>>

\* The runtime's thread ended: the runtime, then the context, are destroyed.
Join(c) ==
    /\ pc[c] = "join"
    /\ app = "left"
    /\ pc' = [pc EXCEPT ![c] = "dead"]
    /\ UNCHANGED <<runtimeVars, contextVars, shutdownVars, holds, closed, pools,
                   evented, msgs, at>>

-----------------------------------------------------------------------------
(* Opening *)

\* An SPDK thread with no handler running.
AtLoop(t) == app = "running" /\ at[t].step = "idle"

Received(t, type, c) ==
    /\ AtLoop(t)
    /\ msgs[t] # <<>>
    /\ Head(msgs[t]) = [type |-> type, context |-> c]

GoTo(t, step, c) == at' = [at EXCEPT ![t] = [step |-> step, context |-> c]]

\* publish_initialization_failure
PublishFailure(c) ==
    /\ last_error' = [last_error EXCEPT ![c] = TRUE]
    /\ init' = [init EXCEPT ![c] = "failed"]

\* on_runtime_ready: the bdev does not open.
OpenFails(c) ==
    /\ "open" \in Failures
    /\ Received(App, "open", c)
    /\ msgs' = [msgs EXCEPT ![App] = Tail(@)]
    /\ PublishFailure(c)
    /\ GoTo(App, "notify", c)
    /\ UNCHANGED <<runtimeVars, initializing, descriptor, workers, shutdownVars,
                   pc, holds, closed, pools, evented>>

\* on_runtime_ready: it opens, and the geometry is rejected or the n-th
\* thread cannot be created.
SetupFails(c) ==
    /\ Received(App, "open", c)
    /\ msgs' = [msgs EXCEPT ![App] = Tail(@)]
    /\ descriptor' = [descriptor EXCEPT ![c] = TRUE]
    /\ \E n \in Workers :
         /\ IF n = 0 THEN "geometry" \in Failures ELSE "thread" \in Failures
         /\ workers' = [workers EXCEPT ![c] = n]
    /\ PublishFailure(c)
    /\ GoTo(App, "notify", c)
    /\ UNCHANGED <<runtimeVars, initializing, shutdownVars, pc, holds, closed,
                   pools, evented>>

\* on_runtime_ready: every worker exists; InitializeIoWorkerCallback is posted
\* to the secondaries, those of Lost excepted, and worker 0 comes last.
OpenBdev(c) ==
    /\ Received(App, "open", c)
    /\ descriptor' = [descriptor EXCEPT ![c] = TRUE]
    /\ workers' = [workers EXCEPT ![c] = WorkerCount]
    /\ \E Lost \in SUBSET (1 .. WorkerCount - 1) :
         /\ Lost # {} => "send" \in Failures
         /\ initializing' = [initializing EXCEPT ![c] = WorkerCount - Cardinality(Lost)]
         /\ last_error' = [last_error EXCEPT ![c] = @ \/ Lost # {}]
         /\ msgs' = [t \in Threads |->
                       IF t = App THEN Tail(msgs[App])
                       ELSE IF t[1] = c /\ t[2] \notin Lost
                       THEN Append(msgs[t], [type |-> "init", context |-> c])
                       ELSE msgs[t]]
    /\ GoTo(App, "init", c)
    /\ UNCHANGED <<runtimeVars, init, shutdownVars, pc, holds, closed, pools,
                   evented>>

\* Faulty: the last worker publishes its own result only.
InitializeWorkerForgets(t, c) ==
    \E fails \in IF "init" \in Failures THEN BOOLEAN ELSE {FALSE} :
      LET left == IF initializing[c] # 0 THEN initializing[c] - 1 ELSE 0
      IN /\ pools' = IF fails THEN pools ELSE [pools EXCEPT ![c] = @ \cup {t[2]}]
         /\ last_error' = [last_error EXCEPT ![c] = fails]
         /\ initializing' = [initializing EXCEPT ![c] = left]
         /\ IF left = 0
            THEN /\ init' = [init EXCEPT ![c] = IF fails THEN "failed" ELSE "ok"]
                 /\ GoTo(t, "notify", c)
            ELSE /\ at' = [at EXCEPT ![t] = Idle]
                 /\ UNCHANGED init

\* initialize_io_worker and on_io_worker_initialized on thread t: the last
\* worker publishes what all of them came to.
InitializeWorker(t, c) ==
    \E fails \in IF "init" \in Failures THEN BOOLEAN ELSE {FALSE} :
      LET failed == last_error[c] \/ fails
          left == IF initializing[c] # 0 THEN initializing[c] - 1 ELSE 0
      IN /\ pools' = IF fails THEN pools ELSE [pools EXCEPT ![c] = @ \cup {t[2]}]
         /\ last_error' = [last_error EXCEPT ![c] = failed]
         /\ initializing' = [initializing EXCEPT ![c] = left]
         /\ IF left = 0
            THEN /\ init' = [init EXCEPT ![c] = IF failed THEN "failed" ELSE "ok"]
                 /\ GoTo(t, "notify", c)
            ELSE /\ at' = [at EXCEPT ![t] = Idle]
                 /\ UNCHANGED init

InitializeApp(c) ==
    /\ app = "running"
    /\ at[App] = [step |-> "init", context |-> c]
    /\ InitializeWorker(App, c)
    /\ UNCHANGED <<runtimeVars, descriptor, workers, shutdownVars, pc, holds,
                   closed, evented, msgs>>

TakeInit(t, c) ==
    /\ Received(t, "init", c)
    /\ msgs' = [msgs EXCEPT ![t] = Tail(@)]
    /\ InitializeWorker(t, c)
    /\ UNCHANGED <<runtimeVars, descriptor, workers, shutdownVars, pc, holds,
                   closed, evented>>

\* initialization_cv_.notify_all(), outside the mutex. After a failure
\* request_shutdown follows.
NotifyInit(t, c) ==
    /\ app = "running"
    /\ at[t] = [step |-> "notify", context |-> c]
    /\ IF init[c] = "failed" THEN GoTo(t, "request", c)
       ELSE at' = [at EXCEPT ![t] = Idle]
    /\ UNCHANGED <<runtimeVars, contextVars, shutdownVars, pc, holds, closed,
                   pools, evented, msgs>>

\* The constructor wakes: it returns a context, or closes and throws.
Constructed(c) ==
    /\ pc[c] = "opening"
    /\ init[c] # "pending"
    /\ pc' = [pc EXCEPT ![c] = IF init[c] = "ok" THEN "open" ELSE "close"]
    /\ UNCHANGED <<runtimeVars, contextVars, shutdownVars, holds, closed, pools,
                   evented, msgs, at>>

-----------------------------------------------------------------------------
(* Shutdown *)

\* Faulty: every caller starts the teardown.
StartsShutdownAlways(c) == c \in holds /\ RuntimeAvailable

\* Faulty: only a context that was published is torn down.
StartsShutdownIfOpen(c) ==
    ~ requested[c] /\ c \in holds /\ RuntimeAvailable /\ init[c] = "ok"

\* request_shutdown: only the first caller starts the teardown.
StartsShutdown(c) == ~ requested[c] /\ c \in holds /\ RuntimeAvailable

\* Its critical section on an SPDK thread.
Request(t, c) ==
    /\ requested' = [requested EXCEPT ![c] = @ \/ StartsShutdown(c)]
    /\ IF StartsShutdown(c) THEN GoTo(t, "post", c) ELSE at' = [at EXCEPT ![t] = Idle]

RequestOnThread(t, c) ==
    /\ app = "running"
    /\ at[t] = [step |-> "request", context |-> c]
    /\ Request(t, c)
    /\ UNCHANGED <<runtimeVars, contextVars, started, complete, shutting, pc,
                   holds, closed, pools, evented, msgs>>

\* on_bdev_event, on the application thread: a request that brings an error.
BdevEvent(c) ==
    /\ Events
    /\ AtLoop(App)
    /\ descriptor[c]
    /\ c \notin evented
    /\ evented' = evented \cup {c}
    /\ last_error' = [last_error EXCEPT ![c] = TRUE]
    /\ Request(App, c)
    /\ UNCHANGED <<runtimeVars, init, initializing, descriptor, workers, started,
                   complete, shutting, pc, holds, closed, pools, msgs>>

\* request_shutdown posts BeginShutdownCallback; if it cannot, it declares the
\* shutdown complete.
PostBegin(c) ==
    \/ /\ RuntimeAvailable
       /\ Posted(App, "begin", c)
       /\ UNCHANGED <<last_error, complete>>
    \/ /\ ~ RuntimeAvailable \/ "send" \in Failures
       /\ last_error' = [last_error EXCEPT ![c] = TRUE]
       /\ complete' = [complete EXCEPT ![c] = TRUE]
       /\ UNCHANGED msgs

PostOnThread(t, c) ==
    /\ app = "running"
    /\ at[t] = [step |-> "post", context |-> c]
    /\ PostBegin(c)
    /\ GoTo(t, "release", c)
    /\ UNCHANGED <<runtimeVars, init, initializing, descriptor, workers,
                   requested, started, shutting, pc, holds, closed, pools,
                   evented>>

\* The local shared_ptr ends. Were it the last, stop() would run here and join
\* the thread it runs on.
ReleaseOnThread(t, c) ==
    /\ app = "running"
    /\ at[t] = [step |-> "release", context |-> c]
    /\ IF Holders = {t}
       THEN GoTo(t, "joining", c) /\ stopping' = TRUE
       ELSE at' = [at EXCEPT ![t] = Idle] /\ UNCHANGED stopping
    /\ UNCHANGED <<app, started_once, config, registry, claimed, contextVars,
                   shutdownVars, pc, holds, closed, pools, evented, msgs>>

\* Faulty: an open descriptor alone does not call for a teardown.
CloseWorkersOnly(c) ==
    /\ pc[c] \in {"open", "close"}
    /\ closed' = [closed EXCEPT ![c] = TRUE]
    /\ IF workers[c] > 0
       THEN /\ pc' = [pc EXCEPT ![c] = "request"]
            /\ UNCHANGED complete
       ELSE /\ pc' = [pc EXCEPT ![c] = "wait"]
            /\ complete' = [complete EXCEPT ![c] = TRUE]
    /\ UNCHANGED <<runtimeVars, contextVars, requested, started, shutting,
                   holds, pools, evented, msgs, at>>

\* close: nothing to tear down without a descriptor and workers.
Close(c) ==
    /\ pc[c] \in {"open", "close"}
    /\ closed' = [closed EXCEPT ![c] = TRUE]
    /\ IF descriptor[c] \/ workers[c] > 0
       THEN /\ pc' = [pc EXCEPT ![c] = "request"]
            /\ UNCHANGED complete
       ELSE /\ pc' = [pc EXCEPT ![c] = "wait"]
            /\ complete' = [complete EXCEPT ![c] = TRUE]
    /\ UNCHANGED <<runtimeVars, contextVars, requested, started, shutting,
                   holds, pools, evented, msgs, at>>

RequestByOwner(c) ==
    /\ pc[c] = "request"
    /\ requested' = [requested EXCEPT ![c] = @ \/ StartsShutdown(c)]
    /\ pc' = [pc EXCEPT ![c] = IF StartsShutdown(c) THEN "post" ELSE "wait"]
    /\ UNCHANGED <<runtimeVars, contextVars, started, complete, shutting,
                   holds, closed, pools, evented, msgs, at>>

PostByOwner(c) ==
    /\ pc[c] = "post"
    /\ PostBegin(c)
    /\ pc' = [pc EXCEPT ![c] = "wait"]
    /\ UNCHANGED <<runtimeVars, init, initializing, descriptor, workers,
                   requested, started, shutting, holds, closed, pools, evented,
                   at>>

\* on_io_worker_shutdown by n workers, and finish_shutdown_on_app_thread after
\* the last, up to its notify_all.
WorkersStopped(c, left) ==
    /\ shutting' = [shutting EXCEPT ![c] = left]
    /\ descriptor' = [descriptor EXCEPT ![c] = @ /\ left # 0]
    /\ complete' = [complete EXCEPT ![c] = @ \/ left = 0]
    /\ IF left = 0 THEN GoTo(App, "finish", c) ELSE UNCHANGED at

\* begin_shutdown_on_app_thread: ShutdownIoWorkerCallback to the secondaries,
\* the pools of those in Lost are freed here; then worker 0. The early return
\* of a second call is never taken (TeardownStartsOnce).
BeginShutdown(c) ==
    /\ Received(App, "begin", c)
    /\ ~ started[c]
    /\ started' = [started EXCEPT ![c] = TRUE]
    /\ \E Lost \in SUBSET (1 .. WorkerCount - 1) :
         /\ Lost # {} => "send" \in Failures
         /\ \A w \in Lost : w < workers[c]
         /\ last_error' = [last_error EXCEPT ![c] = @ \/ Lost # {}]
         /\ msgs' = [t \in Threads |->
                       IF t = App THEN Tail(msgs[App])
                       ELSE IF t[1] = c /\ t[2] < workers[c] /\ t[2] \notin Lost
                       THEN Append(msgs[t], [type |-> "shutdown", context |-> c])
                       ELSE msgs[t]]
         /\ pools' = [pools EXCEPT ![c] = @ \ (Lost \cup {0})]
         /\ WorkersStopped(c, IF workers[c] = 0 THEN 0
                              ELSE workers[c] - Cardinality(Lost) - 1)
    /\ UNCHANGED <<runtimeVars, init, initializing, workers, requested, pc,
                   holds, closed, evented>>

\* shutdown_io_worker on a secondary, up to its message to the application
\* thread.
TakeShutdown(t, c) ==
    /\ Received(t, "shutdown", c)
    /\ pools' = [pools EXCEPT ![c] = @ \ {t[2]}]
    /\ msgs' = [msgs EXCEPT ![t] = Tail(@),
                            ![App] = Append(@, [type |-> "ack", context |-> c])]
    /\ GoTo(t, "exit", c)
    /\ UNCHANGED <<runtimeVars, contextVars, shutdownVars, pc, holds, closed,
                   evented>>

\* It reads worker->thread and has it exit, while the acknowledgement travels.
ExitThread(t, c) ==
    /\ app = "running"
    /\ at[t] = [step |-> "exit", context |-> c]
    /\ at' = [at EXCEPT ![t] = Idle]
    /\ UNCHANGED <<runtimeVars, contextVars, shutdownVars, pc, holds, closed,
                   pools, evented, msgs>>

\* The message is not delivered: shutdown_io_worker stops the application.
AckFails(t, c) ==
    /\ "ack" \in Failures
    /\ Received(t, "shutdown", c)
    /\ pools' = [pools EXCEPT ![c] = @ \ {t[2]}]
    /\ msgs' = [msgs EXCEPT ![t] = Tail(@)]
    /\ app' = "left"
    /\ UNCHANGED <<started_once, config, registry, stopping, claimed,
                   contextVars, shutdownVars, pc, holds, closed, evented, at>>

\* FinishShutdownCallback
TakeAck(c) ==
    /\ Received(App, "ack", c)
    /\ msgs' = [msgs EXCEPT ![App] = Tail(@)]
    /\ WorkersStopped(c, IF shutting[c] # 0 THEN shutting[c] - 1 ELSE 0)
    /\ UNCHANGED <<runtimeVars, init, last_error, initializing, workers,
                   requested, started, pc, holds, closed, pools, evented>>

\* finish_shutdown_on_app_thread's notify_all, outside the mutex.
NotifyClosed(c) ==
    /\ app = "running"
    /\ at[App] = [step |-> "finish", context |-> c]
    /\ at' = [at EXCEPT ![App] = Idle]
    /\ UNCHANGED <<runtimeVars, contextVars, shutdownVars, pc, holds, closed,
                   pools, evented, msgs>>

\* Faulty: close does not wait for the teardown.
CloseReleasesEarly(c) ==
    /\ pc[c] = "wait"
    /\ claimed' = claimed \ {Bdev[c]}
    /\ holds' = holds \ {c}
    /\ pc' = [pc EXCEPT ![c] = "drop"]
    /\ UNCHANGED <<app, started_once, config, registry, stopping, contextVars,
                   shutdownVars, closed, pools, evented, msgs, at>>

\* close sees shutdown_complete_, takes runtime_ out and gives the claim back.
CloseReleases(c) ==
    /\ pc[c] = "wait"
    /\ complete[c]
    /\ claimed' = claimed \ {Bdev[c]}
    /\ holds' = holds \ {c}
    /\ pc' = [pc EXCEPT ![c] = "drop"]
    /\ UNCHANGED <<app, started_once, config, registry, stopping, contextVars,
                   shutdownVars, closed, pools, evented, msgs, at>>

\* StopCallback ends the application, which is over when the handlers that run
\* on other threads have returned; thread_main clears app_thread_.
TakeStop ==
    /\ Received(App, "stop", None)
    /\ \A t \in Secondaries : at[t] = Idle
    /\ msgs' = [msgs EXCEPT ![App] = Tail(@)]
    /\ app' = "left"
    /\ UNCHANGED <<started_once, config, registry, stopping, claimed,
                   contextVars, shutdownVars, pc, holds, closed, pools, evented,
                   at>>

-----------------------------------------------------------------------------
\* What an owner does inside its constructor or close.
OwnerStep(c) ==
    \/ Acquired(c)
    \/ Claim(c)
    \/ SendOpen(c)
    \/ SendOpenFails(c)
    \/ Drop(c)
    \/ Join(c)
    \/ Constructed(c)
    \/ pc[c] = "close" /\ Close(c)
    \/ RequestByOwner(c)
    \/ PostByOwner(c)
    \/ CloseReleases(c)

\* What its caller has it do.
OwnerCall(c) ==
    \/ AcquireShared(c)
    \/ AcquireThrows(c)
    \/ AcquireFirst(c)
    \/ pc[c] = "open" /\ Close(c)

AppStep ==
    \/ TakeStop
    \/ \E c \in Contexts :
         \/ OpenFails(c)
         \/ SetupFails(c)
         \/ OpenBdev(c)
         \/ InitializeApp(c)
         \/ BeginShutdown(c)
         \/ TakeAck(c)
         \/ NotifyClosed(c)

ThreadStep(t) ==
    \E c \in Contexts :
        \/ NotifyInit(t, c)
        \/ RequestOnThread(t, c)
        \/ PostOnThread(t, c)
        \/ ReleaseOnThread(t, c)
        \/ ExitThread(t, c)

SecondaryStep(t) ==
    \E c \in Contexts : TakeInit(t, c) \/ TakeShutdown(t, c) \/ AckFails(t, c)

Runtime == StartApp \/ StartFails

Next ==
    \/ \E c \in Contexts : OwnerStep(c) \/ OwnerCall(c) \/ BdevEvent(c)
    \/ AppStep
    \/ \E t \in Threads : ThreadStep(t)
    \/ \E t \in Secondaries : SecondaryStep(t)
    \/ Runtime

Spec == Init /\ [][Next]_vars

\* Threads run on: owners inside a call, SPDK threads with a handler or a
\* message, and SPDK's start. Nothing obliges anyone to construct or close.
FairSpec ==
    /\ Spec
    /\ \A c \in Contexts : WF_vars(OwnerStep(c))
    /\ WF_vars(AppStep)
    /\ \A t \in Threads : WF_vars(ThreadStep(t))
    /\ \A t \in Secondaries : WF_vars(SecondaryStep(t))
    /\ WF_vars(Runtime)

-----------------------------------------------------------------------------
(* Properties *)

Message == [type : {"open", "init", "begin", "shutdown", "ack"}, context : Contexts]
             \cup {[type |-> "stop", context |-> None]}

Handler == [step : {"init", "notify", "request", "post", "release", "joining", "finish",
                    "exit"},
            context : Contexts]

RuntimeType ==
    /\ app \in {"off", "starting", "running", "left"}
    /\ started_once \in BOOLEAN
    /\ registry \in Contexts \cup {None}
    /\ stopping \in BOOLEAN
    /\ claimed \subseteq {Bdev[c] : c \in Contexts}
    /\ pc \in [Contexts -> {"new", "starting", "claim", "send", "opening", "open",
                            "close", "request", "post", "wait", "drop", "join",
                            "dead"}]
    /\ holds \subseteq Contexts

ContextType ==
    /\ init \in [Contexts -> {"pending", "ok", "failed"}]
    /\ last_error \in [Contexts -> BOOLEAN]
    /\ closed \in [Contexts -> BOOLEAN]
    /\ requested \in [Contexts -> BOOLEAN]
    /\ started \in [Contexts -> BOOLEAN]
    /\ complete \in [Contexts -> BOOLEAN]
    /\ initializing \in [Contexts -> 0 .. WorkerCount]
    /\ shutting \in [Contexts -> 0 .. WorkerCount]
    /\ descriptor \in [Contexts -> BOOLEAN]
    /\ workers \in [Contexts -> 0 .. WorkerCount]
    /\ pools \in [Contexts -> SUBSET Workers]
    /\ evented \subseteq Contexts

\* The type invariant: what the fields of the runtime and of the contexts hold,
\* and which messages and handlers the SPDK threads have.
TypeOK ==
    /\ RuntimeType
    /\ ContextType
    /\ msgs \in [Threads -> Seq(Message)]
    /\ at \in [Threads -> {Idle} \cup Handler]

\* A context that reports itself available has every worker's channel and
\* pool, also when a bdev event or a failing worker raced the others.
AvailableMeansReady ==
    \A c \in Contexts :
        init[c] = "ok" /\ ~ requested[c] /\ ~ closed[c] => pools[c] = Workers

\* "Only the first caller posts the app-thread teardown state machine"
\* (spdk_bdev_context.cpp:530): however close, bdev events and failed
\* initializations on several threads converge, it is posted at most once.
TeardownStartsOnce ==
    \A c \in Contexts :
        Cardinality({i \in DOMAIN msgs[App] :
                       msgs[App][i] = [type |-> "begin", context |-> c]})
          + (IF started[c] THEN 1 ELSE 0) <= 1

\* "Each SpdkConnector uses a SpdkBdevContext for one bdev": no two contexts
\* have the same bdev open, whatever way the first one ended.
DescriptorsExclusive ==
    \A c, d \in Contexts :
        c # d /\ Bdev[c] = Bdev[d] => ~ (descriptor[c] /\ descriptor[d])

\* "SPDK memory must be released on its owning thread before this ordinary C++
\* destructor runs" (spdk_buffer_pool.cpp:22-23): a context that goes away,
\* and the end of the application, leave no buffer and no open bdev behind.
ResourcesReleasedFirst ==
    \A c \in Contexts :
        pc[c] \in {"drop", "join", "dead"} \/ app = "left" =>
            pools[c] = {} /\ ~ descriptor[c]

\* The runtime is stopped by an ordinary thread: stop() joins the thread SPDK
\* runs on, so an SPDK thread must not drop the last shared_ptr.
NeverJoinsItself == \A t \in Threads : at[t].step # "joining"

\* Every constructor returns or throws, and every close returns: no order of
\* failures, events and acknowledgements leaves an owner waiting.
OwnersReturn ==
    \A c \in Contexts :
        pc[c] \notin {"new", "open"} ~> pc[c] \in {"open", "dead"}

\* "The void pointers are non-owning and remain valid until the waiting worker
\* observes completion" (spdk_bdev_context.h:132-133): the context that a
\* message carries, or that a handler is about to use again, itself or through
\* one of its workers' wrappers, exists.
CallbacksFindContext ==
    \A t \in Threads :
        /\ at[t].step \notin {"idle", "release", "joining"}
             => pc[at[t].context] # "dead"
        /\ \A i \in DOMAIN msgs[t] :
             msgs[t][i].type # "stop" => pc[msgs[t][i].context] # "dead"
=============================================================================
