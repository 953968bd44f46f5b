------------------------ MODULE SpdkLifecycle_proofs ------------------------
(***************************************************************************)
(* Proofs about SpdkLifecycle for any number of contexts and workers.       *)
(***************************************************************************)
EXTENDS SpdkLifecycle, QueueOccurrences

-----------------------------------------------------------------------------
(* What concerns one context *)

\* The workers other than the application thread's, and a message about c.
Secondary == 1 .. WorkerCount - 1
Msg(type, c) == [type |-> type, context |-> c]

\* How often the application thread's queue holds a message.
Opens(c) == Times(msgs[App], Msg("open", c))
Begins(c) == Times(msgs[App], Msg("begin", c))
Acks(c) == Times(msgs[App], Msg("ack", c))
Stops == Times(msgs[App], Msg("stop", None))

\* The queue of a secondary, and what the thread of worker w does for c.
Queue(c, w) == msgs[<<c, w>>]
Doing(c, w) ==
    IF w = 0 THEN IF at[App].context = c THEN at[App].step ELSE "idle"
    ELSE at[<<c, w>>].step

\* The queues of a secondary with its initialization, and with its shutdown.
ToInit(c) == {<<Msg("init", c)>>, <<Msg("init", c), Msg("shutdown", c)>>}
ToShut(c) == {<<Msg("shutdown", c)>>, <<Msg("init", c), Msg("shutdown", c)>>}

\* The workers whose initialization, and whose shutdown, is still to run.
Pending(c) ==
    {w \in Workers : IF w = 0 THEN Doing(c, 0) = "init" ELSE Queue(c, w) \in ToInit(c)}
ToStop(c) == {w \in Secondary : Queue(c, w) \in ToShut(c)}

\* No SPDK thread has anything to do with c.
Fresh(c) ==
    /\ ~ descriptor[c] /\ ~ requested[c] /\ ~ started[c] /\ ~ complete[c]
    /\ ~ last_error[c] /\ ~ closed[c]
    /\ init[c] = "pending"
    /\ initializing[c] = 0
    /\ shutting[c] = 0
    /\ pools[c] = {}
    /\ Begins(c) = 0 /\ Acks(c) = 0
    /\ \A w \in Workers : Doing(c, w) = "idle"
    /\ \A w \in Secondary : Queue(c, w) = <<>>

\* Messages go where their handlers run, and threads run their handlers.
MessagesOf(t) ==
    IF t = App THEN [type : {"open", "begin", "ack"}, context : Contexts]
                      \cup {Msg("stop", None)}
    ELSE [type : {"init", "shutdown"}, context : {t[1]}]

HandlersOf(t) ==
    {Idle} \cup
    IF t = App THEN Handler
    ELSE [step : {"notify", "request", "post", "release", "joining", "exit"}, context : {t[1]}]

MsgsRouted ==
    /\ msgs = [t \in Threads |-> msgs[t]]
    /\ \A t \in Threads : msgs[t] \in Seq(MessagesOf(t))

AtRouted ==
    /\ at = [t \in Threads |-> at[t]]
    /\ \A t \in Threads : at[t] \in HandlersOf(t)

\* The type invariant, with who may hold which message and run which handler.
Typed == RuntimeType /\ ContextType /\ MsgsRouted /\ AtRouted

\* Until its open message is handled, once, nothing has happened to c.
BeforeOpen(c) ==
    /\ pc[c] \in {"new", "starting", "claim", "send"} => Fresh(c) /\ Opens(c) = 0
    /\ Opens(c) # 0 => Opens(c) = 1 /\ Fresh(c) /\ pc[c] = "opening"

\* The right to start the teardown of c (the duty to post, the posted message,
\* the teardown already started) is in one place at most.
TeardownOnce(c) ==
    /\ ~ requested[c] =>
         /\ pc[c] # "post" /\ Begins(c) = 0 /\ ~ started[c]
         /\ \A w \in Workers : Doing(c, w) # "post"
    /\ pc[c] = "post" =>
         /\ Begins(c) = 0 /\ ~ started[c]
         /\ \A w \in Workers : Doing(c, w) # "post"
    /\ \A w \in Workers : Doing(c, w) = "post" =>
         /\ Begins(c) = 0 /\ ~ started[c]
         /\ \A v \in Workers : Doing(c, v) = "post" => v = w
    /\ Begins(c) # 0 => Begins(c) = 1 /\ ~ started[c]

\* The count of workers to initialize is the number of initializations still to
\* run, and c is reported ready only when every worker has its buffers.
InitCounted(c) ==
    /\ \A w \in Secondary :
         /\ Queue(c, w) \in {<<>>} \cup ToInit(c) \cup ToShut(c)
         /\ Queue(c, w) \in ToShut(c) => started[c]
    /\ initializing[c] = Cardinality(Pending(c))
    /\ Pending(c) # {} => init[c] = "pending" /\ pc[c] = "opening"
    /\ Pending(c) # {} /\ ~ last_error[c] =>
         ~ requested[c] /\ Workers \subseteq pools[c] \cup Pending(c)
    /\ init[c] = "ok" /\ ~ requested[c] /\ ~ closed[c] => pools[c] = Workers
    /\ \A w \in Workers :
         /\ Doing(c, w) = "notify" => init[c] # "pending"
         /\ Doing(c, w) = "request" => init[c] = "failed"

\* Inductive whatever fails.
ContextInv(c) == BeforeOpen(c) /\ TeardownOnce(c) /\ InitCounted(c)
IInv == Typed /\ \A c \in Contexts : ContextInv(c)

\* Where the owner of c is while the runtime may still work for c.
Live == {"opening", "open", "close", "request", "post", "wait"}

\* The calls whose failure the code does not contain succeed: opening the bdev,
\* sending a worker its shutdown, acknowledging it.
Contained == {"open", "send", "ack"} \cap Failures = {}

\* Nothing of c is left with SPDK and nothing is on its way.
Still(c) ==
    /\ ~ descriptor[c]
    /\ pools[c] = {}
    /\ Opens(c) = 0 /\ Begins(c) = 0 /\ Acks(c) = 0
    /\ \A w \in Workers : Doing(c, w) \in {"idle", "finish", "exit"}
    /\ \A w \in Secondary : Queue(c, w) = <<>>

\* Who is in the registry, who keeps the runtime alive, and whose the claims are.
RegistrySound == \A c \in Contexts : pc[c] = "starting" <=> registry = c

HoldersSound ==
    /\ app # "running" => Holders = {}
    /\ stopping => Holders = {} /\ started_once /\ registry = None
    /\ registry # None => Holders = {}
    /\ app = "running" => started_once
    /\ Stops # 0 => stopping

Claiming == Live \cup {"send"}

ClaimsSound ==
    /\ \A c \in Contexts : c \in holds <=> pc[c] \in Claiming \cup {"claim"}
    /\ \A c \in Contexts : pc[c] \in Claiming => Bdev[c] \in claimed
    /\ \A c, d \in Contexts :
         c # d /\ pc[c] \in Claiming /\ pc[d] \in Claiming => Bdev[c] # Bdev[d]

RuntimeSound == RegistrySound /\ HoldersSound /\ ClaimsSound

\* A context that is over, or whose shutdown is complete, is still; the count of
\* workers to stop is the number of shutdowns to run and of acknowledgements to
\* take, and a worker that has something to release is one of those to stop.
TeardownSound(c) ==
    /\ pc[c] \notin Live => Still(c)
    /\ complete[c] => started[c] /\ Still(c)
    /\ \A w \in Workers : Doing(c, w) # "joining"
    /\ IF started[c]
       THEN /\ shutting[c] = Cardinality(ToStop(c)) + Acks(c)
            /\ pools[c] \subseteq ToStop(c)
            /\ Pending(c) \subseteq ToStop(c)
            /\ Doing(c, 0) \in {"idle", "finish", "exit"}
            /\ \A w \in Secondary : Doing(c, w) \notin {"idle", "finish", "exit"} => w \in ToStop(c)
       ELSE /\ shutting[c] = 0
            /\ Acks(c) = 0
            /\ \A w \in Secondary : w \in pools[c] \/ Queue(c, w) # <<>> \/ Doing(c, w) # "idle"
                 => w < workers[c]
    /\ init[c] # "pending" \/ Pending(c) # {} => descriptor[c] \/ complete[c]
    /\ pc[c] \in Live \ {"opening"} => init[c] # "pending"

\* Inductive when those calls succeed.
CInv == IInv /\ RuntimeSound /\ \A c \in Contexts : TeardownSound(c)

-----------------------------------------------------------------------------
(* Types *)

\* The threads: the application thread is no secondary.
LEMMA ThreadFacts ==
    /\ App \in Threads
    /\ App \notin Secondaries
    /\ Secondaries \subseteq Threads
    /\ \A c \in Contexts, w \in Secondary : <<c, w>> \in Secondaries /\ <<c, w>> # App
    /\ \A t \in Secondaries : t[1] \in Contexts /\ t[2] \in Secondary /\ t = <<t[1], t[2]>>
    /\ \A t \in Threads : t = App \/ t \in Secondaries
    /\ Secondary \subseteq Workers /\ 0 \in Workers /\ 0 \notin Secondary
    /\ \A w \in Workers : w = 0 \/ w \in Secondary
    /\ \A t \in Threads : t[2] \in Workers
<1>. USE LifecycleAssumption
<1>1. App \notin Secondaries
  BY DEF App, Secondaries
<1>2. \A c \in Contexts, w \in Secondary : <<c, w>> \in Secondaries
  BY DEF Secondaries, Secondary
<1>3. \A t \in Secondaries : t[1] \in Contexts /\ t[2] \in Secondary /\ t = <<t[1], t[2]>>
  BY DEF Secondaries, Secondary
<1>4. Secondary \subseteq Workers /\ 0 \in Workers /\ 0 \notin Secondary
  BY DEF Secondary, Workers
<1>5. \A w \in Workers : w = 0 \/ w \in Secondary
  BY DEF Secondary, Workers
<1>6. App[2] = 0
  BY DEF App
<1>7. QED
  BY <1>1, <1>2, <1>3, <1>4, <1>5, <1>6 DEF Threads

\* There are io_thread_count workers.
LEMMA WorkersFinite == IsFiniteSet(Workers) /\ Cardinality(Workers) = WorkerCount
<1>1. 0 \in Int /\ WorkerCount - 1 \in Int /\ WorkerCount \in Nat /\ WorkerCount # 0
  BY LifecycleAssumption
<1>2. /\ IsFiniteSet(0 .. WorkerCount - 1)
      /\ Cardinality(0 .. WorkerCount - 1)
           = IF 0 > WorkerCount - 1 THEN 0 ELSE WorkerCount - 1 - 0 + 1
  BY <1>1, FS_Interval
<1>. QED BY <1>1, <1>2 DEF Workers

\* The workers that a message did not reach are fewer than the workers.
LEMMA LostBound ==
    ASSUME NEW n \in 1 .. WorkerCount, NEW Lost \in SUBSET (1 .. n - 1)
    PROVE  IsFiniteSet(Lost) /\ Cardinality(Lost) \in 0 .. n - 1
<1>1. n \in Nat /\ n >= 1
  BY LifecycleAssumption
<1>2. IsFiniteSet(1 .. n - 1) /\ Cardinality(1 .. n - 1) = n - 1
  BY <1>1, FS_Interval
<1>3. IsFiniteSet(Lost) /\ Cardinality(Lost) <= Cardinality(1 .. n - 1)
  BY <1>2, FS_Subset
<1>4. Cardinality(Lost) \in Nat
  BY <1>3, FS_CardinalityType
<1>5. QED
  BY <1>1, <1>2, <1>3, <1>4

\* What each thread may get is a message.
LEMMA TypedTypeOK == Typed => TypeOK
<1>. SUFFICES ASSUME Typed PROVE TypeOK
  OBVIOUS
<1>1. \A t \in Threads : MessagesOf(t) \subseteq Message
  <2>. SUFFICES ASSUME NEW t \in Threads, NEW m \in MessagesOf(t) PROVE m \in Message
    OBVIOUS
  <2>1. CASE t = App
    BY <2>1 DEF MessagesOf, Message, Msg
  <2>2. CASE t \in Secondaries
    BY <2>2, ThreadFacts DEF MessagesOf, Message
  <2>. QED BY <2>1, <2>2, ThreadFacts
<1>2. \A t \in Threads : HandlersOf(t) \subseteq {Idle} \cup Handler
  <2>. SUFFICES ASSUME NEW t \in Threads, NEW h \in HandlersOf(t) PROVE h \in {Idle} \cup Handler
    OBVIOUS
  <2>1. CASE t = App
    BY <2>1 DEF HandlersOf
  <2>2. CASE t \in Secondaries
    BY <2>2, ThreadFacts DEF HandlersOf, Handler
  <2>. QED BY <2>1, <2>2, ThreadFacts
<1>3. msgs \in [Threads -> Seq(Message)]
  <2>1. \A t \in Threads : msgs[t] \in Seq(Message)
    <3>. SUFFICES ASSUME NEW t \in Threads PROVE msgs[t] \in Seq(Message)
      OBVIOUS
    <3>1. msgs[t] \in Seq(MessagesOf(t)) /\ MessagesOf(t) \subseteq Message
      BY <1>1 DEF Typed, MsgsRouted
    <3>. HIDE DEF MessagesOf, Message
    <3>. QED BY <3>1
  <2>. QED BY <2>1 DEF Typed, MsgsRouted
<1>4. at \in [Threads -> {Idle} \cup Handler]
  BY <1>2 DEF Typed, AtRouted
<1>5. QED
  BY <1>3, <1>4 DEF Typed, TypeOK

\* A message of the right kind is posted to a thread.
LEMMA MsgPosted ==
    ASSUME MsgsRouted, NEW t \in Threads, NEW m \in MessagesOf(t),
           msgs' = [msgs EXCEPT ![t] = Append(@, m)]
    PROVE  /\ MsgsRouted'
           /\ msgs'[t] = Append(msgs[t], m)
           /\ \A u \in Threads : u # t => msgs'[u] = msgs[u]
<1>1. msgs'[t] = Append(msgs[t], m) /\ \A u \in Threads : u # t => msgs'[u] = msgs[u]
  BY DEF MsgsRouted
<1>2. Append(msgs[t], m) \in Seq(MessagesOf(t))
  BY DEF MsgsRouted
<1>3. msgs' = [u \in Threads |-> msgs'[u]]
  BY DEF MsgsRouted
<1>4. QED
  BY <1>1, <1>2, <1>3 DEF MsgsRouted, MessagesOf

\* A thread takes its next message.
LEMMA MsgTaken ==
    ASSUME MsgsRouted, NEW t \in Threads, msgs[t] # <<>>,
           msgs' = [msgs EXCEPT ![t] = Tail(@)]
    PROVE  /\ MsgsRouted'
           /\ msgs'[t] = Tail(msgs[t])
           /\ \A u \in Threads : u # t => msgs'[u] = msgs[u]
<1>1. msgs'[t] = Tail(msgs[t]) /\ \A u \in Threads : u # t => msgs'[u] = msgs[u]
  BY DEF MsgsRouted
<1>2. Tail(msgs[t]) \in Seq(MessagesOf(t))
  BY DEF MsgsRouted
<1>3. msgs' = [u \in Threads |-> msgs'[u]]
  BY DEF MsgsRouted
<1>4. QED
  BY <1>1, <1>2, <1>3 DEF MsgsRouted, MessagesOf

\* A thread enters a handler, or ends one.
LEMMA AtMoved ==
    ASSUME AtRouted, NEW t \in Threads, NEW h \in HandlersOf(t),
           at' = [at EXCEPT ![t] = h]
    PROVE  /\ AtRouted'
           /\ at'[t] = h
           /\ \A u \in Threads : u # t => at'[u] = at[u]
<1>1. at'[t] = h /\ \A u \in Threads : u # t => at'[u] = at[u]
  BY DEF AtRouted
<1>2. at' = [u \in Threads |-> at'[u]]
  BY DEF AtRouted
<1>3. QED
  BY <1>1, <1>2 DEF AtRouted, HandlersOf, Handler, Idle

\* Every step keeps the types of the fields of the runtime.
LEMMA StepRuntimeType ==
    ASSUME TypeOK, [Next]_vars
    PROVE  RuntimeType'
<1>. USE LifecycleAssumption, ThreadFacts DEF TypeOK, RuntimeType
<1>1. ASSUME NEW c \in Contexts, AcquireShared(c) PROVE RuntimeType'
  BY <1>1 DEF AcquireShared, runtimeVars, contextVars, shutdownVars
<1>2. ASSUME NEW c \in Contexts, AcquireThrows(c) PROVE RuntimeType'
  BY <1>2 DEF AcquireThrows, runtimeVars, contextVars, shutdownVars
<1>3. ASSUME NEW c \in Contexts, AcquireFirst(c) PROVE RuntimeType'
  BY <1>3 DEF AcquireFirst, runtimeVars, contextVars, shutdownVars
<1>4. ASSUME NEW c \in Contexts, Acquired(c) PROVE RuntimeType'
  <2>1. holds' \subseteq Contexts /\ app' \in {"off", "running"} /\ registry' = None
    BY <1>4 DEF Acquired
  <2>2. pc' = [pc EXCEPT ![c] = "claim"] \/ pc' = [pc EXCEPT ![c] = "dead"]
    BY <1>4 DEF Acquired
  <2>3. UNCHANGED <<started_once, stopping, claimed>>
    BY <1>4 DEF Acquired
  <2>. QED BY ONLY TypeOK, <2>1, <2>2, <2>3 DEF TypeOK, RuntimeType
<1>5. ASSUME NEW c \in Contexts, Claim(c) PROVE RuntimeType'
  <2>1. CASE Bdev[c] \in claimed
    BY <1>5, <2>1 DEF Claim
  <2>2. CASE ~ (Bdev[c] \in claimed)
    BY <1>5, <2>2 DEF Claim
  <2>. QED BY <2>1, <2>2
<1>6. ASSUME NEW c \in Contexts, SendOpen(c) PROVE RuntimeType'
  BY <1>6 DEF SendOpen, runtimeVars, contextVars, shutdownVars
<1>7. ASSUME NEW c \in Contexts, SendOpenFails(c) PROVE RuntimeType'
  BY <1>7 DEF SendOpenFails, runtimeVars, contextVars, shutdownVars
<1>8. ASSUME NEW c \in Contexts, Drop(c) PROVE RuntimeType'
  <2>1. pc' = [pc EXCEPT ![c] = "join"] \/ pc' = [pc EXCEPT ![c] = "dead"]
    BY <1>8 DEF Drop
  <2>2. stopping' \in BOOLEAN /\ UNCHANGED <<app, started_once, registry, claimed, holds>>
    BY <1>8 DEF Drop
  <2>. QED BY ONLY TypeOK, <2>1, <2>2 DEF TypeOK, RuntimeType
<1>9. ASSUME NEW c \in Contexts, Join(c) PROVE RuntimeType'
  BY <1>9 DEF Join, runtimeVars, contextVars, shutdownVars
<1>10. ASSUME NEW c \in Contexts, Constructed(c) PROVE RuntimeType'
  BY <1>10 DEF Constructed, runtimeVars, contextVars, shutdownVars
<1>11. ASSUME NEW c \in Contexts, Close(c) PROVE RuntimeType'
  <2>1. pc' = [pc EXCEPT ![c] = "request"] \/ pc' = [pc EXCEPT ![c] = "wait"]
    BY <1>11 DEF Close
  <2>2. UNCHANGED <<app, started_once, registry, stopping, claimed, holds>>
    BY <1>11 DEF Close, runtimeVars
  <2>. QED BY ONLY TypeOK, <2>1, <2>2 DEF TypeOK, RuntimeType
<1>12. ASSUME NEW c \in Contexts, RequestByOwner(c) PROVE RuntimeType'
  BY <1>12 DEF RequestByOwner, runtimeVars, contextVars, shutdownVars
<1>13. ASSUME NEW c \in Contexts, PostByOwner(c) PROVE RuntimeType'
  BY <1>13 DEF PostByOwner, PostBegin, runtimeVars, contextVars, shutdownVars
<1>14. ASSUME NEW c \in Contexts, CloseReleases(c) PROVE RuntimeType'
  BY <1>14 DEF CloseReleases, runtimeVars, contextVars, shutdownVars
<1>15. ASSUME NEW c \in Contexts, BdevEvent(c) PROVE RuntimeType'
  BY <1>15 DEF BdevEvent, Request, runtimeVars, contextVars, shutdownVars
<1>16. ASSUME NEW c \in Contexts, OpenFails(c) PROVE RuntimeType'
  BY <1>16 DEF OpenFails, PublishFailure, runtimeVars, contextVars, shutdownVars
<1>17. ASSUME NEW c \in Contexts, SetupFails(c) PROVE RuntimeType'
  BY <1>17 DEF SetupFails, PublishFailure, runtimeVars, contextVars, shutdownVars
<1>18. ASSUME NEW c \in Contexts, OpenBdev(c) PROVE RuntimeType'
  BY <1>18 DEF OpenBdev, runtimeVars, contextVars, shutdownVars
<1>19. ASSUME NEW c \in Contexts, InitializeApp(c) PROVE RuntimeType'
  BY <1>19 DEF InitializeApp, InitializeWorker, runtimeVars, contextVars, shutdownVars
<1>20. ASSUME NEW c \in Contexts, BeginShutdown(c) PROVE RuntimeType'
  BY <1>20 DEF BeginShutdown, WorkersStopped, runtimeVars, contextVars, shutdownVars
<1>21. ASSUME NEW c \in Contexts, TakeAck(c) PROVE RuntimeType'
  BY <1>21 DEF TakeAck, WorkersStopped, runtimeVars, contextVars, shutdownVars
<1>22. ASSUME NEW c \in Contexts, NotifyClosed(c) PROVE RuntimeType'
  BY <1>22 DEF NotifyClosed, runtimeVars, contextVars, shutdownVars
<1>23. ASSUME NEW t \in Threads, NEW c \in Contexts, NotifyInit(t, c) PROVE RuntimeType'
  BY <1>23 DEF NotifyInit, runtimeVars, contextVars, shutdownVars
<1>24. ASSUME NEW t \in Threads, NEW c \in Contexts, RequestOnThread(t, c) PROVE RuntimeType'
  BY <1>24 DEF RequestOnThread, Request, runtimeVars, contextVars, shutdownVars
<1>25. ASSUME NEW t \in Threads, NEW c \in Contexts, PostOnThread(t, c) PROVE RuntimeType'
  BY <1>25 DEF PostOnThread, PostBegin, runtimeVars, contextVars, shutdownVars
<1>26. ASSUME NEW t \in Threads, NEW c \in Contexts, ReleaseOnThread(t, c) PROVE RuntimeType'
  BY <1>26 DEF ReleaseOnThread, runtimeVars, contextVars, shutdownVars
<1>27. ASSUME NEW t \in Secondaries, NEW c \in Contexts, TakeInit(t, c) PROVE RuntimeType'
  BY <1>27 DEF TakeInit, InitializeWorker, runtimeVars, contextVars, shutdownVars
<1>28. ASSUME NEW t \in Secondaries, NEW c \in Contexts, TakeShutdown(t, c) PROVE RuntimeType'
  BY <1>28 DEF TakeShutdown, runtimeVars, contextVars, shutdownVars
<1>29. ASSUME NEW t \in Secondaries, NEW c \in Contexts, AckFails(t, c) PROVE RuntimeType'
  BY <1>29 DEF AckFails, runtimeVars, contextVars, shutdownVars
<1>30. ASSUME TakeStop PROVE RuntimeType'
  BY <1>30 DEF TakeStop, runtimeVars, contextVars, shutdownVars
<1>31. ASSUME StartApp PROVE RuntimeType'
  BY <1>31 DEF StartApp, runtimeVars, contextVars, shutdownVars
<1>32. ASSUME StartFails PROVE RuntimeType'
  BY <1>32 DEF StartFails, runtimeVars, contextVars, shutdownVars
<1>33. CASE UNCHANGED vars
  BY <1>33 DEF vars, runtimeVars, contextVars, shutdownVars
<1>34. ASSUME NEW t \in Threads, NEW c \in Contexts, ExitThread(t, c) PROVE RuntimeType'
  BY <1>34 DEF ExitThread, runtimeVars, contextVars, shutdownVars
<1>. QED
  BY <1>1, <1>2, <1>3, <1>4, <1>5, <1>6, <1>7, <1>8, <1>9, <1>10, <1>11, <1>12, <1>13, <1>14, <1>15, <1>16, <1>17, <1>18, <1>19, <1>20, <1>21, <1>22, <1>23, <1>24, <1>25, <1>26, <1>27, <1>28, <1>29, <1>30, <1>31, <1>32, <1>33, <1>34
     DEF Next, OwnerStep, OwnerCall, AppStep, ThreadStep, SecondaryStep, Runtime

\* Every step keeps the types of the fields of the contexts.
LEMMA StepContextType ==
    ASSUME TypeOK, [Next]_vars
    PROVE  ContextType'
<1>. USE LifecycleAssumption, ThreadFacts DEF TypeOK, ContextType
<1>1. ASSUME NEW c \in Contexts, AcquireShared(c) PROVE ContextType'
  BY <1>1 DEF AcquireShared, runtimeVars, contextVars, shutdownVars
<1>2. ASSUME NEW c \in Contexts, AcquireThrows(c) PROVE ContextType'
  BY <1>2 DEF AcquireThrows, runtimeVars, contextVars, shutdownVars
<1>3. ASSUME NEW c \in Contexts, AcquireFirst(c) PROVE ContextType'
  BY <1>3 DEF AcquireFirst, runtimeVars, contextVars, shutdownVars
<1>4. ASSUME NEW c \in Contexts, Acquired(c) PROVE ContextType'
  BY <1>4 DEF Acquired, runtimeVars, contextVars, shutdownVars
<1>5. ASSUME NEW c \in Contexts, Claim(c) PROVE ContextType'
  BY <1>5 DEF Claim, runtimeVars, contextVars, shutdownVars
<1>6. ASSUME NEW c \in Contexts, SendOpen(c) PROVE ContextType'
  BY <1>6 DEF SendOpen, runtimeVars, contextVars, shutdownVars
<1>7. ASSUME NEW c \in Contexts, SendOpenFails(c) PROVE ContextType'
  BY <1>7 DEF SendOpenFails, runtimeVars, contextVars, shutdownVars
<1>8. ASSUME NEW c \in Contexts, Drop(c) PROVE ContextType'
  BY <1>8 DEF Drop, runtimeVars, contextVars, shutdownVars
<1>9. ASSUME NEW c \in Contexts, Join(c) PROVE ContextType'
  BY <1>9 DEF Join, runtimeVars, contextVars, shutdownVars
<1>10. ASSUME NEW c \in Contexts, Constructed(c) PROVE ContextType'
  BY <1>10 DEF Constructed, runtimeVars, contextVars, shutdownVars
<1>11. ASSUME NEW c \in Contexts, Close(c) PROVE ContextType'
  BY <1>11 DEF Close, runtimeVars, contextVars, shutdownVars
<1>12. ASSUME NEW c \in Contexts, RequestByOwner(c) PROVE ContextType'
  BY <1>12 DEF RequestByOwner, runtimeVars, contextVars, shutdownVars
<1>13. ASSUME NEW c \in Contexts, PostByOwner(c) PROVE ContextType'
  BY <1>13 DEF PostByOwner, PostBegin, runtimeVars, contextVars, shutdownVars
<1>14. ASSUME NEW c \in Contexts, CloseReleases(c) PROVE ContextType'
  BY <1>14 DEF CloseReleases, runtimeVars, contextVars, shutdownVars
<1>15. ASSUME NEW c \in Contexts, BdevEvent(c) PROVE ContextType'
  BY <1>15 DEF BdevEvent, Request, runtimeVars, contextVars, shutdownVars
<1>16. ASSUME NEW c \in Contexts, OpenFails(c) PROVE ContextType'
  BY <1>16 DEF OpenFails, PublishFailure, runtimeVars, contextVars, shutdownVars
<1>17. ASSUME NEW c \in Contexts, SetupFails(c) PROVE ContextType'
  BY <1>17 DEF SetupFails, PublishFailure, runtimeVars, contextVars, shutdownVars, Workers
<1>18. ASSUME NEW c \in Contexts, OpenBdev(c) PROVE ContextType'
  <2>1. PICK Lost \in SUBSET (1 .. WorkerCount - 1) :
          initializing' = [initializing EXCEPT ![c] = WorkerCount - Cardinality(Lost)]
    BY <1>18 DEF OpenBdev
  <2>2. Cardinality(Lost) \in 0 .. WorkerCount - 1
    <3>1. WorkerCount \in 1 .. WorkerCount
      OBVIOUS
    <3>. QED BY <3>1, LostBound
  <2>3. last_error' \in [Contexts -> BOOLEAN]
    BY <1>18 DEF OpenBdev
  <2>. QED BY <1>18, <2>1, <2>2, <2>3 DEF OpenBdev, runtimeVars, shutdownVars
<1>19. ASSUME NEW c \in Contexts, InitializeApp(c) PROVE ContextType'
  <2>1. PICK fails \in BOOLEAN :
          /\ pools' = IF fails THEN pools ELSE [pools EXCEPT ![c] = @ \cup {App[2]}]
          /\ last_error' = [last_error EXCEPT ![c] = last_error[c] \/ fails]
          /\ initializing' = [initializing EXCEPT ![c] =
                 IF initializing[c] # 0 THEN initializing[c] - 1 ELSE 0]
          /\ \/ init' = [init EXCEPT ![c] = IF last_error[c] \/ fails THEN "failed" ELSE "ok"]
             \/ init' = init
    BY <1>19 DEF InitializeApp, InitializeWorker
  <2>2. pools' \in [Contexts -> SUBSET Workers]
    BY <2>1
  <2>3. last_error' \in [Contexts -> BOOLEAN] /\ init' \in [Contexts -> {"pending", "ok", "failed"}]
    BY <2>1
  <2>4. initializing' \in [Contexts -> 0 .. WorkerCount]
    BY <2>1
  <2>. QED BY <1>19, <2>2, <2>3, <2>4 DEF InitializeApp, shutdownVars
<1>20. ASSUME NEW c \in Contexts, BeginShutdown(c) PROVE ContextType'
  <2>1. PICK Lost \in SUBSET (1 .. WorkerCount - 1) :
          /\ \A w \in Lost : w < workers[c]
          /\ last_error' = [last_error EXCEPT ![c] = @ \/ Lost # {}]
          /\ pools' = [pools EXCEPT ![c] = @ \ (Lost \cup {0})]
          /\ WorkersStopped(c, IF workers[c] = 0 THEN 0
                               ELSE workers[c] - Cardinality(Lost) - 1)
    BY <1>20 DEF BeginShutdown
  <2>2. workers[c] # 0 => workers[c] - Cardinality(Lost) - 1 \in 0 .. WorkerCount
    <3>. SUFFICES ASSUME workers[c] # 0 PROVE workers[c] - Cardinality(Lost) - 1 \in 0 .. WorkerCount
      OBVIOUS
    <3>1. workers[c] \in 1 .. WorkerCount /\ Lost \in SUBSET (1 .. workers[c] - 1)
      BY <2>1
    <3>2. Cardinality(Lost) \in 0 .. workers[c] - 1
      BY <3>1, LostBound
    <3>. QED BY <3>1, <3>2
  <2>3. last_error' \in [Contexts -> BOOLEAN] /\ pools' \in [Contexts -> SUBSET Workers]
    BY <2>1
  <2>4. /\ shutting' \in [Contexts -> 0 .. WorkerCount]
        /\ descriptor' \in [Contexts -> BOOLEAN]
        /\ complete' \in [Contexts -> BOOLEAN]
    BY <2>1, <2>2 DEF WorkersStopped
  <2>. QED BY <1>20, <2>3, <2>4 DEF BeginShutdown
<1>21. ASSUME NEW c \in Contexts, TakeAck(c) PROVE ContextType'
  BY <1>21 DEF TakeAck, WorkersStopped, runtimeVars, contextVars, shutdownVars
<1>22. ASSUME NEW c \in Contexts, NotifyClosed(c) PROVE ContextType'
  BY <1>22 DEF NotifyClosed, runtimeVars, contextVars, shutdownVars
<1>23. ASSUME NEW t \in Threads, NEW c \in Contexts, NotifyInit(t, c) PROVE ContextType'
  BY <1>23 DEF NotifyInit, runtimeVars, contextVars, shutdownVars
<1>24. ASSUME NEW t \in Threads, NEW c \in Contexts, RequestOnThread(t, c) PROVE ContextType'
  BY <1>24 DEF RequestOnThread, Request, runtimeVars, contextVars, shutdownVars
<1>25. ASSUME NEW t \in Threads, NEW c \in Contexts, PostOnThread(t, c) PROVE ContextType'
  BY <1>25 DEF PostOnThread, PostBegin, runtimeVars, contextVars, shutdownVars
<1>26. ASSUME NEW t \in Threads, NEW c \in Contexts, ReleaseOnThread(t, c) PROVE ContextType'
  BY <1>26 DEF ReleaseOnThread, runtimeVars, contextVars, shutdownVars
<1>27. ASSUME NEW t \in Secondaries, NEW c \in Contexts, TakeInit(t, c) PROVE ContextType'
  <2>1. PICK fails \in BOOLEAN :
          /\ pools' = IF fails THEN pools ELSE [pools EXCEPT ![c] = @ \cup {t[2]}]
          /\ last_error' = [last_error EXCEPT ![c] = last_error[c] \/ fails]
          /\ initializing' = [initializing EXCEPT ![c] =
                 IF initializing[c] # 0 THEN initializing[c] - 1 ELSE 0]
          /\ \/ init' = [init EXCEPT ![c] = IF last_error[c] \/ fails THEN "failed" ELSE "ok"]
             \/ init' = init
    BY <1>27 DEF TakeInit, InitializeWorker
  <2>2. pools' \in [Contexts -> SUBSET Workers]
    BY <2>1
  <2>3. last_error' \in [Contexts -> BOOLEAN] /\ init' \in [Contexts -> {"pending", "ok", "failed"}]
    BY <2>1
  <2>4. initializing' \in [Contexts -> 0 .. WorkerCount]
    BY <2>1
  <2>. QED BY <1>27, <2>2, <2>3, <2>4 DEF TakeInit, shutdownVars
<1>28. ASSUME NEW t \in Secondaries, NEW c \in Contexts, TakeShutdown(t, c) PROVE ContextType'
  BY <1>28 DEF TakeShutdown, runtimeVars, contextVars, shutdownVars
<1>29. ASSUME NEW t \in Secondaries, NEW c \in Contexts, AckFails(t, c) PROVE ContextType'
  BY <1>29 DEF AckFails, runtimeVars, contextVars, shutdownVars
<1>30. ASSUME TakeStop PROVE ContextType'
  BY <1>30 DEF TakeStop, runtimeVars, contextVars, shutdownVars
<1>31. ASSUME StartApp PROVE ContextType'
  BY <1>31 DEF StartApp, runtimeVars, contextVars, shutdownVars
<1>32. ASSUME StartFails PROVE ContextType'
  BY <1>32 DEF StartFails, runtimeVars, contextVars, shutdownVars
<1>33. CASE UNCHANGED vars
  BY <1>33 DEF vars, runtimeVars, contextVars, shutdownVars
<1>34. ASSUME NEW t \in Threads, NEW c \in Contexts, ExitThread(t, c) PROVE ContextType'
  BY <1>34 DEF ExitThread, runtimeVars, contextVars, shutdownVars
<1>. QED
  BY <1>1, <1>2, <1>3, <1>4, <1>5, <1>6, <1>7, <1>8, <1>9, <1>10, <1>11, <1>12, <1>13, <1>14, <1>15, <1>16, <1>17, <1>18, <1>19, <1>20, <1>21, <1>22, <1>23, <1>24, <1>25, <1>26, <1>27, <1>28, <1>29, <1>30, <1>31, <1>32, <1>33, <1>34
     DEF Next, OwnerStep, OwnerCall, AppStep, ThreadStep, SecondaryStep, Runtime

\* Nothing happens to the queues, or to the handlers.
LEMMA RoutedKept ==
    /\ MsgsRouted /\ msgs' = msgs => MsgsRouted'
    /\ AtRouted /\ at' = at => AtRouted'
BY DEF MsgsRouted, AtRouted, MessagesOf, HandlersOf, Handler, Idle

\* The messages and the handlers of a thread.
LEMMA RoutedFacts ==
    ASSUME NEW c \in Contexts
    PROVE  /\ \A type \in {"open", "begin", "ack"} : Msg(type, c) \in MessagesOf(App)
           /\ Msg("stop", None) \in MessagesOf(App)
           /\ \A w \in Secondary : /\ Msg("init", c) \in MessagesOf(<<c, w>>)
                                   /\ Msg("shutdown", c) \in MessagesOf(<<c, w>>)
           /\ \A t \in Threads : Idle \in HandlersOf(t)
           /\ \A t \in Threads : t = App \/ t[1] = c =>
                \A step \in {"notify", "request", "post", "release", "joining", "exit"} :
                  [step |-> step, context |-> c] \in HandlersOf(t)
           /\ [step |-> "init", context |-> c] \in HandlersOf(App)
           /\ [step |-> "finish", context |-> c] \in HandlersOf(App)
BY ThreadFacts DEF MessagesOf, HandlersOf, Handler, Msg

\* A thread with a handler or a message of c is the application thread or one
\* of c's own.
LEMMA RoutedHome ==
    ASSUME Typed, NEW c \in Contexts, NEW t \in Threads
    PROVE  /\ at[t].context = c => t = App \/ t[1] = c
           /\ msgs[t] # <<>> /\ Head(msgs[t]).context = c => t = App \/ t[1] = c
<1>1. t = App \/ (t \in Secondaries /\ t # App)
  BY ThreadFacts
<1>2. ASSUME t \in Secondaries, t # App, at[t].context = c PROVE t[1] = c
  BY <1>2, LifecycleAssumption DEF Typed, AtRouted, HandlersOf, Idle
<1>3. ASSUME t \in Secondaries, t # App, msgs[t] # <<>>, Head(msgs[t]).context = c PROVE t[1] = c
  <2>1. msgs[t] \in Seq(MessagesOf(t))
    BY DEF Typed, MsgsRouted
  <2>2. Head(msgs[t]) \in MessagesOf(t)
    BY <2>1, <1>3
  <2>. QED BY <2>2, <1>3 DEF MessagesOf
<1>. QED BY <1>1, <1>2, <1>3

\* Every step posts messages where they belong.
LEMMA StepMsgsRouted ==
    ASSUME Typed, [Next]_vars
    PROVE  MsgsRouted'
<1>. USE ThreadFacts DEF Typed
<1>1. ASSUME msgs' = msgs PROVE MsgsRouted'
  BY <1>1, RoutedKept
<1>2. ASSUME NEW c \in Contexts, NEW type \in {"open", "begin", "ack"},
             Posted(App, type, c)
      PROVE  MsgsRouted'
  BY <1>2, RoutedFacts, MsgPosted DEF Posted, Msg
<1>3. ASSUME NEW t \in Threads, msgs[t] # <<>>, msgs' = [msgs EXCEPT ![t] = Tail(@)]
      PROVE  MsgsRouted'
  BY <1>3, MsgTaken
<1>4. ASSUME NEW c \in Contexts, Drop(c) PROVE MsgsRouted'
  <2>1. CASE msgs' = msgs
    BY <2>1, <1>1
  <2>2. CASE Posted(App, "stop", None)
    BY <2>2, RoutedFacts, MsgPosted DEF Posted, Msg
  <2>. QED BY <1>4, <2>1, <2>2 DEF Drop
<1>5. ASSUME NEW c \in Contexts, PostBegin(c) PROVE MsgsRouted'
  BY <1>5, <1>1, <1>2 DEF PostBegin
<1>6. ASSUME NEW c \in Contexts, NEW S \in SUBSET Secondary, NEW type \in {"init", "shutdown"},
             msgs[App] # <<>>,
             msgs' = [t \in Threads |->
                        IF t = App THEN Tail(msgs[App])
                        ELSE IF t[1] = c /\ t[2] \in S
                        THEN Append(msgs[t], Msg(type, c)) ELSE msgs[t]]
      PROVE  MsgsRouted'
  <2>1. msgs' = [t \in Threads |-> msgs'[t]]
    BY <1>6
  <2>2. ASSUME NEW t \in Threads PROVE msgs'[t] \in Seq(MessagesOf(t))
    <3>1. msgs[t] \in Seq(MessagesOf(t))
      BY DEF MsgsRouted
    <3>2. CASE t = App
      <4>1. msgs'[t] = Tail(msgs[t])
        BY <3>2, <1>6
      <4>. QED BY <4>1, <3>1, <3>2, <1>6
    <3>3. CASE t # App /\ t[1] = c /\ t[2] \in S
      <4>1. t = <<c, t[2]>> /\ t[2] \in Secondary
        BY <3>3
      <4>2. Msg(type, c) \in MessagesOf(t)
        BY <4>1, RoutedFacts
      <4>3. msgs'[t] = Append(msgs[t], Msg(type, c))
        BY <3>3, <1>6
      <4>. QED BY <4>2, <4>3, <3>1
    <3>4. CASE t # App /\ ~ (t[1] = c /\ t[2] \in S)
      BY <3>1, <3>4, <1>6
    <3>. QED BY <3>2, <3>3, <3>4
  <2>. QED BY <2>1, <2>2 DEF MsgsRouted, MessagesOf
<1>7. ASSUME NEW c \in Contexts, OpenBdev(c) PROVE MsgsRouted'
  <2>1. PICK Lost \in SUBSET (1 .. WorkerCount - 1) :
          msgs' = [t \in Threads |->
                     IF t = App THEN Tail(msgs[App])
                     ELSE IF t[1] = c /\ t[2] \notin Lost
                     THEN Append(msgs[t], [type |-> "init", context |-> c])
                     ELSE msgs[t]]
    BY <1>7 DEF OpenBdev
  <2>2. msgs' = [t \in Threads |->
                   IF t = App THEN Tail(msgs[App])
                   ELSE IF t[1] = c /\ t[2] \in Secondary \ Lost
                   THEN Append(msgs[t], Msg("init", c)) ELSE msgs[t]]
    BY <2>1 DEF Msg
  <2>3. msgs[App] # <<>>
    BY <1>7 DEF OpenBdev, Received
  <2>. QED BY <1>6, <2>2, <2>3
<1>8. ASSUME NEW c \in Contexts, BeginShutdown(c) PROVE MsgsRouted'
  <2>1. PICK Lost \in SUBSET (1 .. WorkerCount - 1) :
          msgs' = [t \in Threads |->
                     IF t = App THEN Tail(msgs[App])
                     ELSE IF t[1] = c /\ t[2] < workers[c] /\ t[2] \notin Lost
                     THEN Append(msgs[t], [type |-> "shutdown", context |-> c])
                     ELSE msgs[t]]
    BY <1>8 DEF BeginShutdown
  <2>2. msgs' = [t \in Threads |->
                   IF t = App THEN Tail(msgs[App])
                   ELSE IF t[1] = c /\ t[2] \in {w \in Secondary \ Lost : w < workers[c]}
                   THEN Append(msgs[t], Msg("shutdown", c)) ELSE msgs[t]]
    BY <2>1 DEF Msg
  <2>3. msgs[App] # <<>>
    BY <1>8 DEF BeginShutdown, Received
  <2>4. {w \in Secondary \ Lost : w < workers[c]} \in SUBSET Secondary
    OBVIOUS
  <2>. QED BY <1>6, <2>2, <2>3, <2>4
<1>9. ASSUME NEW c \in Contexts, NEW t \in Secondaries, TakeShutdown(t, c) PROVE MsgsRouted'
  <2>. DEFINE taken == [msgs EXCEPT ![t] = Tail(@)]
  <2>1. msgs' = [taken EXCEPT ![App] = Append(@, Msg("ack", c))]
    BY <1>9 DEF TakeShutdown, Msg
  <2>2. msgs[t] # <<>> /\ msgs = [u \in Threads |-> msgs[u]]
    BY <1>9 DEF TakeShutdown, Received, MsgsRouted
  <2>3. msgs' = [u \in Threads |-> msgs'[u]]
    BY <2>1, <2>2
  <2>4. msgs'[App] = Append(msgs[App], Msg("ack", c)) /\ msgs'[t] = Tail(msgs[t])
    BY <2>1, <2>2
  <2>5. \A u \in Threads : u # t /\ u # App => msgs'[u] = msgs[u]
    BY <2>1, <2>2
  <2>6. \A u \in Threads : msgs[u] \in Seq(MessagesOf(u))
    BY DEF MsgsRouted
  <2>7. Tail(msgs[t]) \in Seq(MessagesOf(t))
    BY <2>2, <2>6
  <2>8. Append(msgs[App], Msg("ack", c)) \in Seq(MessagesOf(App))
    <3>1. Msg("ack", c) \in MessagesOf(App)
      BY RoutedFacts
    <3>. QED BY <2>6, <3>1
  <2>9. \A u \in Threads : msgs'[u] \in Seq(MessagesOf(u))
    BY <2>4, <2>5, <2>6, <2>7, <2>8
  <2>. QED BY <2>3, <2>9 DEF MsgsRouted, MessagesOf
<1>10. ASSUME NEW c \in Contexts, OwnerStep(c) \/ OwnerCall(c) \/ BdevEvent(c) PROVE MsgsRouted'
  BY <1>10, <1>1, <1>2, <1>4, <1>5
     DEF OwnerStep, OwnerCall, BdevEvent, AcquireShared, AcquireThrows, AcquireFirst,
         Acquired, Claim, SendOpen, SendOpenFails, Join, Constructed, Close,
         RequestByOwner, PostByOwner, CloseReleases
<1>11. ASSUME AppStep PROVE MsgsRouted'
  BY <1>11, <1>1, <1>3, <1>7, <1>8
     DEF AppStep, TakeStop, OpenFails, SetupFails, InitializeApp, TakeAck, NotifyClosed,
         Received
<1>12. ASSUME NEW t \in Threads, ThreadStep(t) PROVE MsgsRouted'
  BY <1>12, <1>1, <1>5 DEF ThreadStep, NotifyInit, RequestOnThread, PostOnThread, ReleaseOnThread,
                           ExitThread
<1>13. ASSUME NEW t \in Secondaries, SecondaryStep(t) PROVE MsgsRouted'
  BY <1>13, <1>3, <1>9 DEF SecondaryStep, TakeInit, AckFails, Received
<1>14. ASSUME Runtime \/ UNCHANGED vars PROVE MsgsRouted'
  BY <1>14, <1>1 DEF Runtime, StartApp, StartFails, vars
<1>. QED
  BY <1>10, <1>11, <1>12, <1>13, <1>14 DEF Next

\* Every thread enters handlers of its own only.
LEMMA StepAtRouted ==
    ASSUME Typed, [Next]_vars
    PROVE  AtRouted'
<1>. USE ThreadFacts DEF Typed
<1>1. ASSUME at' = at PROVE AtRouted'
  BY <1>1, RoutedKept
<1>2. ASSUME NEW t \in Threads, at' = [at EXCEPT ![t] = Idle] PROVE AtRouted'
  BY <1>2, AtMoved DEF HandlersOf
<1>3. ASSUME NEW c \in Contexts, NEW t \in Threads, t = App \/ t[1] = c,
             NEW step \in {"notify", "request", "post", "release", "joining", "exit"},
             GoTo(t, step, c)
      PROVE  AtRouted'
  <2>1. [step |-> step, context |-> c] \in HandlersOf(t)
    BY <1>3, RoutedFacts
  <2>. QED BY <1>3, <2>1, AtMoved DEF GoTo
<1>4. ASSUME NEW c \in Contexts, GoTo(App, "init", c) \/ GoTo(App, "finish", c) PROVE AtRouted'
  <2>1. \A step \in {"init", "finish"} : [step |-> step, context |-> c] \in HandlersOf(App)
    BY RoutedFacts
  <2>. QED BY <1>4, <2>1, AtMoved DEF GoTo
<1>5. ASSUME NEW c \in Contexts, NEW t \in Threads, t = App \/ t[1] = c, Request(t, c)
      PROVE  AtRouted'
  BY <1>2, <1>3, <1>5 DEF Request
<1>6. ASSUME NEW c \in Contexts, NEW t \in Threads, t = App \/ t[1] = c, InitializeWorker(t, c)
      PROVE  AtRouted'
  BY <1>2, <1>3, <1>6 DEF InitializeWorker
<1>7. ASSUME NEW c \in Contexts, NEW left, WorkersStopped(c, left) PROVE AtRouted'
  BY <1>1, <1>4, <1>7 DEF WorkersStopped
<1>8. ASSUME NEW c \in Contexts, OwnerStep(c) \/ OwnerCall(c) \/ BdevEvent(c) PROVE AtRouted'
  BY <1>8, <1>1, <1>5
     DEF OwnerStep, OwnerCall, BdevEvent, AcquireShared, AcquireThrows, AcquireFirst,
         Acquired, Claim, SendOpen, SendOpenFails, Join, Constructed, Close, Drop,
         RequestByOwner, PostByOwner, CloseReleases
<1>9. ASSUME AppStep PROVE AtRouted'
  BY <1>9, <1>1, <1>2, <1>3, <1>4, <1>6, <1>7
     DEF AppStep, TakeStop, OpenFails, SetupFails, OpenBdev, InitializeApp, BeginShutdown,
         TakeAck, NotifyClosed
<1>10. ASSUME NEW t \in Threads, ThreadStep(t) PROVE AtRouted'
  <2>1. PICK c \in Contexts : \/ NotifyInit(t, c)
                              \/ RequestOnThread(t, c)
                              \/ PostOnThread(t, c)
                              \/ ReleaseOnThread(t, c)
                              \/ ExitThread(t, c)
    BY <1>10 DEF ThreadStep
  <2>2. at[t].context = c
    BY <2>1 DEF NotifyInit, RequestOnThread, PostOnThread, ReleaseOnThread, ExitThread
  <2>3. t = App \/ t[1] = c
    BY <2>2, RoutedHome
  <2>. QED
    BY <2>1, <2>3, <1>2, <1>3, <1>5 DEF NotifyInit, RequestOnThread, PostOnThread, ReleaseOnThread,
                                       ExitThread
<1>11. ASSUME NEW t \in Secondaries, SecondaryStep(t) PROVE AtRouted'
  <2>1. PICK c \in Contexts : TakeInit(t, c) \/ TakeShutdown(t, c) \/ AckFails(t, c)
    BY <1>11 DEF SecondaryStep
  <2>2. msgs[t] # <<>> /\ Head(msgs[t]).context = c
    BY <2>1 DEF TakeInit, TakeShutdown, AckFails, Received
  <2>3. t = App \/ t[1] = c
    BY <2>2, RoutedHome
  <2>. QED BY <2>1, <2>3, <1>1, <1>3, <1>6 DEF TakeInit, TakeShutdown, AckFails
<1>12. ASSUME Runtime \/ UNCHANGED vars PROVE AtRouted'
  BY <1>12, <1>1 DEF Runtime, StartApp, StartFails, vars
<1>. QED
  BY <1>8, <1>9, <1>10, <1>11, <1>12 DEF Next

\* Types and routing hold at the start and are kept.
LEMMA TypedInit == Init => Typed
<1>. SUFFICES ASSUME Init PROVE Typed
  OBVIOUS
<1>1. RuntimeType /\ ContextType
  <2>1. RuntimeType
    BY DEF Init, RuntimeType
  <2>2. 0 \in 0 .. WorkerCount
    BY LifecycleAssumption
  <2>3. ContextType
    BY <2>2 DEF Init, ContextType
  <2>. QED BY <2>1, <2>3
<1>2. MsgsRouted
  BY DEF Init, MsgsRouted
<1>3. AtRouted
  BY DEF Init, AtRouted, HandlersOf
<1>. QED BY <1>1, <1>2, <1>3 DEF Typed

\* Every step keeps the types.
LEMMA TypedStep == Typed /\ [Next]_vars => Typed'
BY TypedTypeOK, StepRuntimeType, StepContextType, StepMsgsRouted, StepAtRouted DEF Typed

-----------------------------------------------------------------------------
(* What a step does to the queues and handlers of a context *)

\* The thread of worker w of c.
ThreadOf(c, w) == IF w = 0 THEN App ELSE <<c, w>>

\* The messages of c stay, and its threads stay in their handlers.
SameMail(c) ==
    /\ Opens(c)' = Opens(c)
    /\ Begins(c)' = Begins(c)
    /\ Acks(c)' = Acks(c)
    /\ \A w \in Secondary : Queue(c, w)' = Queue(c, w)
SameWork(c) == \A w \in Workers : Doing(c, w)' = Doing(c, w)

SameFlags(c) ==
    /\ pc'[c] = pc[c]
    /\ init'[c] = init[c]
    /\ last_error'[c] = last_error[c]
    /\ closed'[c] = closed[c]
    /\ requested'[c] = requested[c]
    /\ started'[c] = started[c]
    /\ complete'[c] = complete[c]
    /\ initializing'[c] = initializing[c]
    /\ shutting'[c] = shutting[c]
    /\ descriptor'[c] = descriptor[c]
    /\ workers'[c] = workers[c]
    /\ pools'[c] = pools[c]

Same(c) == SameFlags(c) /\ SameMail(c) /\ SameWork(c)

\* Messages are counted in natural numbers.
LEMMA MailType ==
    ASSUME MsgsRouted
    PROVE  /\ Stops \in Nat
           /\ \A c \in Contexts : Opens(c) \in Nat /\ Begins(c) \in Nat /\ Acks(c) \in Nat
<1>1. msgs[App] \in Seq(MessagesOf(App))
  BY ThreadFacts DEF MsgsRouted
<1>2. \A m : Times(msgs[App], m) \in Nat
  BY <1>1, TimesType
<1>. QED BY <1>2 DEF Opens, Begins, Acks, Stops

\* Nothing is posted and nothing taken.
LEMMA MailKept ==
    ASSUME msgs' = msgs
    PROVE  Stops' = Stops /\ \A c \in Contexts : SameMail(c)
BY DEF Stops, SameMail, Opens, Begins, Acks, Queue

\* Messages are told apart by their kind and their context.
LEMMA MsgEqual ==
    \A type, other, c, d : Msg(type, c) = Msg(other, d) <=> type = other /\ c = d
BY DEF Msg

\* The counts, and what they are after a step.
LEMMA Mail ==
    /\ Stops = Times(msgs[App], Msg("stop", None))
    /\ Stops' = Times(msgs'[App], Msg("stop", None))
    /\ \A c : /\ Opens(c) = Times(msgs[App], Msg("open", c))
             /\ Opens(c)' = Times(msgs'[App], Msg("open", c))
             /\ Begins(c) = Times(msgs[App], Msg("begin", c))
             /\ Begins(c)' = Times(msgs'[App], Msg("begin", c))
             /\ Acks(c) = Times(msgs[App], Msg("ack", c))
             /\ Acks(c)' = Times(msgs'[App], Msg("ack", c))
BY DEF Stops, Opens, Begins, Acks, Times, Occurrences, Positions, Msg, App

\* The application thread is posted a message about c.
LEMMA AppPosted ==
    ASSUME MsgsRouted, NEW c \in Contexts, NEW type \in {"open", "begin", "ack"},
           msgs'[App] = Append(msgs[App], Msg(type, c))
    PROVE  /\ Stops' = Stops
           /\ \A d \in Contexts :
                /\ Opens(d)' = Opens(d) + (IF type = "open" /\ d = c THEN 1 ELSE 0)
                /\ Begins(d)' = Begins(d) + (IF type = "begin" /\ d = c THEN 1 ELSE 0)
                /\ Acks(d)' = Acks(d) + (IF type = "ack" /\ d = c THEN 1 ELSE 0)
<1>1. msgs[App] \in Seq(MessagesOf(App)) /\ Msg(type, c) \in MessagesOf(App)
  BY ThreadFacts, RoutedFacts DEF MsgsRouted
<1>2. \A m : Times(msgs'[App], m)
               = Times(msgs[App], m) + (IF Msg(type, c) = m THEN 1 ELSE 0)
  BY <1>1, TimesAppend
<1>3. \A m : Times(msgs[App], m) \in Nat
  BY <1>1, TimesType
<1>4. Stops' = Stops
  BY <1>2, <1>3, MsgEqual, Mail
<1>5. ASSUME NEW d \in Contexts
      PROVE  /\ Opens(d)' = Opens(d) + (IF type = "open" /\ d = c THEN 1 ELSE 0)
             /\ Begins(d)' = Begins(d) + (IF type = "begin" /\ d = c THEN 1 ELSE 0)
             /\ Acks(d)' = Acks(d) + (IF type = "ack" /\ d = c THEN 1 ELSE 0)
  BY <1>2, <1>3, MsgEqual, Mail
<1>. QED BY <1>4, <1>5

\* It takes a message about c.
LEMMA AppTaken ==
    ASSUME MsgsRouted, NEW c \in Contexts, NEW type \in {"open", "begin", "ack"},
           msgs[App] # <<>>, Head(msgs[App]) = Msg(type, c),
           msgs'[App] = Tail(msgs[App])
    PROVE  /\ Stops' = Stops
           /\ \A d \in Contexts :
                /\ Opens(d) = Opens(d)' + (IF type = "open" /\ d = c THEN 1 ELSE 0)
                /\ Begins(d) = Begins(d)' + (IF type = "begin" /\ d = c THEN 1 ELSE 0)
                /\ Acks(d) = Acks(d)' + (IF type = "ack" /\ d = c THEN 1 ELSE 0)
                /\ Opens(d)' \in Nat /\ Begins(d)' \in Nat /\ Acks(d)' \in Nat
<1>1. msgs[App] \in Seq(MessagesOf(App))
  BY ThreadFacts DEF MsgsRouted
<1>2. \A m : Times(msgs[App], m)
               = Times(msgs'[App], m) + (IF Msg(type, c) = m THEN 1 ELSE 0)
  BY <1>1, TimesTail
<1>3. \A m : Times(msgs'[App], m) \in Nat
  <2>1. msgs'[App] \in Seq(MessagesOf(App))
    BY <1>1
  <2>. QED BY <2>1, TimesType
<1>4. Stops' = Stops
  BY <1>2, <1>3, MsgEqual, Mail
<1>5. ASSUME NEW d \in Contexts
      PROVE  /\ Opens(d) = Opens(d)' + (IF type = "open" /\ d = c THEN 1 ELSE 0)
             /\ Begins(d) = Begins(d)' + (IF type = "begin" /\ d = c THEN 1 ELSE 0)
             /\ Acks(d) = Acks(d)' + (IF type = "ack" /\ d = c THEN 1 ELSE 0)
             /\ Opens(d)' \in Nat /\ Begins(d)' \in Nat /\ Acks(d)' \in Nat
  BY <1>2, <1>3, MsgEqual, Mail
<1>. QED BY <1>4, <1>5

\* StopCallback is about no context.
LEMMA StopMoved ==
    ASSUME MsgsRouted,
           \/ msgs' = [msgs EXCEPT ![App] = Append(@, Msg("stop", None))]
           \/ /\ msgs[App] # <<>>
              /\ Head(msgs[App]) = Msg("stop", None)
              /\ msgs' = [msgs EXCEPT ![App] = Tail(@)]
    PROVE  /\ \A c \in Contexts : SameMail(c)
           /\ msgs' # [msgs EXCEPT ![App] = Append(@, Msg("stop", None))] =>
                Stops # 0
<1>1. msgs[App] \in Seq(MessagesOf(App))
  BY ThreadFacts DEF MsgsRouted
<1>2. \A m : Times(msgs[App], m) \in Nat
  BY <1>1, TimesType
<1>3. \A c \in Contexts, w \in Secondary : Queue(c, w)' = Queue(c, w)
  BY ThreadFacts DEF Queue, MsgsRouted
<1>4. CASE msgs' = [msgs EXCEPT ![App] = Append(@, Msg("stop", None))]
  <2>1. msgs'[App] = Append(msgs[App], Msg("stop", None)) /\ Msg("stop", None) \in MessagesOf(App)
    BY <1>4, ThreadFacts DEF MsgsRouted, MessagesOf
  <2>2. \A m : Times(msgs'[App], m)
                 = Times(msgs[App], m) + (IF Msg("stop", None) = m THEN 1 ELSE 0)
    BY <1>1, <2>1, TimesAppend
  <2>. QED BY <1>2, <1>3, <1>4, <2>2, MsgEqual, Mail DEF SameMail
<1>5. CASE /\ msgs[App] # <<>>
           /\ Head(msgs[App]) = Msg("stop", None)
           /\ msgs' = [msgs EXCEPT ![App] = Tail(@)]
  <2>1. msgs'[App] = Tail(msgs[App])
    BY <1>5, ThreadFacts DEF MsgsRouted
  <2>2. \A m : Times(msgs[App], m)
                 = Times(msgs'[App], m) + (IF Msg("stop", None) = m THEN 1 ELSE 0)
    BY <1>1, <1>5, <2>1, TimesTail
  <2>3. \A m : Times(msgs'[App], m) \in Nat
    <3>1. msgs'[App] \in Seq(MessagesOf(App))
      BY <1>1, <1>5, <2>1
    <3>. QED BY <3>1, TimesType
  <2>4. \A c \in Contexts : SameMail(c)
    BY <1>2, <1>3, <2>2, <2>3, MsgEqual, Mail DEF SameMail
  <2>5. Stops # 0
    BY <2>2, <2>3, Mail
  <2>. QED BY <2>4, <2>5
<1>. QED BY <1>4, <1>5

\* No thread moves.
LEMMA WorkKept ==
    ASSUME at' = at
    PROVE  \A c \in Contexts : SameWork(c)
BY DEF SameWork, Doing

\* What a secondary's thread does, and where the application thread is.
LEMMA WorkFacts ==
    ASSUME AtRouted, NEW c \in Contexts
    PROVE  /\ \A w \in Workers :
                Doing(c, w) \in {"idle", "init", "notify", "request", "post", "release",
                                 "joining", "finish", "exit"}
           /\ \A w \in Secondary : Doing(c, w) \notin {"init", "finish"}
           /\ \A t \in Threads : (t = App \/ t[1] = c) /\ at[t].context = c =>
                Doing(c, t[2]) = at[t].step /\ ThreadOf(c, t[2]) = t
           /\ \A w \in Workers : Doing(c, w) # "idle" =>
                at[ThreadOf(c, w)] = [step |-> Doing(c, w), context |-> c]
           /\ at[App] = Idle => Doing(c, 0) = "idle"
           /\ \A t \in Secondaries : t[1] = c => Doing(c, t[2]) = at[t].step
<1>. USE LifecycleAssumption, ThreadFacts
<1>1. at[App] \in {Idle} \cup Handler
  BY DEF AtRouted, HandlersOf
<1>2. \A w \in Secondary :
        at[<<c, w>>] \in {Idle} \cup [step : {"notify", "request", "post", "release", "joining",
                                             "exit"},
                                     context : {c}]
  BY DEF AtRouted, HandlersOf
<1>3. Idle.step = "idle" /\ Idle.context = None
  BY DEF Idle
<1>4. \A w \in Secondary : /\ Doing(c, w) \in {"idle", "notify", "request", "post", "release", "joining",
                                              "exit"}
                           /\ Doing(c, w) # "idle" =>
                                at[<<c, w>>] = [step |-> Doing(c, w), context |-> c]
  BY <1>2, <1>3 DEF Doing
<1>5. /\ Doing(c, 0) \in {"idle", "init", "notify", "request", "post", "release",
                          "joining", "finish", "exit"}
      /\ Doing(c, 0) # "idle" => at[App] = [step |-> Doing(c, 0), context |-> c]
      /\ at[App].context = c => Doing(c, 0) = at[App].step
      /\ at[App] = Idle => Doing(c, 0) = "idle"
  BY <1>1, <1>3 DEF Doing, Handler
<1>6. \A t \in Threads : (t = App \/ t[1] = c) /\ at[t].context = c =>
        Doing(c, t[2]) = at[t].step /\ ThreadOf(c, t[2]) = t
  <2>. SUFFICES ASSUME NEW t \in Threads, t = App \/ t[1] = c, at[t].context = c
                PROVE  Doing(c, t[2]) = at[t].step /\ ThreadOf(c, t[2]) = t
    OBVIOUS
  <2>1. CASE t = App
    BY <2>1, <1>5 DEF App, ThreadOf
  <2>2. CASE t \in Secondaries
    BY <2>2 DEF Doing, ThreadOf
  <2>. QED BY <2>1, <2>2
<1>7. \A t \in Secondaries : t[1] = c => Doing(c, t[2]) = at[t].step
  BY DEF Doing
<1>8. \A w \in Workers : Doing(c, w) # "idle" =>
        at[ThreadOf(c, w)] = [step |-> Doing(c, w), context |-> c]
  BY <1>4, <1>5 DEF ThreadOf
<1>. QED BY <1>4, <1>5, <1>6, <1>7, <1>8

\* A thread that serves c moves on.
LEMMA WorkMoved ==
    ASSUME AtRouted, NEW c \in Contexts, NEW w \in Workers,
           at[ThreadOf(c, w)] = Idle \/ at[ThreadOf(c, w)].context = c,
           NEW h, h = Idle \/ h.context = c,
           at' = [at EXCEPT ![ThreadOf(c, w)] = h]
    PROVE  /\ Doing(c, w)' = h.step
           /\ \A v \in Workers : v # w => Doing(c, v)' = Doing(c, v)
           /\ \A d \in Contexts : d # c => SameWork(d)
<1>. USE LifecycleAssumption, ThreadFacts
<1>1. Idle.step = "idle" /\ Idle.context = None
  BY DEF Idle
<1>2. at = [t \in Threads |-> at[t]]
  BY DEF AtRouted
<1>3. CASE w = 0
  <2>1. at'[App] = h /\ \A t \in Threads : t # App => at'[t] = at[t]
    BY <1>2, <1>3 DEF ThreadOf
  <2>2. Doing(c, 0)' = h.step
    BY <2>1, <1>1 DEF Doing
  <2>3. ASSUME NEW d \in Contexts, NEW v \in Secondary PROVE Doing(d, v)' = Doing(d, v)
    <3>1. <<d, v>> \in Threads /\ <<d, v>> # App /\ v # 0
      OBVIOUS
    <3>. QED BY <2>1, <3>1 DEF Doing
  <2>4. \A d \in Contexts : d # c => Doing(d, 0)' = Doing(d, 0)
    BY <2>1, <1>1, <1>3 DEF Doing, ThreadOf
  <2>. QED BY <2>2, <2>3, <2>4, <1>3 DEF SameWork
<1>4. CASE w \in Secondary
  <2>1. ThreadOf(c, w) = <<c, w>> /\ <<c, w>> \in Threads
    BY <1>4 DEF ThreadOf
  <2>2. at'[<<c, w>>] = h /\ \A t \in Threads : t # <<c, w>> => at'[t] = at[t]
    BY <1>2, <2>1
  <2>3. Doing(c, w)' = h.step
    BY <2>2, <1>4 DEF Doing
  <2>4. \A d \in Contexts : Doing(d, 0)' = Doing(d, 0)
    BY <2>2, <1>4 DEF Doing
  <2>5. \A d \in Contexts, v \in Secondary : d # c \/ v # w => Doing(d, v)' = Doing(d, v)
    BY <2>2 DEF Doing
  <2>. QED BY <2>3, <2>4, <2>5, <1>4 DEF SameWork
<1>. QED BY <1>3, <1>4

\* What the queue of a secondary can be, and how it changes.
LEMMA QueueShapes ==
    ASSUME NEW c
    PROVE  LET I == Msg("init", c)
               S == Msg("shutdown", c)
           IN /\ I # S
              /\ <<>> \notin ToInit(c) /\ <<>> \notin ToShut(c)
              /\ <<I>> \in ToInit(c) /\ <<I>> \notin ToShut(c)
              /\ <<S>> \in ToShut(c) /\ <<S>> \notin ToInit(c)
              /\ <<I, S>> \in ToInit(c) /\ <<I, S>> \in ToShut(c)
              /\ \A q \in ToInit(c) : q # <<>> /\ Head(q) = I
              /\ \A q \in ToInit(c) : Tail(q) = IF q \in ToShut(c) THEN <<S>> ELSE <<>>
              /\ \A q \in ToShut(c) : Head(q) = S => Tail(q) = <<>> /\ q \notin ToInit(c)
              /\ Append(<<>>, I) = <<I>> /\ Append(<<>>, S) = <<S>>
              /\ Append(<<I>>, S) = <<I, S>>
              /\ \A q \in ToInit(c) : q \notin ToShut(c) => q = <<I>>
              /\ \A q \in ToShut(c) : q \notin ToInit(c) => q = <<S>>
              /\ \A q \in ToShut(c) : Head(q) = I => q \in ToInit(c)
<1>. DEFINE I == Msg("init", c)
            S == Msg("shutdown", c)
<1>1. I # S
  BY DEF Msg
<1>. HIDE DEF I, S
<1>2. ToInit(c) = {<<I>>, <<I, S>>} /\ ToShut(c) = {<<S>>, <<I, S>>}
  BY DEF ToInit, ToShut, I, S
<1>3. <<I>> # <<>> /\ <<S>> # <<>> /\ <<I, S>> # <<>> /\ <<I>> # <<I, S>> /\ <<S>> # <<I, S>>
        /\ <<I>> # <<S>>
  BY <1>1
<1>4. Tail(<<I>>) = <<>> /\ Tail(<<S>>) = <<>> /\ Tail(<<I, S>>) = <<S>>
  OBVIOUS
<1>5. Head(<<I>>) = I /\ Head(<<S>>) = S /\ Head(<<I, S>>) = I
  OBVIOUS
<1>6. Append(<<>>, I) = <<I>> /\ Append(<<>>, S) = <<S>> /\ Append(<<I>>, S) = <<I, S>>
  <2>1. Append(<<>>, I) = <<I>> /\ Append(<<>>, S) = <<S>>
    OBVIOUS
  <2>. QED BY <2>1, AppendPair
<1>7. QED
  BY <1>1, <1>2, <1>3, <1>4, <1>5, <1>6 DEF I, S

\* The pending workers and those to stop, and who they are after a step.
LEMMA PendingIs ==
    ASSUME NEW c
    PROVE  /\ \A w : w \in Pending(c) <=>
                /\ w \in Workers
                /\ IF w = 0 THEN Doing(c, 0) = "init" ELSE Queue(c, w) \in ToInit(c)
           /\ \A w : w \in Pending(c)' <=>
                /\ w \in Workers
                /\ IF w = 0 THEN Doing(c, 0)' = "init" ELSE Queue(c, w)' \in ToInit(c)
           /\ \A w : w \in ToStop(c) <=> w \in Secondary /\ Queue(c, w) \in ToShut(c)
           /\ \A w : w \in ToStop(c)' <=> w \in Secondary /\ Queue(c, w)' \in ToShut(c)
<1>1. \A w : w \in Pending(c)' <=>
                /\ w \in Workers
                /\ IF w = 0 THEN Doing(c, 0)' = "init" ELSE Queue(c, w)' \in ToInit(c)
  BY DEF Pending, Workers, ToInit, Msg
<1>2. \A w : w \in ToStop(c)' <=> w \in Secondary /\ Queue(c, w)' \in ToShut(c)
  BY DEF ToStop, Secondary, ToShut, Msg
<1>. QED BY <1>1, <1>2 DEF Pending, ToStop

\* What is pending follows from the queues and the handlers.
LEMMA PendingKept ==
    ASSUME NEW c \in Contexts, SameMail(c), SameWork(c)
    PROVE  Pending(c)' = Pending(c) /\ ToStop(c)' = ToStop(c)
<1>1. \A w \in Workers : Doing(c, w)' = Doing(c, w)
  BY DEF SameWork
<1>2. \A w \in Secondary : Queue(c, w)' = Queue(c, w)
  BY DEF SameMail
<1>3. \A w \in Workers : w \in Pending(c)' <=> w \in Pending(c)
  BY <1>1, <1>2, ThreadFacts DEF Pending, ToInit, Msg
<1>4. \A w \in Secondary : w \in ToStop(c)' <=> w \in ToStop(c)
  BY <1>2 DEF ToStop, ToShut, Msg
<1>5. Pending(c) \subseteq Workers /\ Pending(c)' \subseteq Workers
  BY DEF Pending, Workers
<1>6. ToStop(c) \subseteq Secondary /\ ToStop(c)' \subseteq Secondary
  BY DEF ToStop, Secondary
<1>. QED BY <1>3, <1>4, <1>5, <1>6

\* A context that a step leaves alone keeps what is said of it.
LEMMA SameContext ==
    ASSUME NEW c \in Contexts, Same(c)
    PROVE  /\ ContextInv(c) => ContextInv(c)'
           /\ TeardownSound(c) => TeardownSound(c)'
<1>1. Pending(c)' = Pending(c) /\ ToStop(c)' = ToStop(c)
  BY PendingKept DEF Same
<1>2. \A w \in Workers : Doing(c, w)' = Doing(c, w)
  BY DEF Same, SameWork
<1>3. Doing(c, 0)' = Doing(c, 0) /\ \A w \in Secondary : Doing(c, w)' = Doing(c, w)
  BY <1>2, ThreadFacts
<1>. USE <1>1, <1>2, <1>3 DEF Same, SameFlags, SameMail
<1>4. Fresh(c)' <=> Fresh(c)
  BY DEF Fresh, Workers, Secondary
<1>5. Still(c)' <=> Still(c)
  BY DEF Still, Workers, Secondary
<1>6. BeforeOpen(c) => BeforeOpen(c)'
  BY <1>4 DEF BeforeOpen
<1>7. TeardownOnce(c) => TeardownOnce(c)'
  BY DEF TeardownOnce, Workers
<1>8. InitCounted(c) => InitCounted(c)'
  BY DEF InitCounted, Workers, Secondary, ToInit, ToShut, Msg
<1>9. TeardownSound(c) => TeardownSound(c)'
  BY <1>5 DEF TeardownSound, Live, Workers, Secondary
<1>. QED BY <1>6, <1>7, <1>8, <1>9 DEF ContextInv

-----------------------------------------------------------------------------
(* Steps of the owners *)

Early == {"new", "starting", "claim", "send"}

\* The fields of c that only SPDK threads write, apart from last_error_.
SameInner(c) ==
    /\ init'[c] = init[c]
    /\ started'[c] = started[c]
    /\ initializing'[c] = initializing[c]
    /\ shutting'[c] = shutting[c]
    /\ descriptor'[c] = descriptor[c]
    /\ workers'[c] = workers[c]
    /\ pools'[c] = pools[c]

\* The owner of c goes from place to place while no message is posted: nothing
\* of c is pending, and only request_shutdown's first caller gets to post.
LEMMA OwnerMoves ==
    ASSUME NEW c \in Contexts, ContextInv(c), SameMail(c), SameWork(c), SameInner(c),
           last_error'[c] = last_error[c],
           pc[c] # "opening" \/ init[c] # "pending",
           pc'[c] \in Early => /\ pc[c] \in Early
                               /\ complete'[c] = complete[c] /\ closed'[c] = closed[c],
           closed[c] => closed'[c],
           pc'[c] = "post" => ~ requested[c] /\ requested'[c],
           pc'[c] # "post" => requested'[c] = requested[c],
           requested[c] \in BOOLEAN, requested'[c] \in BOOLEAN
    PROVE  ContextInv(c)'
<1>1. Pending(c)' = Pending(c)
  BY PendingKept
<1>2. \A w \in Workers : Doing(c, w)' = Doing(c, w)
  BY DEF SameWork
<1>3. Opens(c) = 0
  BY DEF ContextInv, BeforeOpen, Fresh
<1>4. Pending(c) = {}
  BY DEF ContextInv, InitCounted
<1>. USE <1>1, <1>2, <1>3, <1>4 DEF SameInner, SameMail
<1>5. BeforeOpen(c)'
  BY DEF ContextInv, BeforeOpen, Fresh, Early, Workers, Secondary
<1>6. TeardownOnce(c)'
  BY DEF ContextInv, TeardownOnce, Workers
<1>7. InitCounted(c)'
  <2>1. \A w \in Secondary :
         /\ Queue(c, w)' \in {<<>>} \cup ToInit(c) \cup ToShut(c)
         /\ Queue(c, w)' \in ToShut(c) => started'[c]
    BY DEF ContextInv, InitCounted
  <2>2. init'[c] = "ok" /\ ~ requested'[c] /\ ~ closed'[c] => pools'[c] = Workers
    BY DEF ContextInv, InitCounted
  <2>3. \A w \in Workers :
         /\ Doing(c, w)' = "notify" => init'[c] # "pending"
         /\ Doing(c, w)' = "request" => init'[c] = "failed"
    BY DEF ContextInv, InitCounted
  <2>4. initializing'[c] = Cardinality(Pending(c)')
    BY DEF ContextInv, InitCounted
  <2>. QED BY <2>1, <2>2, <2>3, <2>4 DEF InitCounted, Workers, Secondary, ToInit, ToShut, Msg
<1>. QED BY <1>5, <1>6, <1>7 DEF ContextInv

\* The steps of owners and of the runtime's thread that post nothing.
QuietOwner(c) ==
    \/ AcquireShared(c) \/ AcquireThrows(c) \/ AcquireFirst(c)
    \/ Acquired(c) \/ Claim(c) \/ SendOpenFails(c) \/ Join(c)
    \/ Constructed(c) \/ Close(c) \/ RequestByOwner(c) \/ CloseReleases(c)

\* Such a step leaves the threads alone.
LEMMA QuietOwnerEffect ==
    ASSUME Typed, NEW c \in Contexts, QuietOwner(c), NEW d \in Contexts
    PROVE  /\ msgs' = msgs /\ at' = at
           /\ SameMail(d) /\ SameWork(d) /\ SameInner(d) /\ last_error'[d] = last_error[d]
           /\ d # c => Same(d)
<1>. USE DEF Typed, RuntimeType, ContextType
<1>1. msgs' = msgs /\ at' = at
  BY DEF QuietOwner, AcquireShared, AcquireThrows, AcquireFirst, Acquired, Claim,
         SendOpenFails, Join, Constructed, Close, RequestByOwner, CloseReleases
<1>2. SameMail(d) /\ SameWork(d)
  BY <1>1, MailKept, WorkKept
<1>3. SameInner(d) /\ last_error'[d] = last_error[d]
  BY DEF SameInner, QuietOwner, AcquireShared, AcquireThrows, AcquireFirst, Acquired, Claim,
         SendOpenFails, Join, Constructed, Close, RequestByOwner, CloseReleases,
         contextVars, shutdownVars
<1>4. CASE d # c
  <2>1. pc'[d] = pc[d] /\ closed'[d] = closed[d] /\ requested'[d] = requested[d]
          /\ complete'[d] = complete[d]
    BY <1>4 DEF QuietOwner, AcquireShared, AcquireThrows, AcquireFirst, Acquired, Claim,
         SendOpenFails, Join, Constructed, Close, RequestByOwner, CloseReleases,
         contextVars, shutdownVars
  <2>2. Same(d)
    BY <1>2, <1>3, <2>1 DEF Same, SameFlags, SameInner
  <2>. QED BY <1>1, <1>2, <1>3, <2>2
<1>. QED BY <1>1, <1>2, <1>3, <1>4

\* It keeps the invariant of every context.
LEMMA QuietOwnerStep ==
    ASSUME IInv, Typed', NEW c \in Contexts, QuietOwner(c), NEW d \in Contexts
    PROVE  ContextInv(d)'
<1>. USE DEF IInv, Typed, RuntimeType, ContextType
<1>1. SameMail(d) /\ SameWork(d) /\ SameInner(d) /\ last_error'[d] = last_error[d]
  BY QuietOwnerEffect
<1>2. CASE d # c
  BY <1>2, QuietOwnerEffect, SameContext
<1>3. CASE d = c
  <2>1. pc[c] # "opening" \/ init[c] # "pending"
    BY DEF QuietOwner, AcquireShared, AcquireThrows, AcquireFirst, Acquired, Claim,
         SendOpenFails, Join, Constructed, Close, RequestByOwner, CloseReleases
  <2>2. CASE RequestByOwner(c)
    <3>1. /\ pc'[c] \in {"post", "wait"}
          /\ closed'[c] = closed[c]
          /\ pc'[c] = "post" => ~ requested[c] /\ requested'[c]
          /\ pc'[c] # "post" => requested'[c] = requested[c]
      BY <2>2 DEF RequestByOwner, StartsShutdown
    <3>. QED BY <3>1, <1>1, <1>3, <2>1, OwnerMoves DEF Early
  <2>3. CASE Constructed(c) \/ Close(c) \/ CloseReleases(c) \/ Join(c) \/ SendOpenFails(c)
             \/ AcquireThrows(c)
    <3>1. /\ pc'[c] \in {"open", "close", "request", "wait", "drop", "dead"}
          /\ closed[c] => closed'[c]
          /\ requested'[c] = requested[c]
      BY <2>3 DEF AcquireThrows, SendOpenFails, Join, Constructed, Close, CloseReleases,
                  shutdownVars
    <3>. QED BY <3>1, <1>1, <1>3, <2>1, OwnerMoves DEF Early
  <2>4. CASE AcquireShared(c) \/ AcquireFirst(c) \/ Acquired(c) \/ Claim(c)
    <3>1. /\ pc[c] \in Early /\ pc'[c] \in Early \cup {"dead", "drop"}
          /\ closed'[c] = closed[c]
          /\ complete'[c] = complete[c]
          /\ requested'[c] = requested[c]
      BY <2>4 DEF AcquireShared, AcquireFirst, Acquired, Claim, shutdownVars, Early
    <3>. QED BY <3>1, <1>1, <1>3, <2>1, OwnerMoves DEF Early
  <2>. QED BY <2>2, <2>3, <2>4 DEF QuietOwner
<1>. QED BY <1>2, <1>3

\* Drop posts at most StopCallback, which concerns no context.
LEMMA DropEffect ==
    ASSUME Typed, NEW c \in Contexts, Drop(c), NEW d \in Contexts
    PROVE  /\ SameMail(d) /\ SameWork(d) /\ SameInner(d) /\ last_error'[d] = last_error[d]
           /\ closed'[d] = closed[d] /\ requested'[d] = requested[d]
           /\ complete'[d] = complete[d]
           /\ d # c => Same(d)
<1>. USE DEF Typed, RuntimeType, ContextType
<1>1. SameMail(d)
  BY MailKept, StopMoved DEF Drop, Posted, Msg
<1>2. SameWork(d)
  BY WorkKept DEF Drop
<1>3. SameInner(d) /\ last_error'[d] = last_error[d] /\ closed'[d] = closed[d]
        /\ requested'[d] = requested[d] /\ complete'[d] = complete[d]
  BY DEF SameInner, Drop, contextVars, shutdownVars
<1>4. CASE d # c
  <2>1. pc'[d] = pc[d]
    BY <1>4 DEF Drop
  <2>2. Same(d)
    BY <1>1, <1>2, <1>3, <2>1 DEF Same, SameFlags, SameInner
  <2>. QED BY <1>1, <1>2, <1>3, <2>2
<1>. QED BY <1>1, <1>2, <1>3, <1>4

\* An owner that drops its pointer is done with its context.
LEMMA DropStep ==
    ASSUME IInv, Typed', NEW c \in Contexts, Drop(c), NEW d \in Contexts
    PROVE  ContextInv(d)'
<1>. USE DEF IInv, Typed, RuntimeType, ContextType
<1>1. CASE d # c
  BY <1>1, DropEffect, SameContext
<1>2. CASE d = c
  <2>1. pc[c] = "drop" /\ pc'[c] \in {"join", "dead"}
    BY DEF Drop
  <2>. QED BY <2>1, <1>2, DropEffect, OwnerMoves DEF Early
<1>. QED BY <1>1, <1>2

\* The constructor posts OpenCallback for a context no thread knows yet.
LEMMA SendOpenEffect ==
    ASSUME Typed, NEW c \in Contexts, SendOpen(c), NEW d \in Contexts
    PROVE  /\ \A w \in Secondary : Queue(d, w)' = Queue(d, w)
           /\ d = c => Opens(d)' = Opens(d) + 1
           /\ Begins(d)' = Begins(d) /\ Acks(d)' = Acks(d) /\ Stops' = Stops
           /\ SameWork(d) /\ SameInner(d) /\ last_error'[d] = last_error[d]
           /\ closed'[d] = closed[d] /\ requested'[d] = requested[d]
           /\ complete'[d] = complete[d]
           /\ d # c => Same(d)
<1>. USE DEF Typed, RuntimeType, ContextType
<1>1. msgs' = [msgs EXCEPT ![App] = Append(@, Msg("open", c))]
  BY DEF SendOpen, Posted, Msg
<1>2. /\ msgs'[App] = Append(msgs[App], Msg("open", c))
      /\ \A t \in Threads : t # App => msgs'[t] = msgs[t]
  BY <1>1, ThreadFacts DEF MsgsRouted
<1>3. \A w \in Secondary : Queue(d, w)' = Queue(d, w)
  BY <1>2, ThreadFacts DEF Queue
<1>4. /\ d # c => Opens(d)' = Opens(d)
      /\ d = c => Opens(d)' = Opens(d) + 1
      /\ Begins(d)' = Begins(d)
      /\ Acks(d)' = Acks(d) /\ Stops' = Stops
  <2>1. Opens(d) \in Nat /\ Begins(d) \in Nat /\ Acks(d) \in Nat
    BY MailType
  <2>2. /\ Opens(d)' = Opens(d) + (IF "open" = "open" /\ d = c THEN 1 ELSE 0)
        /\ Begins(d)' = Begins(d) + (IF "open" = "begin" /\ d = c THEN 1 ELSE 0)
        /\ Acks(d)' = Acks(d) + (IF "open" = "ack" /\ d = c THEN 1 ELSE 0)
        /\ Stops' = Stops
    BY <1>2, AppPosted
  <2>. QED BY <2>1, <2>2
<1>5. SameWork(d)
  BY WorkKept DEF SendOpen
<1>6. SameInner(d) /\ last_error'[d] = last_error[d] /\ closed'[d] = closed[d]
        /\ requested'[d] = requested[d] /\ complete'[d] = complete[d]
  BY DEF SameInner, SendOpen, contextVars, shutdownVars
<1>7. CASE d # c
  <2>1. pc'[d] = pc[d]
    BY <1>7 DEF SendOpen
  <2>2. Same(d)
    BY <1>3, <1>4, <1>5, <1>6, <1>7, <2>1 DEF Same, SameFlags, SameInner, SameMail
  <2>. QED BY <1>3, <1>4, <1>5, <1>6, <2>2
<1>. QED BY <1>3, <1>4, <1>5, <1>6, <1>7

\* The context is still untouched when the message is posted.
LEMMA SendOpenStep ==
    ASSUME IInv, Typed', NEW c \in Contexts, SendOpen(c), NEW d \in Contexts
    PROVE  ContextInv(d)'
<1>. USE DEF IInv, Typed, RuntimeType, ContextType
<1>1. /\ \A w \in Secondary : Queue(d, w)' = Queue(d, w)
      /\ d = c => Opens(d)' = Opens(d) + 1
      /\ Begins(d)' = Begins(d) /\ Acks(d)' = Acks(d)
      /\ SameWork(d) /\ SameInner(d) /\ last_error'[d] = last_error[d]
      /\ closed'[d] = closed[d] /\ requested'[d] = requested[d]
      /\ complete'[d] = complete[d]
  BY SendOpenEffect
<1>2. CASE d # c
  BY <1>2, SendOpenEffect, SameContext
<1>3. CASE d = c
  <2>1. pc[c] = "send" /\ pc'[c] = "opening"
    BY DEF SendOpen
  <2>2. Fresh(c) /\ Opens(c) = 0
    BY <2>1 DEF ContextInv, BeforeOpen
  <2>3. \A w \in Workers : Doing(c, w)' = Doing(c, w) /\ Doing(c, w) = "idle"
    BY <2>2, <1>1, <1>3 DEF SameWork, Fresh
  <2>4. Fresh(c)'
    <3>1. \A w \in Secondary : Queue(c, w)' = <<>>
      BY ONLY <2>2, <1>1, <1>3 DEF Fresh
    <3>. QED BY ONLY <2>2, <2>3, <3>1, <1>1, <1>3 DEF Fresh, SameInner, Workers, Secondary
  <2>5. Pending(c)' = {}
    <3>1. \A w \in Secondary : Queue(c, w)' \notin ToInit(c)
      <4>1. \A w \in Secondary : Queue(c, w)' = <<>>
        BY ONLY <2>4 DEF Fresh, Secondary
      <4>2. <<>> \notin ToInit(c)
        BY QueueShapes
      <4>. QED BY ONLY <4>1, <4>2
    <3>. QED BY <2>3, <3>1, ThreadFacts DEF Pending, ToInit, Msg
  <2>6. BeforeOpen(c)'
    BY <2>1, <2>2, <2>4, <1>1, <1>3 DEF BeforeOpen
  <2>7. TeardownOnce(c)'
    BY <2>1, <2>4, <2>3, <1>1, <1>3 DEF TeardownOnce, Fresh, Workers
  <2>8. Cardinality(Pending(c)') = 0
    BY <2>5, FS_EmptySet
  <2>9. InitCounted(c)'
    <3>1. \A w \in Secondary : Queue(c, w)' = <<>> /\ <<>> \notin ToShut(c)
      BY <2>4, QueueShapes DEF Fresh, Secondary
    <3>2. initializing'[c] = 0 /\ init'[c] = "pending"
      BY <2>4 DEF Fresh
    <3>. QED BY <3>1, <3>2, <2>3, <2>5, <2>8
             DEF InitCounted, Workers, Secondary, ToInit, ToShut, Msg
  <2>. QED BY <2>6, <2>7, <2>9, <1>3 DEF ContextInv
<1>. QED BY <1>2, <1>3

\* What posting BeginShutdownCallback, or failing to, does.
LEMMA PostEffect ==
    ASSUME MsgsRouted, NEW c \in Contexts, PostBegin(c), ContextType
    PROVE  /\ Stops' = Stops
           /\ \A d \in Contexts : d # c =>
                /\ SameMail(d)
                /\ last_error'[d] = last_error[d]
                /\ complete'[d] = complete[d]
           /\ Opens(c)' = Opens(c) /\ Acks(c)' = Acks(c)
           /\ \A w \in Secondary : Queue(c, w)' = Queue(c, w)
           /\ \/ RuntimeAvailable /\ Begins(c)' = Begins(c) + 1
                   /\ last_error'[c] = last_error[c] /\ complete'[c] = complete[c]
              \/ (~ RuntimeAvailable \/ "send" \in Failures)
                   /\ Begins(c)' = Begins(c) /\ last_error'[c] /\ complete'[c]
<1>. USE DEF ContextType
<1>1. CASE /\ RuntimeAvailable
           /\ Posted(App, "begin", c)
           /\ UNCHANGED <<last_error, complete>>
  <2>1. msgs' = [msgs EXCEPT ![App] = Append(@, Msg("begin", c))]
    BY <1>1 DEF Posted, Msg
  <2>2. /\ msgs'[App] = Append(msgs[App], Msg("begin", c))
        /\ \A t \in Threads : t # App => msgs'[t] = msgs[t]
    BY <2>1, ThreadFacts DEF MsgsRouted
  <2>3. \A d \in Contexts, w \in Secondary : Queue(d, w)' = Queue(d, w)
    BY <2>2, ThreadFacts DEF Queue
  <2>4. /\ Stops' = Stops
        /\ \A d \in Contexts :
             /\ Opens(d)' = Opens(d)
             /\ d # c => Begins(d)' = Begins(d)
             /\ d = c => Begins(d)' = Begins(d) + 1
             /\ Acks(d)' = Acks(d)
    <3>1. \A d \in Contexts : Opens(d) \in Nat /\ Begins(d) \in Nat /\ Acks(d) \in Nat
      BY MailType
    <3>2. /\ Stops' = Stops
          /\ \A d \in Contexts :
             /\ Opens(d)' = Opens(d) + (IF "begin" = "open" /\ d = c THEN 1 ELSE 0)
             /\ Begins(d)' = Begins(d) + (IF "begin" = "begin" /\ d = c THEN 1 ELSE 0)
             /\ Acks(d)' = Acks(d) + (IF "begin" = "ack" /\ d = c THEN 1 ELSE 0)
      BY <2>2, AppPosted
    <3>. QED BY <3>1, <3>2
  <2>. QED BY <1>1, <2>3, <2>4 DEF SameMail
<1>2. CASE /\ ~ RuntimeAvailable \/ "send" \in Failures
           /\ last_error' = [last_error EXCEPT ![c] = TRUE]
           /\ complete' = [complete EXCEPT ![c] = TRUE]
           /\ UNCHANGED msgs
  <2>1. Stops' = Stops /\ \A d \in Contexts : SameMail(d)
    BY <1>2, MailKept
  <2>2. \A d \in Contexts : d # c => last_error'[d] = last_error[d] /\ complete'[d] = complete[d]
    BY <1>2
  <2>3. last_error'[c] /\ complete'[c]
    BY <1>2
  <2>. QED BY <1>2, <2>1, <2>2, <2>3 DEF SameMail
<1>. QED BY <1>1, <1>2 DEF PostBegin

\* close posts the teardown it requested.
LEMMA PostByOwnerEffect ==
    ASSUME Typed, NEW c \in Contexts, PostByOwner(c), NEW d \in Contexts
    PROVE  /\ PostBegin(c) /\ pc[c] = "post" /\ pc' = [pc EXCEPT ![c] = "wait"]
           /\ SameWork(d) /\ SameInner(d)
           /\ closed'[d] = closed[d] /\ requested'[d] = requested[d]
           /\ d # c => Same(d)
<1>. USE DEF Typed, RuntimeType, ContextType
<1>1. PostBegin(c) /\ pc[c] = "post" /\ pc' = [pc EXCEPT ![c] = "wait"]
  BY DEF PostByOwner
<1>2. /\ \A e \in Contexts : e # c =>
           /\ SameMail(e)
           /\ last_error'[e] = last_error[e]
           /\ complete'[e] = complete[e]
      /\ Opens(c)' = Opens(c) /\ Acks(c)' = Acks(c)
      /\ \A w \in Secondary : Queue(c, w)' = Queue(c, w)
      /\ Begins(c)' = Begins(c) + 1 \/ Begins(c)' = Begins(c)
  BY <1>1, PostEffect
<1>3. SameWork(d)
  BY WorkKept DEF PostByOwner
<1>4. SameInner(d) /\ closed'[d] = closed[d] /\ requested'[d] = requested[d]
  BY DEF SameInner, PostByOwner
<1>5. CASE d # c
  <2>1. Same(d)
    BY <1>1, <1>2, <1>3, <1>4, <1>5 DEF Same, SameFlags, SameInner
  <2>. QED BY <1>1, <1>3, <1>4, <2>1
<1>. QED BY <1>1, <1>3, <1>4, <1>5

\* Nothing else is on its way to post it.
LEMMA PostByOwnerStep ==
    ASSUME IInv, Typed', NEW c \in Contexts, PostByOwner(c), NEW d \in Contexts
    PROVE  ContextInv(d)'
<1>. USE DEF IInv, Typed, RuntimeType, ContextType
<1>1. PostBegin(c) /\ pc[c] = "post" /\ pc' = [pc EXCEPT ![c] = "wait"]
  BY PostByOwnerEffect
<1>2. /\ \A e \in Contexts : e # c =>
           /\ SameMail(e)
           /\ last_error'[e] = last_error[e]
           /\ complete'[e] = complete[e]
      /\ Opens(c)' = Opens(c) /\ Acks(c)' = Acks(c)
      /\ \A w \in Secondary : Queue(c, w)' = Queue(c, w)
      /\ Begins(c)' = Begins(c) + 1 \/ Begins(c)' = Begins(c)
  BY <1>1, PostEffect
<1>3. SameWork(d)
  BY PostByOwnerEffect
<1>4. SameInner(d) /\ closed'[d] = closed[d] /\ requested'[d] = requested[d]
  BY PostByOwnerEffect
<1>5. CASE d # c
  BY <1>5, PostByOwnerEffect, SameContext
<1>6. CASE d = c
  <2>1. \A w \in Workers : Doing(c, w)' = Doing(c, w)
    BY <1>3, <1>6 DEF SameWork
  <2>2. Opens(c) = 0 /\ Pending(c) = {}
    BY <1>1 DEF ContextInv, BeforeOpen, InitCounted
  <2>3. Pending(c)' = {}
    BY <2>1, <2>2, <1>2, ThreadFacts DEF Pending, ToInit, Workers, Secondary, Msg
  <2>4. /\ requested[c] /\ Begins(c) = 0 /\ ~ started[c]
        /\ \A w \in Workers : Doing(c, w) # "post"
    BY <1>1 DEF ContextInv, TeardownOnce
  <2>5. BeforeOpen(c)'
    BY <1>1, <1>2, <2>2 DEF BeforeOpen
  <2>6. TeardownOnce(c)'
    BY <1>1, <1>2, <1>4, <1>6, <2>1, <2>4 DEF TeardownOnce, SameInner, Workers
  <2>7. InitCounted(c)'
    <3>1. Cardinality(Pending(c)') = 0 /\ initializing'[c] = 0
      <4>1. Cardinality(Pending(c)') = 0 /\ Cardinality(Pending(c)) = 0
        BY ONLY <2>2, <2>3, FS_EmptySet
      <4>2. initializing[c] = Cardinality(Pending(c))
        BY DEF ContextInv, InitCounted
      <4>. QED BY ONLY <4>1, <4>2, <1>4, <1>6 DEF SameInner
    <3>2. \A w \in Secondary :
           /\ Queue(c, w)' \in {<<>>} \cup ToInit(c) \cup ToShut(c)
           /\ Queue(c, w)' \in ToShut(c) => started'[c]
      BY <1>2, <1>4, <1>6 DEF ContextInv, InitCounted, SameInner
    <3>3. \A w \in Workers :
           /\ Doing(c, w)' = "notify" => init'[c] # "pending"
           /\ Doing(c, w)' = "request" => init'[c] = "failed"
      BY <2>1, <1>4, <1>6 DEF ContextInv, InitCounted, SameInner
    <3>. QED BY <3>1, <3>2, <3>3, <2>3, <2>4, <1>4, <1>6
             DEF InitCounted, Workers, Secondary, ToInit, ToShut, Msg
  <2>. QED BY <2>5, <2>6, <2>7, <1>6 DEF ContextInv
<1>. QED BY <1>5, <1>6

-----------------------------------------------------------------------------
(* Steps of threads inside a handler *)

\* A thread of c moves from a step other than the initialization: to the
\* request only after a failure, to the post only as the first caller, and it
\* posts from there only.
LEMMA ThreadMoves ==
    ASSUME NEW c \in Contexts, NEW w \in Workers, ContextInv(c), SameInner(c),
           Opens(c)' = Opens(c), Acks(c)' = Acks(c), Begins(c) \in Nat,
           \/ Begins(c)' = Begins(c)
           \/ Begins(c)' = Begins(c) + 1 /\ Doing(c, w) = "post",
           \A v \in Secondary : Queue(c, v)' = Queue(c, v),
           \A v \in Workers : v # w => Doing(c, v)' = Doing(c, v),
           Doing(c, w) # "init", Doing(c, w)' \notin {"init", "notify"},
           Doing(c, w) # "idle" \/ descriptor[c],
           pc'[c] = pc[c], closed'[c] = closed[c],
           last_error[c] => last_error'[c],
           Doing(c, w)' = "request" => init[c] = "failed",
           Doing(c, w)' = "post" => ~ requested[c] /\ requested'[c],
           Doing(c, w)' # "post" => requested'[c] = requested[c],
           requested'[c] # requested[c] => init[c] = "failed" \/ last_error'[c],
           requested[c] \in BOOLEAN, requested'[c] \in BOOLEAN
    PROVE  ContextInv(c)'
<1>1. ~ Fresh(c) /\ Opens(c) = 0 /\ pc[c] \notin Early
  BY DEF ContextInv, BeforeOpen, Fresh, Early
<1>2. Pending(c)' = Pending(c)
  <2>1. Doing(c, 0)' = "init" <=> Doing(c, 0) = "init"
    BY ThreadFacts
  <2>2. ASSUME NEW v \in Workers PROVE v \in Pending(c)' <=> v \in Pending(c)
    BY <2>1, ThreadFacts, PendingIs
  <2>. QED BY <2>2, PendingIs
<1>3. BeforeOpen(c)'
  BY <1>1 DEF BeforeOpen, Early
<1>4. TeardownOnce(c)'
  <2>1. CASE Doing(c, w)' = "post"
    <3>1. \A v \in Workers : Doing(c, v) # "post"
      BY <2>1 DEF ContextInv, TeardownOnce
    <3>2. \A v \in Workers : Doing(c, v)' = "post" => v = w
      BY <3>1
    <3>3. /\ Begins(c)' = 0 /\ ~ started'[c] /\ pc'[c] # "post" /\ requested'[c]
      BY <2>1, <3>1 DEF ContextInv, TeardownOnce, SameInner
    <3>. QED BY <3>2, <3>3 DEF TeardownOnce, Workers
  <2>2. CASE Doing(c, w)' # "post" /\ Begins(c)' = Begins(c)
    <3>1. \A v \in Workers : Doing(c, v)' = "post" => Doing(c, v) = "post"
      BY <2>2
    <3>. QED BY <2>2, <3>1 DEF ContextInv, TeardownOnce, SameInner, Workers
  <2>3. CASE Doing(c, w)' # "post" /\ Begins(c)' = Begins(c) + 1 /\ Doing(c, w) = "post"
    <3>1. \A v \in Workers : Doing(c, v)' # "post"
      BY <2>3 DEF ContextInv, TeardownOnce
    <3>2. Begins(c) = 0 /\ ~ started[c] /\ requested[c] /\ pc[c] # "post"
      BY <2>3 DEF ContextInv, TeardownOnce
    <3>3. Begins(c)' = 1
      BY <2>3, <3>2
    <3>4. ~ started'[c] /\ requested'[c] /\ pc'[c] # "post"
      BY <2>3, <3>2 DEF SameInner
    <3>. QED BY <3>1, <3>3, <3>4 DEF TeardownOnce, Workers
  <2>. QED BY <2>1, <2>2, <2>3
<1>5. InitCounted(c)'
  <2>1. \A v \in Secondary :
         /\ Queue(c, v)' \in {<<>>} \cup ToInit(c) \cup ToShut(c)
         /\ Queue(c, v)' \in ToShut(c) => started'[c]
    BY DEF ContextInv, InitCounted, SameInner
  <2>2. init'[c] = "ok" /\ ~ requested'[c] /\ ~ closed'[c] => pools'[c] = Workers
    BY DEF ContextInv, InitCounted, SameInner
  <2>3. \A v \in Workers :
         /\ Doing(c, v)' = "notify" => init'[c] # "pending"
         /\ Doing(c, v)' = "request" => init'[c] = "failed"
    BY DEF ContextInv, InitCounted, SameInner
  <2>4. initializing'[c] = Cardinality(Pending(c)')
    BY <1>2 DEF ContextInv, InitCounted, SameInner
  <2>5. Pending(c)' # {} => init'[c] = "pending" /\ pc'[c] = "opening"
    BY <1>2 DEF ContextInv, InitCounted, SameInner
  <2>6. Pending(c)' # {} /\ ~ last_error'[c] =>
          ~ requested'[c] /\ Workers \subseteq pools'[c] \cup Pending(c)'
    BY <1>2 DEF ContextInv, InitCounted, SameInner
  <2>. QED BY <2>1, <2>2, <2>3, <2>4, <2>5, <2>6
           DEF InitCounted, Workers, Secondary, ToInit, ToShut, Msg
<1>. QED BY <1>3, <1>4, <1>5 DEF ContextInv

\* The steps inside request_shutdown, after a notification and after an
\* acknowledgement, and bdev events.
InHandler(t, c) ==
    \/ NotifyInit(t, c)
    \/ RequestOnThread(t, c)
    \/ PostOnThread(t, c)
    \/ ReleaseOnThread(t, c)
    \/ t = App /\ NotifyClosed(c)
    \/ ExitThread(t, c)
    \/ t = App /\ BdevEvent(c)

\* Where such a step takes its thread.
HandlerMove(t, c, step) ==
    \/ /\ \/ NotifyInit(t, c) \/ ReleaseOnThread(t, c)
          \/ (t = App /\ NotifyClosed(c)) \/ ExitThread(t, c)
       /\ step \in {"idle", "joining", "request"}
       /\ step = "request" => init[c] = "failed"
    \/ /\ RequestOnThread(t, c) \/ (t = App /\ BdevEvent(c))
       /\ IF StartsShutdown(c) THEN step = "post" ELSE step = "idle"
    \/ PostOnThread(t, c) /\ step = "release"

\* It moves one thread of one context.
LEMMA InHandlerEffect ==
    ASSUME Typed, NEW c \in Contexts, NEW t \in Threads, NEW d \in Contexts,
           InHandler(t, c)
    PROVE  /\ t[2] \in Workers
           /\ at[t] = Idle \/ at[t].context = c
           /\ Doing(c, t[2]) = at[t].step
           /\ HandlerMove(t, c, Doing(c, t[2])')
           /\ \A v \in Workers : v # t[2] => Doing(c, v)' = Doing(c, v)
           /\ \E h : (h = Idle \/ h.context = c) /\ at' = [at EXCEPT ![t] = h]
                     /\ h.step = Doing(c, t[2])'
           /\ SameInner(d) /\ pc'[d] = pc[d] /\ closed'[d] = closed[d]
           /\ d # c => Same(d)
<1>. USE DEF Typed, RuntimeType, ContextType, InHandler
<1>. DEFINE w == t[2]
<1>1. /\ at[t].context = c \/ (t = App /\ at[t].step = "idle")
      /\ SameInner(d) /\ pc'[d] = pc[d] /\ closed'[d] = closed[d]
  <2>1. CASE NotifyInit(t, c)
    BY <2>1 DEF NotifyInit, SameInner, contextVars, shutdownVars
  <2>2. CASE RequestOnThread(t, c)
    BY <2>2 DEF RequestOnThread, SameInner, contextVars
  <2>3. CASE PostOnThread(t, c)
    BY <2>3 DEF PostOnThread, SameInner
  <2>4. CASE ReleaseOnThread(t, c)
    BY <2>4 DEF ReleaseOnThread, SameInner, contextVars, shutdownVars
  <2>5. CASE t = App /\ NotifyClosed(c)
    BY <2>5 DEF NotifyClosed, SameInner, contextVars, shutdownVars
  <2>7. CASE ExitThread(t, c)
    BY <2>7 DEF ExitThread, SameInner, contextVars, shutdownVars
  <2>6. CASE t = App /\ BdevEvent(c)
    BY <2>6 DEF BdevEvent, AtLoop, SameInner
  <2>. QED BY <2>1, <2>2, <2>3, <2>4, <2>5, <2>6, <2>7
<1>2. t = App \/ t[1] = c
  BY <1>1, RoutedHome
<1>3. ThreadOf(c, w) = t /\ w \in Workers
  BY <1>2, ThreadFacts DEF ThreadOf, App
<1>4. at[t] = Idle \/ at[t].context = c
  <2>1. CASE t = App /\ at[t].step = "idle"
    <3>1. at[App] \in {Idle} \cup Handler
      BY ThreadFacts DEF AtRouted, HandlersOf
    <3>. QED BY <2>1, <3>1 DEF Handler
  <2>. QED BY <1>1, <2>1
<1>5. Doing(c, w) = at[t].step
  <2>1. CASE at[t].context = c
    BY <2>1, <1>2, WorkFacts
  <2>2. CASE t = App /\ at[t] = Idle
    <3>1. Doing(c, 0) = "idle" /\ w = 0 /\ Idle.step = "idle"
      BY <2>2, WorkFacts DEF App, Idle
    <3>. QED BY <2>2, <3>1
  <2>. QED BY <1>1, <1>4, <2>1, <2>2
<1>6. PICK h : /\ h = Idle \/ h.context = c
               /\ at' = [at EXCEPT ![t] = h]
               /\ HandlerMove(t, c, h.step)
  <2>. USE DEF HandlerMove
  <2>. DEFINE H(s) == [step |-> s, context |-> c]
  <2>1. Idle.step = "idle" /\ \A s : H(s).step = s /\ H(s).context = c
    BY DEF Idle
  <2>2. CASE NotifyInit(t, c)
    <3>1. CASE init[c] = "failed"
      <4>1. at' = [at EXCEPT ![t] = H("request")]
        BY <2>2, <3>1 DEF NotifyInit, GoTo
      <4>. QED BY <4>1, <2>1, <2>2, <3>1
    <3>2. CASE init[c] # "failed"
      <4>1. at' = [at EXCEPT ![t] = Idle]
        BY <2>2, <3>2 DEF NotifyInit
      <4>. QED BY <4>1, <2>1, <2>2
    <3>. QED BY <3>1, <3>2
  <2>3. CASE RequestOnThread(t, c) \/ (t = App /\ BdevEvent(c))
    <3>1. Request(t, c)
      BY <2>3 DEF RequestOnThread, BdevEvent
    <3>2. CASE StartsShutdown(c)
      <4>1. at' = [at EXCEPT ![t] = H("post")]
        BY <3>1, <3>2 DEF Request, GoTo
      <4>. QED BY <4>1, <2>1, <2>3, <3>2
    <3>3. CASE ~ StartsShutdown(c)
      <4>1. at' = [at EXCEPT ![t] = Idle]
        BY <3>1, <3>3 DEF Request
      <4>. QED BY <4>1, <2>1, <2>3, <3>3
    <3>. QED BY <3>2, <3>3
  <2>4. CASE PostOnThread(t, c)
    <3>1. at' = [at EXCEPT ![t] = H("release")]
      BY <2>4 DEF PostOnThread, GoTo
    <3>. QED BY <3>1, <2>1, <2>4
  <2>5. CASE ReleaseOnThread(t, c)
    <3>1. at' = [at EXCEPT ![t] = H("joining")] \/ at' = [at EXCEPT ![t] = Idle]
      BY <2>5 DEF ReleaseOnThread, GoTo
    <3>. QED BY <3>1, <2>1, <2>5
  <2>6. CASE t = App /\ NotifyClosed(c)
    <3>1. at' = [at EXCEPT ![t] = Idle]
      BY <2>6 DEF NotifyClosed
    <3>. QED BY <3>1, <2>1, <2>6
  <2>7. CASE ExitThread(t, c)
    <3>1. at' = [at EXCEPT ![t] = Idle]
      BY <2>7 DEF ExitThread
    <3>. QED BY <3>1, <2>1, <2>7
  <2>. QED BY <2>2, <2>3, <2>4, <2>5, <2>6, <2>7
<1>. HIDE DEF w
<1>7. /\ Doing(c, w)' = h.step
      /\ \A v \in Workers : v # w => Doing(c, v)' = Doing(c, v)
      /\ d # c => SameWork(d)
  <2>1. at' = [at EXCEPT ![ThreadOf(c, w)] = h] /\ AtRouted
        /\ (at[ThreadOf(c, w)] = Idle \/ at[ThreadOf(c, w)].context = c)
    BY <1>3, <1>4, <1>6
  <2>2. h = Idle \/ h.context = c
    BY <1>6
  <2>. QED BY <1>3, <2>1, <2>2, WorkMoved
<1>8. ASSUME d # c PROVE Same(d)
  <2>1. SameMail(d) /\ last_error'[d] = last_error[d] /\ complete'[d] = complete[d]
    <3>1. CASE PostOnThread(t, c)
      BY <3>1, <1>8, PostEffect DEF PostOnThread
    <3>2. CASE NotifyInit(t, c) \/ ReleaseOnThread(t, c) \/ ExitThread(t, c)
               \/ (t = App /\ NotifyClosed(c))\/ RequestOnThread(t, c) \/ (t = App /\ BdevEvent(c))
      <4>1. msgs' = msgs
        BY <3>2 DEF NotifyInit, RequestOnThread, ReleaseOnThread, NotifyClosed, ExitThread, BdevEvent
      <4>2. last_error'[d] = last_error[d] /\ complete'[d] = complete[d]
        BY <3>2, <1>8 DEF NotifyInit, RequestOnThread, ReleaseOnThread, NotifyClosed, ExitThread, BdevEvent,
                          contextVars, shutdownVars
      <4>. QED BY <4>1, <4>2, MailKept
    <3>. QED BY <3>1, <3>2
  <2>2. requested'[d] = requested[d]
    BY <1>8 DEF NotifyInit, RequestOnThread, PostOnThread, ReleaseOnThread, NotifyClosed, ExitThread, BdevEvent,
                Request, shutdownVars
  <2>3. Same(d)
    BY <1>1, <1>7, <1>8, <2>1, <2>2 DEF Same, SameFlags, SameInner
  <2>. QED BY <2>3
<1>9. HandlerMove(t, c, Doing(c, w)')
  BY <1>6, <1>7
<1>. QED BY <1>1, <1>3, <1>4, <1>5, <1>6, <1>7, <1>8, <1>9 DEF w

\* It keeps the invariant of every context.
LEMMA ThreadStepInv ==
    ASSUME IInv, Typed', NEW c \in Contexts, NEW t \in Threads, NEW d \in Contexts,
           InHandler(t, c)
    PROVE  ContextInv(d)'
<1>. USE DEF IInv, Typed, RuntimeType, ContextType, InHandler
<1>. DEFINE w == t[2]
<1>1. /\ w \in Workers
      /\ Doing(c, w) = at[t].step
      /\ HandlerMove(t, c, Doing(c, w)')
      /\ \A v \in Workers : v # w => Doing(c, v)' = Doing(c, v)
      /\ SameInner(d) /\ pc'[d] = pc[d] /\ closed'[d] = closed[d]
  BY InHandlerEffect
<1>. HIDE DEF w
<1>2. CASE d # c
  BY <1>2, InHandlerEffect, SameContext
<1>3. CASE d = c
  <2>1. Begins(c) \in Nat
    BY MailType
  <2>2. CASE PostOnThread(t, c) /\ Doing(c, w)' = "release"
    <3>1. Doing(c, w) = "post" /\ PostBegin(c) /\ requested'[c] = requested[c]
      BY <2>2, <1>1 DEF PostOnThread
    <3>2. /\ Opens(c)' = Opens(c) /\ Acks(c)' = Acks(c)
          /\ \A v \in Secondary : Queue(c, v)' = Queue(c, v)
          /\ Begins(c)' = Begins(c) + 1 \/ Begins(c)' = Begins(c)
          /\ last_error[c] => last_error'[c]
      BY <3>1, PostEffect
    <3>. QED BY <1>1, <1>3, <2>1, <2>2, <3>1, <3>2, ThreadMoves
  <2>3. CASE /\ \/ NotifyInit(t, c) \/ ReleaseOnThread(t, c)
                \/ (t = App /\ NotifyClosed(c)) \/ ExitThread(t, c)
             /\ Doing(c, w)' \in {"idle", "joining", "request"}
             /\ Doing(c, w)' = "request" => init[c] = "failed"
    <3>1. SameMail(c)
      <4>1. msgs' = msgs
        BY <2>3 DEF NotifyInit, ReleaseOnThread, NotifyClosed, ExitThread
      <4>. QED BY <4>1, MailKept
    <3>2. /\ last_error[c] => last_error'[c]
          /\ Doing(c, w) # "init"
          /\ Doing(c, w) # "idle"
          /\ requested'[c] = requested[c]
      BY <2>3, <1>1 DEF NotifyInit, ReleaseOnThread, NotifyClosed, ExitThread, contextVars, shutdownVars
    <3>. QED BY <1>1, <1>3, <2>1, <2>3, <3>1, <3>2, ThreadMoves DEF SameMail
  <2>4. CASE /\ RequestOnThread(t, c) \/ (t = App /\ BdevEvent(c))
             /\ IF StartsShutdown(c) THEN Doing(c, w)' = "post" ELSE Doing(c, w)' = "idle"
    <3>1. SameMail(c)
      <4>1. msgs' = msgs
        BY <2>4 DEF RequestOnThread, BdevEvent
      <4>. QED BY <4>1, MailKept
    <3>2. /\ last_error[c] => last_error'[c]
          /\ Doing(c, w) # "init"
          /\ Doing(c, w) # "idle" \/ descriptor[c]
          /\ Doing(c, w) = "request" \/ last_error'[c]
      BY <2>4, <1>1 DEF RequestOnThread, BdevEvent, contextVars, AtLoop
    <3>3. /\ Doing(c, w)' = "post" => ~ requested[c] /\ requested'[c]
          /\ Doing(c, w)' # "post" => requested'[c] = requested[c]
      <4>1. requested' = [requested EXCEPT ![c] = @ \/ StartsShutdown(c)]
        BY <2>4 DEF RequestOnThread, BdevEvent, Request
      <4>. QED BY <4>1, <2>4 DEF StartsShutdown
    <3>4. requested'[c] # requested[c] => init[c] = "failed" \/ last_error'[c]
      BY <3>2, <1>1 DEF ContextInv, InitCounted
    <3>5. Doing(c, w)' \in {"post", "idle"}
      BY <2>4
    <3>. QED BY <1>1, <1>3, <2>1, <3>1, <3>2, <3>3, <3>4, <3>5, ThreadMoves DEF SameMail
  <2>. QED BY <1>1, <2>2, <2>3, <2>4 DEF HandlerMove
<1>. QED BY <1>2, <1>3

-----------------------------------------------------------------------------
(* Steps that take a message *)

\* The runtime's thread starts and ends SPDK without touching a context.
LEMMA RuntimeStep ==
    ASSUME IInv, NEW d \in Contexts, StartApp \/ StartFails \/ TakeStop \/ UNCHANGED vars
    PROVE  Same(d)
<1>. USE DEF IInv, Typed
<1>1. SameMail(d)
  <2>1. CASE StartApp \/ StartFails \/ UNCHANGED vars
    BY <2>1, MailKept DEF StartApp, StartFails, vars
  <2>2. CASE TakeStop
    BY <2>2, StopMoved DEF TakeStop, Received, Msg
  <2>. QED BY <2>1, <2>2
<1>2. SameWork(d)
  BY WorkKept DEF StartApp, StartFails, TakeStop, vars
<1>3. SameFlags(d)
  BY DEF SameFlags, StartApp, StartFails, TakeStop, vars, contextVars, shutdownVars
<1>. QED BY <1>1, <1>2, <1>3 DEF Same

\* The application thread takes a message only between handlers.
LEMMA AppReceives ==
    ASSUME Typed, NEW c \in Contexts, NEW type \in {"open", "begin", "ack"},
           Received(App, type, c)
    PROVE  /\ at[App] = Idle
           /\ \A d \in Contexts : Doing(d, 0) = "idle"
           /\ msgs[App] # <<>> /\ Head(msgs[App]) = Msg(type, c)
           /\ type = "open" => Opens(c) # 0
           /\ type = "begin" => Begins(c) # 0
           /\ type = "ack" => Acks(c) # 0
<1>1. at[App] = Idle
  <2>1. at[App] \in {Idle} \cup Handler
    BY ThreadFacts DEF Typed, AtRouted, HandlersOf
  <2>. QED BY <2>1 DEF Received, AtLoop, Handler
<1>2. \A d \in Contexts : Doing(d, 0) = "idle"
  BY <1>1, WorkFacts DEF Typed
<1>3. msgs[App] # <<>> /\ Head(msgs[App]) = Msg(type, c)
  BY DEF Received, Msg
<1>4. msgs[App] \in Seq(MessagesOf(App))
  BY ThreadFacts DEF Typed, MsgsRouted
<1>5. /\ Times(Tail(msgs[App]), Msg(type, c)) \in Nat
      /\ Times(msgs[App], Msg(type, c)) = Times(Tail(msgs[App]), Msg(type, c)) + 1
  <2>1. Tail(msgs[App]) \in Seq(MessagesOf(App))
    BY <1>3, <1>4
  <2>2. Times(Tail(msgs[App]), Msg(type, c)) \in Nat
    BY <2>1, TimesType
  <2>3. Times(msgs[App], Msg(type, c)) = Times(Tail(msgs[App]), Msg(type, c))
          + (IF Msg(type, c) = Msg(type, c) THEN 1 ELSE 0)
    BY <1>3, <1>4, TimesTail
  <2>. QED BY <2>2, <2>3
<1>. QED BY <1>1, <1>2, <1>3, <1>5, Mail

\* So does a secondary, whose messages are those of its own context.
LEMMA SecondaryReceives ==
    ASSUME Typed, NEW c \in Contexts, NEW t \in Secondaries, NEW type,
           Received(t, type, c)
    PROVE  /\ t = <<c, t[2]>> /\ t = ThreadOf(c, t[2])
           /\ t[2] \in Secondary /\ t[2] \in Workers /\ t # App /\ t \in Threads
           /\ at[t] = Idle
           /\ Doing(c, t[2]) = "idle"
           /\ Queue(c, t[2]) = msgs[t]
           /\ Queue(c, t[2]) # <<>> /\ Head(Queue(c, t[2])) = Msg(type, c)
<1>1. t \in Threads /\ t # App /\ t[2] \in Secondary /\ t[2] \in Workers /\ t = <<t[1], t[2]>>
        /\ t[2] # 0
  BY ThreadFacts
<1>2. msgs[t] # <<>> /\ Head(msgs[t]) = Msg(type, c)
  BY DEF Received, Msg
<1>3. t[1] = c
  BY <1>1, <1>2, RoutedHome DEF Msg
<1>4. at[t] = Idle
  BY <1>1 DEF Typed, AtRouted, HandlersOf, Received, AtLoop
<1>5. Doing(c, t[2]) = "idle"
  BY <1>1, <1>3, <1>4 DEF Doing, Idle
<1>. QED BY <1>1, <1>2, <1>3, <1>4, <1>5 DEF Queue, ThreadOf

\* OpenCallback finds a context that no thread has touched.
LEMMA OpenReceived ==
    ASSUME IInv, NEW c \in Contexts, Received(App, "open", c),
           msgs'[App] = Tail(msgs[App])
    PROVE  /\ Fresh(c) /\ pc[c] = "opening" /\ Opens(c)' = 0 /\ Begins(c)' = 0 /\ Acks(c)' = 0
           /\ \A w \in Workers : Doing(c, w) = "idle"
           /\ \A w \in Secondary : Queue(c, w) = <<>>
           /\ \A d \in Contexts : d # c =>
                Opens(d)' = Opens(d) /\ Begins(d)' = Begins(d) /\ Acks(d)' = Acks(d)
<1>. USE DEF IInv, Typed
<1>1. Opens(c) # 0 /\ msgs[App] # <<>> /\ Head(msgs[App]) = Msg("open", c)
  BY AppReceives
<1>2. Opens(c) = 1 /\ Fresh(c) /\ pc[c] = "opening"
  BY <1>1 DEF ContextInv, BeforeOpen
<1>3. \A d \in Contexts :
        /\ Opens(d) = Opens(d)' + (IF "open" = "open" /\ d = c THEN 1 ELSE 0)
        /\ Begins(d) = Begins(d)' + (IF "open" = "begin" /\ d = c THEN 1 ELSE 0)
        /\ Acks(d) = Acks(d)' + (IF "open" = "ack" /\ d = c THEN 1 ELSE 0)
        /\ Opens(d)' \in Nat /\ Begins(d)' \in Nat /\ Acks(d)' \in Nat
  BY <1>1, AppTaken
<1>4. Opens(c)' = 0 /\ Begins(c)' = 0 /\ Acks(c)' = 0
  BY <1>2, <1>3 DEF Fresh
<1>5. \A d \in Contexts : d # c =>
        Opens(d)' = Opens(d) /\ Begins(d)' = Begins(d) /\ Acks(d)' = Acks(d)
  BY <1>3
<1>. QED BY <1>2, <1>4, <1>5 DEF Fresh

\* What a failing open, and a failing setup, leave.
LEMMA OpenFailsEffect ==
    ASSUME IInv, NEW c \in Contexts, OpenFails(c) \/ SetupFails(c)
    PROVE  /\ Fresh(c) /\ pc[c] = "opening" /\ Opens(c)' = 0 /\ Begins(c)' = 0 /\ Acks(c)' = 0
           /\ Doing(c, 0)' = "notify"
           /\ \A w \in Secondary : Doing(c, w)' = "idle" /\ Queue(c, w)' = <<>>
           /\ pc' = pc /\ init'[c] = "failed" /\ last_error'[c]
           /\ closed' = closed /\ requested' = requested /\ started' = started
           /\ complete' = complete /\ initializing' = initializing /\ shutting' = shutting
           /\ pools' = pools
           /\ \A d \in Contexts : d # c => Same(d)
<1>. USE DEF IInv, Typed, ContextType
<1>1. Received(App, "open", c) /\ msgs' = [msgs EXCEPT ![App] = Tail(@)]
        /\ PublishFailure(c) /\ GoTo(App, "notify", c)
  BY DEF OpenFails, SetupFails
<1>2. msgs'[App] = Tail(msgs[App]) /\ \A t \in Threads : t # App => msgs'[t] = msgs[t]
  BY <1>1, ThreadFacts DEF MsgsRouted
<1>3. \A d \in Contexts, w \in Secondary : Queue(d, w)' = Queue(d, w)
  BY <1>2, ThreadFacts DEF Queue
<1>4. /\ Fresh(c) /\ pc[c] = "opening" /\ Opens(c)' = 0 /\ Begins(c)' = 0 /\ Acks(c)' = 0
      /\ \A w \in Workers : Doing(c, w) = "idle"
      /\ \A w \in Secondary : Queue(c, w) = <<>>
      /\ \A d \in Contexts : d # c =>
           Opens(d)' = Opens(d) /\ Begins(d)' = Begins(d) /\ Acks(d)' = Acks(d)
  BY <1>1, <1>2, OpenReceived
<1>5. /\ Doing(c, 0)' = "notify"
      /\ \A v \in Workers : v # 0 => Doing(c, v)' = Doing(c, v)
      /\ \A d \in Contexts : d # c => SameWork(d)
  <2>. DEFINE h == [step |-> "notify", context |-> c]
  <2>1. h.step = "notify" /\ h.context = c
    OBVIOUS
  <2>2. at' = [at EXCEPT ![ThreadOf(c, 0)] = h]
    BY <1>1 DEF GoTo, ThreadOf
  <2>3. at[ThreadOf(c, 0)] = Idle /\ 0 \in Workers
    BY <1>1, AppReceives, ThreadFacts DEF ThreadOf
  <2>. HIDE DEF h
  <2>. QED BY <2>1, <2>2, <2>3, WorkMoved
<1>6. /\ pc' = pc /\ init'[c] = "failed" /\ last_error'[c]
      /\ closed' = closed /\ requested' = requested /\ started' = started
      /\ complete' = complete /\ initializing' = initializing /\ shutting' = shutting
      /\ pools' = pools
  BY <1>1 DEF OpenFails, SetupFails, PublishFailure, shutdownVars
<1>7. ASSUME NEW d \in Contexts, d # c PROVE Same(d)
  <2>1. init'[d] = init[d] /\ last_error'[d] = last_error[d] /\ descriptor'[d] = descriptor[d]
          /\ workers'[d] = workers[d]
    BY <1>1, <1>7 DEF OpenFails, SetupFails, PublishFailure, contextVars
  <2>. QED BY <1>3, <1>4, <1>5, <1>6, <1>7, <2>1 DEF Same, SameFlags, SameMail
<1>. QED BY <1>3, <1>4, <1>5, <1>6, <1>7, ThreadFacts

\* They publish the failure before anything could be pending.
LEMMA OpenFailsStep ==
    ASSUME IInv, NEW c \in Contexts, OpenFails(c) \/ SetupFails(c), NEW d \in Contexts
    PROVE  ContextInv(d)'
<1>. USE DEF IInv, Typed
<1>1. CASE d # c
  BY <1>1, OpenFailsEffect, SameContext
<1>2. CASE d = c
  <2>. USE OpenFailsEffect
  <2>1. \A w \in Workers : Doing(c, w)' \in {"idle", "notify"}
    BY ThreadFacts
  <2>2. Pending(c)' = {}
    <3>1. \A w \in Secondary : Queue(c, w)' \notin ToInit(c)
      BY QueueShapes
    <3>2. Doing(c, 0)' # "init"
      OBVIOUS
    <3>3. ASSUME NEW w \in Workers PROVE w \notin Pending(c)'
      BY <3>1, <3>2, ThreadFacts, PendingIs
    <3>. QED BY <3>3, PendingIs
  <2>3. Cardinality(Pending(c)') = 0
    BY <2>2, FS_EmptySet
  <2>4. BeforeOpen(c)'
    BY DEF BeforeOpen
  <2>5. TeardownOnce(c)'
    BY <2>1 DEF TeardownOnce, Workers, Fresh
  <2>6. InitCounted(c)'
    <3>1. \A w \in Secondary : Queue(c, w)' = <<>> /\ <<>> \notin ToShut(c)
      BY QueueShapes
    <3>2. initializing'[c] = 0
      BY DEF Fresh
    <3>. QED BY <3>1, <3>2, <2>1, <2>2, <2>3
             DEF InitCounted, Workers, Secondary, ToInit, ToShut, Msg
  <2>. QED BY <1>2, <2>4, <2>5, <2>6 DEF ContextInv
<1>. QED BY <1>1, <1>2

\* on_runtime_ready: the secondaries outside Lost are told to initialize.
LEMMA OpenBdevEffect ==
    ASSUME IInv, NEW c \in Contexts, OpenBdev(c)
    PROVE  \E Lost \in SUBSET Secondary :
             /\ Lost # {} => "send" \in Failures /\ last_error'[c]
             /\ Lost = {} => ~ last_error'[c]
             /\ Fresh(c) /\ pc[c] = "opening" /\ Opens(c)' = 0 /\ Begins(c)' = 0 /\ Acks(c)' = 0
             /\ Doing(c, 0)' = "init"
             /\ \A w \in Secondary : Doing(c, w)' = "idle"
             /\ \A w \in Secondary : Queue(c, w)' = IF w \in Lost THEN <<>> ELSE <<Msg("init", c)>>
             /\ initializing'[c] = WorkerCount - Cardinality(Lost)
             /\ pc' = pc /\ init' = init
             /\ closed' = closed /\ requested' = requested /\ started' = started
             /\ complete' = complete /\ shutting' = shutting /\ pools' = pools
             /\ descriptor'[c] /\ workers'[c] = WorkerCount
             /\ \A d \in Contexts : d # c => Same(d)
<1>. USE DEF IInv, Typed, ContextType
<1>1. Received(App, "open", c) /\ GoTo(App, "init", c)
  BY DEF OpenBdev
<1>2. PICK Lost \in SUBSET Secondary :
        /\ Lost # {} => "send" \in Failures
        /\ initializing' = [initializing EXCEPT ![c] = WorkerCount - Cardinality(Lost)]
        /\ last_error' = [last_error EXCEPT ![c] = @ \/ Lost # {}]
        /\ msgs' = [t \in Threads |->
                      IF t = App THEN Tail(msgs[App])
                      ELSE IF t[1] = c /\ t[2] \notin Lost
                      THEN Append(msgs[t], Msg("init", c))
                      ELSE msgs[t]]
  BY DEF OpenBdev, Secondary, Msg
<1>3. msgs'[App] = Tail(msgs[App])
  BY <1>2, ThreadFacts
<1>4. \A d \in Contexts, w \in Secondary :
        Queue(d, w)' = IF d = c /\ w \notin Lost THEN Append(Queue(d, w), Msg("init", c))
                       ELSE Queue(d, w)
  <2>. SUFFICES ASSUME NEW d \in Contexts, NEW w \in Secondary
                PROVE  msgs'[<<d, w>>] = IF d = c /\ w \notin Lost
                                         THEN Append(msgs[<<d, w>>], Msg("init", c))
                                         ELSE msgs[<<d, w>>]
    BY DEF Queue, Msg
  <2>1. <<d, w>> \in Threads /\ <<d, w>> # App
    BY ThreadFacts
  <2>. QED BY <1>2, <2>1
<1>5. /\ Fresh(c) /\ pc[c] = "opening" /\ Opens(c)' = 0 /\ Begins(c)' = 0 /\ Acks(c)' = 0
      /\ \A w \in Workers : Doing(c, w) = "idle"
      /\ \A w \in Secondary : Queue(c, w) = <<>>
      /\ \A d \in Contexts : d # c =>
           Opens(d)' = Opens(d) /\ Begins(d)' = Begins(d) /\ Acks(d)' = Acks(d)
  BY <1>1, <1>3, OpenReceived
<1>6. \A w \in Secondary : Queue(c, w)' = IF w \in Lost THEN <<>> ELSE <<Msg("init", c)>>
  BY <1>4, <1>5, QueueShapes
<1>7. /\ Doing(c, 0)' = "init"
      /\ \A v \in Workers : v # 0 => Doing(c, v)' = Doing(c, v)
      /\ \A d \in Contexts : d # c => SameWork(d)
  <2>. DEFINE h == [step |-> "init", context |-> c]
  <2>1. h.step = "init" /\ h.context = c
    OBVIOUS
  <2>2. at' = [at EXCEPT ![ThreadOf(c, 0)] = h]
    BY <1>1 DEF GoTo, ThreadOf
  <2>3. at[ThreadOf(c, 0)] = Idle /\ 0 \in Workers
    BY <1>1, AppReceives, ThreadFacts DEF ThreadOf
  <2>. HIDE DEF h
  <2>. QED BY <2>1, <2>2, <2>3, WorkMoved
<1>8. /\ pc' = pc /\ init' = init
      /\ closed' = closed /\ requested' = requested /\ started' = started
      /\ complete' = complete /\ shutting' = shutting /\ pools' = pools
      /\ descriptor'[c] /\ workers'[c] = WorkerCount
  BY DEF OpenBdev, shutdownVars
<1>9. /\ initializing'[c] = WorkerCount - Cardinality(Lost)
      /\ last_error'[c] <=> Lost # {}
  BY <1>2, <1>5 DEF Fresh
<1>10. ASSUME NEW d \in Contexts, d # c PROVE Same(d)
  <2>1. initializing'[d] = initializing[d] /\ last_error'[d] = last_error[d]
          /\ descriptor'[d] = descriptor[d] /\ workers'[d] = workers[d]
    BY <1>2, <1>10 DEF OpenBdev
  <2>2. SameMail(d)
    BY <1>4, <1>5, <1>10 DEF SameMail
  <2>. QED BY <1>7, <1>8, <1>10, <2>1, <2>2 DEF Same, SameFlags
<1>11. \A w \in Secondary : Doing(c, w)' = "idle"
  BY <1>5, <1>7, ThreadFacts
<1>. QED BY <1>2, <1>5, <1>6, <1>7, <1>8, <1>9, <1>10, <1>11

\* The workers the message reached are counted, worker 0 among them.
LEMMA OpenBdevStep ==
    ASSUME IInv, NEW c \in Contexts, OpenBdev(c), NEW d \in Contexts
    PROVE  ContextInv(d)'
<1>. USE DEF IInv, Typed
<1>1. PICK Lost \in SUBSET Secondary :
        /\ Lost # {} => "send" \in Failures /\ last_error'[c]
        /\ Lost = {} => ~ last_error'[c]
        /\ Fresh(c) /\ pc[c] = "opening" /\ Opens(c)' = 0 /\ Begins(c)' = 0 /\ Acks(c)' = 0
        /\ Doing(c, 0)' = "init"
        /\ \A w \in Secondary : Doing(c, w)' = "idle"
        /\ \A w \in Secondary : Queue(c, w)' = IF w \in Lost THEN <<>> ELSE <<Msg("init", c)>>
        /\ initializing'[c] = WorkerCount - Cardinality(Lost)
        /\ pc' = pc /\ init' = init
        /\ closed' = closed /\ requested' = requested /\ started' = started
        /\ complete' = complete /\ shutting' = shutting /\ pools' = pools
        /\ \A e \in Contexts : e # c => Same(e)
  BY OpenBdevEffect
<1>2. CASE d # c
  BY <1>1, <1>2, SameContext
<1>3. CASE d = c
  <2>1. Pending(c)' = Workers \ Lost
    <3>1. \A w \in Secondary : Queue(c, w)' \in ToInit(c) <=> w \notin Lost
      BY <1>1, QueueShapes
    <3>2. 0 \notin Lost
      BY ThreadFacts
    <3>3. ASSUME NEW w \in Workers PROVE w \in Pending(c)' <=> w \notin Lost
      BY <1>1, <3>1, <3>2, ThreadFacts, PendingIs
    <3>. QED BY <3>3, PendingIs
  <2>2. initializing'[c] = Cardinality(Pending(c)')
    <3>1. IsFiniteSet(Workers) /\ Cardinality(Workers) = WorkerCount
      BY WorkersFinite
    <3>2. Lost \subseteq Workers
      BY ThreadFacts
    <3>3. Lost = Workers \cap Lost /\ IsFiniteSet(Lost)
      BY <3>1, <3>2, FS_Subset
    <3>4. Cardinality(Workers \ Lost) = Cardinality(Workers) - Cardinality(Workers \cap Lost)
      BY <3>1, FS_Difference
    <3>. QED BY <1>1, <2>1, <3>1, <3>3, <3>4
  <2>3. BeforeOpen(c)'
    BY <1>1 DEF BeforeOpen
  <2>4. \A w \in Workers : Doing(c, w)' \in {"idle", "init"}
    BY <1>1, ThreadFacts
  <2>5. TeardownOnce(c)'
    BY <1>1, <2>4 DEF TeardownOnce, Workers, Fresh
  <2>6. InitCounted(c)'
    <3>1. \A w \in Secondary :
            /\ Queue(c, w)' \in {<<>>} \cup ToInit(c) \cup ToShut(c)
            /\ Queue(c, w)' \notin ToShut(c)
      BY <1>1, QueueShapes
    <3>2. init'[c] = "pending" /\ ~ requested'[c]
      BY <1>1 DEF Fresh
    <3>3. Workers \subseteq Pending(c)' \/ last_error'[c]
      BY <1>1, <2>1
    <3>. QED BY <1>1, <3>1, <3>2, <3>3, <2>2, <2>4
             DEF InitCounted, Workers, Secondary, ToInit, ToShut, Msg
  <2>. QED BY <1>3, <2>3, <2>5, <2>6 DEF ContextInv
<1>. QED BY <1>2, <1>3

\* initialize_io_worker and on_io_worker_initialized of worker w, who was
\* pending.
Initialized(c, w) ==
    /\ w \in Pending(c) /\ Pending(c)' = Pending(c) \ {w}
    /\ Doing(c, w) \in {"idle", "init"}
    /\ \A v \in Workers : v # w => Doing(c, v)' = Doing(c, v)
    /\ Opens(c)' = Opens(c) /\ Begins(c)' = Begins(c) /\ Acks(c)' = Acks(c)
    /\ \A v \in Secondary :
         Queue(c, v)' = IF v = w THEN Tail(Queue(c, v)) ELSE Queue(c, v)
    /\ \E fails \in BOOLEAN :
         /\ pools'[c] = IF fails THEN pools[c] ELSE pools[c] \cup {w}
         /\ last_error'[c] = (last_error[c] \/ fails)
         /\ init'[c] = IF initializing'[c] # 0 THEN init[c]
                       ELSE IF last_error'[c] THEN "failed" ELSE "ok"
    /\ initializing'[c] = IF initializing[c] # 0 THEN initializing[c] - 1 ELSE 0
    /\ Doing(c, w)' = IF initializing'[c] # 0 THEN "idle" ELSE "notify"
    /\ pc' = pc /\ closed' = closed /\ requested' = requested /\ started' = started
    /\ complete' = complete /\ shutting' = shutting
    /\ descriptor' = descriptor /\ workers' = workers

\* What InitializeWorker assigns.
LEMMA WorkerInitialized ==
    ASSUME ContextType, NEW t, NEW c \in Contexts, InitializeWorker(t, c)
    PROVE  /\ \E fails \in BOOLEAN :
                /\ pools'[c] = IF fails THEN pools[c] ELSE pools[c] \cup {t[2]}
                /\ last_error'[c] = (last_error[c] \/ fails)
                /\ init'[c] = IF initializing'[c] # 0 THEN init[c]
                              ELSE IF last_error'[c] THEN "failed" ELSE "ok"
           /\ initializing'[c] = IF initializing[c] # 0 THEN initializing[c] - 1 ELSE 0
           /\ at' = [at EXCEPT ![t] = IF initializing'[c] # 0 THEN Idle
                                      ELSE [step |-> "notify", context |-> c]]
           /\ \A d \in Contexts : d # c =>
                /\ pools'[d] = pools[d] /\ last_error'[d] = last_error[d]
                /\ init'[d] = init[d] /\ initializing'[d] = initializing[d]
<1>. USE DEF ContextType
<1>. DEFINE left == IF initializing[c] # 0 THEN initializing[c] - 1 ELSE 0
<1>1. PICK fails \in BOOLEAN :
         /\ pools' = IF fails THEN pools ELSE [pools EXCEPT ![c] = @ \cup {t[2]}]
         /\ last_error' = [last_error EXCEPT ![c] = last_error[c] \/ fails]
         /\ initializing' = [initializing EXCEPT ![c] = left]
         /\ IF left = 0
            THEN /\ init' = [init EXCEPT ![c] = IF last_error[c] \/ fails THEN "failed" ELSE "ok"]
                 /\ GoTo(t, "notify", c)
            ELSE /\ at' = [at EXCEPT ![t] = Idle]
                 /\ UNCHANGED init
  BY DEF InitializeWorker
<1>. HIDE DEF left
<1>2. initializing'[c] = left
  BY <1>1
<1>3. pools'[c] = (IF fails THEN pools[c] ELSE pools[c] \cup {t[2]})
        /\ \A d \in Contexts : d # c => pools'[d] = pools[d]
  BY <1>1
<1>4. last_error'[c] = (last_error[c] \/ fails)
        /\ \A d \in Contexts : d # c => last_error'[d] = last_error[d]
                                        /\ initializing'[d] = initializing[d]
  BY <1>1
<1>5. /\ init'[c] = (IF left # 0 THEN init[c] ELSE IF last_error'[c] THEN "failed" ELSE "ok")
      /\ \A d \in Contexts : d # c => init'[d] = init[d]
  BY <1>1, <1>4
<1>6. at' = [at EXCEPT ![t] = IF left # 0 THEN Idle ELSE [step |-> "notify", context |-> c]]
  BY <1>1 DEF GoTo
<1>. QED BY <1>2, <1>3, <1>4, <1>5, <1>6 DEF left

\* Both ways to initialize a worker: worker 0 in the handler of OpenCallback,
\* the others when they take their message.
LEMMA InitializeEffect ==
    ASSUME IInv, NEW c \in Contexts, NEW t \in Threads,
           \/ t = App /\ InitializeApp(c)
           \/ t \in Secondaries /\ TakeInit(t, c)
    PROVE  /\ Initialized(c, t[2]) /\ t[2] \in Workers
           /\ \A d \in Contexts : d # c => Same(d)
<1>. USE DEF IInv, Typed
<1>. DEFINE w == t[2]
            h == IF initializing'[c] # 0 THEN Idle ELSE [step |-> "notify", context |-> c]
<1>1. InitializeWorker(t, c)
  BY DEF InitializeApp, TakeInit
<1>2. /\ pc' = pc /\ closed' = closed /\ requested' = requested /\ started' = started
      /\ complete' = complete /\ shutting' = shutting
      /\ descriptor' = descriptor /\ workers' = workers
  BY DEF InitializeApp, TakeInit, shutdownVars
<1>3. w \in Workers
  BY ThreadFacts
<1>4. h = Idle \/ h.context = c
  OBVIOUS
<1>5. h.step = IF initializing'[c] # 0 THEN "idle" ELSE "notify"
  BY DEF Idle
<1>6. at' = [at EXCEPT ![t] = h]
  BY <1>1, WorkerInitialized
<1>8. /\ \E fails \in BOOLEAN :
           /\ pools'[c] = IF fails THEN pools[c] ELSE pools[c] \cup {w}
           /\ last_error'[c] = (last_error[c] \/ fails)
           /\ init'[c] = IF initializing'[c] # 0 THEN init[c]
                         ELSE IF last_error'[c] THEN "failed" ELSE "ok"
      /\ initializing'[c] = IF initializing[c] # 0 THEN initializing[c] - 1 ELSE 0
  BY <1>1, WorkerInitialized
<1>. HIDE DEF w, h
<1>7. CASE t = App /\ InitializeApp(c)
  <2>1. w = 0 /\ ThreadOf(c, w) = t /\ at[t] = [step |-> "init", context |-> c] /\ msgs' = msgs
    BY <1>7 DEF w, App, ThreadOf, InitializeApp
  <2>2. at[t].context = c /\ at[t].step = "init"
    BY <2>1
  <2>3. Doing(c, 0) = "init"
    BY <1>7, <2>2, <2>1, WorkFacts DEF w
  <2>4. /\ Doing(c, w)' = h.step
        /\ \A v \in Workers : v # w => Doing(c, v)' = Doing(c, v)
        /\ \A d \in Contexts : d # c => SameWork(d)
    BY <1>3, <1>4, <1>6, <2>1, <2>2, WorkMoved
  <2>5. \A d \in Contexts : SameMail(d)
    BY <2>1, MailKept
  <2>6. w \in Pending(c) /\ Pending(c)' = Pending(c) \ {w}
    <3>1. Doing(c, 0)' # "init"
      BY <2>1, <2>4, <1>5
    <3>2. ASSUME NEW v \in Workers PROVE v \in Pending(c)' <=> v \in Pending(c) /\ v # w
      BY <2>1, <2>5, <3>1, ThreadFacts, PendingIs DEF SameMail
    <3>3. 0 \in Pending(c)
      BY <2>3, ThreadFacts, PendingIs
    <3>. QED BY <2>1, <3>2, <3>3, PendingIs
  <2>7. Initialized(c, w)
    <3>1. \A v \in Secondary : Queue(c, v)' = IF v = w THEN Tail(Queue(c, v)) ELSE Queue(c, v)
      BY <2>1, <2>5, ThreadFacts DEF SameMail
    <3>2. Doing(c, w)' = IF initializing'[c] # 0 THEN "idle" ELSE "notify"
      BY <2>4, <1>5
    <3>. QED BY <1>2, <1>8, <2>1, <2>3, <2>4, <2>5, <2>6, <3>1, <3>2 DEF Initialized, SameMail
  <2>8. ASSUME NEW d \in Contexts, d # c PROVE Same(d)
    BY <1>1, <1>2, <2>4, <2>5, <2>8, WorkerInitialized DEF Same, SameFlags
  <2>. QED BY <1>3, <2>7, <2>8 DEF w
<1>9. CASE t \in Secondaries /\ TakeInit(t, c)
  <2>1. /\ t = <<c, w>> /\ t = ThreadOf(c, w)
        /\ w \in Secondary /\ w # 0 /\ t # App
        /\ at[t] = Idle
        /\ Doing(c, w) = "idle"
        /\ Queue(c, w) = msgs[t]
        /\ Queue(c, w) # <<>> /\ Head(Queue(c, w)) = Msg("init", c)
    BY <1>9, SecondaryReceives, ThreadFacts DEF w, TakeInit
  <2>2. msgs' = [msgs EXCEPT ![t] = Tail(@)]
    BY <1>9 DEF TakeInit
  <2>3. /\ msgs'[t] = Tail(msgs[t])
        /\ \A u \in Threads : u # t => msgs'[u] = msgs[u]
    BY <2>2 DEF MsgsRouted
  <2>4. /\ Doing(c, w)' = h.step
        /\ \A v \in Workers : v # w => Doing(c, v)' = Doing(c, v)
        /\ \A d \in Contexts : d # c => SameWork(d)
    BY <1>3, <1>4, <1>6, <2>1, WorkMoved
  <2>5. \A d \in Contexts : Opens(d)' = Opens(d) /\ Begins(d)' = Begins(d) /\ Acks(d)' = Acks(d)
    <3>1. msgs'[App] = msgs[App]
      BY <2>1, <2>3, ThreadFacts
    <3>. QED BY <3>1, Mail
  <2>6. \A d \in Contexts, v \in Secondary :
          Queue(d, v)' = IF d = c /\ v = w THEN Tail(Queue(d, v)) ELSE Queue(d, v)
    <3>. SUFFICES ASSUME NEW d \in Contexts, NEW v \in Secondary
                  PROVE  msgs'[<<d, v>>] = IF d = c /\ v = w THEN Tail(msgs[<<d, v>>])
                                           ELSE msgs[<<d, v>>]
      BY DEF Queue
    <3>1. <<d, v>> \in Threads /\ (<<d, v>> = t <=> d = c /\ v = w)
      BY <2>1, ThreadFacts
    <3>. QED BY <2>3, <3>1
  <2>7. /\ Queue(c, w) \in ToInit(c) /\ Tail(Queue(c, w)) \notin ToInit(c)
        /\ Queue(c, w) \in {<<>>} \cup ToInit(c) \cup ToShut(c)
    <3>1. Queue(c, w) \in {<<>>} \cup ToInit(c) \cup ToShut(c)
      BY <2>1 DEF ContextInv, InitCounted
    <3>2. Queue(c, w) \in ToInit(c)
      BY <2>1, <3>1, QueueShapes
    <3>3. <<>> \notin ToInit(c) /\ <<Msg("shutdown", c)>> \notin ToInit(c)
      BY QueueShapes
    <3>4. Tail(Queue(c, w)) \in {<<>>, <<Msg("shutdown", c)>>}
      BY <3>2, QueueShapes
    <3>. QED BY <3>1, <3>2, <3>3, <3>4
  <2>8. w \in Pending(c) /\ Pending(c)' = Pending(c) \ {w}
    <3>1. Doing(c, 0)' = Doing(c, 0)
      BY <2>1, <2>4, ThreadFacts
    <3>2. ASSUME NEW v \in Workers PROVE v \in Pending(c)' <=> v \in Pending(c) /\ v # w
      <4>1. CASE v = 0
        BY <4>1, <2>1, <3>1, PendingIs
      <4>2. CASE v = w
        <5>1. Queue(c, w)' = Tail(Queue(c, w))
          BY <2>1, <2>6
        <5>. QED BY <4>2, <5>1, <2>1, <2>7, PendingIs
      <4>3. CASE v # w /\ v \in Secondary
        <5>1. Queue(c, v)' = Queue(c, v)
          BY <4>3, <2>6
        <5>. QED BY <4>3, <5>1, ThreadFacts, PendingIs
      <4>. QED BY <4>1, <4>2, <4>3, ThreadFacts
    <3>3. w \in Pending(c)
      BY <2>1, <2>7, ThreadFacts, PendingIs
    <3>. QED BY <3>2, <3>3, PendingIs
  <2>9. Initialized(c, w)
    <3>1. \A v \in Secondary : Queue(c, v)' = IF v = w THEN Tail(Queue(c, v)) ELSE Queue(c, v)
      BY <2>6
    <3>2. Doing(c, w)' = IF initializing'[c] # 0 THEN "idle" ELSE "notify"
      BY <2>4, <1>5
    <3>. QED BY <1>2, <1>8, <2>1, <2>4, <2>5, <2>8, <3>1, <3>2 DEF Initialized
  <2>10. ASSUME NEW d \in Contexts, d # c PROVE Same(d)
    <3>1. SameMail(d)
      BY <2>5, <2>6, <2>10 DEF SameMail
    <3>. QED BY <1>1, <1>2, <2>4, <2>10, <3>1, WorkerInitialized DEF Same, SameFlags
  <2>. QED BY <1>3, <2>9, <2>10 DEF w
<1>. QED BY <1>7, <1>9

\* The last of them publishes "ok" only when no one failed, and then every
\* worker has its pool.
LEMMA InitializeStep ==
    ASSUME IInv, Typed', NEW c \in Contexts, NEW t \in Threads,
           \/ t = App /\ InitializeApp(c)
           \/ t \in Secondaries /\ TakeInit(t, c),
           NEW d \in Contexts
    PROVE  ContextInv(d)'
<1>. USE DEF IInv, Typed
<1>. DEFINE w == t[2]
<1>1. Initialized(c, w) /\ w \in Workers /\ \A e \in Contexts : e # c => Same(e)
  BY InitializeEffect
<1>. HIDE DEF w
<1>2. CASE d # c
  BY <1>1, <1>2, SameContext
<1>3. CASE d = c
  <2>1. w \in Pending(c) /\ Pending(c)' = Pending(c) \ {w}
    BY <1>1 DEF Initialized
  <2>2. init[c] = "pending" /\ pc[c] = "opening" /\ initializing[c] = Cardinality(Pending(c))
    BY <2>1 DEF ContextInv, InitCounted
  <2>3. /\ initializing[c] # 0 /\ initializing'[c] = Cardinality(Pending(c)')
        /\ initializing'[c] = 0 <=> Pending(c) = {w}
        /\ initializing'[c] = 0 <=> Pending(c)' = {}
    <3>1. IsFiniteSet(Pending(c))
      <4>1. Pending(c) \subseteq Workers
        BY PendingIs
      <4>. QED BY <4>1, WorkersFinite, FS_Subset
    <3>2. /\ IsFiniteSet(Pending(c) \ {w})
          /\ Cardinality(Pending(c) \ {w}) = Cardinality(Pending(c)) - 1
      BY <2>1, <3>1, FS_RemoveElement
    <3>3. Cardinality(Pending(c)) \in Nat /\ Cardinality(Pending(c) \ {w}) \in Nat
      BY <3>1, <3>2, FS_CardinalityType
    <3>4. initializing'[c] = IF initializing[c] # 0 THEN initializing[c] - 1 ELSE 0
      BY <1>1 DEF Initialized
    <3>5. Cardinality(Pending(c) \ {w}) = 0 <=> Pending(c) \ {w} = {}
      BY <3>2, FS_EmptySet
    <3>. QED BY <2>1, <2>2, <3>2, <3>3, <3>4, <3>5
  <2>4. PICK fails \in BOOLEAN :
          /\ pools'[c] = IF fails THEN pools[c] ELSE pools[c] \cup {w}
          /\ last_error'[c] = (last_error[c] \/ fails)
          /\ init'[c] = IF initializing'[c] # 0 THEN init[c]
                        ELSE IF last_error'[c] THEN "failed" ELSE "ok"
    BY <1>1 DEF Initialized
  <2>5. /\ pc' = pc /\ closed' = closed /\ requested' = requested /\ started' = started
        /\ Opens(c)' = Opens(c) /\ Begins(c)' = Begins(c)
        /\ Doing(c, w)' = IF initializing'[c] # 0 THEN "idle" ELSE "notify"
        /\ \A v \in Workers : v # w => Doing(c, v)' = Doing(c, v)
        /\ \A v \in Secondary :
             Queue(c, v)' = IF v = w THEN Tail(Queue(c, v)) ELSE Queue(c, v)
    BY <1>1 DEF Initialized
  <2>6. BeforeOpen(c)'
    <3>1. Opens(c) = 0
      BY <2>3 DEF ContextInv, BeforeOpen, Fresh
    <3>. QED BY <2>2, <2>5, <3>1 DEF BeforeOpen
  <2>7. TeardownOnce(c)'
    <3>1. \A v \in Workers : Doing(c, v)' = "post" => Doing(c, v) = "post"
      BY <2>5
    <3>. QED BY <2>5, <3>1 DEF ContextInv, TeardownOnce, Workers
  <2>8. InitCounted(c)'
    <3>1. ASSUME NEW v \in Secondary
          PROVE  /\ Queue(c, v)' \in {<<>>} \cup ToInit(c) \cup ToShut(c)
                 /\ Queue(c, v)' \in ToShut(c) => started'[c]
      <4>1. /\ Queue(c, v) \in {<<>>} \cup ToInit(c) \cup ToShut(c)
            /\ Queue(c, v) \in ToShut(c) => started[c]
        BY DEF ContextInv, InitCounted
      <4>2. CASE v # w
        BY <4>1, <4>2, <2>5
      <4>3. CASE v = w
        <5>1. Queue(c, w) \in ToInit(c)
          BY <2>1, <4>3, PendingIs, ThreadFacts
        <5>2. Queue(c, v)' = IF Queue(c, w) \in ToShut(c) THEN <<Msg("shutdown", c)>> ELSE <<>>
          BY <4>3, <5>1, <2>5, QueueShapes
        <5>3. <<>> \notin ToShut(c) /\ <<Msg("shutdown", c)>> \in ToShut(c)
          BY QueueShapes
        <5>. QED BY <4>1, <4>3, <5>2, <5>3, <2>5
      <4>. QED BY <4>2, <4>3
    <3>2. Pending(c)' # {} => init'[c] = "pending" /\ pc'[c] = "opening"
      BY <2>2, <2>3, <2>4, <2>5
    <3>3. Pending(c)' # {} /\ ~ last_error'[c] =>
            ~ requested'[c] /\ Workers \subseteq pools'[c] \cup Pending(c)'
      <4>. SUFFICES ASSUME Pending(c)' # {}, ~ last_error'[c]
                    PROVE  ~ requested'[c] /\ Workers \subseteq pools'[c] \cup Pending(c)'
        OBVIOUS
      <4>1. ~ last_error[c] /\ ~ fails
        BY <2>4
      <4>2. ~ requested[c] /\ Workers \subseteq pools[c] \cup Pending(c)
        BY <4>1, <2>1 DEF ContextInv, InitCounted
      <4>3. pools'[c] = pools[c] \cup {w}
        BY <4>1, <2>4
      <4>. QED BY <4>2, <4>3, <2>1, <2>5
    <3>4. init'[c] = "ok" /\ ~ requested'[c] /\ ~ closed'[c] => pools'[c] = Workers
      <4>. SUFFICES ASSUME init'[c] = "ok" PROVE pools'[c] = Workers
        OBVIOUS
      <4>1. initializing'[c] = 0 /\ ~ last_error'[c]
        BY <2>2, <2>4
      <4>2. ~ last_error[c] /\ ~ fails
        BY <2>4, <4>1
      <4>3. Workers \subseteq pools[c] \cup Pending(c) /\ Pending(c) = {w}
        BY <4>1, <4>2, <2>1, <2>3 DEF ContextInv, InitCounted
      <4>4. pools'[c] = pools[c] \cup {w}
        BY <4>2, <2>4
      <4>5. pools[c] \subseteq Workers
        BY DEF ContextType
      <4>. QED BY <1>1, <4>3, <4>4, <4>5
    <3>5. \A v \in Workers :
            /\ Doing(c, v)' = "notify" => init'[c] # "pending"
            /\ Doing(c, v)' = "request" => init'[c] = "failed"
      BY <2>2, <2>4, <2>5 DEF ContextInv, InitCounted
    <3>. QED BY <2>3, <3>1, <3>2, <3>3, <3>4, <3>5
             DEF InitCounted, Workers, Secondary, ToInit, ToShut, Msg
  <2>. QED BY <1>3, <2>6, <2>7, <2>8 DEF ContextInv
<1>. QED BY <1>2, <1>3

\* What counting down the workers that stopped does: the last one closes the
\* bdev.
LEMMA StoppedEffect ==
    ASSUME Typed, NEW c \in Contexts, NEW left, at[App] = Idle, WorkersStopped(c, left)
    PROVE  /\ shutting'[c] = left
           /\ descriptor'[c] = (descriptor[c] /\ left # 0)
           /\ complete'[c] = (complete[c] \/ left = 0)
           /\ Doing(c, 0)' = IF left = 0 THEN "finish" ELSE "idle"
           /\ \A w \in Secondary : Doing(c, w)' = Doing(c, w)
           /\ \A d \in Contexts : d # c =>
                /\ shutting'[d] = shutting[d] /\ descriptor'[d] = descriptor[d]
                /\ complete'[d] = complete[d] /\ SameWork(d)
<1>. USE DEF Typed, ContextType
<1>1. /\ shutting'[c] = left
      /\ descriptor'[c] = (descriptor[c] /\ left # 0)
      /\ complete'[c] = (complete[c] \/ left = 0)
      /\ \A d \in Contexts : d # c =>
           /\ shutting'[d] = shutting[d] /\ descriptor'[d] = descriptor[d]
           /\ complete'[d] = complete[d]
  BY DEF WorkersStopped
<1>2. CASE left = 0
  <2>. DEFINE h == [step |-> "finish", context |-> c]
  <2>1. h.step = "finish" /\ h.context = c
    OBVIOUS
  <2>2. at' = [at EXCEPT ![ThreadOf(c, 0)] = h]
    BY <1>2 DEF WorkersStopped, GoTo, ThreadOf
  <2>3. at[ThreadOf(c, 0)] = Idle /\ 0 \in Workers /\ AtRouted
    BY ThreadFacts DEF ThreadOf
  <2>. HIDE DEF h, Typed, ContextType
  <2>4. /\ Doing(c, 0)' = "finish"
        /\ \A v \in Workers : v # 0 => Doing(c, v)' = Doing(c, v)
        /\ \A d \in Contexts : d # c => SameWork(d)
    BY ONLY <2>1, <2>2, <2>3, WorkMoved, c \in Contexts
  <2>. QED BY <1>1, <1>2, <2>4, ThreadFacts
<1>3. CASE left # 0
  <2>1. at' = at
    BY <1>3 DEF WorkersStopped
  <2>2. \A d \in Contexts : SameWork(d)
    BY <2>1, WorkKept
  <2>3. Doing(c, 0) = "idle"
    BY WorkFacts
  <2>. QED BY <1>1, <1>3, <2>2, <2>3, ThreadFacts DEF SameWork
<1>. QED BY <1>2, <1>3

\* begin_shutdown_on_app_thread: the secondaries that exist are told to shut
\* down, those outside Lost.
LEMMA BeginEffect ==
    ASSUME IInv, NEW c \in Contexts, BeginShutdown(c)
    PROVE  \E Lost \in SUBSET Secondary :
             /\ Lost # {} => "send" \in Failures
             /\ \A w \in Lost : w < workers[c]
             /\ Begins(c) = 1 /\ ~ started[c] /\ started'[c] /\ requested[c]
             /\ Opens(c) = 0 /\ pc[c] \notin Early /\ pc[c] # "post"
             /\ \A w \in Workers : Doing(c, w) # "post"
             /\ Opens(c)' = Opens(c) /\ Begins(c)' = 0 /\ Acks(c)' = Acks(c)
             /\ Doing(c, 0) = "idle"
             /\ \A w \in Secondary :
                  Queue(c, w)' = IF w < workers[c] /\ w \notin Lost
                                 THEN Append(Queue(c, w), Msg("shutdown", c)) ELSE Queue(c, w)
             /\ pools'[c] = pools[c] \ (Lost \cup {0})
             /\ last_error'[c] = (last_error[c] \/ Lost # {})
             /\ WorkersStopped(c, IF workers[c] = 0 THEN 0
                                  ELSE workers[c] - Cardinality(Lost) - 1)
             /\ at[App] = Idle
             /\ pc' = pc /\ init' = init /\ initializing' = initializing /\ workers' = workers
             /\ requested' = requested /\ closed' = closed
             /\ \A d \in Contexts : d # c => Same(d)
<1>. USE DEF IInv, Typed, ContextType
<1>1. Received(App, "begin", c) /\ ~ started[c] /\ started' = [started EXCEPT ![c] = TRUE]
  BY DEF BeginShutdown
<1>2. PICK Lost \in SUBSET Secondary :
        /\ Lost # {} => "send" \in Failures
        /\ \A w \in Lost : w < workers[c]
        /\ last_error' = [last_error EXCEPT ![c] = @ \/ Lost # {}]
        /\ msgs' = [t \in Threads |->
                       IF t = App THEN Tail(msgs[App])
                       ELSE IF t[1] = c /\ t[2] < workers[c] /\ t[2] \notin Lost
                       THEN Append(msgs[t], Msg("shutdown", c))
                       ELSE msgs[t]]
        /\ pools' = [pools EXCEPT ![c] = @ \ (Lost \cup {0})]
        /\ WorkersStopped(c, IF workers[c] = 0 THEN 0
                             ELSE workers[c] - Cardinality(Lost) - 1)
  BY DEF BeginShutdown, Secondary, Msg
<1>3. at[App] = Idle /\ Doing(c, 0) = "idle" /\ Begins(c) # 0
        /\ msgs[App] # <<>> /\ Head(msgs[App]) = Msg("begin", c)
  BY <1>1, AppReceives
<1>4. msgs'[App] = Tail(msgs[App])
  BY <1>2, ThreadFacts
<1>5. \A d \in Contexts, w \in Secondary :
        Queue(d, w)' = IF d = c /\ w < workers[c] /\ w \notin Lost
                       THEN Append(Queue(d, w), Msg("shutdown", c)) ELSE Queue(d, w)
  <2>. SUFFICES ASSUME NEW d \in Contexts, NEW w \in Secondary
                PROVE  msgs'[<<d, w>>] = IF d = c /\ w < workers[c] /\ w \notin Lost
                                         THEN Append(msgs[<<d, w>>], Msg("shutdown", c))
                                         ELSE msgs[<<d, w>>]
    BY DEF Queue, Msg
  <2>1. <<d, w>> \in Threads /\ <<d, w>> # App
    BY ThreadFacts
  <2>. QED BY <1>2, <2>1
<1>6. /\ Begins(c) = 1 /\ requested[c] /\ Opens(c) = 0
      /\ pc[c] \notin Early /\ pc[c] # "post"
      /\ \A w \in Workers : Doing(c, w) # "post"
  BY <1>3 DEF ContextInv, TeardownOnce, BeforeOpen, Fresh, Early
<1>7. \A d \in Contexts :
        /\ Opens(d) = Opens(d)' + (IF "begin" = "open" /\ d = c THEN 1 ELSE 0)
        /\ Begins(d) = Begins(d)' + (IF "begin" = "begin" /\ d = c THEN 1 ELSE 0)
        /\ Acks(d) = Acks(d)' + (IF "begin" = "ack" /\ d = c THEN 1 ELSE 0)
        /\ Opens(d)' \in Nat /\ Begins(d)' \in Nat /\ Acks(d)' \in Nat
  BY <1>3, <1>4, AppTaken
<1>8. Opens(c)' = Opens(c) /\ Begins(c)' = 0 /\ Acks(c)' = Acks(c)
  BY <1>6, <1>7
<1>9. /\ pc' = pc /\ init' = init /\ initializing' = initializing /\ workers' = workers
      /\ requested' = requested /\ closed' = closed
  BY DEF BeginShutdown
<1>10. pools'[c] = pools[c] \ (Lost \cup {0}) /\ last_error'[c] = (last_error[c] \/ Lost # {})
         /\ started'[c]
  BY <1>1, <1>2
<1>11. \A w \in Secondary :
         Queue(c, w)' = IF w < workers[c] /\ w \notin Lost
                        THEN Append(Queue(c, w), Msg("shutdown", c)) ELSE Queue(c, w)
  BY <1>5
<1>12. ASSUME NEW d \in Contexts, d # c PROVE Same(d)
  <2>1. SameMail(d)
    BY <1>5, <1>7, <1>12 DEF SameMail
  <2>2. /\ shutting'[d] = shutting[d] /\ descriptor'[d] = descriptor[d]
        /\ complete'[d] = complete[d] /\ SameWork(d)
    BY <1>2, <1>3, <1>12, StoppedEffect
  <2>3. started'[d] = started[d] /\ last_error'[d] = last_error[d] /\ pools'[d] = pools[d]
    BY <1>1, <1>2, <1>12
  <2>. QED BY <1>9, <2>1, <2>2, <2>3 DEF Same, SameFlags
<1>. QED BY <1>1, <1>2, <1>3, <1>6, <1>8, <1>9, <1>10, <1>11, <1>12

\* It runs once, after the request that keeps the pools from being promised.
LEMMA BeginStep ==
    ASSUME IInv, NEW c \in Contexts, BeginShutdown(c), NEW d \in Contexts
    PROVE  ContextInv(d)'
<1>. USE DEF IInv, Typed
<1>1. PICK Lost \in SUBSET Secondary :
        /\ Begins(c) = 1 /\ ~ started[c] /\ started'[c] /\ requested[c]
        /\ Opens(c) = 0 /\ pc[c] \notin Early /\ pc[c] # "post"
        /\ \A w \in Workers : Doing(c, w) # "post"
        /\ Opens(c)' = Opens(c) /\ Begins(c)' = 0
        /\ Doing(c, 0) = "idle"
        /\ \A w \in Secondary :
             Queue(c, w)' = IF w < workers[c] /\ w \notin Lost
                            THEN Append(Queue(c, w), Msg("shutdown", c)) ELSE Queue(c, w)
        /\ last_error'[c] = (last_error[c] \/ Lost # {})
        /\ WorkersStopped(c, IF workers[c] = 0 THEN 0
                             ELSE workers[c] - Cardinality(Lost) - 1)
        /\ at[App] = Idle
        /\ pc' = pc /\ init' = init /\ initializing' = initializing
        /\ requested' = requested /\ closed' = closed
        /\ \A e \in Contexts : e # c => Same(e)
  BY BeginEffect
<1>2. CASE d # c
  BY <1>1, <1>2, SameContext
<1>3. CASE d = c
  <2>1. /\ Doing(c, 0)' \in {"idle", "finish", "exit"}
        /\ \A w \in Secondary : Doing(c, w)' = Doing(c, w)
    BY <1>1, StoppedEffect
  <2>2. ASSUME NEW w \in Secondary
        PROVE  /\ Queue(c, w)' \in {<<>>} \cup ToInit(c) \cup ToShut(c)
               /\ Queue(c, w)' \in ToInit(c) <=> Queue(c, w) \in ToInit(c)
    <3>1. Queue(c, w) \in {<<>>} \cup ToInit(c) /\ Queue(c, w) \notin ToShut(c)
      BY <1>1 DEF ContextInv, InitCounted
    <3>2. Queue(c, w) = <<>> \/ Queue(c, w) = <<Msg("init", c)>>
      BY <3>1, QueueShapes
    <3>3. Queue(c, w)' = Queue(c, w) \/ Queue(c, w)' = Append(Queue(c, w), Msg("shutdown", c))
      BY <1>1
    <3>4. \/ Queue(c, w)' = Queue(c, w)
          \/ Queue(c, w) = <<>> /\ Queue(c, w)' = <<Msg("shutdown", c)>>
          \/ Queue(c, w) = <<Msg("init", c)>> /\ Queue(c, w)' = <<Msg("init", c), Msg("shutdown", c)>>
      BY <3>2, <3>3, QueueShapes
    <3>. QED BY <3>1, <3>4, QueueShapes
  <2>3. Pending(c)' = Pending(c)
    <3>1. ASSUME NEW w \in Workers PROVE w \in Pending(c)' <=> w \in Pending(c)
      <4>1. CASE w = 0
        BY <4>1, <1>1, <2>1, PendingIs
      <4>2. CASE w \in Secondary
        BY <4>2, <2>2, PendingIs, ThreadFacts
      <4>. QED BY <4>1, <4>2, ThreadFacts
    <3>. QED BY <3>1, PendingIs
  <2>4. BeforeOpen(c)'
    BY <1>1 DEF BeforeOpen, Early
  <2>5. TeardownOnce(c)'
    <3>1. \A w \in Workers : Doing(c, w)' # "post"
      BY <1>1, <2>1, ThreadFacts
    <3>. QED BY <1>1, <3>1 DEF TeardownOnce, Workers
  <2>6. InitCounted(c)'
    <3>1. \A w \in Workers :
            /\ Doing(c, w)' = "notify" => init'[c] # "pending"
            /\ Doing(c, w)' = "request" => init'[c] = "failed"
      BY <1>1, <2>1, ThreadFacts DEF ContextInv, InitCounted
    <3>2. Pending(c)' # {} => last_error'[c] /\ init'[c] = "pending" /\ pc'[c] = "opening"
      BY <1>1, <2>3 DEF ContextInv, InitCounted
    <3>3. initializing'[c] = Cardinality(Pending(c)')
      BY <1>1, <2>3 DEF ContextInv, InitCounted
    <3>. QED BY <1>1, <2>2, <3>1, <3>2, <3>3
             DEF InitCounted, Workers, Secondary, ToInit, ToShut, Msg
  <2>. QED BY <1>3, <2>4, <2>5, <2>6 DEF ContextInv
<1>. QED BY <1>2, <1>3

\* FinishShutdownCallback: one acknowledgement less.
LEMMA AckEffect ==
    ASSUME IInv, NEW c \in Contexts, TakeAck(c)
    PROVE  /\ Acks(c) # 0 /\ Acks(c)' \in Nat /\ Acks(c) = Acks(c)' + 1
           /\ Opens(c)' = Opens(c) /\ Begins(c)' = Begins(c)
           /\ Doing(c, 0) = "idle" /\ at[App] = Idle
           /\ \A w \in Secondary : Queue(c, w)' = Queue(c, w)
           /\ WorkersStopped(c, IF shutting[c] # 0 THEN shutting[c] - 1 ELSE 0)
           /\ pc' = pc /\ init' = init /\ last_error' = last_error
           /\ initializing' = initializing /\ workers' = workers
           /\ requested' = requested /\ started' = started /\ closed' = closed
           /\ pools' = pools
           /\ \A d \in Contexts : d # c => Same(d)
<1>. USE DEF IInv, Typed
<1>1. Received(App, "ack", c) /\ msgs' = [msgs EXCEPT ![App] = Tail(@)]
  BY DEF TakeAck
<1>2. at[App] = Idle /\ Doing(c, 0) = "idle" /\ Acks(c) # 0
        /\ msgs[App] # <<>> /\ Head(msgs[App]) = Msg("ack", c)
  BY <1>1, AppReceives
<1>3. msgs'[App] = Tail(msgs[App]) /\ \A t \in Threads : t # App => msgs'[t] = msgs[t]
  BY <1>1, ThreadFacts DEF MsgsRouted
<1>4. \A d \in Contexts, w \in Secondary : Queue(d, w)' = Queue(d, w)
  BY <1>3, ThreadFacts DEF Queue
<1>5. \A d \in Contexts :
        /\ Opens(d) = Opens(d)' + (IF "ack" = "open" /\ d = c THEN 1 ELSE 0)
        /\ Begins(d) = Begins(d)' + (IF "ack" = "begin" /\ d = c THEN 1 ELSE 0)
        /\ Acks(d) = Acks(d)' + (IF "ack" = "ack" /\ d = c THEN 1 ELSE 0)
        /\ Opens(d)' \in Nat /\ Begins(d)' \in Nat /\ Acks(d)' \in Nat
  BY <1>2, <1>3, AppTaken
<1>6. \A d \in Contexts : /\ Opens(d)' = Opens(d) /\ Begins(d)' = Begins(d)
                          /\ d # c => Acks(d)' = Acks(d)
  BY <1>5
<1>7. Acks(c)' \in Nat /\ Acks(c) = Acks(c)' + 1
  BY <1>5
<1>8. /\ WorkersStopped(c, IF shutting[c] # 0 THEN shutting[c] - 1 ELSE 0)
      /\ pc' = pc /\ init' = init /\ last_error' = last_error
      /\ initializing' = initializing /\ workers' = workers
      /\ requested' = requested /\ started' = started /\ closed' = closed
      /\ pools' = pools
  BY DEF TakeAck
<1>9. ASSUME NEW d \in Contexts, d # c PROVE Same(d)
  <2>1. SameMail(d)
    BY <1>4, <1>6, <1>9 DEF SameMail
  <2>2. /\ shutting'[d] = shutting[d] /\ descriptor'[d] = descriptor[d]
        /\ complete'[d] = complete[d] /\ SameWork(d)
    BY <1>2, <1>8, <1>9, StoppedEffect
  <2>. QED BY <1>8, <2>1, <2>2 DEF Same, SameFlags
<1>. QED BY <1>2, <1>4, <1>6, <1>7, <1>8, <1>9

\* The steps that end a worker: its shutdown, and its acknowledgement. The
\* queues of c lose no initialization and the threads enter none.
LEMMA EndMoves ==
    ASSUME NEW c \in Contexts, ContextInv(c), ~ Fresh(c),
           Opens(c)' = Opens(c), Begins(c)' = Begins(c),
           \A w \in Secondary :
             \/ Queue(c, w)' = Queue(c, w)
             \/ /\ Queue(c, w) \in ToShut(c) /\ Queue(c, w) \notin ToInit(c)
                /\ Queue(c, w)' = <<>>,
           \A w \in Secondary :
             Doing(c, w)' = Doing(c, w) \/ (Doing(c, w) = "idle" /\ Doing(c, w)' = "exit"),
           \/ Doing(c, 0)' = Doing(c, 0)
           \/ Doing(c, 0) = "idle" /\ Doing(c, 0)' = "finish",
           pc' = pc, init' = init, last_error' = last_error,
           initializing' = initializing, requested' = requested,
           started' = started, closed' = closed,
           pools'[c] = pools[c] \/ (started[c] /\ requested[c])
    PROVE  ContextInv(c)'
<1>1. Opens(c) = 0 /\ pc[c] \notin Early
  BY DEF ContextInv, BeforeOpen, Early
<1>2. \A w \in Workers :
        \/ Doing(c, w)' = Doing(c, w)
        \/ Doing(c, w) = "idle" /\ Doing(c, w)' \in {"finish", "exit"}
  BY ThreadFacts
<1>3. Pending(c)' = Pending(c)
  <2>1. ASSUME NEW w \in Secondary PROVE Queue(c, w)' \in ToInit(c) <=> Queue(c, w) \in ToInit(c)
    BY QueueShapes
  <2>2. ASSUME NEW w \in Workers PROVE w \in Pending(c)' <=> w \in Pending(c)
    <3>1. CASE w = 0
      BY <3>1, PendingIs
    <3>2. CASE w \in Secondary
      BY <3>2, <2>1, PendingIs, ThreadFacts
    <3>. QED BY <3>1, <3>2, ThreadFacts
  <2>. QED BY <2>2, PendingIs
<1>4. BeforeOpen(c)'
  BY <1>1 DEF BeforeOpen, Early
<1>5. TeardownOnce(c)'
  <2>1. \A w \in Workers : Doing(c, w)' = "post" => Doing(c, w) = "post"
    BY <1>2
  <2>. QED BY <2>1 DEF ContextInv, TeardownOnce, Workers
<1>6. InitCounted(c)'
  <2>1. ASSUME NEW w \in Secondary
        PROVE  /\ Queue(c, w)' \in {<<>>} \cup ToInit(c) \cup ToShut(c)
               /\ Queue(c, w)' \in ToShut(c) => started'[c]
    BY QueueShapes DEF ContextInv, InitCounted
  <2>2. \A w \in Workers :
          /\ Doing(c, w)' = "notify" => init'[c] # "pending"
          /\ Doing(c, w)' = "request" => init'[c] = "failed"
    BY <1>2 DEF ContextInv, InitCounted
  <2>3. initializing'[c] = Cardinality(Pending(c)')
    BY <1>3 DEF ContextInv, InitCounted
  <2>4. Pending(c)' # {} => init'[c] = "pending" /\ pc'[c] = "opening"
    BY <1>3 DEF ContextInv, InitCounted
  <2>5. Pending(c)' # {} /\ ~ last_error'[c] =>
          ~ requested'[c] /\ Workers \subseteq pools'[c] \cup Pending(c)'
    BY <1>3 DEF ContextInv, InitCounted
  <2>6. init'[c] = "ok" /\ ~ requested'[c] /\ ~ closed'[c] => pools'[c] = Workers
    BY DEF ContextInv, InitCounted
  <2>. QED BY <2>1, <2>2, <2>3, <2>4, <2>5, <2>6
           DEF InitCounted, Workers, Secondary, ToInit, ToShut, Msg
<1>. QED BY <1>4, <1>5, <1>6 DEF ContextInv

\* An acknowledgement concerns a context whose workers are stopping.
LEMMA AckStep ==
    ASSUME IInv, NEW c \in Contexts, TakeAck(c), NEW d \in Contexts
    PROVE  ContextInv(d)'
<1>. USE DEF IInv, Typed
<1>1. CASE d # c
  BY <1>1, AckEffect, SameContext
<1>2. CASE d = c
  <2>1. ~ Fresh(c)
    BY AckEffect DEF Fresh
  <2>2. /\ Doing(c, 0)' \in {"idle", "finish"}
        /\ \A w \in Secondary : Doing(c, w)' = Doing(c, w)
    BY AckEffect, StoppedEffect
  <2>. QED BY <1>2, <2>1, <2>2, AckEffect, EndMoves
<1>. QED BY <1>1, <1>2

\* shutdown_io_worker: the queue of worker t[2] is empty afterwards.
LEMMA ShutdownEffect ==
    ASSUME IInv, NEW c \in Contexts, NEW t \in Secondaries, TakeShutdown(t, c) \/ AckFails(t, c)
    PROVE  /\ t[2] \in Secondary
           /\ Queue(c, t[2]) = <<Msg("shutdown", c)>>
           /\ Doing(c, t[2]) = "idle"
           /\ \A w \in Secondary :
                Queue(c, w)' = IF w = t[2] THEN <<>> ELSE Queue(c, w)
           /\ started[c] /\ requested[c]
           /\ Opens(c)' = Opens(c) /\ Begins(c)' = Begins(c)
           /\ TakeShutdown(t, c) => Acks(c)' = Acks(c) + 1
           /\ Doing(c, t[2])' \in {"idle", "exit"}
           /\ \A w \in Workers : w # t[2] => Doing(c, w)' = Doing(c, w)
           /\ pools'[c] = pools[c] \ {t[2]}
           /\ pc' = pc /\ init' = init /\ last_error' = last_error
           /\ initializing' = initializing /\ workers' = workers /\ descriptor' = descriptor
           /\ requested' = requested /\ started' = started /\ closed' = closed
           /\ complete' = complete /\ shutting' = shutting
           /\ \A d \in Contexts : d # c => Same(d)
<1>. USE DEF IInv, Typed
<1>. DEFINE w == t[2]
<1>1. Received(t, "shutdown", c)
  BY DEF TakeShutdown, AckFails
<1>2. /\ t = <<c, w>> /\ w \in Secondary /\ t # App /\ t \in Threads
      /\ Doing(c, w) = "idle"
      /\ Queue(c, w) = msgs[t]
      /\ Queue(c, w) # <<>> /\ Head(Queue(c, w)) = Msg("shutdown", c)
  BY <1>1, SecondaryReceives
<1>. HIDE DEF w
<1>3. /\ Queue(c, w) = <<Msg("shutdown", c)>> /\ Tail(Queue(c, w)) = <<>>
      /\ Queue(c, w) \in ToShut(c)
  <2>1. Queue(c, w) \in {<<>>} \cup ToInit(c) \cup ToShut(c)
    BY <1>2 DEF ContextInv, InitCounted
  <2>. QED BY <1>2, <2>1, QueueShapes
<1>4. started[c]
  BY <1>2, <1>3 DEF ContextInv, InitCounted
<1>5. requested[c]
  BY <1>4 DEF ContextInv, TeardownOnce
<1>6. /\ msgs'[t] = Tail(msgs[t])
      /\ \A u \in Threads : u # t /\ u # App => msgs'[u] = msgs[u]
      /\ AckFails(t, c) => msgs'[App] = msgs[App]
      /\ TakeShutdown(t, c) => msgs'[App] = Append(msgs[App], Msg("ack", c))
  <2>1. CASE AckFails(t, c)
    BY <2>1, <1>2, ThreadFacts DEF AckFails, MsgsRouted, TakeShutdown
  <2>2. CASE TakeShutdown(t, c)
    <3>1. msgs' = [msgs EXCEPT ![t] = Tail(@), ![App] = Append(@, Msg("ack", c))]
      BY <2>2 DEF TakeShutdown, Msg
    <3>2. msgs'[App] = Append(msgs[App], Msg("ack", c))
      BY <3>1, <1>2, ThreadFacts DEF MsgsRouted
    <3>3. app' = app
      BY <2>2 DEF TakeShutdown, runtimeVars
    <3>4. ~ AckFails(t, c)
      BY <1>1, <3>3 DEF AckFails, Received, AtLoop
    <3>. QED BY <3>1, <3>2, <3>4, <1>2, ThreadFacts DEF MsgsRouted
  <2>. QED BY <2>1, <2>2
<1>7. \A d \in Contexts, v \in Secondary :
        Queue(d, v)' = IF d = c /\ v = w THEN <<>> ELSE Queue(d, v)
  <2>1. msgs'[t] = <<>>
    BY <1>2, <1>3, <1>6
  <2>. SUFFICES ASSUME NEW d \in Contexts, NEW v \in Secondary
                PROVE  msgs'[<<d, v>>] = IF d = c /\ v = w THEN <<>> ELSE msgs[<<d, v>>]
    BY DEF Queue
  <2>2. <<d, v>> \in Threads /\ <<d, v>> # App /\ (<<d, v>> = t <=> d = c /\ v = w)
    BY <1>2, ThreadFacts
  <2>. QED BY <1>6, <2>1, <2>2
<1>8. \A d \in Contexts : /\ Opens(d)' = Opens(d) /\ Begins(d)' = Begins(d)
                          /\ d # c => Acks(d)' = Acks(d)
                          /\ TakeShutdown(t, c) /\ d = c => Acks(d)' = Acks(d) + 1
  <2>1. CASE TakeShutdown(t, c)
    <3>1. \A d \in Contexts : Opens(d) \in Nat /\ Begins(d) \in Nat /\ Acks(d) \in Nat
      BY MailType
    <3>2. \A d \in Contexts :
            /\ Opens(d)' = Opens(d) + (IF "ack" = "open" /\ d = c THEN 1 ELSE 0)
            /\ Begins(d)' = Begins(d) + (IF "ack" = "begin" /\ d = c THEN 1 ELSE 0)
            /\ Acks(d)' = Acks(d) + (IF "ack" = "ack" /\ d = c THEN 1 ELSE 0)
      BY <2>1, <1>6, AppPosted
    <3>. QED BY <3>1, <3>2
  <2>2. CASE AckFails(t, c) /\ ~ TakeShutdown(t, c)
    <3>1. msgs'[App] = msgs[App]
      BY <2>2, <1>6
    <3>. QED BY <2>2, <3>1, Mail
  <2>. QED BY <2>1, <2>2
<1>9. /\ Doing(c, w)' \in {"idle", "exit"}
      /\ \A v \in Workers : v # w => Doing(c, v)' = Doing(c, v)
      /\ \A d \in Contexts : d # c => SameWork(d)
  <2>1. CASE AckFails(t, c)
    <3>1. \A d \in Contexts : SameWork(d)
      BY <2>1, WorkKept DEF AckFails
    <3>. QED BY <1>2, <3>1, ThreadFacts DEF SameWork
  <2>2. CASE TakeShutdown(t, c)
    <3>. DEFINE h == [step |-> "exit", context |-> c]
    <3>1. at' = [at EXCEPT ![ThreadOf(c, w)] = h] /\ at[ThreadOf(c, w)] = Idle /\ w \in Workers
      BY <1>1, <2>2, SecondaryReceives DEF TakeShutdown, GoTo, w
    <3>2. h.step = "exit" /\ h.context = c
      OBVIOUS
    <3>. HIDE DEF h
    <3>. QED BY <3>1, <3>2, WorkMoved
  <2>. QED BY <2>1, <2>2
<1>10. pools'[c] = pools[c] \ {w} /\ \A d \in Contexts : d # c => pools'[d] = pools[d]
  BY DEF TakeShutdown, AckFails, ContextType, w
<1>11. /\ pc' = pc /\ init' = init /\ last_error' = last_error
       /\ initializing' = initializing /\ workers' = workers /\ descriptor' = descriptor
       /\ requested' = requested /\ started' = started /\ closed' = closed
       /\ complete' = complete /\ shutting' = shutting
  BY DEF TakeShutdown, AckFails, contextVars, shutdownVars
<1>12. ASSUME NEW d \in Contexts, d # c PROVE Same(d)
  <2>1. SameMail(d)
    BY <1>7, <1>8, <1>12 DEF SameMail
  <2>. QED BY <1>9, <1>10, <1>11, <1>12, <2>1 DEF Same, SameFlags
<1>13. \A v \in Secondary : Queue(c, v)' = IF v = w THEN <<>> ELSE Queue(c, v)
  BY <1>7
<1>14. /\ Opens(c)' = Opens(c) /\ Begins(c)' = Begins(c)
       /\ TakeShutdown(t, c) => Acks(c)' = Acks(c) + 1
  BY <1>8
<1>. QED BY <1>2, <1>3, <1>4, <1>5, <1>9, <1>10, <1>11, <1>12, <1>13, <1>14 DEF w

\* It takes a pool from a context that has been asked to shut down.
LEMMA ShutdownStep ==
    ASSUME IInv, NEW c \in Contexts, NEW t \in Secondaries, TakeShutdown(t, c) \/ AckFails(t, c),
           NEW d \in Contexts
    PROVE  ContextInv(d)'
<1>. USE DEF IInv, Typed
<1>1. CASE d # c
  BY <1>1, ShutdownEffect, SameContext
<1>2. CASE d = c
  <2>1. ~ Fresh(c)
    BY ShutdownEffect DEF Fresh
  <2>2. \A w \in Secondary :
          Doing(c, w)' = Doing(c, w) \/ (Doing(c, w) = "idle" /\ Doing(c, w)' = "exit")
    BY ShutdownEffect, ThreadFacts
  <2>3. Doing(c, 0)' = Doing(c, 0)
    BY ShutdownEffect, ThreadFacts
  <2>4. \A w \in Secondary :
          \/ Queue(c, w)' = Queue(c, w)
          \/ /\ Queue(c, w) \in ToShut(c) /\ Queue(c, w) \notin ToInit(c)
             /\ Queue(c, w)' = <<>>
    <3>1. /\ Queue(c, t[2]) = <<Msg("shutdown", c)>>
          /\ \A w \in Secondary : Queue(c, w)' = IF w = t[2] THEN <<>> ELSE Queue(c, w)
      BY ShutdownEffect
    <3>2. <<Msg("shutdown", c)>> \in ToShut(c) /\ <<Msg("shutdown", c)>> \notin ToInit(c)
      BY QueueShapes
    <3>. QED BY <3>1, <3>2
  <2>. QED BY <1>2, <2>1, <2>2, <2>3, <2>4, ShutdownEffect, EndMoves
<1>. QED BY <1>1, <1>2

-----------------------------------------------------------------------------
(* The invariant under any failures *)

\* At the start no thread has anything to do with any context.
LEMMA IInvInit == Init => IInv
<1>. SUFFICES ASSUME Init, NEW c \in Contexts PROVE ContextInv(c)
  BY TypedInit DEF IInv
<1>1. msgs[App] = <<>> /\ \A w \in Secondary : Queue(c, w) = <<>>
  BY ThreadFacts DEF Init, Queue
<1>2. \A m : Times(msgs[App], m) = 0
  BY <1>1, TimesEmpty
<1>3. Opens(c) = 0 /\ Begins(c) = 0 /\ Acks(c) = 0
  BY <1>2, Mail
<1>4. \A t \in Threads : at[t].step = "idle"
  BY DEF Init, Idle
<1>5. \A w \in Workers : Doing(c, w) = "idle"
  BY <1>4, ThreadFacts DEF Doing
<1>6. Fresh(c) /\ pc[c] = "new"
  BY <1>1, <1>3, <1>5 DEF Init, Fresh
<1>7. Pending(c) = {}
  <2>1. \A w \in Secondary : Queue(c, w) \notin ToInit(c)
    BY <1>1, QueueShapes
  <2>2. Doing(c, 0) # "init"
    BY <1>5, ThreadFacts
  <2>3. ASSUME NEW w \in Workers PROVE w \notin Pending(c)
    BY <2>1, <2>2, PendingIs, ThreadFacts
  <2>. QED BY <2>3, PendingIs
<1>8. Cardinality(Pending(c)) = 0
  BY <1>7, FS_EmptySet
<1>9. BeforeOpen(c)
  BY <1>3, <1>6 DEF BeforeOpen
<1>10. TeardownOnce(c)
  BY <1>5, <1>6 DEF TeardownOnce, Fresh
<1>11. InitCounted(c)
  <2>1. \A w \in Secondary : Queue(c, w) \notin ToShut(c)
    BY <1>1, QueueShapes
  <2>. QED BY <1>1, <1>5, <1>6, <1>7, <1>8, <2>1 DEF InitCounted, Fresh
<1>. QED BY <1>9, <1>10, <1>11 DEF ContextInv

\* Every step keeps the invariant, whatever fails.
LEMMA IInvStep == IInv /\ [Next]_vars => IInv'
<1>. SUFFICES ASSUME IInv, [Next]_vars PROVE IInv'
  OBVIOUS
<1>1. Typed'
  BY TypedStep DEF IInv
<1>2. ASSUME NEW d \in Contexts PROVE ContextInv(d)'
  <2>1. ASSUME NEW c \in Contexts, QuietOwner(c) PROVE ContextInv(d)'
    BY <1>1, <2>1, QuietOwnerStep
  <2>2. ASSUME NEW c \in Contexts, Drop(c) PROVE ContextInv(d)'
    BY <1>1, <2>2, DropStep
  <2>3. ASSUME NEW c \in Contexts, SendOpen(c) PROVE ContextInv(d)'
    BY <1>1, <2>3, SendOpenStep
  <2>4. ASSUME NEW c \in Contexts, PostByOwner(c) PROVE ContextInv(d)'
    BY <1>1, <2>4, PostByOwnerStep
  <2>5. ASSUME NEW c \in Contexts, OwnerStep(c) \/ OwnerCall(c) PROVE ContextInv(d)'
    BY <2>1, <2>2, <2>3, <2>4, <2>5 DEF OwnerStep, OwnerCall, QuietOwner
  <2>6. ASSUME NEW c \in Contexts, BdevEvent(c) PROVE ContextInv(d)'
    BY <1>1, <2>6, ThreadStepInv, ThreadFacts DEF InHandler
  <2>7. ASSUME NEW t \in Threads, ThreadStep(t) PROVE ContextInv(d)'
    BY <1>1, <2>7, ThreadStepInv DEF ThreadStep, InHandler
  <2>8. ASSUME NEW c \in Contexts, OpenFails(c) \/ SetupFails(c) PROVE ContextInv(d)'
    BY <2>8, OpenFailsStep
  <2>9. ASSUME NEW c \in Contexts, OpenBdev(c) PROVE ContextInv(d)'
    BY <2>9, OpenBdevStep
  <2>10. ASSUME NEW c \in Contexts, InitializeApp(c) PROVE ContextInv(d)'
    BY <1>1, <2>10, InitializeStep, ThreadFacts
  <2>11. ASSUME NEW c \in Contexts, BeginShutdown(c) PROVE ContextInv(d)'
    BY <2>11, BeginStep
  <2>12. ASSUME NEW c \in Contexts, TakeAck(c) PROVE ContextInv(d)'
    BY <2>12, AckStep
  <2>13. ASSUME NEW c \in Contexts, NotifyClosed(c) PROVE ContextInv(d)'
    BY <1>1, <2>13, ThreadStepInv, ThreadFacts DEF InHandler
  <2>14. CASE StartApp \/ StartFails \/ TakeStop \/ UNCHANGED vars
    BY <2>14, RuntimeStep, SameContext DEF IInv
  <2>15. ASSUME NEW t \in Secondaries, SecondaryStep(t) PROVE ContextInv(d)'
    <3>1. t \in Threads
      BY ThreadFacts
    <3>2. ASSUME NEW c \in Contexts, TakeInit(t, c) PROVE ContextInv(d)'
      BY <1>1, <3>1, <3>2, InitializeStep
    <3>3. ASSUME NEW c \in Contexts, TakeShutdown(t, c) \/ AckFails(t, c) PROVE ContextInv(d)'
      BY <3>3, ShutdownStep
    <3>. QED BY <2>15, <3>2, <3>3 DEF SecondaryStep
  <2>16. CASE AppStep
    BY <2>8, <2>9, <2>10, <2>11, <2>12, <2>13, <2>14, <2>16 DEF AppStep
  <2>. QED BY <2>5, <2>6, <2>7, <2>14, <2>15, <2>16 DEF Next, Runtime
<1>. QED BY <1>1, <1>2 DEF IInv

\* The invariant holds of every behaviour.
THEOREM SpecIInv == Spec => []IInv
BY IInvInit, IInvStep, PTL DEF Spec

\* The fields, queues and handlers keep their types, whatever calls into SPDK
\* fail.
THEOREM SpecTypeOK == Spec => []TypeOK
<1>1. IInv => TypeOK
  BY TypedTypeOK DEF IInv
<1>. QED BY <1>1, SpecIInv, PTL

\* However close, bdev events and failed initializations converge on several
\* threads, request_shutdown posts the teardown at most once.
THEOREM SpecTeardownStartsOnce == Spec => []TeardownStartsOnce
<1>1. IInv => TeardownStartsOnce
  <2>. SUFFICES ASSUME IInv, NEW c \in Contexts
                PROVE  Cardinality({i \in DOMAIN msgs[App] :
                          msgs[App][i] = [type |-> "begin", context |-> c]})
                         + (IF started[c] THEN 1 ELSE 0) <= 1
    BY DEF TeardownStartsOnce
  <2>1. Begins(c) = Cardinality({i \in DOMAIN msgs[App] :
                          msgs[App][i] = [type |-> "begin", context |-> c]})
    BY DEF Begins, Times, Occurrences, Positions, Msg
  <2>2. Begins(c) \in Nat
    BY MailType DEF IInv, Typed
  <2>3. Begins(c) # 0 => Begins(c) = 1 /\ ~ started[c]
    BY DEF IInv, ContextInv, TeardownOnce
  <2>. QED BY <2>1, <2>2, <2>3
<1>. QED BY <1>1, SpecIInv, PTL

\* A context that reports itself available has the pool of every worker,
\* whatever failed and whichever worker came last.
THEOREM SpecAvailableMeansReady == Spec => []AvailableMeansReady
<1>1. IInv => AvailableMeansReady
  BY DEF IInv, ContextInv, InitCounted, AvailableMeansReady
<1>. QED BY <1>1, SpecIInv, PTL

-----------------------------------------------------------------------------
(* The runtime, when opening, sending and acknowledging do not fail *)

\* Owners and SPDK threads are counted together as holders of the runtime.
LEMMA HoldersIs ==
    /\ \A x : x \in Holders <=>
         \/ x \in holds
         \/ x \in Contexts /\ pc[x] \in {"post", "drop"}
         \/ x \in Threads /\ at[x].step \in {"post", "release"}
    /\ \A x : x \in Holders' <=>
         \/ x \in holds'
         \/ x \in Contexts /\ pc'[x] \in {"post", "drop"}
         \/ x \in Threads /\ at'[x].step \in {"post", "release"}
    /\ \A x \in Contexts : x \notin Threads
<1>1. \A t \in Threads : t \in (Contexts \cup {None}) \X Nat
  <2>1. App \in (Contexts \cup {None}) \X Nat
    BY DEF App
  <2>2. \A t \in Secondaries : t \in (Contexts \cup {None}) \X Nat
    BY LifecycleAssumption DEF Secondaries
  <2>. QED BY <2>1, <2>2, ThreadFacts
<1>2. \A x \in Contexts : x \notin Threads
  BY <1>1, LifecycleAssumption
<1>3. \A x : x \in Holders' <=>
         \/ x \in holds'
         \/ x \in Contexts /\ pc'[x] \in {"post", "drop"}
         \/ x \in Threads /\ at'[x].step \in {"post", "release"}
  BY DEF Holders, Threads, App, Secondaries
<1>. QED BY <1>2, <1>3 DEF Holders

\* A context that its owner has not given up keeps the runtime alive.
LEMMA HeldRuntime ==
    ASSUME RuntimeSound, Typed, NEW c \in Contexts, c \in Holders
    PROVE  app = "running" /\ ~ stopping /\ registry = None /\ RuntimeAvailable
BY DEF RuntimeSound, HoldersSound, RuntimeAvailable

\* A step that neither adds a first holder nor moves an owner.
LEMMA RuntimeKept ==
    ASSUME RuntimeSound, UNCHANGED <<pc, holds, runtimeVars>>, Stops' = Stops,
           Holders = {} => Holders' = {}
    PROVE  RuntimeSound'
<1>. USE DEF runtimeVars
<1>1. RegistrySound'
  BY DEF RuntimeSound, RegistrySound
<1>2. HoldersSound'
  BY DEF RuntimeSound, HoldersSound
<1>3. ClaimsSound'
  BY DEF RuntimeSound, ClaimsSound, Claiming, Live
<1>. QED BY <1>1, <1>2, <1>3 DEF RuntimeSound

\* StopCallback is neither posted nor taken with the messages of a context.
LEMMA StopsKept ==
    ASSUME Typed, NEW c \in Contexts,
           \/ msgs'[App] = msgs[App]
           \/ \E type \in {"open", "begin", "ack"} :
                Received(App, type, c) /\ msgs'[App] = Tail(msgs[App])
           \/ \E type \in {"open", "begin", "ack"} :
                msgs'[App] = Append(msgs[App], Msg(type, c))
    PROVE  Stops' = Stops
<1>. USE DEF Typed
<1>1. CASE msgs'[App] = msgs[App]
  BY <1>1, Mail
<1>2. ASSUME NEW type \in {"open", "begin", "ack"}, Received(App, type, c),
             msgs'[App] = Tail(msgs[App])
      PROVE  Stops' = Stops
  BY <1>2, AppReceives, AppTaken
<1>3. ASSUME NEW type \in {"open", "begin", "ack"}, msgs'[App] = Append(msgs[App], Msg(type, c))
      PROVE  Stops' = Stops
  BY <1>3, AppPosted
<1>. QED BY <1>1, <1>2, <1>3

\* One thread moves; unless the runtime is held already, not to a step that
\* holds it.
LEMMA ThreadKeepsRuntime ==
    ASSUME RuntimeSound, Typed, NEW t \in Threads, NEW h,
           at' = at \/ at' = [at EXCEPT ![t] = h],
           h.step \in {"post", "release"} => Holders # {},
           UNCHANGED <<pc, holds, runtimeVars>>, Stops' = Stops
    PROVE  RuntimeSound'
<1>1. ASSUME Holders = {}, NEW x \in Holders' PROVE FALSE
  <2>1. \A u \in Threads : at'[u].step \in {"post", "release"} => at[u].step \in {"post", "release"}
    BY <1>1 DEF Typed, AtRouted
  <2>. QED BY <1>1, <2>1, HoldersIs
<1>. QED BY <1>1, RuntimeKept

\* The steps of SPDK threads that take a message or initialize a worker.
LEMMA TakeKeepsRuntime ==
    ASSUME RuntimeSound, Typed, NEW c \in Contexts, NEW t \in Threads,
           \/ OpenFails(c) \/ SetupFails(c) \/ OpenBdev(c) \/ InitializeApp(c)
           \/ BeginShutdown(c) \/ TakeAck(c)
           \/ t \in Secondaries /\ (TakeInit(t, c) \/ TakeShutdown(t, c))
    PROVE  RuntimeSound'
<1>. USE DEF Typed, MsgsRouted
<1>1. UNCHANGED <<pc, holds, runtimeVars>>
  BY DEF OpenFails, SetupFails, OpenBdev, InitializeApp, BeginShutdown, TakeAck, TakeInit,
         TakeShutdown
<1>2. Stops' = Stops
  <2>1. CASE OpenFails(c) \/ SetupFails(c) \/ OpenBdev(c)
    <3>1. Received(App, "open", c) /\ msgs'[App] = Tail(msgs[App])
      BY <2>1, ThreadFacts DEF OpenFails, SetupFails, OpenBdev
    <3>. QED BY <3>1, StopsKept
  <2>2. CASE BeginShutdown(c)
    <3>1. Received(App, "begin", c) /\ msgs'[App] = Tail(msgs[App])
      BY <2>2, ThreadFacts DEF BeginShutdown
    <3>. QED BY <3>1, StopsKept
  <2>3. CASE TakeAck(c)
    <3>1. Received(App, "ack", c) /\ msgs'[App] = Tail(msgs[App])
      BY <2>3, ThreadFacts DEF TakeAck
    <3>. QED BY <3>1, StopsKept
  <2>4. CASE InitializeApp(c) \/ (t \in Secondaries /\ TakeInit(t, c))
    <3>1. msgs'[App] = msgs[App]
      BY <2>4, ThreadFacts DEF InitializeApp, TakeInit
    <3>. QED BY <3>1, StopsKept
  <2>5. CASE t \in Secondaries /\ TakeShutdown(t, c)
    <3>1. msgs' = [msgs EXCEPT ![t] = Tail(@), ![App] = Append(@, Msg("ack", c))]
      BY <2>5 DEF TakeShutdown, Msg
    <3>2. msgs'[App] = Append(msgs[App], Msg("ack", c))
      BY <2>5, <3>1, ThreadFacts
    <3>. QED BY <3>2, StopsKept
  <2>. QED BY <2>1, <2>2, <2>3, <2>4, <2>5
<1>3. \E u \in Threads : \E h : /\ at' = at \/ at' = [at EXCEPT ![u] = h]
                               /\ h.step \notin {"post", "release"}
  <2>. DEFINE H(s) == [step |-> s, context |-> c]
  <2>1. Idle.step = "idle" /\ H("notify").step = "notify" /\ H("init").step = "init"
          /\ H("finish").step = "finish" /\ App \in Threads
    BY ThreadFacts DEF Idle
  <2>2. CASE OpenFails(c) \/ SetupFails(c)
    <3>1. at' = [at EXCEPT ![App] = H("notify")]
      BY <2>2 DEF OpenFails, SetupFails, GoTo
    <3>. QED BY <2>1, <3>1
  <2>3. CASE OpenBdev(c)
    <3>1. at' = [at EXCEPT ![App] = H("init")]
      BY <2>3 DEF OpenBdev, GoTo
    <3>. QED BY <2>1, <3>1
  <2>4. CASE BeginShutdown(c) \/ TakeAck(c)
    <3>1. at' = at \/ at' = [at EXCEPT ![App] = H("finish")]
      BY <2>4 DEF BeginShutdown, TakeAck, WorkersStopped, GoTo
    <3>. QED BY <2>1, <3>1
  <2>5. CASE InitializeApp(c) \/ TakeInit(t, c)
    <3>1. \E u \in Threads : at' = [at EXCEPT ![u] = Idle] \/ at' = [at EXCEPT ![u] = H("notify")]
      BY <2>5, ThreadFacts DEF InitializeApp, TakeInit, InitializeWorker, GoTo
    <3>. QED BY <2>1, <3>1
  <2>6. CASE t \in Secondaries /\ TakeShutdown(t, c)
    <3>1. at' = [at EXCEPT ![t] = H("exit")] /\ t \in Threads
      BY <2>6, ThreadFacts DEF TakeShutdown, GoTo
    <3>2. H("exit").step = "exit"
      OBVIOUS
    <3>. QED BY <3>1, <3>2
  <2>. QED BY <2>2, <2>3, <2>4, <2>5, <2>6
<1>. QED BY <1>1, <1>2, <1>3, ThreadKeepsRuntime

\* Nothing that a thread does inside a handler ends the runtime: the context
\* it works for is still held.
LEMMA HandlerKeepsRuntime ==
    ASSUME CInv, NEW c \in Contexts, NEW t \in Threads, InHandler(t, c)
    PROVE  /\ RuntimeSound'
           /\ ReleaseOnThread(t, c) => Doing(c, t[2])' = "idle"
<1>. USE DEF CInv, IInv, Typed
<1>. DEFINE w == t[2]
<1>1. /\ w \in Workers
      /\ Doing(c, w) = at[t].step
      /\ HandlerMove(t, c, Doing(c, w)')
  BY InHandlerEffect
<1>2. PICK h : at' = [at EXCEPT ![t] = h] /\ h.step = Doing(c, w)'
  BY InHandlerEffect
<1>. HIDE DEF w
<1>3. pc' = pc /\ holds' = holds
  BY DEF InHandler, NotifyInit, RequestOnThread, PostOnThread, ReleaseOnThread, NotifyClosed, ExitThread,
         BdevEvent
<1>4. Stops' = Stops
  <2>1. CASE PostOnThread(t, c)
    BY <2>1, PostEffect DEF PostOnThread
  <2>2. CASE ~ PostOnThread(t, c)
    <3>1. msgs' = msgs
      BY <2>2 DEF InHandler, NotifyInit, RequestOnThread, ReleaseOnThread, NotifyClosed, ExitThread, BdevEvent
    <3>. QED BY <3>1, MailKept
  <2>. QED BY <2>1, <2>2
<1>5. CASE ReleaseOnThread(t, c)
  <2>1. at[t].step = "release" /\ at[t] = [step |-> "release", context |-> c]
    BY <1>5 DEF ReleaseOnThread
  <2>2. c \in Holders /\ c # t
    <3>1. pc[c] \in Live
      BY <1>1, <2>1 DEF TeardownSound, Still
    <3>2. c \in holds
      BY <3>1 DEF RuntimeSound, ClaimsSound, Claiming
    <3>. QED BY <3>2, HoldersIs
  <2>3. at' = [at EXCEPT ![t] = Idle] /\ UNCHANGED runtimeVars
    BY <1>5, <2>2 DEF ReleaseOnThread, runtimeVars
  <2>4. Idle.step = "idle" /\ at'[t] = Idle
    BY <2>3 DEF Idle, AtRouted
  <2>5. h.step = "idle"
    BY <1>2, <2>4 DEF AtRouted
  <2>. QED BY <1>2, <1>3, <1>4, <2>3, <2>4, <2>5, ThreadKeepsRuntime DEF w
<1>6. CASE ~ ReleaseOnThread(t, c)
  <2>1. UNCHANGED runtimeVars
    BY <1>6 DEF InHandler, NotifyInit, RequestOnThread, PostOnThread, NotifyClosed, ExitThread, BdevEvent
  <2>2. h.step \in {"post", "release"} => Holders # {}
    <3>1. h.step = "post" => StartsShutdown(c)
      BY <1>1, <1>2, <1>6 DEF HandlerMove
    <3>2. h.step = "post" => c \in Holders
      BY <3>1, HoldersIs DEF StartsShutdown
    <3>3. h.step = "release" => at[t].step = "post"
      BY <1>1, <1>2, <1>6 DEF HandlerMove, PostOnThread
    <3>4. h.step = "release" => t \in Holders
      BY <3>3, HoldersIs
    <3>. QED BY <3>2, <3>4
  <2>. QED BY <1>2, <1>3, <1>4, <1>6, <2>1, <2>2, ThreadKeepsRuntime
<1>. QED BY <1>5, <1>6

\* The runtime's thread: SPDK starts for nobody else's context, and StopCallback
\* comes after the last holder is gone.
LEMMA RuntimeThreadKeeps ==
    ASSUME RuntimeSound, Typed, StartApp \/ StartFails \/ TakeStop \/ UNCHANGED vars
    PROVE  RuntimeSound'
<1>1. pc' = pc /\ holds' = holds /\ at' = at /\ registry' = registry /\ stopping' = stopping
        /\ claimed' = claimed
  BY DEF StartApp, StartFails, TakeStop, vars, runtimeVars
<1>2. \A x : x \in Holders' <=> x \in Holders
  BY <1>1, HoldersIs
<1>3. Holders = {} <=> Holders' = {}
  BY <1>2
<1>4. RegistrySound'
  BY <1>1 DEF RuntimeSound, RegistrySound
<1>5. ClaimsSound'
  BY <1>1 DEF RuntimeSound, ClaimsSound, Claiming, Live
<1>6. HoldersSound'
  <2>1. CASE StartApp \/ StartFails
    <3>1. Stops' = Stops
      BY <2>1, MailKept DEF StartApp, StartFails
    <3>. QED BY <1>1, <1>3, <2>1, <3>1 DEF StartApp, StartFails, RuntimeSound, HoldersSound, Typed, RuntimeType
  <2>2. CASE TakeStop
    <3>1. /\ msgs[App] # <<>> /\ Head(msgs[App]) = Msg("stop", None)
          /\ msgs' = [msgs EXCEPT ![App] = Tail(@)]
      BY <2>2 DEF TakeStop, Received, Msg
    <3>2. msgs[App] \in Seq(MessagesOf(App)) /\ Len(msgs'[App]) # Len(Append(msgs[App], Msg("stop", None)))
      BY <3>1, ThreadFacts DEF Typed, MsgsRouted
    <3>3. msgs' # [msgs EXCEPT ![App] = Append(@, Msg("stop", None))]
      BY <3>2, ThreadFacts DEF Typed, MsgsRouted
    <3>4. Stops # 0
      BY <3>1, <3>3, StopMoved DEF Typed
    <3>. QED BY <1>1, <1>3, <2>2, <3>4 DEF TakeStop, RuntimeSound, HoldersSound
  <2>3. CASE UNCHANGED vars
    <3>1. Stops' = Stops
      BY <2>3, MailKept DEF vars
    <3>. QED BY <1>1, <1>3, <2>3, <3>1 DEF vars, runtimeVars, RuntimeSound, HoldersSound
  <2>. QED BY <2>1, <2>2, <2>3
<1>. QED BY <1>4, <1>5, <1>6 DEF RuntimeSound

\* The owner of c moves without claiming or giving up anything.
LEMMA ClaimsKept ==
    ASSUME ClaimsSound, Typed, NEW c \in Contexts, NEW place, pc' = [pc EXCEPT ![c] = place],
           place \in Claiming <=> pc[c] \in Claiming,
           place = "claim" <=> pc[c] = "claim",
           holds' = holds, claimed' = claimed
    PROVE  ClaimsSound'
<1>1. \A d \in Contexts : /\ pc'[d] \in Claiming <=> pc[d] \in Claiming
                          /\ pc'[d] = "claim" <=> pc[d] = "claim"
  BY DEF Typed, RuntimeType
<1>. QED BY <1>1 DEF ClaimsSound, Claiming, Live

\* Owners that keep or drop a context they hold, or hold none.
LEMMA OwnerKeepsRuntime ==
    ASSUME RuntimeSound, Typed, NEW c \in Contexts,
           \/ AcquireShared(c) \/ AcquireThrows(c) \/ Claim(c) \/ SendOpen(c) \/ Join(c)
           \/ Constructed(c) \/ Close(c) \/ RequestByOwner(c) \/ PostByOwner(c)
           \/ CloseReleases(c)
    PROVE  RuntimeSound'
<1>. USE DEF Typed, RuntimeType, RuntimeSound
<1>1. /\ app' = app /\ started_once' = started_once /\ registry' = registry
      /\ stopping' = stopping /\ at' = at
  BY DEF AcquireShared, AcquireThrows, Claim, SendOpen, Join, Constructed, Close, RequestByOwner,
         PostByOwner, CloseReleases, runtimeVars
<1>2. PICK place :
        /\ pc' = [pc EXCEPT ![c] = place]
        /\ pc[c] # "starting" /\ place # "starting"
        /\ \/ AcquireShared(c) /\ pc[c] = "new" /\ place = "claim"
           \/ AcquireThrows(c) /\ pc[c] = "new" /\ place = "dead"
           \/ Claim(c) /\ pc[c] = "claim" /\ place \in {"drop", "send"}
           \/ SendOpen(c) /\ pc[c] = "send" /\ place = "opening"
           \/ Join(c) /\ pc[c] = "join" /\ place = "dead"
           \/ Constructed(c) /\ pc[c] = "opening" /\ place \in {"open", "close"}
           \/ Close(c) /\ pc[c] \in {"open", "close"} /\ place \in {"request", "wait"}
           \/ RequestByOwner(c) /\ pc[c] = "request" /\ place \in {"post", "wait"}
           \/ PostByOwner(c) /\ pc[c] = "post" /\ place = "wait"
           \/ CloseReleases(c) /\ pc[c] = "wait" /\ place = "drop"
  BY DEF AcquireShared, AcquireThrows, Claim, SendOpen, Join, Constructed, Close, RequestByOwner,
         PostByOwner, CloseReleases
<1>3. RegistrySound'
  <2>1. \A d \in Contexts : pc'[d] = "starting" <=> pc[d] = "starting"
    BY <1>2
  <2>. QED BY <1>1, <2>1 DEF RegistrySound
<1>4. Stops' = Stops
  <2>1. CASE SendOpen(c)
    BY <2>1, SendOpenEffect
  <2>2. CASE PostByOwner(c)
    BY <2>2, PostEffect DEF PostByOwner
  <2>3. CASE ~ SendOpen(c) /\ ~ PostByOwner(c)
    <3>1. msgs' = msgs
      BY <2>3 DEF AcquireShared, AcquireThrows, Claim, Join, Constructed, Close, RequestByOwner,
                  CloseReleases
    <3>. QED BY <3>1, MailKept
  <2>. QED BY <2>1, <2>2, <2>3
<1>5. \/ holds' = holds
      \/ AcquireShared(c) /\ holds' = holds \cup {c} /\ claimed' = claimed
      \/ Claim(c) /\ holds' = holds \ {c} /\ claimed' = claimed /\ place = "drop"
      \/ CloseReleases(c) /\ holds' = holds \ {c} /\ claimed' = claimed \ {Bdev[c]}
  BY <1>2 DEF AcquireShared, AcquireThrows, Claim, SendOpen, Join, Constructed, Close, RequestByOwner,
         PostByOwner, CloseReleases, runtimeVars
<1>6. HoldersSound'
  <2>1. Holders = {} => Holders' = {}
    <3>. SUFFICES ASSUME Holders = {}, NEW x \in Holders' PROVE FALSE
      OBVIOUS
    <3>1. c \notin holds /\ pc[c] \notin {"post", "drop"} /\ ~ AcquireShared(c)
      BY HoldersIs DEF AcquireShared
    <3>2. pc[c] \notin Claiming \cup {"claim"}
      BY <3>1 DEF ClaimsSound
    <3>3. place = "dead" /\ holds' = holds
      BY <1>2, <1>5, <3>1, <3>2 DEF Claiming, Live
    <3>4. \A d \in Contexts : pc'[d] \in {"post", "drop"} => pc[d] \in {"post", "drop"}
      BY <1>2, <3>3
    <3>. QED BY <1>1, <3>3, <3>4, HoldersIs
  <2>. QED BY <1>1, <1>4, <2>1 DEF HoldersSound
<1>7. ClaimsSound'
  <2>1. CASE AcquireShared(c)
    <3>1. /\ pc'[c] = "claim" /\ \A d \in Contexts : d # c => pc'[d] = pc[d]
          /\ holds' = holds \cup {c} /\ claimed' = claimed
      BY <2>1 DEF AcquireShared, runtimeVars
    <3>. QED BY <3>1 DEF ClaimsSound, Claiming, Live
  <2>2. CASE Claim(c) /\ Bdev[c] \in claimed
    <3>1. /\ pc'[c] = "drop" /\ \A d \in Contexts : d # c => pc'[d] = pc[d]
          /\ holds' = holds \ {c} /\ claimed' = claimed
      BY <2>2 DEF Claim
    <3>. QED BY <3>1 DEF ClaimsSound, Claiming, Live
  <2>3. CASE Claim(c) /\ Bdev[c] \notin claimed
    <3>1. /\ pc[c] = "claim" /\ pc'[c] = "send" /\ \A d \in Contexts : d # c => pc'[d] = pc[d]
          /\ holds' = holds /\ claimed' = claimed \cup {Bdev[c]}
      BY <2>3 DEF Claim
    <3>2. \A d \in Contexts : d # c /\ pc'[d] \in Claiming => Bdev[d] # Bdev[c]
      BY <2>3, <3>1 DEF ClaimsSound
    <3>. QED BY <3>1, <3>2 DEF ClaimsSound, Claiming, Live
  <2>4. CASE CloseReleases(c)
    <3>1. /\ pc[c] = "wait" /\ pc'[c] = "drop" /\ \A d \in Contexts : d # c => pc'[d] = pc[d]
          /\ holds' = holds \ {c} /\ claimed' = claimed \ {Bdev[c]}
      BY <2>4 DEF CloseReleases
    <3>2. \A d \in Contexts : d # c /\ pc'[d] \in Claiming => Bdev[d] # Bdev[c]
      BY <3>1 DEF ClaimsSound, Claiming, Live
    <3>. QED BY <3>1, <3>2 DEF ClaimsSound, Claiming, Live
  <2>5. CASE \/ AcquireThrows(c) \/ SendOpen(c) \/ Join(c) \/ Constructed(c) \/ Close(c)
             \/ RequestByOwner(c) \/ PostByOwner(c)
    <3>1. holds' = holds /\ claimed' = claimed
      BY <2>5 DEF AcquireThrows, SendOpen, Join, Constructed, Close, RequestByOwner, PostByOwner,
                  runtimeVars
    <3>2. (~ AcquireShared(c) /\ ~ Claim(c) /\ ~ CloseReleases(c)) \/ ClaimsSound'
      BY <2>1, <2>2, <2>3, <2>4
    <3>3. \/ /\ place \in Claiming <=> pc[c] \in Claiming
             /\ place = "claim" <=> pc[c] = "claim"
          \/ ClaimsSound'
      BY <1>2, <3>2 DEF Claiming, Live
    <3>. QED BY <1>2, <3>1, <3>3, ClaimsKept
  <2>. QED BY <2>1, <2>2, <2>3, <2>4, <2>5
<1>. QED BY <1>3, <1>6, <1>7

\* The owner that makes the runtime holds the registry, and nobody the runtime.
LEMMA AcquireKeepsRuntime ==
    ASSUME RuntimeSound, Typed, NEW c \in Contexts, AcquireFirst(c) \/ Acquired(c)
    PROVE  RuntimeSound'
<1>. USE DEF Typed, RuntimeType, RuntimeSound
<1>1. Stops' = Stops /\ at' = at
  BY MailKept DEF AcquireFirst, Acquired
<1>2. CASE AcquireFirst(c)
  <2>1. /\ pc' = [pc EXCEPT ![c] = "starting"] /\ pc[c] = "new" /\ registry = None /\ registry' = c
        /\ holds' = holds /\ claimed' = claimed /\ app' = "starting" /\ stopping' = stopping
        /\ started_once' = started_once /\ ~ started_once /\ Holders = {}
    BY <1>2 DEF AcquireFirst
  <2>2. RegistrySound'
    BY <2>1, LifecycleAssumption DEF RegistrySound
  <2>3. HoldersSound'
    <3>1. \A d \in Contexts : pc'[d] \in {"post", "drop"} => pc[d] \in {"post", "drop"}
      BY <2>1
    <3>2. Holders' = {}
      BY <1>1, <2>1, <3>1, HoldersIs
    <3>. QED BY <1>1, <2>1, <3>2 DEF HoldersSound
  <2>4. ClaimsSound'
    BY <2>1, ClaimsKept DEF Claiming, Live
  <2>. QED BY <2>2, <2>3, <2>4
<1>3. CASE Acquired(c)
  <2>1. /\ pc[c] = "starting" /\ registry' = None /\ claimed' = claimed
        /\ stopping' = stopping /\ started_once' = started_once
    BY <1>3 DEF Acquired
  <2>2. registry = c /\ Holders = {} /\ ~ stopping /\ c # None
    BY <2>1, LifecycleAssumption DEF RegistrySound, HoldersSound
  <2>3. CASE app = "running"
    <3>1. holds' = holds \cup {c} /\ pc' = [pc EXCEPT ![c] = "claim"] /\ app' = app
      BY <1>3, <2>3 DEF Acquired
    <3>2. RegistrySound'
      BY <2>1, <2>2, <3>1, LifecycleAssumption DEF RegistrySound
    <3>3. HoldersSound'
      BY <1>1, <2>1, <2>2, <2>3, <3>1 DEF HoldersSound
    <3>4. ClaimsSound'
      BY <2>1, <3>1 DEF ClaimsSound, Claiming, Live
    <3>. QED BY <3>2, <3>3, <3>4
  <2>4. CASE app # "running"
    <3>1. holds' = holds /\ pc' = [pc EXCEPT ![c] = "dead"] /\ app' = "off"
      BY <1>3, <2>4 DEF Acquired
    <3>2. RegistrySound'
      BY <2>1, <2>2, <3>1, LifecycleAssumption DEF RegistrySound
    <3>3. \A d \in Contexts : pc'[d] \in {"post", "drop"} => pc[d] \in {"post", "drop"}
      BY <3>1
    <3>4. Holders' = {}
      BY <1>1, <2>2, <3>1, <3>3, HoldersIs
    <3>5. HoldersSound'
      BY <1>1, <2>1, <2>2, <3>1, <3>4 DEF HoldersSound
    <3>6. ClaimsSound'
      BY <2>1, <3>1, ClaimsKept DEF Claiming, Live
    <3>. QED BY <3>2, <3>5, <3>6
  <2>. QED BY <2>3, <2>4
<1>. QED BY <1>2, <1>3

\* The last owner to drop its pointer stops a runtime that nobody holds.
LEMMA DropKeepsRuntime ==
    ASSUME RuntimeSound, Typed, NEW c \in Contexts, Drop(c)
    PROVE  RuntimeSound'
<1>. USE DEF Typed, RuntimeType, RuntimeSound
<1>1. /\ pc[c] = "drop" /\ holds' = holds /\ claimed' = claimed /\ app' = app
      /\ started_once' = started_once /\ registry' = registry /\ at' = at
  BY DEF Drop
<1>2. c \in Holders /\ c \notin holds /\ c \notin Threads
  BY <1>1, HoldersIs DEF ClaimsSound, Claiming, Live
<1>3. app = "running" /\ ~ stopping /\ registry = None /\ started_once
  BY <1>2 DEF HoldersSound
<1>4. CASE Holders = {c}
  <2>1. stopping' = TRUE /\ pc' = [pc EXCEPT ![c] = "join"]
    BY <1>4 DEF Drop
  <2>2. \A d \in Contexts : pc'[d] \in {"post", "drop"} => d # c /\ pc[d] \in {"post", "drop"}
    BY <2>1
  <2>3. Holders' = {}
    BY <1>1, <1>2, <1>4, <2>2, HoldersIs
  <2>4. RegistrySound'
    BY <1>1, <1>3, <2>1 DEF RegistrySound
  <2>5. HoldersSound'
    BY <1>1, <1>3, <2>1, <2>3 DEF HoldersSound
  <2>6. ClaimsSound'
    BY <1>1, <2>1, ClaimsKept DEF Claiming, Live
  <2>. QED BY <2>4, <2>5, <2>6
<1>5. CASE Holders # {c}
  <2>1. stopping' = stopping /\ pc' = [pc EXCEPT ![c] = "dead"] /\ msgs' = msgs
    BY <1>5 DEF Drop
  <2>2. Stops' = Stops
    BY <2>1, MailKept
  <2>3. RegistrySound'
    BY <1>1, <1>3, <2>1 DEF RegistrySound
  <2>4. HoldersSound'
    BY <1>1, <1>3, <2>1, <2>2 DEF HoldersSound
  <2>5. ClaimsSound'
    BY <1>1, <2>1, ClaimsKept DEF Claiming, Live
  <2>. QED BY <2>3, <2>4, <2>5
<1>. QED BY <1>4, <1>5

-----------------------------------------------------------------------------
(* The teardown, when opening, sending and acknowledging do not fail *)

\* The parts of TeardownSound after a step.
LEMMA TeardownIs ==
    ASSUME NEW c \in Contexts,
           pc'[c] \notin Live \/ complete'[c] => Still(c)',
           complete'[c] => started'[c],
           \A w \in Workers : Doing(c, w)' # "joining",
           started'[c] =>
             /\ shutting'[c] = Cardinality(ToStop(c)') + Acks(c)'
             /\ pools'[c] \subseteq ToStop(c)'
             /\ Pending(c)' \subseteq ToStop(c)'
             /\ Doing(c, 0)' \in {"idle", "finish", "exit"}
             /\ \A w \in Secondary : Doing(c, w)' \notin {"idle", "finish", "exit"} => w \in ToStop(c)',
           ~ started'[c] =>
             /\ shutting'[c] = 0
             /\ Acks(c)' = 0
             /\ \A w \in Secondary :
                  w \in pools'[c] \/ Queue(c, w)' # <<>> \/ Doing(c, w)' # "idle"
                    => w < workers'[c],
           init'[c] # "pending" \/ Pending(c)' # {} => descriptor'[c] \/ complete'[c],
           pc'[c] \in Live \ {"opening"} => init'[c] # "pending"
    PROVE  TeardownSound(c)'
BY DEF TeardownSound, Live, Workers, Secondary

\* Where nothing of c is left, nothing of it is pending.
LEMMA StillFacts ==
    ASSUME NEW c \in Contexts, Still(c)
    PROVE  /\ Pending(c) = {} /\ ToStop(c) = {}
           /\ \A w \in Secondary : Doing(c, w) \in {"idle", "finish", "exit"}
           /\ Doing(c, 0) \in {"idle", "finish", "exit"}
<1>1. Doing(c, 0) # "init"
  BY ThreadFacts DEF Still
<1>2. \A w \in Secondary : Queue(c, w) \notin ToInit(c) /\ Queue(c, w) \notin ToShut(c)
  BY QueueShapes DEF Still
<1>3. ASSUME NEW w \in Pending(c) PROVE FALSE
  BY <1>1, <1>2, <1>3, PendingIs, ThreadFacts
<1>4. ASSUME NEW w \in ToStop(c) PROVE FALSE
  BY <1>2, <1>4, PendingIs
<1>. QED BY <1>3, <1>4, ThreadFacts DEF Still

\* A context whose threads and flags stay keeps what the teardown needs.
LEMMA OwnerSound ==
    ASSUME NEW c \in Contexts, TeardownSound(c), SameMail(c), SameWork(c), SameInner(c),
           pc'[c] \notin Live => pc[c] \notin Live \/ complete[c],
           complete'[c] => complete[c],
           pc'[c] \in Live \ {"opening"} => init[c] # "pending",
           complete[c] => complete'[c]
    PROVE  TeardownSound(c)'
<1>1. Pending(c)' = Pending(c) /\ ToStop(c)' = ToStop(c)
  BY PendingKept
<1>2. \A w \in Workers : Doing(c, w)' = Doing(c, w)
  BY DEF SameWork
<1>3. Doing(c, 0)' = Doing(c, 0) /\ \A w \in Secondary : Doing(c, w)' = Doing(c, w)
  BY <1>2, ThreadFacts
<1>. USE <1>1, <1>2, <1>3 DEF SameMail, SameInner
<1>4. Still(c) => Still(c)'
  BY DEF Still, Workers, Secondary
<1>5. pc'[c] \notin Live \/ complete'[c] => Still(c)'
  BY <1>4 DEF TeardownSound
<1>6. started'[c] =>
             /\ shutting'[c] = Cardinality(ToStop(c)') + Acks(c)'
             /\ pools'[c] \subseteq ToStop(c)'
             /\ Pending(c)' \subseteq ToStop(c)'
             /\ Doing(c, 0)' \in {"idle", "finish", "exit"}
             /\ \A w \in Secondary : Doing(c, w)' \notin {"idle", "finish", "exit"} => w \in ToStop(c)'
  BY DEF TeardownSound
<1>7. ~ started'[c] =>
             /\ shutting'[c] = 0
             /\ Acks(c)' = 0
             /\ \A w \in Secondary :
                  w \in pools'[c] \/ Queue(c, w)' # <<>> \/ Doing(c, w)' # "idle"
                    => w < workers'[c]
  BY DEF TeardownSound
<1>8. /\ complete'[c] => started'[c]
      /\ \A w \in Workers : Doing(c, w)' # "joining"
      /\ init'[c] # "pending" \/ Pending(c)' # {} => descriptor'[c] \/ complete'[c]
      /\ pc'[c] \in Live \ {"opening"} => init'[c] # "pending"
  BY DEF TeardownSound
<1>. QED BY <1>5, <1>6, <1>7, <1>8, TeardownIs

\* An owner gives its context up after the teardown: close found it complete,
\* or there had never been anything to tear down.
LEMMA QuietOwnerSound ==
    ASSUME CInv, Contained, NEW c \in Contexts, QuietOwner(c), NEW d \in Contexts
    PROVE  TeardownSound(d)'
<1>. USE DEF CInv, IInv, Typed, RuntimeType, ContextType
<1>1. SameMail(d) /\ SameWork(d) /\ SameInner(d)
  BY QuietOwnerEffect
<1>2. CASE d # c
  BY <1>2, QuietOwnerEffect, SameContext
<1>3. CASE d = c
  <2>1. CASE \/ AcquireShared(c) \/ AcquireThrows(c) \/ AcquireFirst(c)
             \/ Acquired(c) \/ Claim(c) \/ Join(c)
    <3>1. pc[c] \notin Live /\ pc'[c] \notin Live /\ complete'[c] = complete[c]
      BY <2>1 DEF AcquireShared, AcquireThrows, AcquireFirst, Acquired, Claim, Join,
                  shutdownVars, Live
    <3>. QED BY <1>1, <1>3, <3>1, OwnerSound
  <2>2. CASE SendOpenFails(c)
    <3>1. c \in Holders
      BY <2>2, HoldersIs DEF SendOpenFails, RuntimeSound, ClaimsSound, Claiming
    <3>2. RuntimeAvailable
      BY <3>1, HeldRuntime
    <3>. QED BY <2>2, <3>2 DEF SendOpenFails, Contained
  <2>3. CASE Constructed(c)
    <3>1. pc'[c] \in {"open", "close"} /\ init[c] # "pending" /\ complete'[c] = complete[c]
      BY <2>3 DEF Constructed, shutdownVars
    <3>. QED BY <1>1, <1>3, <3>1, OwnerSound DEF Live
  <2>4. CASE Close(c)
    <3>1. pc[c] \in {"open", "close"} /\ pc'[c] \in {"request", "wait"}
      BY <2>4 DEF Close
    <3>2. init[c] # "pending" /\ (descriptor[c] \/ complete[c])
      BY <3>1 DEF TeardownSound, Live
    <3>3. complete'[c] <=> complete[c]
      BY <2>4, <3>2 DEF Close
    <3>. QED BY <1>1, <1>3, <3>1, <3>2, <3>3, OwnerSound DEF Live
  <2>5. CASE RequestByOwner(c)
    <3>1. pc[c] = "request" /\ pc'[c] \in {"post", "wait"} /\ complete'[c] = complete[c]
      BY <2>5 DEF RequestByOwner
    <3>2. init[c] # "pending"
      BY <3>1 DEF TeardownSound, Live
    <3>. QED BY <1>1, <1>3, <3>1, <3>2, OwnerSound DEF Live
  <2>6. CASE CloseReleases(c)
    <3>1. pc'[c] = "drop" /\ complete[c] /\ complete'[c] = complete[c]
      BY <2>6 DEF CloseReleases, shutdownVars
    <3>. QED BY <1>1, <1>3, <3>1, OwnerSound DEF Live
  <2>. QED BY <2>1, <2>2, <2>3, <2>4, <2>5, <2>6 DEF QuietOwner
<1>. QED BY <1>2, <1>3

\* So it is with the pointer it drops last.
LEMMA DropSound ==
    ASSUME CInv, NEW c \in Contexts, Drop(c), NEW d \in Contexts
    PROVE  TeardownSound(d)'
<1>. USE DEF CInv, IInv, Typed, RuntimeType
<1>1. CASE d # c
  BY <1>1, DropEffect, SameContext
<1>2. CASE d = c
  <2>1. pc[c] = "drop" /\ pc'[c] \in {"join", "dead"}
    BY DEF Drop
  <2>. QED BY <2>1, <1>2, DropEffect, OwnerSound DEF Live
<1>. QED BY <1>1, <1>2

\* The constructor posts its message for a context without anything to release.
LEMMA SendOpenSound ==
    ASSUME CInv, NEW c \in Contexts, SendOpen(c), NEW d \in Contexts
    PROVE  TeardownSound(d)'
<1>. USE DEF CInv, IInv, Typed, RuntimeType
<1>1. CASE d # c
  BY <1>1, SendOpenEffect, SameContext
<1>2. CASE d = c
  <2>1. pc[c] = "send" /\ pc'[c] = "opening"
    BY DEF SendOpen
  <2>2. Fresh(c)
    BY <2>1 DEF ContextInv, BeforeOpen
  <2>3. /\ \A w \in Secondary : Queue(c, w)' = Queue(c, w)
        /\ Acks(c)' = Acks(c)
        /\ SameWork(c) /\ SameInner(c) /\ complete'[c] = complete[c]
    BY <1>2, SendOpenEffect
  <2>4. \A w \in Workers : Doing(c, w)' = "idle"
    BY <2>2, <2>3 DEF Fresh, SameWork
  <2>5. \A w \in Secondary : Queue(c, w)' = <<>>
    BY <2>2, <2>3 DEF Fresh
  <2>6. Pending(c)' = {}
    <3>1. Doing(c, 0)' # "init"
      BY <2>4, ThreadFacts
    <3>2. \A w \in Secondary : Queue(c, w)' \notin ToInit(c)
      BY <2>5, QueueShapes
    <3>3. ASSUME NEW w \in Pending(c)' PROVE FALSE
      BY <3>1, <3>2, <3>3, PendingIs, ThreadFacts
    <3>. QED BY <3>3
  <2>7. ~ started'[c] /\ ~ complete'[c] /\ shutting'[c] = 0 /\ Acks(c)' = 0 /\ pools'[c] = {}
          /\ init'[c] = "pending"
    BY <2>2, <2>3 DEF Fresh, SameInner
  <2>8. \A w \in Secondary : Doing(c, w)' = "idle"
    BY <2>4, ThreadFacts
  <2>. QED BY <1>2, <2>1, <2>4, <2>5, <2>6, <2>7, <2>8, TeardownIs DEF Live
<1>. QED BY <1>1, <1>2

\* The context an owner closes is held, so its teardown can be posted.
LEMMA PostByOwnerSound ==
    ASSUME CInv, Contained, NEW c \in Contexts, PostByOwner(c), NEW d \in Contexts
    PROVE  TeardownSound(d)'
<1>. USE DEF CInv, IInv, Typed, RuntimeType
<1>1. CASE d # c
  BY <1>1, PostByOwnerEffect, SameContext
<1>2. CASE d = c
  <2>1. /\ PostBegin(c) /\ pc[c] = "post" /\ pc' = [pc EXCEPT ![c] = "wait"]
        /\ SameWork(c) /\ SameInner(c)
    BY PostByOwnerEffect
  <2>2. c \in Holders
    BY <2>1, HoldersIs
  <2>3. RuntimeAvailable
    BY <2>2, HeldRuntime
  <2>4. /\ Opens(c)' = Opens(c) /\ Acks(c)' = Acks(c)
        /\ \A w \in Secondary : Queue(c, w)' = Queue(c, w)
        /\ complete'[c] = complete[c]
    BY <2>1, <2>3, PostEffect DEF Contained
  <2>5. ~ started[c] /\ ~ complete[c] /\ init[c] # "pending" /\ descriptor[c]
    BY <2>1 DEF ContextInv, TeardownOnce, TeardownSound, Live
  <2>6. /\ \A w \in Workers : Doing(c, w)' = Doing(c, w)
        /\ \A w \in Secondary : Doing(c, w)' = Doing(c, w)
    BY <2>1, ThreadFacts DEF SameWork
  <2>7. pc'[c] = "wait"
    BY <2>1
  <2>8. /\ ~ started'[c] /\ ~ complete'[c] /\ descriptor'[c] /\ init'[c] # "pending"
        /\ shutting'[c] = 0 /\ Acks(c)' = 0
        /\ \A w \in Workers : Doing(c, w)' # "joining"
        /\ \A w \in Secondary :
                  w \in pools'[c] \/ Queue(c, w)' # <<>> \/ Doing(c, w)' # "idle"
                    => w < workers'[c]
    BY <2>1, <2>4, <2>5, <2>6 DEF TeardownSound, SameInner
  <2>. QED BY <1>2, <2>7, <2>8, TeardownIs DEF Live
<1>. QED BY <1>1, <1>2

\* A thread of c moves: from nothing only while the bdev is open, and not at
\* all into a handler once nothing of c is left.
LEMMA ThreadSound ==
    ASSUME NEW c \in Contexts, NEW w \in Workers, TeardownSound(c), SameInner(c),
           Opens(c)' = Opens(c), Acks(c)' = Acks(c),
           \A v \in Secondary : Queue(c, v)' = Queue(c, v),
           \A v \in Workers : v # w => Doing(c, v)' = Doing(c, v),
           Doing(c, w) # "init", Doing(c, w)' \notin {"init", "joining"},
           Still(c) => Doing(c, w)' = "idle" /\ Begins(c)' = Begins(c),
           started[c] => Doing(c, w)' = "idle" \/ Doing(c, w) \notin {"idle", "finish", "exit"},
           w # 0 /\ Doing(c, w) = "idle" => Doing(c, w)' = "idle",
           pc'[c] = pc[c], complete'[c] = complete[c]
    PROVE  TeardownSound(c)'
<1>1. Pending(c)' = Pending(c)
  <2>1. Doing(c, 0)' = "init" <=> Doing(c, 0) = "init"
    BY ThreadFacts
  <2>2. ASSUME NEW v \in Workers PROVE v \in Pending(c)' <=> v \in Pending(c)
    BY <2>1, ThreadFacts, PendingIs
  <2>. QED BY <2>2, PendingIs
<1>2. ToStop(c)' = ToStop(c)
  <2>1. ASSUME NEW v \in Secondary PROVE v \in ToStop(c)' <=> v \in ToStop(c)
    BY PendingIs
  <2>. QED BY <2>1, PendingIs
<1>3. Still(c) => Still(c)'
  <2>. SUFFICES ASSUME Still(c) PROVE Still(c)'
    OBVIOUS
  <2>1. \A v \in Workers : Doing(c, v)' \in {"idle", "finish", "exit"}
    BY DEF Still
  <2>. QED BY <2>1 DEF Still, SameInner, Workers, Secondary
<1>4. \A v \in Workers : Doing(c, v)' # "joining"
  BY DEF TeardownSound
<1>5. started'[c] =>
             /\ shutting'[c] = Cardinality(ToStop(c)') + Acks(c)'
             /\ pools'[c] \subseteq ToStop(c)'
             /\ Pending(c)' \subseteq ToStop(c)'
             /\ Doing(c, 0)' \in {"idle", "finish", "exit"}
             /\ \A v \in Secondary : Doing(c, v)' \notin {"idle", "finish", "exit"} => v \in ToStop(c)'
  <2>. SUFFICES ASSUME started[c]
       PROVE /\ shutting'[c] = Cardinality(ToStop(c)') + Acks(c)'
             /\ pools'[c] \subseteq ToStop(c)'
             /\ Pending(c)' \subseteq ToStop(c)'
             /\ Doing(c, 0)' \in {"idle", "finish", "exit"}
             /\ \A v \in Secondary : Doing(c, v)' \notin {"idle", "finish", "exit"} => v \in ToStop(c)'
    BY DEF SameInner
  <2>1. Doing(c, 0)' \in {"idle", "finish", "exit"}
    BY ThreadFacts DEF TeardownSound
  <2>2. \A v \in Secondary : Doing(c, v)' \notin {"idle", "finish", "exit"} =>
                               Doing(c, v) \notin {"idle", "finish", "exit"}
    BY ThreadFacts
  <2>. QED BY <1>1, <1>2, <2>1, <2>2 DEF TeardownSound, SameInner
<1>6. ~ started'[c] =>
             /\ shutting'[c] = 0
             /\ Acks(c)' = 0
             /\ \A v \in Secondary :
                  v \in pools'[c] \/ Queue(c, v)' # <<>> \/ Doing(c, v)' # "idle"
                    => v < workers'[c]
  <2>1. \A v \in Secondary : Doing(c, v)' # "idle" => Doing(c, v) # "idle"
    BY ThreadFacts
  <2>. QED BY <2>1 DEF TeardownSound, SameInner
<1>7. /\ pc'[c] \notin Live \/ complete'[c] => Still(c)'
      /\ complete'[c] => started'[c]
      /\ init'[c] # "pending" \/ Pending(c)' # {} => descriptor'[c] \/ complete'[c]
      /\ pc'[c] \in Live \ {"opening"} => init'[c] # "pending"
  BY <1>1, <1>3 DEF TeardownSound, SameInner
<1>. QED BY <1>4, <1>5, <1>6, <1>7, TeardownIs

\* The steps inside handlers: a request is posted for a context that is held,
\* and no thread enters a handler for a context that has nothing left.
LEMMA HandlerSound ==
    ASSUME CInv, Contained, NEW c \in Contexts, NEW t \in Threads, InHandler(t, c),
           NEW d \in Contexts
    PROVE  TeardownSound(d)'
<1>. USE DEF CInv, IInv, Typed
<1>. DEFINE w == t[2]
<1>1. /\ w \in Workers
      /\ Doing(c, w) = at[t].step
      /\ HandlerMove(t, c, Doing(c, w)')
      /\ \A v \in Workers : v # w => Doing(c, v)' = Doing(c, v)
      /\ SameInner(d) /\ pc'[d] = pc[d]
  BY InHandlerEffect
<1>2. ReleaseOnThread(t, c) => Doing(c, w)' = "idle"
  BY HandlerKeepsRuntime
<1>3. at[t] = Idle \/ at[t].context = c
  BY InHandlerEffect
<1>. HIDE DEF w
<1>4. CASE d # c
  BY <1>4, InHandlerEffect, SameContext
<1>5. CASE d = c
  <2>1. CASE PostOnThread(t, c)
    <3>1. Doing(c, w) = "post" /\ PostBegin(c) /\ Doing(c, w)' = "release" /\ app = "running"
      BY <2>1, <1>1 DEF PostOnThread, HandlerMove, NotifyInit, ReleaseOnThread, NotifyClosed, ExitThread,
                        RequestOnThread, BdevEvent, AtLoop
    <3>2. pc[c] \in Live /\ ~ Still(c) /\ ~ started[c]
      BY <1>1, <3>1 DEF TeardownSound, Still, ContextInv, TeardownOnce
    <3>3. c \in Holders
      BY <3>2, HoldersIs DEF RuntimeSound, ClaimsSound, Claiming
    <3>4. RuntimeAvailable
      BY <3>3, HeldRuntime
    <3>5. /\ Opens(c)' = Opens(c) /\ Acks(c)' = Acks(c)
          /\ \A v \in Secondary : Queue(c, v)' = Queue(c, v)
          /\ complete'[c] = complete[c]
      BY <3>1, <3>4, PostEffect DEF Contained
    <3>. QED BY <1>1, <1>5, <3>1, <3>2, <3>5, ThreadSound
  <2>2. CASE \/ NotifyInit(t, c) \/ ReleaseOnThread(t, c)
             \/ (t = App /\ NotifyClosed(c)) \/ ExitThread(t, c)
    <3>1. msgs' = msgs /\ complete' = complete
      BY <2>2 DEF NotifyInit, ReleaseOnThread, NotifyClosed, ExitThread, shutdownVars
    <3>2. SameMail(c)
      BY <3>1, MailKept
    <3>3. /\ Doing(c, w) \in {"notify", "release", "finish", "exit"}
          /\ Doing(c, w)' \in {"idle", "request"}
          /\ Doing(c, w) \in {"finish", "exit"} => Doing(c, w)' = "idle"
      <4>1. CASE NotifyInit(t, c)
        <5>1. Doing(c, w) = "notify"
          BY <4>1, <1>1 DEF NotifyInit
        <5>2. ~ ReleaseOnThread(t, c) /\ ~ PostOnThread(t, c) /\ ~ RequestOnThread(t, c)
                /\ ~ (t = App /\ BdevEvent(c))
          BY <5>1, <1>1 DEF ReleaseOnThread, PostOnThread, RequestOnThread, BdevEvent, AtLoop
        <5>3. Doing(c, w)' # "joining"
          <6>1. at' = [at EXCEPT ![t] = [step |-> "request", context |-> c]]
                  \/ at' = [at EXCEPT ![t] = Idle]
            BY <4>1 DEF NotifyInit, GoTo
          <6>2. at'[t].step \in {"request", "idle"}
            BY <6>1 DEF AtRouted, Idle
          <6>3. PICK h : at' = [at EXCEPT ![t] = h] /\ h.step = Doing(c, w)'
            BY InHandlerEffect DEF w
          <6>4. at'[t] = h
            BY <6>3 DEF AtRouted
          <6>. QED BY <6>2, <6>3, <6>4
        <5>. QED BY <5>1, <5>2, <5>3, <1>1 DEF HandlerMove
      <4>2. CASE ReleaseOnThread(t, c)
        BY <4>2, <1>1, <1>2 DEF ReleaseOnThread
      <4>3. CASE (t = App /\ NotifyClosed(c)) \/ ExitThread(t, c)
        <5>1. Doing(c, w) \in {"finish", "exit"}
          BY <4>3, <1>1 DEF NotifyClosed, ExitThread
        <5>2. at' = [at EXCEPT ![t] = Idle]
          BY <4>3 DEF NotifyClosed, ExitThread
        <5>3. PICK h : at' = [at EXCEPT ![t] = h] /\ h.step = Doing(c, w)'
          BY InHandlerEffect DEF w
        <5>4. at'[t] = h /\ at'[t] = Idle
          BY <5>2, <5>3 DEF AtRouted
        <5>. QED BY <5>1, <5>3, <5>4 DEF Idle
      <4>. QED BY <2>2, <4>1, <4>2, <4>3
    <3>4. Still(c) => Doing(c, w) \in {"idle", "finish", "exit"}
      BY <1>1 DEF Still
    <3>. QED BY <1>1, <1>5, <3>1, <3>2, <3>3, <3>4, ThreadSound DEF SameMail
  <2>3. CASE RequestOnThread(t, c) \/ (t = App /\ BdevEvent(c))
    <3>1. msgs' = msgs /\ complete' = complete
      BY <2>3 DEF RequestOnThread, BdevEvent
    <3>2. SameMail(c)
      BY <3>1, MailKept
    <3>3. /\ Doing(c, w) = "request" \/ (Doing(c, w) = "idle" /\ w = 0 /\ descriptor[c])
      BY <2>3, <1>1 DEF RequestOnThread, BdevEvent, AtLoop, App, w
    <3>4. /\ Doing(c, w)' \in {"post", "idle"}
          /\ Doing(c, w)' = "post" => ~ requested[c]
      BY <2>3, <3>3, <1>1 DEF HandlerMove, StartsShutdown, NotifyInit, ReleaseOnThread, NotifyClosed, ExitThread,
                              PostOnThread
    <3>5. ~ Still(c)
      BY <1>1, <3>3 DEF Still
    <3>6. started[c] => requested[c]
      BY DEF ContextInv, TeardownOnce
    <3>. QED BY <1>1, <1>5, <3>1, <3>2, <3>3, <3>4, <3>5, <3>6, ThreadSound DEF SameMail
  <2>. QED BY <2>1, <2>2, <2>3 DEF InHandler
<1>. QED BY <1>4, <1>5

\* A setup that fails has the bdev open.
LEMMA SetupFailsSound ==
    ASSUME CInv, NEW c \in Contexts, SetupFails(c), NEW d \in Contexts
    PROVE  TeardownSound(d)'
<1>. USE DEF CInv, IInv, Typed, ContextType
<1>1. CASE d # c
  BY <1>1, OpenFailsEffect, SameContext
<1>2. CASE d = c
  <2>. USE OpenFailsEffect
  <2>1. descriptor'[c]
    BY DEF SetupFails
  <2>2. ~ started'[c] /\ ~ complete'[c] /\ shutting'[c] = 0 /\ pools'[c] = {} /\ pc'[c] = "opening"
    BY DEF Fresh
  <2>3. \A w \in Workers : Doing(c, w)' \in {"idle", "notify"}
    BY ThreadFacts
  <2>. QED BY <1>2, <2>1, <2>2, <2>3, TeardownIs DEF Live
<1>. QED BY <1>1, <1>2

\* Every worker that gets a message exists.
LEMMA OpenBdevSound ==
    ASSUME CInv, NEW c \in Contexts, OpenBdev(c), NEW d \in Contexts
    PROVE  TeardownSound(d)'
<1>. USE DEF CInv, IInv, Typed
<1>1. PICK Lost \in SUBSET Secondary :
        /\ Fresh(c) /\ pc[c] = "opening" /\ Acks(c)' = 0
        /\ Doing(c, 0)' = "init"
        /\ \A w \in Secondary : Doing(c, w)' = "idle"
        /\ pc' = pc /\ init' = init /\ started' = started
        /\ complete' = complete /\ shutting' = shutting /\ pools' = pools
        /\ descriptor'[c] /\ workers'[c] = WorkerCount
        /\ \A e \in Contexts : e # c => Same(e)
  BY OpenBdevEffect
<1>2. CASE d # c
  BY <1>1, <1>2, SameContext
<1>3. CASE d = c
  <2>1. ~ started'[c] /\ ~ complete'[c] /\ shutting'[c] = 0 /\ pc'[c] = "opening"
    BY <1>1 DEF Fresh
  <2>2. \A w \in Secondary : w < workers'[c]
    BY <1>1, LifecycleAssumption DEF Secondary
  <2>3. \A w \in Workers : Doing(c, w)' # "joining"
    BY <1>1, ThreadFacts
  <2>. QED BY <1>1, <1>3, <2>1, <2>2, <2>3, TeardownIs DEF Live
<1>. QED BY <1>2, <1>3

\* A worker that initializes after the teardown began has its shutdown message
\* still to come.
LEMMA InitializeSound ==
    ASSUME CInv, NEW c \in Contexts, NEW t \in Threads,
           \/ t = App /\ InitializeApp(c)
           \/ t \in Secondaries /\ TakeInit(t, c),
           NEW d \in Contexts
    PROVE  TeardownSound(d)'
<1>. USE DEF CInv, IInv, Typed
<1>. DEFINE w == t[2]
<1>1. Initialized(c, w) /\ w \in Workers /\ \A e \in Contexts : e # c => Same(e)
  BY InitializeEffect
<1>. HIDE DEF w
<1>2. CASE d # c
  BY <1>1, <1>2, SameContext
<1>3. CASE d = c
  <2>1. /\ w \in Pending(c) /\ Pending(c)' \subseteq Pending(c)
        /\ Acks(c)' = Acks(c)
        /\ \A v \in Secondary : Queue(c, v)' = IF v = w THEN Tail(Queue(c, v)) ELSE Queue(c, v)
        /\ \A v \in Workers : v # w => Doing(c, v)' = Doing(c, v)
        /\ Doing(c, w)' \in {"idle", "notify"}
        /\ pools'[c] \subseteq pools[c] \cup {w}
        /\ pc' = pc /\ started' = started
        /\ complete' = complete /\ shutting' = shutting
        /\ descriptor' = descriptor /\ workers' = workers
    BY <1>1 DEF Initialized
  <2>2. ~ Still(c)
    BY <2>1, StillFacts
  <2>3. pc[c] \in Live /\ ~ complete[c] /\ descriptor[c] /\ pc[c] = "opening"
    BY <2>1, <2>2 DEF TeardownSound, ContextInv, InitCounted
  <2>4. w # 0 => Queue(c, w) \in ToInit(c) /\ Queue(c, w) # <<>> /\ w \in Secondary
    BY <1>1, <2>1, PendingIs, ThreadFacts, QueueShapes
  <2>5. ToStop(c)' = ToStop(c)
    <3>1. ASSUME NEW v \in Secondary PROVE v \in ToStop(c)' <=> v \in ToStop(c)
      <4>1. CASE v # w
        BY <4>1, <2>1, PendingIs
      <4>2. CASE v = w
        <5>1. Queue(c, v) \in ToInit(c)
          BY <4>2, <2>4, ThreadFacts
        <5>2. Queue(c, v)' = IF Queue(c, v) \in ToShut(c) THEN <<Msg("shutdown", c)>> ELSE <<>>
          BY <4>2, <5>1, <2>1, QueueShapes
        <5>3. <<>> \notin ToShut(c) /\ <<Msg("shutdown", c)>> \in ToShut(c)
          BY QueueShapes
        <5>. QED BY <5>2, <5>3, PendingIs
      <4>. QED BY <4>1, <4>2
    <3>. QED BY <3>1, PendingIs
  <2>6. \A v \in Workers : Doing(c, v)' # "joining"
    BY <2>1 DEF TeardownSound
  <2>7. started[c] => w \in ToStop(c) /\ w # 0
    BY <2>1, PendingIs, ThreadFacts DEF TeardownSound
  <2>8. started'[c] =>
             /\ shutting'[c] = Cardinality(ToStop(c)') + Acks(c)'
             /\ pools'[c] \subseteq ToStop(c)'
             /\ Pending(c)' \subseteq ToStop(c)'
             /\ Doing(c, 0)' \in {"idle", "finish", "exit"}
             /\ \A v \in Secondary : Doing(c, v)' \notin {"idle", "finish", "exit"} => v \in ToStop(c)'
    <3>. SUFFICES ASSUME started[c]
         PROVE /\ shutting'[c] = Cardinality(ToStop(c)') + Acks(c)'
               /\ pools'[c] \subseteq ToStop(c)'
               /\ Pending(c)' \subseteq ToStop(c)'
               /\ Doing(c, 0)' \in {"idle", "finish", "exit"}
               /\ \A v \in Secondary : Doing(c, v)' \notin {"idle", "finish", "exit"} => v \in ToStop(c)'
      BY <2>1
    <3>1. Doing(c, 0)' = Doing(c, 0)
      BY <2>1, <2>7, ThreadFacts
    <3>2. \A v \in Secondary : Doing(c, v)' \notin {"idle", "finish", "exit"} =>
                                 v = w \/ Doing(c, v) \notin {"idle", "finish", "exit"}
      BY <2>1, ThreadFacts
    <3>. QED BY <2>1, <2>5, <2>7, <3>1, <3>2 DEF TeardownSound
  <2>9. ~ started'[c] =>
             /\ shutting'[c] = 0
             /\ Acks(c)' = 0
             /\ \A v \in Secondary :
                  v \in pools'[c] \/ Queue(c, v)' # <<>> \/ Doing(c, v)' # "idle"
                    => v < workers'[c]
    <3>. SUFFICES ASSUME ~ started[c]
         PROVE /\ shutting'[c] = 0
               /\ Acks(c)' = 0
               /\ \A v \in Secondary :
                    v \in pools'[c] \/ Queue(c, v)' # <<>> \/ Doing(c, v)' # "idle"
                      => v < workers'[c]
      BY <2>1
    <3>1. ASSUME NEW v \in Secondary,
                 v \in pools'[c] \/ Queue(c, v)' # <<>> \/ Doing(c, v)' # "idle"
          PROVE  v < workers[c]
      <4>1. CASE v # w
        BY <4>1, <3>1, <2>1, ThreadFacts DEF TeardownSound
      <4>2. CASE v = w
        BY <4>2, <2>4, ThreadFacts DEF TeardownSound
      <4>. QED BY <4>1, <4>2
    <3>. QED BY <2>1, <3>1 DEF TeardownSound
  <2>10. ~ complete'[c] /\ pc'[c] = "opening" /\ descriptor'[c]
    BY <2>1, <2>3
  <2>. QED BY <1>3, <2>6, <2>8, <2>9, <2>10, TeardownIs DEF Live
<1>. QED BY <1>2, <1>3

\* When no worker is left to stop and the bdev is closed, nothing of c is left.
LEMMA NothingLeft ==
    ASSUME NEW c \in Contexts, ToStop(c)' = {},
           \A w \in Secondary : Queue(c, w)' \in {<<>>} \cup ToInit(c) \cup ToShut(c),
           pools'[c] \subseteq ToStop(c)', Pending(c)' \subseteq ToStop(c)',
           ~ descriptor'[c], Opens(c)' = 0, Begins(c)' = 0, Acks(c)' = 0,
           Doing(c, 0)' \in {"idle", "finish", "exit"},
           \A w \in Secondary : Doing(c, w)' \notin {"idle", "finish", "exit"} => w \in ToStop(c)'
    PROVE  Still(c)'
<1>1. ASSUME NEW w \in Secondary PROVE Queue(c, w)' = <<>>
  <2>1. Queue(c, w)' \notin ToShut(c)
    BY PendingIs
  <2>2. Queue(c, w)' \notin ToInit(c)
    BY PendingIs, ThreadFacts
  <2>. QED BY <2>1, <2>2
<1>2. \A w \in Workers : Doing(c, w)' \in {"idle", "finish", "exit"}
  BY ThreadFacts
<1>. QED BY <1>1, <1>2 DEF Still, Workers, Secondary

\* begin_shutdown_on_app_thread counts the workers it tells to stop; when there
\* are none it closes the bdev itself.
LEMMA BeginSound ==
    ASSUME CInv, Contained, IInv', NEW c \in Contexts, BeginShutdown(c), NEW d \in Contexts
    PROVE  TeardownSound(d)'
<1>. USE DEF CInv, IInv, Typed
<1>. DEFINE n == workers[c]
            left == IF n = 0 THEN 0 ELSE n - 1
<1>1. PICK Lost \in SUBSET Secondary :
        /\ Lost # {} => "send" \in Failures
        /\ Begins(c) = 1 /\ ~ started[c] /\ started'[c]
        /\ Opens(c) = 0 /\ Opens(c)' = Opens(c) /\ Begins(c)' = 0 /\ Acks(c)' = Acks(c)
        /\ Doing(c, 0) = "idle"
        /\ \A w \in Secondary :
             Queue(c, w)' = IF w < workers[c] /\ w \notin Lost
                            THEN Append(Queue(c, w), Msg("shutdown", c)) ELSE Queue(c, w)
        /\ pools'[c] = pools[c] \ (Lost \cup {0})
        /\ WorkersStopped(c, IF workers[c] = 0 THEN 0
                             ELSE workers[c] - Cardinality(Lost) - 1)
        /\ at[App] = Idle
        /\ pc' = pc /\ init' = init
        /\ \A e \in Contexts : e # c => Same(e)
  BY BeginEffect
<1>2. CASE d # c
  BY <1>1, <1>2, SameContext
<1>3. CASE d = c
  <2>1. Lost = {} /\ n \in 0 .. WorkerCount
    BY <1>1 DEF Contained, ContextType
  <2>2. Cardinality(Lost) = 0
    BY <2>1, FS_EmptySet
  <2>3. WorkersStopped(c, left)
    BY <1>1, <2>1, <2>2
  <2>4. left \in Nat
    BY <2>1, LifecycleAssumption
  <2>. HIDE DEF left
  <2>5. /\ shutting'[c] = left
        /\ descriptor'[c] = (descriptor[c] /\ left # 0)
        /\ complete'[c] = (complete[c] \/ left = 0)
        /\ Doing(c, 0)' \in {"idle", "finish", "exit"}
        /\ \A w \in Secondary : Doing(c, w)' = Doing(c, w)
    BY <1>1, <2>3, StoppedEffect
  <2>6. ToStop(c)' = {w \in Secondary : w < n}
    <3>1. ASSUME NEW w \in Secondary PROVE w \in ToStop(c)' <=> w < n
      <4>1. Queue(c, w) \in {<<>>} \cup ToInit(c) /\ Queue(c, w) \notin ToShut(c)
        BY <1>1 DEF ContextInv, InitCounted
      <4>2. Queue(c, w) = <<>> \/ Queue(c, w) = <<Msg("init", c)>>
        BY <4>1, QueueShapes
      <4>3. Append(Queue(c, w), Msg("shutdown", c)) \in ToShut(c)
        <5>1. /\ Append(<<>>, Msg("shutdown", c)) \in ToShut(c)
              /\ Append(<<Msg("init", c)>>, Msg("shutdown", c)) \in ToShut(c)
          BY QueueShapes
        <5>2. CASE Queue(c, w) = <<>>
          BY <5>1, <5>2, Zenon
        <5>3. CASE Queue(c, w) = <<Msg("init", c)>>
          BY <5>1, <5>3, Zenon
        <5>. QED BY <4>2, <5>2, <5>3
      <4>4. Queue(c, w)' = IF w < n THEN Append(Queue(c, w), Msg("shutdown", c)) ELSE Queue(c, w)
        BY <1>1, <2>1
      <4>. QED BY <4>1, <4>3, <4>4, PendingIs
    <3>. QED BY <3>1, PendingIs
  <2>7. IsFiniteSet(ToStop(c)') /\ Cardinality(ToStop(c)') = left
    <3>1. ToStop(c)' = 1 .. n - 1
      BY <2>1, <2>6, LifecycleAssumption DEF Secondary
    <3>2. 1 \in Int /\ n - 1 \in Int
      BY <2>1, LifecycleAssumption
    <3>3. /\ IsFiniteSet(1 .. n - 1)
          /\ Cardinality(1 .. n - 1) = IF 1 > n - 1 THEN 0 ELSE n - 1 - 1 + 1
      BY <3>2, FS_Interval
    <3>. QED BY <2>1, <3>1, <3>3, LifecycleAssumption DEF left
  <2>8. \A w \in Secondary : w \in pools[c] \/ Queue(c, w) # <<>> \/ Doing(c, w) # "idle"
          => w \in ToStop(c)'
    BY <1>1, <2>6 DEF TeardownSound
  <2>9. pools'[c] \subseteq ToStop(c)'
    <3>1. \A w \in pools'[c] : w \in Secondary /\ w \in pools[c]
      BY <1>1, ThreadFacts DEF ContextType
    <3>. QED BY <2>8, <3>1
  <2>10. Pending(c)' \subseteq ToStop(c)'
    <3>1. ASSUME NEW w \in Pending(c)' PROVE w \in ToStop(c)'
      <4>1. w \in Secondary /\ Queue(c, w)' \in ToInit(c) /\ Queue(c, w)' # <<>>
        BY <3>1, <2>5, PendingIs, ThreadFacts, QueueShapes
      <4>2. CASE w < n
        BY <4>1, <4>2, <2>6
      <4>3. CASE ~ (w < n)
        <5>1. Queue(c, w)' = Queue(c, w)
          BY <4>1, <4>3, <1>1
        <5>. QED BY <4>1, <5>1, <2>8
      <4>. QED BY <4>2, <4>3
    <3>. QED BY <3>1
  <2>11. \A w \in Secondary : Doing(c, w)' \notin {"idle", "finish", "exit"} => w \in ToStop(c)'
    BY <2>5, <2>8
  <2>12. Acks(c)' = 0 /\ ~ complete[c] /\ pc[c] \in Live
    BY <1>1 DEF TeardownSound, Still
  <2>13. left = 0 => Still(c)'
    <3>. SUFFICES ASSUME left = 0 PROVE Still(c)'
      OBVIOUS
    <3>1. ToStop(c)' = {}
      BY <2>7, FS_EmptySet
    <3>2. \A w \in Secondary : Queue(c, w)' \in {<<>>} \cup ToInit(c) \cup ToShut(c)
      BY DEF ContextInv, InitCounted, Secondary, ToInit, ToShut, Msg
    <3>3. ~ descriptor'[c]
      BY <2>5
    <3>. QED BY <1>1, <2>5, <2>9, <2>10, <2>11, <2>12, <3>1, <3>2, <3>3, NothingLeft
  <2>14. pc'[c] \notin Live \/ complete'[c] => Still(c)'
    BY <1>1, <2>5, <2>12, <2>13
  <2>15. \A w \in Workers : Doing(c, w)' # "joining"
    BY <2>5, ThreadFacts DEF TeardownSound
  <2>16. shutting'[c] = Cardinality(ToStop(c)') + Acks(c)'
    BY <2>4, <2>5, <2>7, <2>12
  <2>17. init'[c] # "pending" \/ Pending(c)' # {} => descriptor'[c] \/ complete'[c]
    <3>. SUFFICES ASSUME init'[c] # "pending" \/ Pending(c)' # {}, left # 0
                  PROVE  descriptor'[c] \/ complete'[c]
      BY <2>5
    <3>1. init[c] # "pending" \/ Pending(c) # {}
      <4>1. ASSUME NEW w \in Pending(c)' PROVE w \in Pending(c)
        <5>1. w \in Secondary /\ w \in Workers /\ w # 0 /\ Queue(c, w)' \in ToInit(c)
          BY <4>1, <2>5, PendingIs, ThreadFacts
        <5>2. Queue(c, w) \in {<<>>} \cup ToInit(c)
          BY <5>1, <1>1 DEF ContextInv, InitCounted
        <5>3. Queue(c, w) # <<>>
          <6>1. <<>> \notin ToInit(c) /\ Append(<<>>, Msg("shutdown", c)) \notin ToInit(c)
            BY QueueShapes
          <6>2. \/ Queue(c, w)' = Append(Queue(c, w), Msg("shutdown", c))
                \/ Queue(c, w)' = Queue(c, w)
            BY <5>1, <1>1
          <6>. QED BY <5>1, <6>1, <6>2, Zenon
        <5>. QED BY <5>1, <5>2, <5>3, PendingIs
      <4>. QED BY <1>1, <4>1
    <3>2. descriptor[c]
      BY <3>1, <2>12 DEF TeardownSound
    <3>. QED BY <2>5, <3>2
  <2>18. pc'[c] \in Live \ {"opening"} => init'[c] # "pending"
    BY <1>1 DEF TeardownSound
  <2>. QED BY <1>1, <1>3, <2>5, <2>9, <2>10, <2>11, <2>14, <2>15, <2>16, <2>17, <2>18, TeardownIs
<1>. QED BY <1>2, <1>3

\* The workers to stop are finitely many.
LEMMA ToStopFinite ==
    ASSUME NEW c \in Contexts
    PROVE  IsFiniteSet(ToStop(c)) /\ Cardinality(ToStop(c)) \in Nat
<1>1. ToStop(c) \subseteq Workers
  BY PendingIs, ThreadFacts
<1>. QED BY <1>1, WorkersFinite, FS_Subset, FS_CardinalityType

\* The last acknowledgement closes a bdev that no worker uses any more.
LEMMA AckSound ==
    ASSUME CInv, NEW c \in Contexts, TakeAck(c), NEW d \in Contexts
    PROVE  TeardownSound(d)'
<1>. USE DEF CInv, IInv, Typed
<1>1. CASE d # c
  BY <1>1, AckEffect, SameContext
<1>2. CASE d = c
  <2>. DEFINE left == IF shutting[c] # 0 THEN shutting[c] - 1 ELSE 0
  <2>1. /\ Acks(c) # 0 /\ Acks(c)' \in Nat /\ Acks(c) = Acks(c)' + 1
        /\ Opens(c)' = Opens(c) /\ Begins(c)' = Begins(c)
        /\ Doing(c, 0) = "idle" /\ at[App] = Idle
        /\ \A w \in Secondary : Queue(c, w)' = Queue(c, w)
        /\ WorkersStopped(c, left)
        /\ pc' = pc /\ init' = init /\ workers' = workers
        /\ started' = started /\ pools' = pools
    BY AckEffect
  <2>2. started[c] /\ ~ Still(c)
    BY <2>1 DEF TeardownSound, Still
  <2>3. pc[c] \in Live /\ ~ complete[c]
    BY <2>2 DEF TeardownSound
  <2>4. left = Cardinality(ToStop(c)) + Acks(c)' /\ Cardinality(ToStop(c)) \in Nat
    <3>1. shutting[c] = Cardinality(ToStop(c)) + Acks(c) /\ Cardinality(ToStop(c)) \in Nat
      BY <2>2, ToStopFinite DEF TeardownSound
    <3>. QED BY <2>1, <3>1
  <2>. HIDE DEF left
  <2>5. /\ shutting'[c] = left
        /\ descriptor'[c] = (descriptor[c] /\ left # 0)
        /\ complete'[c] = (complete[c] \/ left = 0)
        /\ Doing(c, 0)' \in {"idle", "finish", "exit"}
        /\ \A w \in Secondary : Doing(c, w)' = Doing(c, w)
    BY <2>1, StoppedEffect
  <2>6. ToStop(c)' = ToStop(c)
    <3>1. ASSUME NEW w \in Secondary PROVE w \in ToStop(c)' <=> w \in ToStop(c)
      BY <2>1, PendingIs
    <3>. QED BY <3>1, PendingIs
  <2>7. Pending(c)' = Pending(c)
    <3>1. ASSUME NEW w \in Workers PROVE w \in Pending(c)' <=> w \in Pending(c)
      BY <2>1, <2>5, PendingIs, ThreadFacts
    <3>. QED BY <3>1, PendingIs
  <2>8. /\ pools'[c] \subseteq ToStop(c)'
        /\ Pending(c)' \subseteq ToStop(c)'
        /\ \A w \in Secondary : Doing(c, w)' \notin {"idle", "finish", "exit"} => w \in ToStop(c)'
    BY <2>1, <2>2, <2>5, <2>6, <2>7 DEF TeardownSound
  <2>9. left = 0 => Still(c)'
    <3>. SUFFICES ASSUME left = 0 PROVE Still(c)'
      OBVIOUS
    <3>1. ToStop(c)' = {} /\ Acks(c)' = 0
      BY <2>1, <2>4, <2>6, ToStopFinite, FS_EmptySet
    <3>2. \A w \in Secondary : Queue(c, w)' \in {<<>>} \cup ToInit(c) \cup ToShut(c)
      BY <2>1 DEF ContextInv, InitCounted
    <3>3. Opens(c) = 0 /\ Begins(c) = 0
      BY <2>1, <2>2 DEF ContextInv, BeforeOpen, TeardownOnce, Fresh
    <3>4. ~ descriptor'[c]
      BY <2>5
    <3>. QED BY <2>1, <2>5, <2>8, <3>1, <3>2, <3>3, <3>4, NothingLeft
  <2>10. pc'[c] \notin Live \/ complete'[c] => Still(c)'
    BY <2>1, <2>3, <2>5, <2>9
  <2>11. \A w \in Workers : Doing(c, w)' # "joining"
    BY <2>5, ThreadFacts DEF TeardownSound
  <2>12. init'[c] # "pending" \/ Pending(c)' # {} => descriptor'[c] \/ complete'[c]
    BY <2>1, <2>3, <2>5, <2>7 DEF TeardownSound
  <2>13. pc'[c] \in Live \ {"opening"} => init'[c] # "pending"
    BY <2>1 DEF TeardownSound
  <2>14. shutting'[c] = Cardinality(ToStop(c)') + Acks(c)' /\ started'[c]
    BY <2>1, <2>2, <2>4, <2>5, <2>6
  <2>. QED BY <1>2, <2>5, <2>8, <2>10, <2>11, <2>12, <2>13, <2>14, TeardownIs
<1>. QED BY <1>1, <1>2

\* A worker that stops becomes an acknowledgement to be counted.
LEMMA ShutdownSound ==
    ASSUME CInv, NEW c \in Contexts, NEW t \in Secondaries, TakeShutdown(t, c), NEW d \in Contexts
    PROVE  TeardownSound(d)'
<1>. USE DEF CInv, IInv, Typed
<1>1. CASE d # c
  BY <1>1, ShutdownEffect, SameContext
<1>2. CASE d = c
  <2>. DEFINE w == t[2]
  <2>1. /\ w \in Secondary
        /\ Queue(c, w) = <<Msg("shutdown", c)>>
        /\ Doing(c, w) = "idle"
        /\ \A v \in Secondary : Queue(c, v)' = IF v = w THEN <<>> ELSE Queue(c, v)
        /\ started[c]
        /\ Acks(c)' = Acks(c) + 1
        /\ Doing(c, w)' \in {"idle", "exit"}
        /\ \A v \in Workers : v # w => Doing(c, v)' = Doing(c, v)
        /\ pools'[c] = pools[c] \ {w}
        /\ pc' = pc /\ init' = init /\ workers' = workers /\ descriptor' = descriptor
        /\ started' = started /\ complete' = complete /\ shutting' = shutting
    BY ShutdownEffect
  <2>. HIDE DEF w
  <2>2. /\ <<>> \notin ToInit(c) /\ <<>> \notin ToShut(c) /\ <<>> # <<Msg("shutdown", c)>>
        /\ <<Msg("shutdown", c)>> \in ToShut(c) /\ <<Msg("shutdown", c)>> \notin ToInit(c)
    BY QueueShapes
  <2>3. ~ Still(c)
    BY <2>1, <2>2 DEF Still
  <2>4. pc[c] \in Live /\ ~ complete[c]
    BY <2>3 DEF TeardownSound
  <2>5. w \in ToStop(c) /\ ToStop(c)' = ToStop(c) \ {w}
    <3>1. w \in ToStop(c)
      BY <2>1, <2>2, PendingIs
    <3>2. ASSUME NEW v \in Secondary PROVE v \in ToStop(c)' <=> v \in ToStop(c) /\ v # w
      BY <2>1, <2>2, PendingIs
    <3>. QED BY <3>1, <3>2, PendingIs
  <2>6. /\ \A v \in Workers : Doing(c, v)' = Doing(c, v) \/ Doing(c, v)' \in {"idle", "exit"}
        /\ \A v \in Secondary : Doing(c, v)' = Doing(c, v) \/ (v = w /\ Doing(c, v)' \in {"idle", "exit"})
        /\ Doing(c, 0)' = Doing(c, 0)
    BY <2>1, ThreadFacts
  <2>7. Pending(c)' = Pending(c) /\ w \notin Pending(c)
    <3>1. w # 0 /\ w \notin Pending(c)
      BY <2>1, <2>2, PendingIs, ThreadFacts
    <3>2. ASSUME NEW v \in Workers PROVE v \in Pending(c)' <=> v \in Pending(c)
      BY <2>1, <2>2, <2>6, <3>1, PendingIs, ThreadFacts
    <3>. QED BY <3>1, <3>2, PendingIs
  <2>8. shutting'[c] = Cardinality(ToStop(c)') + Acks(c)'
    <3>1. shutting[c] = Cardinality(ToStop(c)) + Acks(c)
      BY <2>1 DEF TeardownSound
    <3>2. Cardinality(ToStop(c) \ {w}) = Cardinality(ToStop(c)) - 1 /\ Cardinality(ToStop(c)) \in Nat
      BY <2>5, ToStopFinite, FS_RemoveElement
    <3>3. Acks(c) \in Nat
      BY MailType
    <3>. QED BY <2>1, <2>5, <3>1, <3>2, <3>3
  <2>9. /\ pools'[c] \subseteq ToStop(c)'
        /\ Pending(c)' \subseteq ToStop(c)'
        /\ \A v \in Secondary : Doing(c, v)' \notin {"idle", "finish", "exit"} => v \in ToStop(c)'
        /\ Doing(c, 0)' \in {"idle", "finish", "exit"}
    BY <2>1, <2>5, <2>6, <2>7 DEF TeardownSound
  <2>10. /\ \A v \in Workers : Doing(c, v)' # "joining"
         /\ init'[c] # "pending" \/ Pending(c)' # {} => descriptor'[c] \/ complete'[c]
         /\ pc'[c] \in Live \ {"opening"} => init'[c] # "pending"
         /\ pc'[c] \in Live /\ ~ complete'[c] /\ started'[c]
    BY <2>1, <2>4, <2>6, <2>7 DEF TeardownSound
  <2>. QED BY <1>2, <2>8, <2>9, <2>10, TeardownIs
<1>. QED BY <1>1, <1>2

-----------------------------------------------------------------------------
(* The invariant when opening, sending and acknowledging do not fail *)

\* At the start nobody has the runtime and nothing is to be torn down.
LEMMA CInvInit == Init => CInv
<1>. SUFFICES ASSUME Init PROVE CInv
  OBVIOUS
<1>1. IInv
  BY IInvInit
<1>2. Holders = {}
  <2>1. \A t \in Threads : at[t].step = "idle"
    BY DEF Init, Idle
  <2>. QED BY <2>1, HoldersIs DEF Init
<1>3. Stops = 0
  <2>1. msgs[App] = <<>>
    BY ThreadFacts DEF Init
  <2>. QED BY <2>1, TimesEmpty, Mail
<1>4. RuntimeSound
  BY <1>2, <1>3, LifecycleAssumption
     DEF Init, RuntimeSound, RegistrySound, HoldersSound, ClaimsSound, Claiming, Live
<1>5. ASSUME NEW c \in Contexts PROVE TeardownSound(c)
  <2>1. Fresh(c) /\ Opens(c) = 0 /\ pc[c] = "new"
    BY <1>1 DEF IInv, ContextInv, BeforeOpen, Init
  <2>2. Still(c)
    BY <2>1 DEF Fresh, Still
  <2>3. \A w \in Secondary : Doing(c, w) = "idle"
    BY <2>1, ThreadFacts DEF Fresh
  <2>. QED BY <2>1, <2>2, <2>3, StillFacts DEF TeardownSound, Fresh, Live
<1>. QED BY <1>1, <1>4, <1>5 DEF CInv

\* Every step keeps the invariant when those calls succeed.
LEMMA CInvStep ==
    ASSUME Contained
    PROVE  CInv /\ [Next]_vars => CInv'
<1>. SUFFICES ASSUME CInv, [Next]_vars PROVE CInv'
  OBVIOUS
<1>1. IInv' /\ IInv /\ Typed /\ RuntimeSound
  BY IInvStep DEF CInv, IInv
<1>. DEFINE Sound == RuntimeSound' /\ \A d \in Contexts : TeardownSound(d)'
<1>2. ASSUME NEW c \in Contexts, QuietOwner(c) PROVE Sound
  <2>1. ~ SendOpenFails(c)
    <3>1. ASSUME SendOpenFails(c) PROVE c \in Holders
      BY <1>1, <3>1, HoldersIs DEF SendOpenFails, RuntimeSound, ClaimsSound, Claiming
    <3>. QED BY <1>1, <3>1, HeldRuntime DEF SendOpenFails, Contained
  <2>2. RuntimeSound'
    BY <1>1, <1>2, <2>1, OwnerKeepsRuntime, AcquireKeepsRuntime DEF QuietOwner
  <2>. QED BY <1>2, <2>2, QuietOwnerSound
<1>3. ASSUME NEW c \in Contexts, Drop(c) PROVE Sound
  BY <1>1, <1>3, DropKeepsRuntime, DropSound
<1>4. ASSUME NEW c \in Contexts, SendOpen(c) PROVE Sound
  BY <1>1, <1>4, OwnerKeepsRuntime, SendOpenSound
<1>5. ASSUME NEW c \in Contexts, PostByOwner(c) PROVE Sound
  BY <1>1, <1>5, OwnerKeepsRuntime, PostByOwnerSound
<1>6. ASSUME NEW c \in Contexts, OwnerStep(c) \/ OwnerCall(c) PROVE Sound
  BY <1>2, <1>3, <1>4, <1>5, <1>6 DEF OwnerStep, OwnerCall, QuietOwner
<1>7. ASSUME NEW c \in Contexts, NEW t \in Threads, InHandler(t, c) PROVE Sound
  BY <1>7, HandlerKeepsRuntime, HandlerSound
<1>8. ASSUME NEW c \in Contexts, BdevEvent(c) \/ NotifyClosed(c) PROVE Sound
  BY <1>7, <1>8, ThreadFacts DEF InHandler
<1>9. ASSUME NEW t \in Threads, ThreadStep(t) PROVE Sound
  BY <1>7, <1>9 DEF ThreadStep, InHandler
<1>10. ASSUME NEW c \in Contexts, NEW t \in Threads,
              \/ SetupFails(c) \/ OpenBdev(c) \/ InitializeApp(c)
              \/ BeginShutdown(c) \/ TakeAck(c)
              \/ t \in Secondaries /\ (TakeInit(t, c) \/ TakeShutdown(t, c))
       PROVE  RuntimeSound'
  BY <1>1, <1>10, TakeKeepsRuntime
<1>11. ASSUME NEW c \in Contexts,
              \/ SetupFails(c) \/ OpenBdev(c) \/ InitializeApp(c) \/ BeginShutdown(c) \/ TakeAck(c)
       PROVE  Sound
  <2>1. RuntimeSound'
    BY <1>10, <1>11, ThreadFacts
  <2>2. ASSUME NEW d \in Contexts PROVE TeardownSound(d)'
    BY <1>1, <1>11, SetupFailsSound, OpenBdevSound, InitializeSound, BeginSound, AckSound, ThreadFacts
  <2>. QED BY <2>1, <2>2
<1>12. ASSUME NEW t \in Secondaries, SecondaryStep(t) PROVE Sound
  <2>1. PICK c \in Contexts : TakeInit(t, c) \/ TakeShutdown(t, c)
    BY <1>12 DEF SecondaryStep, AckFails, Contained
  <2>2. t \in Threads
    BY ThreadFacts
  <2>3. RuntimeSound'
    BY <1>10, <2>1, <2>2
  <2>4. ASSUME NEW d \in Contexts PROVE TeardownSound(d)'
    BY <2>1, <2>2, InitializeSound, ShutdownSound
  <2>. QED BY <2>3, <2>4
<1>13. ASSUME StartApp \/ StartFails \/ TakeStop \/ UNCHANGED vars PROVE Sound
  <2>1. RuntimeSound'
    BY <1>1, <1>13, RuntimeThreadKeeps
  <2>2. ASSUME NEW d \in Contexts PROVE TeardownSound(d)'
    BY <1>1, <1>13, RuntimeStep, SameContext DEF CInv
  <2>. QED BY <2>1, <2>2
<1>14. ASSUME AppStep PROVE Sound
  BY <1>8, <1>11, <1>13, <1>14 DEF AppStep, OpenFails, Contained
<1>15. Sound
  BY <1>6, <1>8, <1>9, <1>12, <1>13, <1>14 DEF Next, Runtime
<1>. QED BY <1>1, <1>15 DEF CInv

\* The invariant holds of every behaviour in which those calls succeed.
THEOREM SpecCInv ==
    ASSUME Contained
    PROVE  Spec => []CInv
BY CInvInit, CInvStep, PTL DEF Spec

\* No two contexts have the same bdev open, when opening, sending and
\* acknowledging succeed; the other calls may fail and bdevs may go away.
THEOREM SpecDescriptorsExclusive ==
    ASSUME Contained
    PROVE  Spec => []DescriptorsExclusive
<1>1. CInv => DescriptorsExclusive
  <2>. SUFFICES ASSUME CInv, NEW c \in Contexts, NEW d \in Contexts,
                       c # d, Bdev[c] = Bdev[d], descriptor[c], descriptor[d]
                PROVE  FALSE
    BY DEF DescriptorsExclusive
  <2>1. pc[c] \in Live /\ pc[d] \in Live
    BY DEF CInv, TeardownSound, Still
  <2>. QED BY <2>1 DEF CInv, RuntimeSound, ClaimsSound, Claiming
<1>. QED BY <1>1, SpecCInv, PTL

\* Under the same condition a context that goes away, and the end of the
\* application, leave no buffer and no open bdev behind.
THEOREM SpecResourcesReleasedFirst ==
    ASSUME Contained
    PROVE  Spec => []ResourcesReleasedFirst
<1>1. CInv => ResourcesReleasedFirst
  <2>. SUFFICES ASSUME CInv, NEW c \in Contexts,
                       pc[c] \in {"drop", "join", "dead"} \/ app = "left"
                PROVE  pools[c] = {} /\ ~ descriptor[c]
    BY DEF ResourcesReleasedFirst
  <2>1. pc[c] \notin Live
    <3>1. CASE pc[c] \in {"drop", "join", "dead"}
      BY <3>1 DEF Live
    <3>2. CASE app = "left"
      <4>1. c \notin holds
        BY <3>2, HoldersIs DEF CInv, RuntimeSound, HoldersSound
      <4>. QED BY <4>1 DEF CInv, RuntimeSound, ClaimsSound, Claiming
    <3>. QED BY <3>1, <3>2
  <2>. QED BY <2>1 DEF CInv, TeardownSound, Still
<1>. QED BY <1>1, SpecCInv, PTL

\* Under the same condition no SPDK thread drops the last pointer to the
\* runtime, which would have it join itself.
THEOREM SpecNeverJoinsItself ==
    ASSUME Contained
    PROVE  Spec => []NeverJoinsItself
<1>1. CInv => NeverJoinsItself
  <2>. SUFFICES ASSUME CInv, NEW t \in Threads, at[t].step = "joining" PROVE FALSE
    BY DEF NeverJoinsItself
  <2>. USE DEF CInv, IInv, Typed
  <2>1. at[t].context \in Contexts
    <3>1. t = App \/ (t \in Secondaries /\ t # App /\ t[1] \in Contexts)
      BY ThreadFacts
    <3>2. at[t] \in HandlersOf(t)
      BY DEF AtRouted
    <3>. QED BY <3>1, <3>2 DEF HandlersOf, Handler, Idle
  <2>2. PICK c \in Contexts : at[t].context = c
    BY <2>1
  <2>3. t = App \/ t[1] = c
    BY <2>2, RoutedHome
  <2>4. Doing(c, t[2]) = "joining" /\ t[2] \in Workers
    BY <2>2, <2>3, WorkFacts, ThreadFacts
  <2>. QED BY <2>4 DEF TeardownSound
<1>. QED BY <1>1, SpecCInv, PTL
=============================================================================
