------------------------ MODULE NvmeKvConnector_proofs ------------------------
(***************************************************************************)
(* Proofs about NvmeKvConnector for any connectors, workers, keys, payloads *)
(* and queue depth, and any number of requests.                             *)
(***************************************************************************)
EXTENDS NvmeKvConnector, FiniteSetTheorems, TLAPS

-----------------------------------------------------------------------------
(* The inductive invariant *)

Value == Seq(Nat) \cup {None}
Command == [id : 1 .. QueueDepth, op : {"retrieve", "store", "exist", "delete"},
            key : Keys, data : Seq(Nat)]
Completion == [id : 1 .. QueueDepth, success : BOOLEAN]
Deed == [was : Value, now : Value]

\* What the state that TypeOK does not speak of consists of.
Shapes ==
    /\ records \in [Keys -> Value]
    /\ staging \in [Workers -> Value]
    /\ own \in [Workers -> {None, Thrown} \cup Deed]
    /\ exposed \in [Workers -> BOOLEAN]
    /\ sq \in [Workers -> SUBSET Command]
    /\ cq \in [Workers -> SUBSET Completion]
    /\ begun \in 0 .. MaxRequests

\* A connector has raised the flag and will take it down.
Owns(c) == phase[c] \in {"running", "closing", "detached"}

\* One connector at most owns the flag; it has the environment and the
\* controller until its workers have stopped.
ConnectorsSound ==
    /\ \A c \in Connectors : c \in env <=> phase[c] \in {"running", "closing"}
    /\ attached = env
    /\ active <=> \E c \in Connectors : Owns(c)
    /\ \A c, d \in Connectors : Owns(c) /\ Owns(d) => c = d

\* Workers run between the constructor's last step and StopRuntime, and only
\* a running one has a queue pair.
WorkerSound(w) ==
    /\ phase[w[1]] \in {"new", "dead"} => wpc[w] = "off"
    /\ phase[w[1]] \in {"detached", "closed"} => wpc[w] = "ended"
    /\ phase[w[1]] \in {"running", "closing"} => wpc[w] # "off"
    /\ wpc[w] \in {"off", "start", "ended"} => sq[w] = {} /\ cq[w] = {}

\* Every outstanding command, live or abandoned, has its own identity; a STORE
\* has a size the namespace takes.
QueueSound(w) ==
    /\ IsFiniteSet(sq[w]) /\ IsFiniteSet(cq[w])
    /\ \A j, k \in sq[w] \cup cq[w] : j.id = k.id => j = k
    /\ \A k \in sq[w] : k.op = "store" => Len(k.data) \in 1 .. MaxValueBytes

\* The frame of a request: its command is one of its operation, and what it
\* submitted is what is outstanding under its identity.
RequestSound(w) ==
    /\ Busy(w) =>
         /\ req[w] \in Requests /\ SizeOk(req[w])
         /\ \/ step[w] = FirstCommand(req[w].op)
            \/ req[w].op = "delete" /\ step[w] = "delete"
    /\ wpc[w] # "poll" => cur[w] = 0 /\ result[w] = Pending /\ own[w] = None
    /\ wpc[w] = "poll" => \A k \in sq[w] : k.id = cur[w] =>
         k = [id |-> cur[w], op |-> step[w], key |-> req[w].key, data |-> req[w].data]

\* What the device did for w's present command, which it answered with success
\* or not.
Did(w, success) ==
    IF success
    THEN /\ own[w] \in Deed
         /\ step[w] = "store" => own[w].now = req[w].data
         /\ step[w] # "store" => own[w].was # None
         /\ step[w] = "retrieve" => staging[w] = Fit(own[w].was, Len(req[w].data))
         /\ step[w] = "delete" => own[w].now = None
    ELSE own[w] = Thrown

\* No command on any queue pair is abandoned.
NoneAbandoned == \A x \in Workers : \A k \in sq[x] \cup cq[x] : Live(x, k.id)

\* A request that never met an abandoned command: whatever it may find in its
\* CommandResult, now or after the next poll, is the device's answer to it.
CalmSound(w) ==
    Busy(w) /\ ~ exposed[w] =>
        /\ NoneAbandoned
        /\ req[w].op = "set" => staging[w] = req[w].data
        /\ sq[w] # {} => ~ result[w].done
        /\ \A k \in cq[w] : Did(w, k.success)
        /\ result[w].done => Did(w, result[w].success)

IInv ==
    /\ TypeOK
    /\ Shapes
    /\ ConnectorsSound
    /\ \A w \in Workers :
         WorkerSound(w) /\ QueueSound(w) /\ RequestSound(w) /\ CalmSound(w)

-----------------------------------------------------------------------------
(* Buffers and queues *)

\* Every worker is a worker of a connector.
LEMMA WorkerFacts == \A w \in Workers : w[1] \in Connectors
BY DEF Workers

\* What arrives in a zeroed buffer is bytes, as many as the buffer has.
LEMMA FitFacts ==
    ASSUME NEW v \in Seq(Nat), NEW n \in Nat
    PROVE  Fit(v, n) \in Seq(Nat) /\ Len(Fit(v, n)) = n
<1>1. \A i \in 1 .. n : (IF i <= Len(v) THEN v[i] ELSE 0) \in Nat
  OBVIOUS
<1>2. Fit(v, n) \in [1 .. n -> Nat]
  BY <1>1 DEF Fit
<1>. QED
  BY <1>2

\* So is a zeroed buffer.
LEMMA ZeroFacts ==
    ASSUME NEW n \in Nat
    PROVE  Zeros(n) \in Seq(Nat) /\ Len(Zeros(n)) = n
<1>1. Zeros(n) \in [1 .. n -> Nat]
  BY DEF Zeros
<1>. QED
  BY <1>1

\* A request's data is bytes.
LEMMA RequestFacts ==
    ASSUME NEW r \in Requests
    PROVE  /\ r.op \in {"get", "set", "exists", "delete"}
           /\ r.key \in Keys
           /\ r.data \in Seq(Nat)
           /\ FirstCommand(r.op) \in {"retrieve", "store", "exist"}
           /\ FirstCommand(r.op) = "store" <=> r.op = "set"
           /\ FirstCommand(r.op) = "retrieve" <=> r.op = "get"
           /\ FirstCommand(r.op) = "exist" <=> r.op \in {"exists", "delete"}
<1>1. /\ r.op \in {"get", "set", "exists", "delete"}
      /\ r.key \in Keys
      /\ r.data \in Payloads \cup {Zeros(n) : n \in Lengths} \cup {<<>>}
  BY DEF Requests
<1>2. \A n \in Lengths : Zeros(n) \in Seq(Nat)
  BY ZeroFacts, KvConnectorAssumption
<1>3. r.data \in Seq(Nat)
  <2>1. <<>> \in Seq(Nat) /\ Payloads \subseteq Seq(Nat)
    BY KvConnectorAssumption
  <2>2. CASE r.data \in {Zeros(n) : n \in Lengths}
    BY <1>2, <2>2
  <2>. QED
    BY <1>1, <2>1, <2>2
<1>. QED
  BY <1>1, <1>3 DEF FirstCommand

\* Commands with identities of their own are as many as their identities.
LEMMA QueueCounts ==
    ASSUME NEW S \in SUBSET Command, NEW C \in SUBSET Completion,
           IsFiniteSet(S), IsFiniteSet(C),
           \A j, k \in S \cup C : j.id = k.id => j = k
    PROVE  LET I == {k.id : k \in S \cup C} IN
           /\ IsFiniteSet(I)
           /\ I \subseteq 1 .. QueueDepth
           /\ Cardinality(I) = Cardinality(S) + Cardinality(C)
<1>. DEFINE I == {k.id : k \in S \cup C}
            f == [k \in S \cup C |-> k.id]
<1>1. \A k \in Command : "op" \in DOMAIN k
  BY DEF Command
<1>2. \A k \in Completion : "op" \notin DOMAIN k
  BY DEF Completion
<1>3. S \cap C = {}
  BY <1>1, <1>2
<1>4. IsFiniteSet(S \cup C) /\ Cardinality(S \cup C) = Cardinality(S) + Cardinality(C)
  <2>1. /\ IsFiniteSet(S \cup C)
        /\ Cardinality(S \cup C) = Cardinality(S) + Cardinality(C) - Cardinality(S \cap C)
    BY FS_Union
  <2>2. Cardinality(S \cap C) = 0 /\ Cardinality(S) \in Nat /\ Cardinality(C) \in Nat
    BY <1>3, FS_EmptySet, FS_CardinalityType
  <2>. QED
    BY <2>1, <2>2
<1>5. f \in Surjection(S \cup C, I)
  BY DEF Surjection
<1>6. f \in Injection(S \cup C, I)
  BY DEF Injection, IsInjective
<1>7. IsFiniteSet(I) /\ Cardinality(I) = Cardinality(S \cup C)
  BY <1>4, <1>5, <1>6, FS_Surjection
<1>8. I \subseteq 1 .. QueueDepth
  BY DEF Command, Completion
<1>. QED
  BY <1>4, <1>7, <1>8

-----------------------------------------------------------------------------
(* Connectors and workers *)

\* Only construction and close touch the connectors.
LEMMA OtherSteps ==
    ASSUME [Next]_vars
    PROVE  \/ UNCHANGED connectorVars
           \/ \E c \in Connectors :
                \/ Construct(c) \/ ConstructThrows(c) \/ ConstructUndone(c)
                \/ BeginClose(c) \/ StopRuntime(c) \/ ClearActive(c)
BY DEF Next, vars, CloseStep, WorkerStep, CreateConnection, WorkerEnds, Submit,
       SubmitFails, Poll, ContinueDelete, Finish, GiveUp, Begin, Refuse, Execute, End

\* One connector owns the flag at a time.
LEMMA NextConnectors == IInv /\ [Next]_vars => ConnectorsSound'
<1>. SUFFICES ASSUME IInv, [Next]_vars PROVE ConnectorsSound'
  OBVIOUS
<1>. USE DEF ConnectorsSound, Owns, IInv, TypeOK
<1>1. CASE UNCHANGED connectorVars
  BY <1>1 DEF connectorVars
<1>2. ASSUME NEW c \in Connectors, Construct(c) PROVE ConnectorsSound'
  BY <1>2 DEF Construct, Attach
<1>3. ASSUME NEW c \in Connectors, ConstructThrows(c) PROVE ConnectorsSound'
  BY <1>3 DEF ConstructThrows
<1>4. ASSUME NEW c \in Connectors, ConstructUndone(c) PROVE ConnectorsSound'
  BY <1>4 DEF ConstructUndone
<1>5. ASSUME NEW c \in Connectors, BeginClose(c) PROVE ConnectorsSound'
  BY <1>5 DEF BeginClose
<1>6. ASSUME NEW c \in Connectors, StopRuntime(c) PROVE ConnectorsSound'
  BY <1>6 DEF StopRuntime
<1>7. ASSUME NEW c \in Connectors, ClearActive(c) PROVE ConnectorsSound'
  BY <1>7 DEF ClearActive
<1>. QED
  BY <1>1, <1>2, <1>3, <1>4, <1>5, <1>6, <1>7, OtherSteps

\* Workers and queue pairs live between construction and StopRuntime.
LEMMA NextWorkers == IInv /\ [Next]_vars => \A w \in Workers : WorkerSound(w)'
<1>. SUFFICES ASSUME IInv, [Next]_vars, NEW w \in Workers PROVE WorkerSound(w)'
  OBVIOUS
<1>0. /\ w[1] \in Connectors /\ WorkerSound(w)
      /\ phase \in [Connectors -> {"new", "dead", "running", "closing", "detached", "closed"}]
      /\ wpc \in [Workers -> {"off", "start", "idle", "submit", "poll", "ended"}]
      /\ sq \in [Workers -> SUBSET Command] /\ cq \in [Workers -> SUBSET Completion]
  BY WorkerFacts DEF IInv, TypeOK, Shapes
<1>1. CASE UNCHANGED <<phase, wpc, sq, cq>>
  BY <1>0, <1>1 DEF WorkerSound
<1>2. ASSUME NEW c \in Connectors, Construct(c) PROVE WorkerSound(w)'
  BY <1>0, <1>2 DEF Construct, queueVars, WorkerSound
<1>3. ASSUME NEW c \in Connectors,
             \/ ConstructThrows(c) \/ ConstructUndone(c) \/ BeginClose(c)
             \/ ClearActive(c)
      PROVE  WorkerSound(w)'
  BY <1>0, <1>3 DEF ConstructThrows, ConstructUndone, BeginClose, ClearActive,
                    queueVars, requestVars, WorkerSound
<1>4. ASSUME NEW c \in Connectors, StopRuntime(c) PROVE WorkerSound(w)'
  BY <1>0, <1>4 DEF StopRuntime, queueVars, requestVars, WorkerSound
<1>5. ASSUME NEW x \in Workers, CreateConnection(x) PROVE WorkerSound(w)'
  <2>1. WorkerSound(x)
    BY DEF IInv
  <2>. QED
    BY <1>0, <1>5, <2>1 DEF CreateConnection, connectorVars, queueVars, WorkerSound
<1>6. ASSUME NEW x \in Workers, WorkerEnds(x) PROVE WorkerSound(w)'
  BY <1>0, <1>6 DEF WorkerEnds, connectorVars, WorkerSound
<1>7. ASSUME NEW x \in Workers, Begin(x) \/ ContinueDelete(x) PROVE WorkerSound(w)'
  BY <1>0, <1>7 DEF Begin, ContinueDelete, connectorVars, queueVars, WorkerSound
<1>8. ASSUME NEW x \in Workers, SubmitFails(x) \/ Finish(x) \/ GiveUp(x)
      PROVE  WorkerSound(w)'
  BY <1>0, <1>8 DEF SubmitFails, Finish, GiveUp, End, connectorVars, queueVars,
                    WorkerSound
<1>9. ASSUME NEW x \in Workers, Submit(x) PROVE WorkerSound(w)'
  BY <1>0, <1>9 DEF Submit, connectorVars, WorkerSound
<1>10. ASSUME NEW x \in Workers, Poll(x) PROVE WorkerSound(w)'
  BY <1>0, <1>10 DEF Poll, connectorVars, WorkerSound
<1>11. ASSUME NEW x \in Workers, Execute(x) PROVE WorkerSound(w)'
  BY <1>0, <1>11 DEF Execute, connectorVars, WorkerSound
<1>12. ASSUME NEW x \in Workers, Refuse(x) PROVE WorkerSound(w)'
  BY <1>1, <1>12 DEF Refuse, vars, connectorVars, queueVars, requestVars
<1>13. CASE UNCHANGED vars
  BY <1>1, <1>13 DEF vars, connectorVars, queueVars, requestVars
<1>. QED
  BY <1>2, <1>3, <1>4, <1>5, <1>6, <1>7, <1>8, <1>9, <1>10, <1>11, <1>12, <1>13
     DEF Next, CloseStep, WorkerStep

\* The identity of a new command is free.
LEMMA FreshIdentity ==
    ASSUME IInv, NEW w \in Workers, Submit(w)
    PROVE  /\ cur'[w] \in 1 .. QueueDepth
           /\ cur'[w] \notin Outstanding(w)
           /\ cur' = [cur EXCEPT ![w] = cur'[w]]
           /\ sq' = [sq EXCEPT ![w] = @ \cup {[id |-> cur'[w], op |-> step[w],
                                         key |-> req[w].key, data |-> req[w].data]}]
<1>. DEFINE Free == CHOOSE i \in 1 .. QueueDepth : i \notin Outstanding(w)
<1>1. /\ IsFiniteSet(Outstanding(w)) /\ Outstanding(w) \subseteq 1 .. QueueDepth
  BY QueueCounts DEF IInv, QueueSound, Shapes, Outstanding
<1>2. \E i \in 1 .. QueueDepth : i \notin Outstanding(w)
  <2>. SUFFICES ASSUME 1 .. QueueDepth \subseteq Outstanding(w) PROVE FALSE
    OBVIOUS
  <2>1. Outstanding(w) = 1 .. QueueDepth
    BY <1>1
  <2>2. QueueDepth \in Int /\ QueueDepth >= 1
    BY KvConnectorAssumption
  <2>3. Cardinality(1 .. QueueDepth) = QueueDepth
    BY <2>2, FS_Interval
  <2>. QED
    BY <2>1, <2>2, <2>3 DEF Submit
<1>3. Free \in 1 .. QueueDepth /\ Free \notin Outstanding(w)
  BY <1>2
<1>4. /\ cur' = [cur EXCEPT ![w] = Free]
      /\ sq' = [sq EXCEPT ![w] = @ \cup {[id |-> Free, op |-> step[w],
                                         key |-> req[w].key, data |-> req[w].data]}]
  BY DEF Submit
<1>5. cur'[w] = Free
  BY <1>4 DEF IInv, TypeOK
<1>. QED
  BY <1>3, <1>4, <1>5

\* What a busy worker submits is a command.
LEMMA SubmittedCommand ==
    ASSUME IInv, NEW w \in Workers, Submit(w)
    PROVE  LET k == [id |-> cur'[w], op |-> step[w], key |-> req[w].key,
                     data |-> req[w].data] IN
           k \in Command /\ (k.op = "store" => Len(k.data) \in 1 .. MaxValueBytes)
<1>1. /\ req[w] \in Requests /\ SizeOk(req[w])
      /\ \/ step[w] = FirstCommand(req[w].op)
         \/ req[w].op = "delete" /\ step[w] = "delete"
  BY DEF Submit, IInv, RequestSound, Busy
<1>2. step[w] \in {"retrieve", "store", "exist", "delete"} /\ (step[w] = "store" => req[w].op = "set")
  BY <1>1, RequestFacts
<1>3. req[w].key \in Keys /\ req[w].data \in Seq(Nat) /\ cur'[w] \in 1 .. QueueDepth
  BY <1>1, RequestFacts, FreshIdentity
<1>4. step[w] = "store" => Len(req[w].data) \in 1 .. MaxValueBytes
  BY <1>1, <1>2 DEF SizeOk
<1>. QED
  BY <1>2, <1>3, <1>4 DEF Command

-----------------------------------------------------------------------------
(* The device *)

\* The frame a live command was submitted from is the one that waits for it.
LEMMA LiveCommand ==
    ASSUME IInv, NEW w \in Workers, NEW k \in sq[w], Live(w, k.id)
    PROVE  /\ k.op = step[w] /\ k.key = req[w].key /\ k.data = req[w].data
           /\ req[w] \in Requests /\ SizeOk(req[w])
           /\ k.op = "store" <=> req[w].op = "set"
           /\ k.op = "retrieve" <=> req[w].op = "get"
           /\ k.op = "delete" => req[w].op = "delete"
           /\ k.op = "exist" => req[w].op \in {"exists", "delete"}
<1>1. /\ wpc[w] = "poll" /\ k.id = cur[w] /\ RequestSound(w)
  BY DEF Live, IInv
<1>2. k = [id |-> cur[w], op |-> step[w], key |-> req[w].key, data |-> req[w].data]
  BY <1>1 DEF RequestSound
<1>3. /\ req[w] \in Requests /\ SizeOk(req[w])
      /\ \/ step[w] = FirstCommand(req[w].op)
         \/ req[w].op = "delete" /\ step[w] = "delete"
  BY <1>1 DEF RequestSound, Busy
<1>4. k.op = step[w] /\ k.key = req[w].key /\ k.data = req[w].data
  BY <1>2
<1>. QED
  BY <1>3, <1>4, RequestFacts

\* Whatever its buffer holds by then, a STORE writes bytes the namespace takes.
LEMMA StoredBytes ==
    ASSUME IInv, NEW w \in Workers, NEW k \in sq[w], k.op = "store",
           NEW v \in BufferOf(w, k)
    PROVE  v \in Seq(Nat) /\ Len(v) \in 1 .. MaxValueBytes
<1>1. k.data \in Seq(Nat) /\ Len(k.data) \in 1 .. MaxValueBytes /\ Len(k.data) \in Nat
  BY DEF IInv, Shapes, QueueSound, Command
<1>2. CASE Live(w, k.id)
  <2>1. v = staging[w]
    BY <1>2 DEF BufferOf
  <2>2. k.data = req[w].data /\ req[w].op = "set" /\ Busy(w)
    BY <1>2, LiveCommand DEF Live, Busy
  <2>. QED
    BY <1>1, <2>1, <2>2 DEF IInv, TypeOK
<1>3. CASE ~ Live(w, k.id)
  <2>1. \/ v = k.data
        \/ v = Zeros(Len(k.data))
        \/ \E x \in Workers : staging[x] # None /\ v = Fit(staging[x], Len(k.data))
    BY <1>3 DEF BufferOf
  <2>2. CASE \E x \in Workers : staging[x] # None /\ v = Fit(staging[x], Len(k.data))
    <3>1. PICK x \in Workers : staging[x] # None /\ v = Fit(staging[x], Len(k.data))
      BY <2>2
    <3>2. staging[x] \in Seq(Nat)
      BY <3>1 DEF IInv, TypeOK
    <3>. QED
      BY <1>1, <3>1, <3>2, FitFacts
  <2>3. CASE v = Zeros(Len(k.data))
    BY <1>1, <2>3, ZeroFacts
  <2>. QED
    BY <1>1, <2>1, <2>2, <2>3
<1>. QED
  BY <1>2, <1>3

\* A RETRIEVE fills one buffer, that of its own frame while that lives.
LEMMA DeliveredBytes ==
    ASSUME IInv, NEW w \in Workers, NEW k \in sq[w], k.op = "retrieve",
           NEW v \in Seq(Nat), NEW s \in Delivered(w, k, v)
    PROVE  \/ s = staging /\ ~ Live(w, k.id)
           \/ \E x \in Workers : /\ staging[x] # None
                                 /\ s = [staging EXCEPT ![x] = Fit(v, Len(staging[x]))]
                                 /\ Live(w, k.id) => x = w
<1>1. CASE Live(w, k.id)
  <2>1. s = [staging EXCEPT ![w] = Fit(v, Len(staging[w]))]
    BY <1>1 DEF Delivered, IInv, Shapes
  <2>2. req[w].op = "get" /\ Busy(w)
    BY <1>1, LiveCommand DEF Live, Busy
  <2>3. staging[w] # None
    BY <2>2 DEF IInv, TypeOK
  <2>. QED
    BY <2>1, <2>3
<1>2. CASE ~ Live(w, k.id)
  BY <1>2 DEF Delivered, IInv, Shapes
<1>. QED
  BY <1>1, <1>2

\* The execution of a command, successful or not.
LEMMA Executed ==
    ASSUME IInv, NEW w \in Workers, Execute(w)
    PROVE  \E k \in sq[w], success \in BOOLEAN :
             /\ sq' = [sq EXCEPT ![w] = @ \ {k}]
             /\ cq' = [cq EXCEPT ![w] = @ \cup {[id |-> k.id, success |-> success]}]
             /\ own' = IF Live(w, k.id)
                       THEN [own EXCEPT ![w] =
                               IF success THEN [was |-> records[k.key],
                                                now |-> records'[k.key]]
                                          ELSE Thrown]
                       ELSE own
             /\ success /\ k.op # "store" => records[k.key] # None
             /\ \/ records' = records /\ (success => k.op \notin {"store", "delete"})
                \/ \E v \in Value :
                     /\ records' = [records EXCEPT ![k.key] = v]
                     /\ v # None => v \in Seq(Nat) /\ Len(v) \in 1 .. MaxValueBytes
                     /\ k.op = "delete" => v = None
                     /\ k.op = "store" => v \in BufferOf(w, k)
             /\ \/ staging' = staging /\ (success /\ Live(w, k.id) => k.op # "retrieve")
                \/ /\ success /\ k.op = "retrieve"
                   /\ \E x \in Workers :
                        /\ staging[x] # None
                        /\ staging' = [staging EXCEPT ![x] =
                                         Fit(records[k.key], Len(staging[x]))]
                        /\ Live(w, k.id) => x = w
<1>1. PICK k \in sq[w], success \in BOOLEAN :
        /\ IF success THEN Effect(w, k) ELSE UNCHANGED <<records, staging>>
        /\ sq' = [sq EXCEPT ![w] = @ \ {k}]
        /\ cq' = [cq EXCEPT ![w] = @ \cup {[id |-> k.id, success |-> success]}]
        /\ own' = IF Live(w, k.id)
                  THEN [own EXCEPT ![w] =
                          IF success THEN [was |-> records[k.key],
                                           now |-> records'[k.key]]
                                     ELSE Thrown]
                  ELSE own
  BY DEF Execute
<1>2. /\ k \in Command /\ k.key \in Keys
      /\ k.op \in {"retrieve", "store", "exist", "delete"}
      /\ records \in [Keys -> Value]
      /\ records[k.key] # None => records[k.key] \in Seq(Nat)
                                  /\ Len(records[k.key]) \in 1 .. MaxValueBytes
  BY DEF IInv, Shapes, TypeOK, Command
<1>3. success /\ k.op # "store" => records[k.key] # None
  BY <1>1 DEF Effect
<1>4. \/ records' = records /\ (success => k.op \notin {"store", "delete"})
      \/ \E v \in Value :
           /\ records' = [records EXCEPT ![k.key] = v]
           /\ v # None => v \in Seq(Nat) /\ Len(v) \in 1 .. MaxValueBytes
           /\ k.op = "delete" => v = None
           /\ k.op = "store" => v \in BufferOf(w, k)
  <2>1. CASE ~ success
    BY <1>1, <2>1
  <2>2. CASE success /\ k.op = "store"
    <3>1. PICK v \in BufferOf(w, k) : records' = [records EXCEPT ![k.key] = v]
      BY <1>1, <2>2 DEF Effect
    <3>2. v \in Seq(Nat) /\ Len(v) \in 1 .. MaxValueBytes /\ v \in Value
      BY <2>2, StoredBytes DEF Value
    <3>. QED
      BY <2>2, <3>1, <3>2
  <2>3. CASE success /\ k.op = "delete"
    BY <1>1, <2>3 DEF Effect, Value
  <2>4. CASE success /\ k.op \notin {"store", "delete"}
    BY <1>1, <1>2, <2>4 DEF Effect
  <2>. QED
    BY <2>1, <2>2, <2>3, <2>4
<1>5. \/ staging' = staging /\ (success /\ Live(w, k.id) => k.op # "retrieve")
      \/ /\ success /\ k.op = "retrieve"
         /\ \E x \in Workers :
              /\ staging[x] # None
              /\ staging' = [staging EXCEPT ![x] = Fit(records[k.key], Len(staging[x]))]
              /\ Live(w, k.id) => x = w
  <2>1. CASE ~ (success /\ k.op = "retrieve")
    BY <1>1, <2>1 DEF Effect
  <2>2. CASE success /\ k.op = "retrieve"
    <3>1. staging' \in Delivered(w, k, records[k.key])
      BY <1>1, <2>2 DEF Effect
    <3>2. records[k.key] \in Seq(Nat)
      BY <1>2, <1>3, <2>2
    <3>. QED
      BY <2>2, <3>1, <3>2, DeliveredBytes
  <2>. QED
    BY <2>1, <2>2
<1>. QED
  BY <1>1, <1>3, <1>4, <1>5

-----------------------------------------------------------------------------
(* Queues *)

\* Only these steps touch a queue pair.
LEMMA QueueSteps ==
    ASSUME [Next]_vars
    PROVE  \/ sq' = sq /\ cq' = cq
           \/ \E x \in Workers : WorkerEnds(x) \/ Submit(x) \/ Poll(x) \/ Execute(x)
BY DEF Next, vars, CloseStep, WorkerStep, CreateConnection, SubmitFails,
       ContinueDelete, Finish, GiveUp, Begin, Refuse, End, Construct, ConstructThrows,
       ConstructUndone, BeginClose, StopRuntime, ClearActive, queueVars

\* The commands S and completions C of one queue pair are sound.
GoodQueue(S, C) ==
    /\ S \in SUBSET Command /\ C \in SUBSET Completion
    /\ IsFiniteSet(S) /\ IsFiniteSet(C)
    /\ \A j, k \in S \cup C : j.id = k.id => j = k
    /\ \A k \in S : k.op = "store" => Len(k.data) \in 1 .. MaxValueBytes

\* Every step leaves sound queues.
LEMMA NextQueues ==
    ASSUME IInv, [Next]_vars
    PROVE  /\ sq' \in [Workers -> SUBSET Command]
           /\ cq' \in [Workers -> SUBSET Completion]
           /\ \A w \in Workers : GoodQueue(sq'[w], cq'[w])
<1>1. /\ sq \in [Workers -> SUBSET Command] /\ cq \in [Workers -> SUBSET Completion]
      /\ \A w \in Workers : GoodQueue(sq[w], cq[w])
  BY DEF IInv, Shapes, QueueSound, GoodQueue
<1>2. ASSUME NEW x \in Workers, NEW S, NEW C, GoodQueue(S, C),
             sq' = [sq EXCEPT ![x] = S], cq' = [cq EXCEPT ![x] = C]
      PROVE  /\ sq' \in [Workers -> SUBSET Command]
             /\ cq' \in [Workers -> SUBSET Completion]
             /\ \A w \in Workers : GoodQueue(sq'[w], cq'[w])
  <2>1. S \in SUBSET Command /\ C \in SUBSET Completion
    BY <1>2 DEF GoodQueue
  <2>. QED
    BY <1>1, <1>2, <2>1
<1>3. CASE sq' = sq /\ cq' = cq
  BY <1>1, <1>3
<1>4. ASSUME NEW x \in Workers, WorkerEnds(x)
      PROVE  GoodQueue({}, {}) /\ sq' = [sq EXCEPT ![x] = {}] /\ cq' = [cq EXCEPT ![x] = {}]
  BY <1>4, FS_EmptySet DEF WorkerEnds, GoodQueue
<1>5. ASSUME NEW x \in Workers, Submit(x)
      PROVE  \E S : /\ GoodQueue(S, cq[x])
                    /\ sq' = [sq EXCEPT ![x] = S] /\ cq' = [cq EXCEPT ![x] = cq[x]]
  <2>. DEFINE n == [id |-> cur'[x], op |-> step[x], key |-> req[x].key,
                    data |-> req[x].data]
  <2>1. /\ n \in Command /\ (n.op = "store" => Len(n.data) \in 1 .. MaxValueBytes)
        /\ n.id \notin Outstanding(x) /\ sq' = [sq EXCEPT ![x] = sq[x] \cup {n}]
        /\ cq' = [cq EXCEPT ![x] = cq[x]]
    BY <1>1, <1>5, SubmittedCommand, FreshIdentity DEF Submit
  <2>. HIDE DEF n
  <2>2. \A k \in sq[x] \cup cq[x] : k.id # n.id
    BY <2>1 DEF Outstanding
  <2>3. IsFiniteSet(sq[x] \cup {n})
    BY <1>1, FS_AddElement DEF GoodQueue
  <2>4. GoodQueue(sq[x] \cup {n}, cq[x])
    BY <1>1, <2>1, <2>2, <2>3 DEF GoodQueue
  <2>. QED
    BY <2>1, <2>4
<1>6. ASSUME NEW x \in Workers, Poll(x)
      PROVE  \E C : /\ GoodQueue(sq[x], C)
                    /\ sq' = [sq EXCEPT ![x] = sq[x]] /\ cq' = [cq EXCEPT ![x] = C]
  <2>1. PICK k \in cq[x] : cq' = [cq EXCEPT ![x] = cq[x] \ {k}] /\ sq' = [sq EXCEPT ![x] = sq[x]]
    BY <1>1, <1>6 DEF Poll
  <2>2. IsFiniteSet(cq[x] \ {k})
    BY <1>1, FS_RemoveElement DEF GoodQueue
  <2>3. GoodQueue(sq[x], cq[x] \ {k})
    BY <1>1, <2>2 DEF GoodQueue
  <2>. QED
    BY <2>1, <2>3
<1>7. ASSUME NEW x \in Workers, Execute(x)
      PROVE  \E S, C : /\ GoodQueue(S, C)
                       /\ sq' = [sq EXCEPT ![x] = S] /\ cq' = [cq EXCEPT ![x] = C]
  <2>1. PICK k \in sq[x], s \in BOOLEAN :
          /\ sq' = [sq EXCEPT ![x] = sq[x] \ {k}]
          /\ cq' = [cq EXCEPT ![x] = cq[x] \cup {[id |-> k.id, success |-> s]}]
    BY <1>1, <1>7, Executed
  <2>. DEFINE n == [id |-> k.id, success |-> s]
  <2>2. n \in Completion /\ n.id = k.id
    BY <1>1, <2>1 DEF GoodQueue, Command, Completion
  <2>3. \A j \in (sq[x] \ {k}) \cup cq[x] : j.id # k.id
    <3>1. k \notin cq[x]
      BY <1>1, <2>1 DEF GoodQueue, Command, Completion
    <3>. QED
      BY <1>1, <2>1, <3>1 DEF GoodQueue
  <2>. HIDE DEF n
  <2>4. IsFiniteSet(sq[x] \ {k}) /\ IsFiniteSet(cq[x] \cup {n})
    BY <1>1, FS_RemoveElement, FS_AddElement DEF GoodQueue
  <2>5. GoodQueue(sq[x] \ {k}, cq[x] \cup {n})
    BY <1>1, <2>2, <2>3, <2>4 DEF GoodQueue
  <2>. QED
    BY <2>1, <2>5 DEF n
<1>. QED
  BY <1>2, <1>3, <1>4, <1>5, <1>6, <1>7, QueueSteps

-----------------------------------------------------------------------------
(* Requests *)

Results == [done : BOOLEAN, success : BOOLEAN]
Steps == {"retrieve", "store", "exist", "delete", None}
Points == {"off", "start", "idle", "submit", "poll", "ended"}

\* The plain types of a worker's variables.
WorkerTypes ==
    /\ wpc \in [Workers -> Points]
    /\ req \in [Workers -> Requests \cup {NoRequest}]
    /\ step \in [Workers -> Steps]
    /\ cur \in [Workers -> 0 .. QueueDepth]
    /\ result \in [Workers -> Results]
    /\ own \in [Workers -> {None, Thrown} \cup Deed]
    /\ exposed \in [Workers -> BOOLEAN]
    /\ begun \in 0 .. MaxRequests

\* Every step keeps these types.
LEMMA NextWorkerTypes == IInv /\ [Next]_vars => WorkerTypes'
<1>. SUFFICES ASSUME IInv, [Next]_vars PROVE WorkerTypes'
  OBVIOUS
<1>1. WorkerTypes
  BY DEF IInv, TypeOK, Shapes, WorkerTypes, Results, Steps, Points
<1>2. Pending \in Results
  BY DEF Pending, Results
<1>3. \A r \in Requests : FirstCommand(r.op) \in Steps
  BY RequestFacts DEF Steps
<1>4. 0 \in 0 .. QueueDepth /\ MaxRequests \in Nat
  BY KvConnectorAssumption
<1>. USE DEF WorkerTypes
<1>5. CASE UNCHANGED <<wpc, req, step, cur, result, own, exposed, begun>>
  BY <1>1, <1>5
<1>6. ASSUME NEW c \in Connectors, Construct(c) PROVE WorkerTypes'
  <2>1. UNCHANGED <<req, step, cur, result, own, exposed, begun>>
    BY <1>6 DEF Construct, historyVars
  <2>2. wpc' \in [Workers -> Points]
    BY <1>1, <1>6 DEF Construct, Points
  <2>. QED
    BY <1>1, <2>1, <2>2
<1>7. ASSUME NEW x \in Workers, CreateConnection(x) \/ WorkerEnds(x) PROVE WorkerTypes'
  <2>1. UNCHANGED <<req, step, cur, result, own, exposed, begun>>
    BY <1>7 DEF CreateConnection, WorkerEnds, historyVars
  <2>2. wpc' \in [Workers -> Points]
    BY <1>1, <1>7 DEF CreateConnection, WorkerEnds, Points
  <2>. QED
    BY <1>1, <2>1, <2>2
<1>8. ASSUME NEW x \in Workers, Begin(x) PROVE WorkerTypes'
  <2>1. UNCHANGED <<cur, result, own>> /\ begun < MaxRequests /\ begun' = begun + 1
    BY <1>8 DEF Begin
  <2>2. wpc' \in [Workers -> Points] /\ exposed' \in [Workers -> BOOLEAN]
    BY <1>1, <1>8 DEF Begin, Points, SomeAbandoned
  <2>3. PICK r \in Requests :
          req' = [req EXCEPT ![x] = r] /\ step' = [step EXCEPT ![x] = FirstCommand(r.op)]
    BY <1>8 DEF Begin
  <2>4. req' \in [Workers -> Requests \cup {NoRequest}] /\ step' \in [Workers -> Steps]
    BY <1>1, <1>3, <2>3
  <2>. QED
    BY <1>1, <1>4, <2>1, <2>2, <2>4
<1>9. ASSUME NEW x \in Workers, End(x) PROVE WorkerTypes'
  <2>1. wpc' \in [Workers -> Points] /\ step' \in [Workers -> Steps]
    BY <1>1, <1>9 DEF End, Points, Steps
  <2>2. req' \in [Workers -> Requests \cup {NoRequest}]
    BY <1>1, <1>9 DEF End
  <2>3. /\ cur' \in [Workers -> 0 .. QueueDepth] /\ result' \in [Workers -> Results]
        /\ own' \in [Workers -> {None, Thrown} \cup Deed]
    BY <1>1, <1>2, <1>4, <1>9 DEF End, Leave
  <2>4. exposed' \in [Workers -> BOOLEAN] /\ begun' = begun
    BY <1>9 DEF End
  <2>. QED
    BY <1>1, <2>1, <2>2, <2>3, <2>4
<1>10. ASSUME NEW x \in Workers, Submit(x) PROVE WorkerTypes'
  <2>1. UNCHANGED <<req, step, result, own, exposed, begun>>
    BY <1>10 DEF Submit, historyVars
  <2>2. wpc' \in [Workers -> Points]
    BY <1>1, <1>10 DEF Submit, Points
  <2>3. cur'[x] \in 0 .. QueueDepth /\ cur' = [cur EXCEPT ![x] = cur'[x]]
    BY <1>10, FreshIdentity
  <2>. QED
    BY <1>1, <2>1, <2>2, <2>3
<1>11. ASSUME NEW x \in Workers, Poll(x) PROVE WorkerTypes'
  <2>1. UNCHANGED <<wpc, req, step, cur, own, exposed, begun>>
    BY <1>11 DEF Poll, historyVars
  <2>2. PICK k \in cq[x] :
           result' = result \/ result' = [result EXCEPT ![x] =
                                            [done |-> TRUE, success |-> k.success]]
    BY <1>11 DEF Poll
  <2>3. [done |-> TRUE, success |-> k.success] \in Results
    BY DEF IInv, Shapes, Completion, Results
  <2>. QED
    BY <1>1, <2>1, <2>2, <2>3
<1>12. ASSUME NEW x \in Workers, ContinueDelete(x) PROVE WorkerTypes'
  <2>1. UNCHANGED <<req, begun>>
    BY <1>12 DEF ContinueDelete
  <2>2. wpc' \in [Workers -> Points] /\ step' \in [Workers -> Steps]
        /\ exposed' \in [Workers -> BOOLEAN]
    BY <1>1, <1>12 DEF ContinueDelete, Points, Steps, Busy, Abandons
  <2>3. /\ cur' \in [Workers -> 0 .. QueueDepth] /\ result' \in [Workers -> Results]
        /\ own' \in [Workers -> {None, Thrown} \cup Deed]
    BY <1>1, <1>2, <1>4, <1>12 DEF ContinueDelete, Leave
  <2>. QED
    BY <1>1, <2>1, <2>2, <2>3
<1>13. ASSUME NEW x \in Workers, Execute(x) PROVE WorkerTypes'
  <2>1. UNCHANGED <<wpc, req, step, cur, result, exposed, begun>>
    BY <1>13 DEF Execute
  <2>2. PICK k \in sq[x], s \in BOOLEAN :
          /\ own' = IF Live(x, k.id)
                    THEN [own EXCEPT ![x] =
                            IF s THEN [was |-> records[k.key], now |-> records'[k.key]]
                                 ELSE Thrown]
                    ELSE own
          /\ \/ records' = records
             \/ \E v \in Value : records' = [records EXCEPT ![k.key] = v]
    BY <1>13, Executed
  <2>3. records[k.key] \in Value /\ records'[k.key] \in Value
    BY <2>2 DEF IInv, Shapes, Command
  <2>4. [was |-> records[k.key], now |-> records'[k.key]] \in Deed
    BY <2>3 DEF Deed
  <2>. QED
    BY <1>1, <2>1, <2>2, <2>4
<1>14. \/ UNCHANGED <<wpc, req, step, cur, result, own, exposed, begun>>
       \/ \E c \in Connectors : Construct(c)
       \/ \E x \in Workers : \/ CreateConnection(x) \/ WorkerEnds(x) \/ Begin(x) \/ End(x)
                             \/ Submit(x) \/ Poll(x) \/ ContinueDelete(x) \/ Execute(x)
  BY DEF Next, vars, CloseStep, WorkerStep, SubmitFails, Finish, GiveUp, Refuse,
         ConstructThrows, ConstructUndone, BeginClose, StopRuntime, ClearActive,
         requestVars, historyVars
<1>. QED
  BY <1>5, <1>6, <1>7, <1>8, <1>9, <1>10, <1>11, <1>12, <1>13, <1>14

\* A buffer exists while a get or a set is under way, and has its size.
StagingSound(w) ==
    /\ staging[w] # None <=> Busy(w) /\ req[w].op \in {"get", "set"}
    /\ staging[w] # None =>
         staging[w] \in Seq(Nat) /\ Len(staging[w]) = Len(req[w].data)

\* Every step leaves every worker its buffer.
LEMMA NextStaging ==
    ASSUME IInv, [Next]_vars
    PROVE  /\ staging' \in [Workers -> Value]
           /\ \A w \in Workers : StagingSound(w)'
<1>1. /\ staging \in [Workers -> Value]
      /\ \A w \in Workers : StagingSound(w)
      /\ wpc \in [Workers -> Points] /\ req \in [Workers -> Requests \cup {NoRequest}]
  BY DEF IInv, Shapes, TypeOK, StagingSound, Points
<1>2. ASSUME UNCHANGED <<req, staging>>, \A w \in Workers : Busy(w)' <=> Busy(w)
      PROVE  staging' \in [Workers -> Value] /\ \A w \in Workers : StagingSound(w)'
  BY <1>1, <1>2 DEF StagingSound
<1>3. ASSUME NEW c \in Connectors, Construct(c)
      PROVE  staging' \in [Workers -> Value] /\ \A w \in Workers : StagingSound(w)'
  <2>1. \A w \in Workers : Busy(w)' <=> Busy(w)
    BY <1>1, <1>3 DEF Construct, Busy, IInv, WorkerSound
  <2>. QED
    BY <1>2, <1>3, <2>1 DEF Construct
<1>4. ASSUME NEW x \in Workers,
             CreateConnection(x) \/ WorkerEnds(x) \/ Submit(x) \/ ContinueDelete(x)
      PROVE  staging' \in [Workers -> Value] /\ \A w \in Workers : StagingSound(w)'
  <2>1. \A w \in Workers : Busy(w)' <=> Busy(w)
    BY <1>1, <1>4 DEF CreateConnection, WorkerEnds, Submit, ContinueDelete, Busy
  <2>. QED
    BY <1>2, <1>4, <2>1 DEF CreateConnection, WorkerEnds, Submit, ContinueDelete
<1>5. ASSUME NEW x \in Workers, Begin(x)
      PROVE  staging' \in [Workers -> Value] /\ \A w \in Workers : StagingSound(w)'
  <2>1. PICK r \in Requests :
          /\ req' = [req EXCEPT ![x] = r]
          /\ staging' = [staging EXCEPT ![x] = IF r.op \in {"get", "set"} THEN r.data ELSE None]
          /\ wpc' = [wpc EXCEPT ![x] = "submit"]
    BY <1>5 DEF Begin
  <2>2. r.data \in Seq(Nat) /\ r.data # None
    BY RequestFacts, KvConnectorAssumption
  <2>3. staging' \in [Workers -> Value]
    BY <1>1, <2>1, <2>2 DEF Value
  <2>4. StagingSound(x)'
    BY <1>1, <2>1, <2>2 DEF StagingSound, Busy
  <2>5. \A w \in Workers \ {x} : StagingSound(w)'
    BY <1>1, <2>1 DEF StagingSound, Busy
  <2>. QED
    BY <2>3, <2>4, <2>5
<1>6. ASSUME NEW x \in Workers, End(x)
      PROVE  staging' \in [Workers -> Value] /\ \A w \in Workers : StagingSound(w)'
  BY <1>1, <1>6 DEF End, StagingSound, Busy, Value
<1>7. ASSUME NEW x \in Workers, Execute(x)
      PROVE  staging' \in [Workers -> Value] /\ \A w \in Workers : StagingSound(w)'
  <2>1. /\ UNCHANGED <<req, wpc>>
        /\ \/ staging' = staging
           \/ \E k \in sq[x], y \in Workers :
                /\ staging[y] # None /\ records[k.key] # None
                /\ staging' = [staging EXCEPT ![y] = Fit(records[k.key], Len(staging[y]))]
    <3>1. UNCHANGED <<req, wpc>>
      BY <1>7 DEF Execute
    <3>. QED
      BY <1>7, <3>1, Executed
  <2>2. CASE staging' = staging
    BY <1>2, <2>1, <2>2 DEF Busy
  <2>3. ASSUME NEW k \in sq[x], NEW y \in Workers, staging[y] # None, records[k.key] # None,
               staging' = [staging EXCEPT ![y] = Fit(records[k.key], Len(staging[y]))]
        PROVE  staging' \in [Workers -> Value] /\ \A w \in Workers : StagingSound(w)'
    <3>1. records[k.key] \in Seq(Nat)
      BY <2>3 DEF IInv, Shapes, TypeOK, Command
    <3>2. staging[y] \in Seq(Nat) /\ Len(staging[y]) \in Nat
      BY <1>1, <2>3 DEF StagingSound
    <3>3. /\ staging'[y] \in Seq(Nat) /\ Len(staging'[y]) = Len(staging[y])
          /\ staging'[y] # None
      BY <1>1, <2>3, <3>1, <3>2, FitFacts, KvConnectorAssumption
    <3>4. staging' \in [Workers -> Value]
      BY <1>1, <2>3, <3>3 DEF Value
    <3>5. StagingSound(y)'
      BY <1>1, <2>1, <2>3, <3>3 DEF StagingSound, Busy
    <3>6. \A w \in Workers \ {y} : StagingSound(w)'
      BY <1>1, <2>1, <2>3 DEF StagingSound, Busy
    <3>. QED
      BY <3>4, <3>5, <3>6
  <2>. QED
    BY <2>1, <2>2, <2>3
<1>8. \/ UNCHANGED <<wpc, req, staging>>
      \/ \E c \in Connectors : Construct(c)
      \/ \E x \in Workers : \/ CreateConnection(x) \/ WorkerEnds(x) \/ Begin(x) \/ End(x)
                            \/ Submit(x) \/ ContinueDelete(x) \/ Execute(x)
  BY DEF Next, vars, CloseStep, WorkerStep, SubmitFails, Finish, GiveUp, Refuse, Poll,
         ConstructThrows, ConstructUndone, BeginClose, StopRuntime, ClearActive,
         requestVars
<1>9. CASE UNCHANGED <<wpc, req, staging>>
  BY <1>2, <1>9 DEF Busy
<1>. QED
  BY <1>3, <1>4, <1>5, <1>6, <1>7, <1>8, <1>9

\* A record is bytes the namespace takes.
LEMMA NextRecords ==
    ASSUME IInv, [Next]_vars
    PROVE  /\ records' \in [Keys -> Value]
           /\ \A k \in Keys : records'[k] # None =>
                records'[k] \in Seq(Nat) /\ Len(records'[k]) \in 1 .. MaxValueBytes
<1>1. /\ records \in [Keys -> Value]
      /\ \A k \in Keys : records[k] # None =>
           records[k] \in Seq(Nat) /\ Len(records[k]) \in 1 .. MaxValueBytes
  BY DEF IInv, Shapes, TypeOK
<1>2. ASSUME NEW x \in Workers, Execute(x)
      PROVE  records' = records \/ \E key \in Keys, v \in Value :
               /\ records' = [records EXCEPT ![key] = v]
               /\ v # None => v \in Seq(Nat) /\ Len(v) \in 1 .. MaxValueBytes
  <2>1. \A k \in sq[x] : k.key \in Keys
    BY DEF IInv, Shapes, Command
  <2>. QED
    BY <1>2, <2>1, Executed
<1>3. records' = records \/ \E x \in Workers : Execute(x)
  BY DEF Next, vars, CloseStep, WorkerStep, SubmitFails, Finish, GiveUp, Refuse, Poll,
         ConstructThrows, ConstructUndone, BeginClose, StopRuntime, ClearActive, Begin,
         CreateConnection, WorkerEnds, Construct, End, Submit, ContinueDelete
<1>. QED
  BY <1>1, <1>2, <1>3

\* Every step keeps the types.
LEMMA NextTypes == IInv /\ [Next]_vars => TypeOK' /\ Shapes'
<1>. SUFFICES ASSUME IInv, [Next]_vars PROVE TypeOK' /\ Shapes'
  OBVIOUS
<1>1. WorkerTypes'
  BY NextWorkerTypes
<1>2. /\ staging' \in [Workers -> Value]
      /\ \A w \in Workers : StagingSound(w)'
      /\ records' \in [Keys -> Value]
      /\ \A k \in Keys : records'[k] # None =>
           records'[k] \in Seq(Nat) /\ Len(records'[k]) \in 1 .. MaxValueBytes
  BY NextStaging, NextRecords
<1>3. /\ sq' \in [Workers -> SUBSET Command]
      /\ cq' \in [Workers -> SUBSET Completion]
      /\ \A w \in Workers : GoodQueue(sq'[w], cq'[w])
  BY NextQueues
<1>4. ASSUME NEW w \in Workers
      PROVE  /\ Outstanding(w)' \subseteq 1 .. QueueDepth
             /\ Cardinality(Outstanding(w)') = Cardinality(sq'[w]) + Cardinality(cq'[w])
  BY <1>3, QueueCounts DEF GoodQueue, Outstanding
<1>5. /\ active' \in BOOLEAN
      /\ phase' \in [Connectors -> {"new", "dead", "running", "closing", "detached", "closed"}]
      /\ env' \subseteq Connectors
      /\ attached' \subseteq Connectors
  <2>1. CASE UNCHANGED connectorVars
    BY <2>1 DEF connectorVars, IInv, TypeOK
  <2>2. ASSUME NEW c \in Connectors,
               \/ Construct(c) \/ ConstructThrows(c) \/ ConstructUndone(c)
               \/ BeginClose(c) \/ StopRuntime(c) \/ ClearActive(c)
        PROVE  /\ active' \in BOOLEAN
               /\ phase' \in [Connectors -> {"new", "dead", "running", "closing",
                                             "detached", "closed"}]
               /\ env' \subseteq Connectors
               /\ attached' \subseteq Connectors
    BY <2>2 DEF Construct, ConstructThrows, ConstructUndone, BeginClose, StopRuntime,
                ClearActive, Attach, IInv, TypeOK
  <2>. QED
    BY <2>1, <2>2, OtherSteps
<1>6. Shapes'
  BY <1>1, <1>2, <1>3 DEF Shapes, WorkerTypes
<1>7. TypeOK'
  BY <1>1, <1>2, <1>4, <1>5
     DEF TypeOK, WorkerTypes, StagingSound, Results, Steps, Points
<1>. QED
  BY <1>6, <1>7

\* Steps that leave the frame of w alone.
LEMMA RequestKept ==
    ASSUME NEW w \in Workers, RequestSound(w),
           wpc'[w] = wpc[w], req'[w] = req[w], step'[w] = step[w], cur'[w] = cur[w],
           wpc[w] # "poll" => result'[w] = result[w] /\ own'[w] = own[w],
           sq'[w] \subseteq sq[w]
    PROVE  RequestSound(w)'
BY DEF RequestSound, Busy

\* Every step leaves the frames of requests sound.
LEMMA NextRequests == IInv /\ [Next]_vars => \A w \in Workers : RequestSound(w)'
<1>. SUFFICES ASSUME IInv, [Next]_vars, NEW w \in Workers PROVE RequestSound(w)'
  OBVIOUS
<1>0. /\ RequestSound(w) /\ WorkerSound(w)
      /\ WorkerTypes
      /\ sq \in [Workers -> SUBSET Command] /\ cq \in [Workers -> SUBSET Completion]
  BY DEF IInv, TypeOK, Shapes, WorkerTypes, Points, Steps, Results
<1>1. CASE UNCHANGED <<wpc, req, step, cur, result, own, sq>>
  BY <1>0, <1>1, RequestKept
<1>2. ASSUME NEW c \in Connectors, Construct(c) PROVE RequestSound(w)'
  <2>1. UNCHANGED <<req, step, cur, result, own, sq>>
        /\ (wpc'[w] = wpc[w] \/ (wpc[w] = "off" /\ wpc'[w] = "start"))
    BY <1>0, <1>2 DEF Construct, queueVars, historyVars, WorkerSound
  <2>. QED
    BY <1>0, <2>1 DEF RequestSound, Busy
<1>3. ASSUME NEW x \in Workers, CreateConnection(x) \/ WorkerEnds(x) PROVE RequestSound(w)'
  <2>1. /\ UNCHANGED <<req, step, cur, result, own>>
        /\ \/ wpc'[w] = wpc[w] /\ sq'[w] = sq[w]
           \/ wpc[w] \in {"start", "idle"} /\ wpc'[w] \in {"idle", "ended"}
    BY <1>0, <1>3 DEF CreateConnection, WorkerEnds, queueVars, historyVars, WorkerTypes
  <2>. QED
    BY <1>0, <2>1 DEF RequestSound, Busy
<1>4. ASSUME NEW x \in Workers, Begin(x) PROVE RequestSound(w)'
  <2>1. UNCHANGED <<cur, result, own, sq>> /\ wpc[x] = "idle"
    BY <1>4 DEF Begin, queueVars
  <2>2. PICK r \in Requests :
          /\ SizeOk(r)
          /\ req' = [req EXCEPT ![x] = r] /\ step' = [step EXCEPT ![x] = FirstCommand(r.op)]
          /\ wpc' = [wpc EXCEPT ![x] = "submit"]
    BY <1>4 DEF Begin
  <2>3. CASE w = x
    <3>1. req'[w] = r /\ step'[w] = FirstCommand(r.op) /\ wpc'[w] = "submit"
      BY <1>0, <2>2, <2>3 DEF WorkerTypes
    <3>2. (SizeOk(req[w]))'
      BY <2>2, <3>1 DEF SizeOk
    <3>. QED
      BY <1>0, <2>1, <2>2, <2>3, <3>1, <3>2 DEF RequestSound
  <2>4. CASE w # x
    BY <1>0, <2>1, <2>2, <2>4, RequestKept DEF WorkerTypes
  <2>. QED
    BY <2>3, <2>4
<1>5. ASSUME NEW x \in Workers, End(x) PROVE RequestSound(w)'
  <2>1. CASE w = x
    <3>1. wpc'[w] = "idle" /\ cur'[w] = 0 /\ result'[w] = Pending /\ own'[w] = None
      BY <1>0, <1>5, <2>1 DEF End, Leave, WorkerTypes
    <3>. QED
      BY <3>1 DEF RequestSound, Busy
  <2>2. CASE w # x
    <3>1. /\ wpc'[w] = wpc[w] /\ req'[w] = req[w] /\ step'[w] = step[w] /\ cur'[w] = cur[w]
          /\ result'[w] = result[w] /\ own'[w] = own[w] /\ sq' = sq
      BY <1>0, <1>5, <2>2 DEF End, Leave, WorkerTypes, queueVars
    <3>. QED
      BY <1>0, <3>1, RequestKept
  <2>. QED
    BY <2>1, <2>2
<1>6. ASSUME NEW x \in Workers, Submit(x) PROVE RequestSound(w)'
  <2>1. UNCHANGED <<req, step, result, own>> /\ wpc' = [wpc EXCEPT ![x] = "poll"]
        /\ wpc[x] = "submit"
    BY <1>6 DEF Submit, historyVars
  <2>. DEFINE n == [id |-> cur'[x], op |-> step[x], key |-> req[x].key,
                    data |-> req[x].data]
  <2>2. /\ cur'[x] \notin Outstanding(x) /\ cur' = [cur EXCEPT ![x] = cur'[x]]
        /\ sq' = [sq EXCEPT ![x] = sq[x] \cup {n}]
    BY <1>0, <1>6, FreshIdentity
  <2>3. CASE w = x
    <3>1. \A k \in sq'[w] : k.id = cur'[w] => k = n
      BY <1>0, <2>2, <2>3 DEF Outstanding
    <3>2. wpc'[w] = "poll" /\ Busy(w)
      BY <1>0, <2>1, <2>3 DEF WorkerTypes, Busy
    <3>. QED
      BY <1>0, <2>1, <2>3, <3>1, <3>2 DEF RequestSound
  <2>4. CASE w # x
    BY <1>0, <2>1, <2>2, <2>4, RequestKept DEF WorkerTypes
  <2>. QED
    BY <2>3, <2>4
<1>7. ASSUME NEW x \in Workers, Poll(x) PROVE RequestSound(w)'
  <2>1. /\ UNCHANGED <<wpc, req, step, cur, own, sq>>
        /\ wpc[w] # "poll" => result'[w] = result[w]
    BY <1>0, <1>7 DEF Poll, historyVars, WorkerTypes
  <2>. QED
    BY <1>0, <2>1, RequestKept
<1>8. ASSUME NEW x \in Workers, ContinueDelete(x) PROVE RequestSound(w)'
  <2>1. CASE w = x
    <3>1. /\ wpc'[w] = "submit" /\ cur'[w] = 0 /\ result'[w] = Pending /\ own'[w] = None
          /\ step'[w] = "delete" /\ req'[w] = req[w] /\ req[w].op = "delete" /\ Busy(w)
      BY <1>0, <1>8, <2>1 DEF ContinueDelete, Continues, Leave, WorkerTypes, Busy
    <3>. QED
      BY <1>0, <3>1 DEF RequestSound
  <2>2. CASE w # x
    <3>1. /\ wpc'[w] = wpc[w] /\ req'[w] = req[w] /\ step'[w] = step[w] /\ cur'[w] = cur[w]
          /\ result'[w] = result[w] /\ own'[w] = own[w] /\ sq' = sq
      BY <1>0, <1>8, <2>2 DEF ContinueDelete, Leave, WorkerTypes, queueVars
    <3>. QED
      BY <1>0, <3>1, RequestKept
  <2>. QED
    BY <2>1, <2>2
<1>9. ASSUME NEW x \in Workers, Execute(x) PROVE RequestSound(w)'
  <2>1. UNCHANGED <<wpc, req, step, cur, result>>
    BY <1>9 DEF Execute
  <2>2. PICK k \in sq[x], s \in BOOLEAN :
          /\ sq' = [sq EXCEPT ![x] = @ \ {k}]
          /\ own' = IF Live(x, k.id)
                    THEN [own EXCEPT ![x] =
                            IF s THEN [was |-> records[k.key], now |-> records'[k.key]]
                                 ELSE Thrown]
                    ELSE own
    BY <1>9, Executed
  <2>3. sq'[w] \subseteq sq[w] /\ (wpc[w] # "poll" => own'[w] = own[w])
    BY <1>0, <2>2 DEF Live, WorkerTypes
  <2>. QED
    BY <1>0, <2>1, <2>3, RequestKept
<1>10. \/ UNCHANGED <<wpc, req, step, cur, result, own, sq>>
       \/ \E c \in Connectors : Construct(c)
       \/ \E x \in Workers : \/ CreateConnection(x) \/ WorkerEnds(x) \/ Begin(x) \/ End(x)
                             \/ Submit(x) \/ Poll(x) \/ ContinueDelete(x) \/ Execute(x)
  BY DEF Next, vars, CloseStep, WorkerStep, SubmitFails, Finish, GiveUp, Refuse,
         ConstructThrows, ConstructUndone, BeginClose, StopRuntime, ClearActive,
         requestVars, historyVars, queueVars
<1>. QED
  BY <1>1, <1>2, <1>3, <1>4, <1>5, <1>6, <1>7, <1>8, <1>9, <1>10

-----------------------------------------------------------------------------
(* Requests that met no abandoned command *)

\* Steps that leave such a request alone.
LEMMA CalmKept ==
    ASSUME NEW w \in Workers, CalmSound(w), Busy(w), ~ exposed[w], NoneAbandoned',
           req'[w] = req[w], step'[w] = step[w], staging'[w] = staging[w],
           result'[w] = result[w], own'[w] = own[w],
           sq'[w] = sq[w], cq'[w] = cq[w]
    PROVE  CalmSound(w)'
<1>1. ASSUME NEW s PROVE Did(w, s)' <=> Did(w, s)
  BY DEF Did
<1>. QED
  BY <1>1 DEF CalmSound

\* Nobody waits outside the poll: without abandoned commands its queue is empty.
LEMMA QuietQueue ==
    ASSUME NoneAbandoned, NEW x \in Workers, wpc[x] # "poll" \/ ~ Abandons(x)
    PROVE  sq[x] = {} /\ cq[x] = {}
<1>1. ASSUME NEW k \in sq[x] \cup cq[x] PROVE FALSE
  <2>1. Live(x, k.id)
    BY DEF NoneAbandoned
  <2>. QED
    BY <2>1 DEF Live, Abandons, Outstanding
<1>. QED
  BY <1>1

\* The steps of other workers and of the connectors.
LEMMA OthersCalm ==
    ASSUME IInv, [Next]_vars, NEW w \in Workers, Busy(w)', ~ exposed'[w],
           \/ \E c \in Connectors : Construct(c)
           \/ \E x \in Workers : CreateConnection(x) \/ WorkerEnds(x)
           \/ \E x \in Workers \ {w} : \/ Begin(x) \/ End(x) \/ Submit(x) \/ Poll(x)
                                       \/ ContinueDelete(x) \/ Execute(x)
    PROVE  CalmSound(w)'
<1>0. /\ WorkerTypes
      /\ staging \in [Workers -> Value]
      /\ sq \in [Workers -> SUBSET Command] /\ cq \in [Workers -> SUBSET Completion]
      /\ CalmSound(w)
      /\ \A x \in Workers : WorkerSound(x) /\ x[1] \in Connectors
  BY WorkerFacts DEF IInv, TypeOK, Shapes, WorkerTypes, Points, Steps, Results
<1>1. ASSUME NEW c \in Connectors, Construct(c) PROVE CalmSound(w)'
  <2>1. UNCHANGED <<queueVars, req, step, cur, result, staging, historyVars>>
    BY <1>1 DEF Construct
  <2>2. \A x \in Workers : wpc'[x] = wpc[x] \/ (wpc[x] = "off" /\ wpc'[x] = "start")
    BY <1>0, <1>1 DEF Construct, WorkerSound
  <2>3. Busy(w) /\ ~ exposed[w] /\ NoneAbandoned
    BY <1>0, <2>1, <2>2 DEF Busy, historyVars, CalmSound
  <2>4. NoneAbandoned'
    BY <2>1, <2>2, <2>3 DEF NoneAbandoned, Live, queueVars
  <2>. QED
    BY <1>0, <2>1, <2>3, <2>4, CalmKept DEF queueVars, historyVars
<1>2. ASSUME NEW x \in Workers, CreateConnection(x) \/ WorkerEnds(x) PROVE CalmSound(w)'
  <2>1. UNCHANGED <<req, step, cur, result, staging, historyVars>>
    BY <1>2 DEF CreateConnection, WorkerEnds
  <2>2. /\ wpc[x] # "poll" /\ ~ Busy(x)' /\ wpc'[x] # "poll"
        /\ \A y \in Workers : y # x => wpc'[y] = wpc[y] /\ sq'[y] = sq[y] /\ cq'[y] = cq[y]
        /\ sq'[x] \subseteq sq[x] /\ cq'[x] \subseteq cq[x]
    BY <1>0, <1>2 DEF CreateConnection, WorkerEnds, queueVars, WorkerTypes, Busy
  <2>3. w # x /\ Busy(w) /\ ~ exposed[w]
    BY <2>1, <2>2 DEF Busy, historyVars
  <2>4. NoneAbandoned
    BY <1>0, <2>3 DEF CalmSound
  <2>5. NoneAbandoned'
    BY <2>1, <2>2, <2>4 DEF NoneAbandoned, Live
  <2>. QED
    BY <1>0, <2>1, <2>2, <2>3, <2>5, CalmKept DEF historyVars
<1>3. ASSUME NEW x \in Workers \ {w}, Begin(x) PROVE CalmSound(w)'
  <2>1. /\ UNCHANGED <<sq, cq, cur, result, own>>
        /\ req'[w] = req[w] /\ step'[w] = step[w] /\ staging'[w] = staging[w]
        /\ exposed'[w] = exposed[w]
        /\ wpc[x] = "idle" /\ wpc'[x] = "submit"
        /\ \A y \in Workers : y # x => wpc'[y] = wpc[y]
    BY <1>0, <1>3 DEF Begin, queueVars, WorkerTypes
  <2>2. Busy(w) /\ ~ exposed[w] /\ NoneAbandoned
    BY <1>0, <2>1 DEF Busy, CalmSound
  <2>3. NoneAbandoned'
    BY <2>1, <2>2 DEF NoneAbandoned, Live
  <2>. QED
    BY <1>0, <2>1, <2>2, <2>3, CalmKept
<1>4. ASSUME NEW x \in Workers \ {w}, End(x) \/ ContinueDelete(x) PROVE CalmSound(w)'
  <2>1. /\ UNCHANGED <<sq, cq>>
        /\ req'[w] = req[w] /\ step'[w] = step[w] /\ staging'[w] = staging[w]
        /\ result'[w] = result[w] /\ own'[w] = own[w]
        /\ \A y \in Workers : y # x => wpc'[y] = wpc[y] /\ cur'[y] = cur[y]
    BY <1>0, <1>4 DEF End, ContinueDelete, Leave, queueVars, WorkerTypes
  <2>2. Busy(w)
    BY <2>1 DEF Busy
  <2>3. ~ exposed[w] /\ ~ Abandons(x)
    BY <1>0, <1>4, <2>2 DEF End, ContinueDelete
  <2>4. NoneAbandoned
    BY <1>0, <2>2, <2>3 DEF CalmSound
  <2>5. sq[x] = {} /\ cq[x] = {}
    BY <2>3, <2>4, QuietQueue
  <2>6. NoneAbandoned'
    BY <2>1, <2>4, <2>5 DEF NoneAbandoned, Live
  <2>. QED
    BY <1>0, <2>1, <2>2, <2>3, <2>6, CalmKept
<1>5. ASSUME NEW x \in Workers \ {w}, Submit(x) PROVE CalmSound(w)'
  <2>. DEFINE n == [id |-> cur'[x], op |-> step[x], key |-> req[x].key,
                    data |-> req[x].data]
  <2>1. sq' = [sq EXCEPT ![x] = sq[x] \cup {n}] /\ n.id = cur'[x]
        /\ cur' = [cur EXCEPT ![x] = cur'[x]]
    BY <1>0, <1>5, FreshIdentity
  <2>. HIDE DEF n
  <2>2. /\ UNCHANGED <<cq, req, step, result, staging, own, exposed>>
        /\ wpc[x] = "submit" /\ wpc'[x] = "poll"
        /\ \A y \in Workers : y # x => wpc'[y] = wpc[y] /\ cur'[y] = cur[y] /\ sq'[y] = sq[y]
    BY <1>0, <1>5, <2>1 DEF Submit, historyVars, WorkerTypes
  <2>3. Busy(w) /\ ~ exposed[w] /\ NoneAbandoned
    BY <1>0, <2>2 DEF Busy, CalmSound
  <2>4. sq'[x] = {n} /\ cq[x] = {}
    BY <1>0, <2>1, <2>2, <2>3, QuietQueue
  <2>5. NoneAbandoned'
    BY <2>1, <2>2, <2>3, <2>4 DEF NoneAbandoned, Live
  <2>. QED
    BY <1>0, <2>2, <2>3, <2>5, CalmKept
<1>6. ASSUME NEW x \in Workers \ {w}, Poll(x) PROVE CalmSound(w)'
  <2>1. /\ UNCHANGED <<sq, wpc, req, step, cur, staging, own, exposed>>
        /\ result'[w] = result[w] /\ cq'[w] = cq[w]
        /\ \A y \in Workers : cq'[y] \subseteq cq[y]
    BY <1>0, <1>6 DEF Poll, historyVars, WorkerTypes
  <2>2. Busy(w) /\ ~ exposed[w] /\ NoneAbandoned
    BY <1>0, <2>1 DEF Busy, CalmSound
  <2>3. NoneAbandoned'
    BY <2>1, <2>2 DEF NoneAbandoned, Live
  <2>. QED
    BY <1>0, <2>1, <2>2, <2>3, CalmKept
<1>7. ASSUME NEW x \in Workers \ {w}, Execute(x) PROVE CalmSound(w)'
  <2>1. UNCHANGED <<wpc, req, step, cur, result, exposed>>
    BY <1>7 DEF Execute
  <2>2. Busy(w) /\ ~ exposed[w] /\ NoneAbandoned
    BY <1>0, <2>1 DEF Busy, CalmSound
  <2>3. PICK k \in sq[x], s \in BOOLEAN :
          /\ sq' = [sq EXCEPT ![x] = @ \ {k}]
          /\ cq' = [cq EXCEPT ![x] = @ \cup {[id |-> k.id, success |-> s]}]
          /\ own' = IF Live(x, k.id)
                    THEN [own EXCEPT ![x] =
                            IF s THEN [was |-> records[k.key], now |-> records'[k.key]]
                                 ELSE Thrown]
                    ELSE own
          /\ \/ staging' = staging
             \/ \E y \in Workers :
                  /\ staging' = [staging EXCEPT ![y] =
                                   Fit(records[k.key], Len(staging[y]))]
                  /\ Live(x, k.id) => y = x
    BY <1>7, Executed
  <2>4. Live(x, k.id)
    BY <2>2 DEF NoneAbandoned
  <2>5. staging'[w] = staging[w] /\ own'[w] = own[w] /\ sq'[w] = sq[w] /\ cq'[w] = cq[w]
    BY <1>0, <2>3, <2>4 DEF WorkerTypes
  <2>6. \A y \in Workers : \A j \in sq'[y] \cup cq'[y] :
          j \in sq[y] \cup cq[y] \/ (y = x /\ j.id = k.id)
    BY <1>0, <2>3
  <2>7. NoneAbandoned'
    BY <2>1, <2>2, <2>4, <2>6 DEF NoneAbandoned, Live
  <2>. QED
    BY <1>0, <2>1, <2>2, <2>5, <2>7, CalmKept
<1>. QED
  BY <1>1, <1>2, <1>3, <1>4, <1>5, <1>6, <1>7

\* A request begins without abandoned commands around.
LEMMA BeginCalm ==
    ASSUME IInv, NEW w \in Workers, Begin(w), ~ exposed'[w]
    PROVE  CalmSound(w)'
<1>0. WorkerTypes /\ staging \in [Workers -> Value] /\ RequestSound(w)
  BY DEF IInv, TypeOK, Shapes, WorkerTypes, Points, Steps, Results
<1>1. ~ SomeAbandoned
  BY <1>0 DEF Begin, WorkerTypes
<1>2. NoneAbandoned
  BY <1>1 DEF SomeAbandoned, NoneAbandoned, Outstanding
<1>3. /\ UNCHANGED <<sq, cq, cur, result, own>> /\ wpc[w] = "idle" /\ wpc'[w] = "submit"
      /\ \A y \in Workers : y # w => wpc'[y] = wpc[y]
  BY <1>0 DEF Begin, queueVars, WorkerTypes
<1>4. NoneAbandoned'
  BY <1>2, <1>3 DEF NoneAbandoned, Live
<1>5. sq[w] = {} /\ cq[w] = {} /\ ~ result[w].done
  BY <1>0, <1>2, <1>3, QuietQueue DEF RequestSound, Pending
<1>6. PICK r \in Requests :
        /\ req' = [req EXCEPT ![w] = r]
        /\ staging' = [staging EXCEPT ![w] = IF r.op \in {"get", "set"} THEN r.data ELSE None]
  BY DEF Begin
<1>7. req'[w].op = "set" => staging'[w] = req'[w].data
  BY <1>0, <1>6 DEF WorkerTypes
<1>. QED
  BY <1>3, <1>4, <1>5, <1>7 DEF CalmSound

\* It submits into an empty queue.
LEMMA SubmitCalm ==
    ASSUME IInv, NEW w \in Workers, Submit(w), ~ exposed'[w]
    PROVE  CalmSound(w)'
<1>0. /\ WorkerTypes /\ RequestSound(w) /\ CalmSound(w)
      /\ sq \in [Workers -> SUBSET Command]
  BY DEF IInv, TypeOK, Shapes, WorkerTypes, Points, Steps, Results
<1>. DEFINE n == [id |-> cur'[w], op |-> step[w], key |-> req[w].key,
                  data |-> req[w].data]
<1>1. sq' = [sq EXCEPT ![w] = sq[w] \cup {n}] /\ n.id = cur'[w]
      /\ cur' = [cur EXCEPT ![w] = cur'[w]]
  BY <1>0, FreshIdentity
<1>. HIDE DEF n
<1>2. /\ UNCHANGED <<cq, req, step, result, staging, own, exposed>>
      /\ wpc[w] = "submit" /\ wpc'[w] = "poll"
      /\ \A y \in Workers : y # w => wpc'[y] = wpc[y] /\ cur'[y] = cur[y] /\ sq'[y] = sq[y]
  BY <1>0, <1>1 DEF Submit, historyVars, WorkerTypes
<1>3. Busy(w) /\ NoneAbandoned /\ (req[w].op = "set" => staging[w] = req[w].data)
  BY <1>0, <1>2 DEF Busy, CalmSound
<1>4. sq[w] = {} /\ cq[w] = {} /\ ~ result[w].done
  BY <1>0, <1>2, <1>3, QuietQueue DEF RequestSound, Pending
<1>5. sq'[w] = {n} /\ cq'[w] = {}
  BY <1>0, <1>1, <1>2, <1>4
<1>6. NoneAbandoned'
  BY <1>1, <1>2, <1>3, <1>5 DEF NoneAbandoned, Live
<1>. QED
  BY <1>2, <1>3, <1>4, <1>5, <1>6 DEF CalmSound

\* The completion it polls is the one of its own command.
LEMMA PollCalm ==
    ASSUME IInv, NEW w \in Workers, Poll(w), ~ exposed'[w]
    PROVE  CalmSound(w)'
<1>0. /\ WorkerTypes /\ CalmSound(w) /\ QueueSound(w)
      /\ sq \in [Workers -> SUBSET Command] /\ cq \in [Workers -> SUBSET Completion]
  BY DEF IInv, TypeOK, Shapes, WorkerTypes, Points, Steps, Results
<1>1. UNCHANGED <<sq, wpc, req, step, cur, staging, own, exposed>> /\ wpc[w] = "poll"
  BY DEF Poll, historyVars
<1>2. /\ Busy(w) /\ NoneAbandoned /\ (req[w].op = "set" => staging[w] = req[w].data)
      /\ \A k \in cq[w] : Did(w, k.success)
  BY <1>0, <1>1 DEF Busy, CalmSound
<1>3. PICK k \in cq[w] :
        /\ cq' = [cq EXCEPT ![w] = @ \ {k}]
        /\ \/ result' = [result EXCEPT ![w] = [done |-> TRUE, success |-> k.success]]
           \/ ~ Live(w, k.id)
  BY DEF Poll
<1>4. Live(w, k.id)
  BY <1>2 DEF NoneAbandoned
<1>5. result'[w].done /\ result'[w].success = k.success
  BY <1>0, <1>3, <1>4 DEF WorkerTypes
<1>6. sq[w] = {}
  <2>1. ASSUME NEW j \in sq[w] PROVE FALSE
    <3>1. Live(w, j.id) /\ j.id = k.id
      BY <1>2, <1>4 DEF NoneAbandoned, Live
    <3>2. j = k
      BY <1>0, <3>1 DEF QueueSound
    <3>3. j \in Command /\ k \in Completion
      BY <1>0
    <3>. QED
      BY <3>2, <3>3 DEF Command, Completion
  <2>. QED
    BY <2>1
<1>7. cq'[w] \subseteq cq[w] /\ \A y \in Workers : cq'[y] \subseteq cq[y]
  BY <1>0, <1>3
<1>8. NoneAbandoned'
  BY <1>1, <1>2, <1>7 DEF NoneAbandoned, Live
<1>9. ASSUME NEW s PROVE Did(w, s)' <=> Did(w, s)
  BY <1>1 DEF Did
<1>10. (\A j \in cq[w] : Did(w, j.success))' /\ Did(w, result[w].success)'
  <2>1. \A j \in cq'[w] : Did(w, j.success)'
    BY <1>2, <1>7, <1>9
  <2>2. Did(w, k.success)'
    BY <1>2, <1>9
  <2>3. Did(w, result[w].success)'
    BY <1>5, <2>2 DEF Did
  <2>4. (\A j \in cq[w] : Did(w, j.success))'
    BY <2>1 DEF Did
  <2>. QED
    BY <2>3, <2>4
<1>. QED
  BY <1>1, <1>2, <1>6, <1>8, <1>10 DEF CalmSound

\* A delete goes on when its EXIST is answered and nothing is outstanding.
LEMMA ContinueCalm ==
    ASSUME IInv, NEW w \in Workers, ContinueDelete(w), ~ exposed'[w]
    PROVE  CalmSound(w)'
<1>0. WorkerTypes /\ CalmSound(w) /\ staging \in [Workers -> Value]
  BY DEF IInv, TypeOK, Shapes, WorkerTypes, Points, Steps, Results
<1>1. /\ UNCHANGED <<sq, cq, req, staging>> /\ wpc[w] = "poll" /\ wpc'[w] = "submit"
      /\ \A y \in Workers : y # w => wpc'[y] = wpc[y] /\ cur'[y] = cur[y]
      /\ result'[w] = Pending
  BY <1>0 DEF ContinueDelete, Leave, queueVars, WorkerTypes
<1>2. Busy(w) /\ ~ exposed[w] /\ ~ Abandons(w)
  BY <1>1 DEF ContinueDelete, Busy
<1>3. NoneAbandoned /\ (req[w].op = "set" => staging[w] = req[w].data)
  BY <1>0, <1>2 DEF CalmSound
<1>4. sq[w] = {} /\ cq[w] = {}
  BY <1>2, <1>3, QuietQueue
<1>5. NoneAbandoned'
  BY <1>1, <1>3, <1>4 DEF NoneAbandoned, Live
<1>. QED
  BY <1>1, <1>3, <1>4, <1>5 DEF CalmSound, Pending

\* The device executes its command with the bytes of its own buffer.
LEMMA ExecuteCalm ==
    ASSUME IInv, NEW w \in Workers, Execute(w), ~ exposed'[w], Busy(w)'
    PROVE  CalmSound(w)'
<1>0. /\ WorkerTypes /\ CalmSound(w) /\ QueueSound(w) /\ StagingSound(w)
      /\ staging \in [Workers -> Value] /\ records \in [Keys -> Value]
      /\ sq \in [Workers -> SUBSET Command] /\ cq \in [Workers -> SUBSET Completion]
  BY DEF IInv, TypeOK, Shapes, WorkerTypes, Points, Steps, Results, StagingSound
<1>1. UNCHANGED <<wpc, req, step, cur, result, exposed>>
  BY DEF Execute
<1>2. /\ Busy(w) /\ NoneAbandoned /\ (req[w].op = "set" => staging[w] = req[w].data)
      /\ (sq[w] # {} => ~ result[w].done)
  BY <1>0, <1>1 DEF Busy, CalmSound
<1>3. PICK k \in sq[w], s \in BOOLEAN :
             /\ sq' = [sq EXCEPT ![w] = @ \ {k}]
             /\ cq' = [cq EXCEPT ![w] = @ \cup {[id |-> k.id, success |-> s]}]
             /\ own' = IF Live(w, k.id)
                       THEN [own EXCEPT ![w] =
                               IF s THEN [was |-> records[k.key], now |-> records'[k.key]]
                                    ELSE Thrown]
                       ELSE own
             /\ s /\ k.op # "store" => records[k.key] # None
             /\ \/ records' = records /\ (s => k.op \notin {"store", "delete"})
                \/ \E v \in Value :
                     /\ records' = [records EXCEPT ![k.key] = v]
                     /\ k.op = "delete" => v = None
                     /\ k.op = "store" => v \in BufferOf(w, k)
             /\ \/ staging' = staging /\ (s /\ Live(w, k.id) => k.op # "retrieve")
                \/ /\ s /\ k.op = "retrieve"
                   /\ \E x \in Workers :
                        /\ staging' = [staging EXCEPT ![x] =
                                         Fit(records[k.key], Len(staging[x]))]
                        /\ Live(w, k.id) => x = w
  BY Executed
<1>4. Live(w, k.id)
  BY <1>2 DEF NoneAbandoned
<1>5. /\ k.op = step[w] /\ k.key \in Keys /\ k.data = req[w].data
      /\ k.op = "store" <=> req[w].op = "set"
      /\ k.op = "retrieve" <=> req[w].op = "get"
  BY <1>0, <1>4, LiveCommand DEF Command
<1>6. \A j \in sq[w] \cup cq[w] : j = k
  BY <1>0, <1>2, <1>4 DEF NoneAbandoned, Live, QueueSound
<1>7. sq'[w] = {} /\ cq'[w] = {[id |-> k.id, success |-> s]}
  <2>1. k \in Command /\ cq[w] \in SUBSET Completion
    BY <1>0
  <2>2. k \notin cq[w]
    BY <2>1 DEF Command, Completion
  <2>. QED
    BY <1>0, <1>3, <1>6, <2>2
<1>8. NoneAbandoned'
  <2>1. \A y \in Workers : \A j \in sq'[y] \cup cq'[y] :
          j \in sq[y] \cup cq[y] \/ (y = w /\ j.id = k.id)
    BY <1>0, <1>3
  <2>. QED
    BY <1>1, <1>2, <1>4, <2>1 DEF NoneAbandoned, Live
<1>9. req[w].op = "set" => staging'[w] = req[w].data
  BY <1>0, <1>2, <1>3, <1>5
<1>10. Did(w, s)'
  <2>1. CASE ~ s
    BY <1>0, <1>3, <1>4, <2>1 DEF Did, WorkerTypes
  <2>2. CASE s
    <3>1. own'[w] = [was |-> records[k.key], now |-> records'[k.key]]
      BY <1>0, <1>3, <1>4, <2>2 DEF WorkerTypes
    <3>2. records[k.key] \in Value /\ records'[k.key] \in Value
      BY <1>0, <1>3, <1>5
    <3>3. own'[w] \in Deed /\ own'[w].was = records[k.key] /\ own'[w].now = records'[k.key]
      BY <3>1, <3>2 DEF Deed
    <3>4. k.op = "store" => records'[k.key] = req[w].data
      <4>1. BufferOf(w, k) = {staging[w]}
        BY <1>4 DEF BufferOf
      <4>. QED
        BY <1>0, <1>2, <1>3, <1>5, <2>2, <4>1
    <3>5. k.op = "retrieve" => staging'[w] = Fit(records[k.key], Len(req[w].data))
      <4>1. CASE k.op = "retrieve"
        <5>1. staging' = [staging EXCEPT ![w] = Fit(records[k.key], Len(staging[w]))]
          BY <1>3, <1>4, <2>2, <4>1
        <5>2. Len(staging[w]) = Len(req[w].data)
          BY <1>0, <1>2, <1>5, <4>1 DEF StagingSound
        <5>. QED
          BY <1>0, <5>1, <5>2
      <4>. QED
        BY <4>1
    <3>6. k.op = "delete" => records'[k.key] = None
      BY <1>0, <1>3, <1>5, <2>2
    <3>. QED
      BY <1>1, <1>3, <1>5, <2>2, <3>3, <3>4, <3>5, <3>6 DEF Did
  <2>. QED
    BY <2>1, <2>2
<1>11. (\A j \in cq[w] : Did(w, j.success))'
  <2>1. \A j \in cq'[w] : j.success = s
    BY <1>7
  <2>. QED
    BY <1>10, <2>1 DEF Did
<1>. QED
  BY <1>1, <1>2, <1>7, <1>8, <1>9, <1>11 DEF CalmSound

\* Every step keeps CalmSound.
LEMMA NextCalm == IInv /\ [Next]_vars => \A w \in Workers : CalmSound(w)'
<1>. SUFFICES ASSUME IInv, [Next]_vars, NEW w \in Workers PROVE CalmSound(w)'
  OBVIOUS
<1>. SUFFICES ASSUME Busy(w)', ~ exposed'[w] PROVE CalmSound(w)'
  BY DEF CalmSound
<1>1. CASE UNCHANGED <<wpc, req, step, cur, result, staging, own, exposed, sq, cq>>
  <2>1. CalmSound(w) /\ Busy(w) /\ ~ exposed[w]
    BY <1>1 DEF IInv, Busy
  <2>2. NoneAbandoned'
    BY <1>1, <2>1 DEF CalmSound, NoneAbandoned, Live
  <2>. QED
    BY <1>1, <2>1, <2>2, CalmKept
<1>2. CASE End(w)
  BY <1>2 DEF End, Busy, IInv, TypeOK
<1>3. \/ UNCHANGED <<wpc, req, step, cur, result, staging, own, exposed, sq, cq>>
      \/ \E c \in Connectors : Construct(c)
      \/ \E x \in Workers : \/ CreateConnection(x) \/ WorkerEnds(x) \/ Begin(x) \/ End(x)
                            \/ Submit(x) \/ Poll(x) \/ ContinueDelete(x) \/ Execute(x)
  BY DEF Next, vars, CloseStep, WorkerStep, SubmitFails, Finish, GiveUp, Refuse,
         ConstructThrows, ConstructUndone, BeginClose, StopRuntime, ClearActive,
         requestVars, historyVars, queueVars
<1>. QED
  BY <1>1, <1>2, <1>3, OthersCalm, BeginCalm, SubmitCalm, PollCalm, ContinueCalm,
     ExecuteCalm

-----------------------------------------------------------------------------
(* Theorems *)

\* A process starts without a connector, and nothing is outstanding.
LEMMA InitIInv == Init => IInv
<1>. SUFFICES ASSUME Init PROVE IInv
  OBVIOUS
<1>1. TypeOK
  <2>1. /\ active \in BOOLEAN
        /\ phase \in [Connectors -> {"new", "dead", "running", "closing", "detached", "closed"}]
        /\ env \subseteq Connectors
        /\ attached \subseteq Connectors
        /\ \A k \in Keys : records[k] # None =>
             records[k] \in Seq(Nat) /\ Len(records[k]) \in 1 .. MaxValueBytes
    BY KvConnectorAssumption DEF Init
  <2>2. /\ wpc \in [Workers -> {"off", "start", "idle", "submit", "poll", "ended"}]
        /\ req \in [Workers -> Requests \cup {NoRequest}]
        /\ step \in [Workers -> {"retrieve", "store", "exist", "delete", None}]
        /\ cur \in [Workers -> 0 .. QueueDepth]
        /\ result \in [Workers -> [done : BOOLEAN, success : BOOLEAN]]
    BY KvConnectorAssumption DEF Init, Pending
  <2>3. ASSUME NEW w \in Workers
        PROVE  /\ staging[w] = None /\ ~ Busy(w)
               /\ Outstanding(w) \subseteq 1 .. QueueDepth
               /\ Cardinality(Outstanding(w)) = Cardinality(sq[w]) + Cardinality(cq[w])
    <3>1. sq[w] = {} /\ cq[w] = {} /\ staging[w] = None /\ wpc[w] = "off"
      BY DEF Init
    <3>2. Outstanding(w) = {}
      BY <3>1 DEF Outstanding
    <3>. QED
      BY <3>1, <3>2, FS_EmptySet DEF Busy
  <2>. QED
    BY <2>1, <2>2, <2>3 DEF TypeOK
<1>2. Shapes
  BY KvConnectorAssumption DEF Init, Shapes, Value
<1>3. ConnectorsSound
  BY DEF Init, ConnectorsSound, Owns
<1>4. ASSUME NEW w \in Workers
      PROVE  WorkerSound(w) /\ QueueSound(w) /\ RequestSound(w) /\ CalmSound(w)
  <2>1. w[1] \in Connectors
    BY WorkerFacts
  <2>2. /\ sq[w] = {} /\ cq[w] = {} /\ wpc[w] = "off" /\ phase[w[1]] = "new"
        /\ cur[w] = 0 /\ result[w] = Pending /\ own[w] = None
    BY <2>1 DEF Init
  <2>. QED
    BY <2>2, FS_EmptySet DEF WorkerSound, QueueSound, RequestSound, CalmSound, Busy
<1>. QED
  BY <1>1, <1>2, <1>3, <1>4 DEF IInv

\* IInv is inductive.
LEMMA NextIInv == IInv /\ [Next]_vars => IInv'
<1>. SUFFICES ASSUME IInv, [Next]_vars PROVE IInv'
  OBVIOUS
<1>1. \A w \in Workers : QueueSound(w)'
  BY NextQueues DEF QueueSound, GoodQueue
<1>. QED
  BY <1>1, NextTypes, NextConnectors, NextWorkers, NextRequests, NextCalm DEF IInv

\* In every reachable state the invariant holds.
LEMMA SpecIInv == Spec => []IInv
BY InitIInv, NextIInv, PTL DEF Spec

\* The types of the connectors' fields, of the workers' frames and of the
\* device, abandoned commands included: identities on a queue pair are never
\* reused while outstanding, and no record outgrows the namespace.
THEOREM SpecTypeOK == Spec => []TypeOK
<1>1. IInv => TypeOK
  BY DEF IInv
<1>. QED
  BY <1>1, SpecIInv, PTL

\* However many connectors a process constructs and closes, one at most has the
\* SPDK environment, the flag tells whether one has, and no queue pair outlives
\* its controller.
THEOREM SpecOneEnvironment == Spec => []OneEnvironment
<1>1. IInv => OneEnvironment
  <2>. SUFFICES ASSUME IInv PROVE OneEnvironment
    OBVIOUS
  <2>1. Cardinality(env) <= 1
    <3>1. CASE env = {}
      BY <3>1, FS_EmptySet
    <3>2. CASE env # {}
      <4>1. PICK c \in env : TRUE
        BY <3>2
      <4>2. env = {c}
        BY <4>1 DEF IInv, TypeOK, ConnectorsSound, Owns
      <4>3. Cardinality(env) = 1
        BY <4>2, FS_Singleton
      <4>. QED
        BY <4>3
    <3>. QED
      BY <3>1, <3>2
  <2>2. active <=> \E c \in Connectors : c \in env \/ phase[c] = "detached"
    BY DEF IInv, ConnectorsSound, Owns
  <2>3. ASSUME NEW w \in Workers, Busy(w) \/ wpc[w] = "idle" \/ Outstanding(w) # {}
        PROVE  w[1] \in attached
    <3>1. wpc[w] \notin {"off", "start", "ended"} /\ w[1] \in Connectors /\ WorkerSound(w)
      BY <2>3, WorkerFacts DEF IInv, WorkerSound, Busy, Outstanding
    <3>2. phase[w[1]] \in {"running", "closing"}
      BY <3>1 DEF WorkerSound, IInv, TypeOK
    <3>. QED
      BY <3>1, <3>2 DEF IInv, ConnectorsSound
  <2>. QED
    BY <2>1, <2>2, <2>3 DEF OneEnvironment, IInv, ConnectorsSound
<1>. QED
  BY <1>1, SpecIInv, PTL

\* Every answer of a request that met no abandoned command is what the device
\* did for its own last command, for any workers, keys, payloads and depth, in
\* whatever order the device executes, fails or delays commands.
THEOREM SpecAnswersTruthful == Spec => []AnswersTruthful
<1>1. IInv => AnswersTruthful
  <2>. SUFFICES ASSUME IInv, NEW w \in Workers, Returns(w), ~ exposed[w]
                PROVE  Truthful(w)
    BY DEF AnswersTruthful
  <2>1. /\ wpc[w] = "poll" /\ result[w].done /\ ~ Continues(w) /\ Reply(w) # Thrown
        /\ result[w].success \in BOOLEAN
    BY DEF Returns, IInv, TypeOK
  <2>2. Did(w, result[w].success)
    BY <2>1 DEF IInv, CalmSound, Busy
  <2>3. /\ req[w] \in Requests
        /\ \/ step[w] = FirstCommand(req[w].op)
           \/ req[w].op = "delete" /\ step[w] = "delete"
    BY <2>1 DEF IInv, RequestSound, Busy
  <2>4. Thrown # None /\ None \notin Deed /\ Thrown \notin Deed
    BY KvConnectorAssumption DEF Deed, Value
  <2>5. own[w] # None /\ (own[w] # Thrown <=> result[w].success)
    BY <2>1, <2>2, <2>4 DEF Did
  <2>0. /\ step[w] = "exist" => Reply(w) = result[w].success
        /\ step[w] # "exist" /\ ~ result[w].success => Reply(w) = Thrown
        /\ step[w] # "exist" /\ result[w].success /\ req[w].op = "get" => Reply(w) = staging[w]
        /\ step[w] # "exist" /\ result[w].success /\ req[w].op # "get" => Reply(w) = TRUE
    BY Zenon DEF Reply
  <2>6. CASE req[w].op = "set"
    <3>1. step[w] = "store"
      BY <2>3, <2>6 DEF FirstCommand
    <3>2. result[w].success
      BY <2>0, <2>1, <3>1
    <3>. QED
      BY <2>2, <2>5, <2>6, <3>1, <3>2 DEF Did, Truthful
  <2>7. CASE req[w].op = "get"
    <3>1. step[w] = "retrieve"
      BY <2>3, <2>7 DEF FirstCommand
    <3>2. result[w].success /\ Reply(w) = staging[w]
      BY <2>0, <2>1, <2>7, <3>1
    <3>. QED
      BY <2>2, <2>5, <2>7, <3>1, <3>2 DEF Did, Truthful
  <2>8. CASE req[w].op = "exists"
    <3>1. step[w] = "exist"
      BY <2>3, <2>8 DEF FirstCommand
    <3>2. Reply(w) = result[w].success
      BY <2>0, <3>1
    <3>3. Reply(w) = (own[w] # Thrown)
      BY <2>1, <2>5, <3>2
    <3>. QED
      BY <2>5, <2>8, <3>3 DEF Truthful
  <2>9. CASE req[w].op = "delete" /\ step[w] = "exist"
    <3>1. result[w].success = FALSE
      BY <2>1, <2>9 DEF Continues
    <3>2. Reply(w) = FALSE
      BY <2>0, <2>9, <3>1
    <3>. QED
      BY <2>5, <2>9, <3>2 DEF Truthful
  <2>10. CASE req[w].op = "delete" /\ step[w] = "delete"
    <3>1. result[w].success
      BY <2>0, <2>1, <2>10
    <3>2. Reply(w) = TRUE
      BY <2>0, <2>10, <3>1
    <3>3. own[w].was # None /\ own[w].now = None /\ own[w] # Thrown
      BY <2>2, <2>5, <2>10, <3>1 DEF Did
    <3>. QED
      BY <2>5, <2>10, <3>2, <3>3 DEF Truthful
  <2>. QED
    BY <2>3, <2>6, <2>7, <2>8, <2>9, <2>10, RequestFacts
<1>. QED
  BY <1>1, SpecIInv, PTL
=============================================================================
