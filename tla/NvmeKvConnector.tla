--------------------------- MODULE NvmeKvConnector ---------------------------
(***************************************************************************)
(* nvme-kv/csrc/native_kv_connector.cpp: an LMCache connector that maps one *)
(* object to one value of an NVMe Key-Value namespace.                      *)
(*                                                                          *)
(* Each ConnectorBase worker owns a queue pair. A request submits one       *)
(* command (a delete two), whose callback context is a CommandResult on the *)
(* worker's stack and whose data is a DMA buffer of the same frame, and     *)
(* polls the queue pair until the result is done, polling fails or ten      *)
(* seconds have passed. A request that gives up leaves its command          *)
(* outstanding, with both pointers dangling: the device may still execute   *)
(* it, and a later poll of the same queue pair still runs its callback.     *)
(*                                                                          *)
(* External: ConnectorBase (workers, their requests, close) and SPDK with   *)
(* the device, which executes outstanding commands in any order, at any     *)
(* time or never, and may answer any of them with an error. derive_key is   *)
(* taken to map different keys to different device keys.                    *)
(***************************************************************************)
EXTENDS Naturals, Sequences, FiniteSets

CONSTANTS
    Connectors,    \* SpdkNvmeKvConnector objects of one process
    WorkerCount,   \* num_workers of each
    Keys,          \* LMCache keys
    Payloads,      \* what callers store: sequences of bytes
    Lengths,       \* the lengths callers ask for in a get
    MaxValueBytes, \* max_value_bytes_, the namespace's kvvml
    QueueDepth,    \* commands a queue pair holds before it refuses more
    MaxRequests,   \* bound: requests begun in one behaviour
    Thrown,        \* an error: of a request, or of the device
    None

ASSUME KvConnectorAssumption ==
    /\ WorkerCount \in [Connectors -> Nat \ {0}]
    /\ Payloads \subseteq Seq(Nat)
    /\ Lengths \subseteq Nat
    /\ MaxValueBytes \in Nat \ {0}
    /\ QueueDepth \in Nat \ {0}
    /\ MaxRequests \in Nat
    /\ None # Thrown
    /\ None \notin {"get", "set", "exists", "delete"}
    /\ \A e \in {None, Thrown} :
         /\ e \notin Seq(Nat) \cup BOOLEAN
         /\ e \notin [was : Seq(Nat) \cup {None}, now : Seq(Nat) \cup {None}]

Workers == UNION {{c} \X (1 .. WorkerCount[c]) : c \in Connectors}

Zeros(n) == [i \in 1 .. n |-> 0]

\* Faulty: the buffer is as long as the value.
FitUnpadded(v, n) == v

\* What a buffer of n zeroed bytes holds once v was copied into it.
Fit(v, n) == [i \in 1 .. n |-> IF i <= Len(v) THEN v[i] ELSE 0]

\* A call of do_single_*, with what its staging buffer holds at submission:
\* the payload of a set, zeros for a get.
Requests ==
    [op : {"set"}, key : Keys, data : Payloads]
      \cup [op : {"get"}, key : Keys, data : {Zeros(n) : n \in Lengths}]
      \cup [op : {"exists", "delete"}, key : Keys, data : {<<>>}]

FirstCommand(op) ==
    CASE op = "get" -> "retrieve" [] op = "set" -> "store" [] OTHER -> "exist"

VARIABLES
    active,    \* g_runtime_active
    phase,     \* connector: "new", "dead", "running", "closing", "detached", "closed"
    env,       \* connectors whose spdk_env is initialized
    attached,  \* connectors with a controller_
    records,   \* the namespace: a value or None per key
    wpc,       \* worker: "off", "start", "idle", "submit", "poll", "ended"
    req,       \* worker: its request
    step,      \* worker: the command it submits or waits for
    cur,       \* worker: the identity of that command
    result,    \* worker: the CommandResult of that command
    staging,   \* worker: its DmaBuffer's bytes, None without one
    sq,        \* queue pair: commands the device has not executed
    cq,        \* queue pair: completions nobody has polled
    own,       \* worker: what the command it waits for did on the device: None,
               \* Thrown for an error, or the record before and after
    begun,     \* what MaxRequests counts
    exposed    \* worker: did an abandoned command coexist with its request?

connectorVars == <<active, phase, env, attached>>
queueVars == <<sq, cq>>
requestVars == <<wpc, req, step, cur, result, staging>>
historyVars == <<own, exposed>>
vars == <<connectorVars, queueVars, requestVars, historyVars, records, begun>>

Pending == [done |-> FALSE, success |-> FALSE]

NoRequest == [op |-> None, key |-> None, data |-> <<>>]

Init ==
    /\ active = FALSE
    /\ phase = [c \in Connectors |-> "new"]
    /\ env = {}
    /\ attached = {}
    /\ records \in [Keys -> {None} \cup {p \in Payloads : Len(p) \in 1 .. MaxValueBytes}]
    /\ wpc = [w \in Workers |-> "off"]
    /\ req = [w \in Workers |-> NoRequest]
    /\ step = [w \in Workers |-> None]
    /\ cur = [w \in Workers |-> 0]
    /\ result = [w \in Workers |-> Pending]
    /\ staging = [w \in Workers |-> None]
    /\ sq = [w \in Workers |-> {}]
    /\ cq = [w \in Workers |-> {}]
    /\ own = [w \in Workers |-> None]
    /\ begun = 0
    /\ exposed = [w \in Workers |-> FALSE]

-----------------------------------------------------------------------------
(* Construction and close. The constructor holds g_runtime_mu throughout. *)

\* initialize_runtime with probe_cb and attach_cb: the first controller with a
\* KV namespace that takes 16-byte keys and non-empty values is kept.
Attach(c) == attached' = attached \cup {c}

\* The environment comes up, a KV namespace is attached, the workers start.
Construct(c) ==
    /\ phase[c] = "new"
    /\ ~ active
    /\ active' = TRUE
    /\ env' = env \cup {c}
    /\ Attach(c)
    /\ phase' = [phase EXCEPT ![c] = "running"]
    /\ wpc' = [w \in Workers |-> IF w[1] = c THEN "start" ELSE wpc[w]]
    /\ UNCHANGED <<queueVars, req, step, cur, result, staging, historyVars,
                   records, begun>>

\* Another connector is active, or spdk_env_init fails.
ConstructThrows(c) ==
    /\ phase[c] = "new"
    /\ phase' = [phase EXCEPT ![c] = "dead"]
    /\ UNCHANGED <<active, env, attached, queueVars, requestVars, historyVars,
                   records, begun>>

\* Faulty: the flag stays set.
ConstructUndoneForgets(c) ==
    /\ phase[c] = "new"
    /\ ~ active
    /\ active' = TRUE
    /\ env' = env \ {c}
    /\ attached' = attached \ {c}
    /\ phase' = [phase EXCEPT ![c] = "dead"]
    /\ UNCHANGED <<queueVars, requestVars, historyVars, records, begun>>

\* No KV namespace is found or the workers cannot start: the catch block takes
\* everything back.
ConstructUndone(c) ==
    /\ phase[c] = "new"
    /\ ~ active
    /\ active' = FALSE
    /\ env' = env \ {c}
    /\ attached' = attached \ {c}
    /\ phase' = [phase EXCEPT ![c] = "dead"]
    /\ UNCHANGED <<queueVars, requestVars, historyVars, records, begun>>

\* create_connection on the worker's thread, which ends when no queue pair is
\* left.
CreateConnection(w) ==
    /\ wpc[w] = "start"
    /\ \E pc \in {"idle", "ended"} : wpc' = [wpc EXCEPT ![w] = pc]
    /\ UNCHANGED <<connectorVars, queueVars, req, step, cur, result, staging,
                   historyVars, records, begun>>

BeginClose(c) ==
    /\ phase[c] = "running"
    /\ phase' = [phase EXCEPT ![c] = "closing"]
    /\ UNCHANGED <<active, env, attached, queueVars, requestVars, historyVars,
                   records, begun>>

\* The worker leaves its loop; ~KvConnection frees the queue pair and whatever
\* is still outstanding on it. SPDK may run complete for what it aborts there:
\* it writes to frames of this thread, which has no request any more, so that
\* no result or buffer of the model is among what it hits.
WorkerEnds(w) ==
    /\ wpc[w] = "idle"
    /\ phase[w[1]] = "closing"
    /\ wpc' = [wpc EXCEPT ![w] = "ended"]
    /\ sq' = [sq EXCEPT ![w] = {}]
    /\ cq' = [cq EXCEPT ![w] = {}]
    /\ UNCHANGED <<connectorVars, req, step, cur, result, staging, historyVars,
                   records, begun>>

\* on_workers_stopped: detach and spdk_env_fini, then, under g_runtime_mu, the
\* flag.
StopRuntime(c) ==
    /\ phase[c] = "closing"
    /\ \A w \in Workers : w[1] = c => wpc[w] = "ended"
    /\ attached' = attached \ {c}
    /\ env' = env \ {c}
    /\ phase' = [phase EXCEPT ![c] = "detached"]
    /\ UNCHANGED <<active, queueVars, requestVars, historyVars, records, begun>>

ClearActive(c) ==
    /\ phase[c] = "detached"
    /\ active' = FALSE
    /\ phase' = [phase EXCEPT ![c] = "closed"]
    /\ UNCHANGED <<env, attached, queueVars, requestVars, historyVars, records,
                   begun>>

-----------------------------------------------------------------------------
(* Requests *)

Busy(w) == wpc[w] \in {"submit", "poll"}

\* Does the frame that submitted command id of worker w still exist?
Live(w, id) == wpc[w] = "poll" /\ cur[w] = id

\* The identities outstanding on the queue pair of w.
Outstanding(w) == {k.id : k \in sq[w] \cup cq[w]}

\* The command w waits for is not completed yet.
Abandons(w) == cur[w] \in Outstanding(w)

\* Some command's waiter did not wait for it.
SomeAbandoned == \E w \in Workers : \E id \in Outstanding(w) : ~ Live(w, id)

\* ensure_value_size
SizeOk(r) == r.op \in {"get", "set"} => Len(r.data) \in 1 .. MaxValueBytes

\* The worker takes a request; its size fits and its buffer is allocated.
Begin(w) ==
    /\ wpc[w] = "idle"
    /\ phase[w[1]] = "running"
    /\ begun < MaxRequests
    /\ begun' = begun + 1
    /\ \E r \in Requests :
         /\ SizeOk(r)
         /\ req' = [req EXCEPT ![w] = r]
         /\ step' = [step EXCEPT ![w] = FirstCommand(r.op)]
         /\ staging' = [staging EXCEPT ![w] =
                          IF r.op \in {"get", "set"} THEN r.data ELSE None]
    /\ wpc' = [wpc EXCEPT ![w] = "submit"]
    /\ exposed' = [exposed EXCEPT ![w] = SomeAbandoned]
    /\ UNCHANGED <<connectorVars, queueVars, cur, result, own, records>>

\* The frame of the command w waits for ends. Is it still outstanding, then
\* it is abandoned from now on.
Leave(w) ==
    /\ cur' = [cur EXCEPT ![w] = 0]
    /\ result' = [result EXCEPT ![w] = Pending]
    /\ own' = [own EXCEPT ![w] = None]

\* do_single_* returns or throws: its buffer is freed.
End(w) ==
    /\ wpc' = [wpc EXCEPT ![w] = "idle"]
    /\ req' = [req EXCEPT ![w] = NoRequest]
    /\ step' = [step EXCEPT ![w] = None]
    /\ staging' = [staging EXCEPT ![w] = None]
    /\ exposed' = [x \in Workers |-> x # w /\ (exposed[x] \/ (Busy(x) /\ Abandons(w)))]
    /\ Leave(w)
    /\ UNCHANGED <<connectorVars, queueVars, records, begun>>

\* ensure_value_size throws, or the allocation of the DMA buffer of a request
\* of any size: nothing has changed.
Refuse(w) ==
    /\ wpc[w] = "idle"
    /\ phase[w[1]] = "running"
    /\ \E r \in Requests : r.op \in {"get", "set"}
    /\ UNCHANGED vars

\* spdk_nvme_kv_* accepts the command.
Submit(w) ==
    /\ wpc[w] = "submit"
    /\ Cardinality(Outstanding(w)) < QueueDepth
    /\ LET id == CHOOSE i \in 1 .. QueueDepth : i \notin Outstanding(w)
       IN /\ cur' = [cur EXCEPT ![w] = id]
          /\ sq' = [sq EXCEPT ![w] = @ \cup {[id |-> id, op |-> step[w],
                                         key |-> req[w].key, data |-> req[w].data]}]
    /\ wpc' = [wpc EXCEPT ![w] = "poll"]
    /\ UNCHANGED <<connectorVars, cq, req, step, result, staging, historyVars,
                   records, begun>>

\* It does not, for instance because the queue is full: the request throws.
SubmitFails(w) == wpc[w] = "submit" /\ End(w)

\* The callback complete, run for one completion inside the poll, which takes
\* all it finds. The context of an abandoned command is a dead frame, which
\* the frame of the present request may overlay.
Poll(w) ==
    /\ wpc[w] = "poll"
    /\ \E k \in cq[w] :
         /\ cq' = [cq EXCEPT ![w] = @ \ {k}]
         /\ \/ result' = [result EXCEPT ![w] = [done |-> TRUE, success |-> k.success]]
            \/ ~ Live(w, k.id) /\ UNCHANGED result
    /\ UNCHANGED <<connectorVars, sq, wpc, req, step, cur, staging, historyVars,
                   records, begun>>

\* Faulty: success is not required of a store.
ReplyUnchecked(w) ==
    IF step[w] = "exist" THEN result[w].success
    ELSE IF req[w].op = "set" THEN TRUE
    ELSE IF ~ result[w].success THEN Thrown
    ELSE IF req[w].op = "get" THEN staging[w] ELSE TRUE

\* What do_single_* makes of a finished command: only an EXIST may lack
\* success, a get copies its buffer out.
Reply(w) ==
    IF step[w] = "exist" THEN result[w].success
    ELSE IF ~ result[w].success THEN Thrown
    ELSE IF req[w].op = "get" THEN staging[w] ELSE TRUE

\* The EXIST of a delete has found the key: its DELETE is next.
Continues(w) == req[w].op = "delete" /\ step[w] = "exist" /\ result[w].success

ContinueDelete(w) ==
    /\ wpc[w] = "poll"
    /\ result[w].done
    /\ Continues(w)
    /\ step' = [step EXCEPT ![w] = "delete"]
    /\ wpc' = [wpc EXCEPT ![w] = "submit"]
    /\ exposed' = [x \in Workers |-> exposed[x] \/ (Busy(x) /\ Abandons(w))]
    /\ Leave(w)
    /\ UNCHANGED <<connectorVars, queueVars, req, staging, records, begun>>

Finish(w) ==
    /\ wpc[w] = "poll"
    /\ result[w].done
    /\ ~ Continues(w)
    /\ End(w)

\* Faulty: there is no deadline.
GiveUpNever(w) == FALSE /\ End(w)

\* Polling fails, or the deadline passed, which is looked at before the result.
GiveUp(w) == wpc[w] = "poll" /\ End(w)

-----------------------------------------------------------------------------
(* The device *)

\* The bytes a command's buffer may hold: those of its frame while that lives;
\* once it is freed, the old ones, zeros, or those of a request that got the
\* memory since.
BufferOf(w, k) ==
    IF Live(w, k.id) THEN {staging[w]}
    ELSE {k.data, Zeros(Len(k.data))}
           \cup {Fit(staging[x], Len(k.data)) : x \in {y \in Workers : staging[y] # None}}

\* The value v arrives in the buffer of a RETRIEVE.
Delivered(w, k, v) ==
    IF Live(w, k.id) THEN {[staging EXCEPT ![w] = Fit(v, Len(@))]}
    ELSE {staging} \cup {[staging EXCEPT ![x] = Fit(v, Len(@))] :
                           x \in {y \in Workers : staging[y] # None}}

\* A command takes effect: a STORE replaces, the others fail without a record.
Effect(w, k) ==
    /\ k.op # "store" => records[k.key] # None
    /\ IF k.op = "store"
       THEN \E v \in BufferOf(w, k) : records' = [records EXCEPT ![k.key] = v]
       ELSE records' = [records EXCEPT ![k.key] = IF k.op = "delete" THEN None ELSE @]
    /\ IF k.op = "retrieve" THEN staging' \in Delivered(w, k, records[k.key])
                            ELSE UNCHANGED staging

Execute(w) ==
    /\ \E k \in sq[w], success \in BOOLEAN :
         /\ IF success THEN Effect(w, k) ELSE UNCHANGED <<records, staging>>
         /\ sq' = [sq EXCEPT ![w] = @ \ {k}]
         /\ cq' = [cq EXCEPT ![w] = @ \cup {[id |-> k.id, success |-> success]}]
         /\ own' = IF Live(w, k.id)
                   THEN [own EXCEPT ![w] =
                           IF success THEN [was |-> records[k.key],
                                            now |-> records'[k.key]]
                                      ELSE Thrown]
                   ELSE own
    /\ UNCHANGED <<connectorVars, wpc, req, step, cur, result, exposed, begun>>

-----------------------------------------------------------------------------
WorkerStep(w) ==
    \/ CreateConnection(w)
    \/ WorkerEnds(w)
    \/ Submit(w)
    \/ SubmitFails(w)
    \/ Poll(w)
    \/ ContinueDelete(w)
    \/ Finish(w)
    \/ GiveUp(w)

CloseStep(c) == StopRuntime(c) \/ ClearActive(c)

Next ==
    \/ \E c \in Connectors :
         \/ Construct(c) \/ ConstructThrows(c) \/ ConstructUndone(c)
         \/ BeginClose(c) \/ CloseStep(c)
    \/ \E w \in Workers : WorkerStep(w) \/ Begin(w) \/ Refuse(w) \/ Execute(w)

Spec == Init /\ [][Next]_vars

\* Threads are scheduled, and a waiter's clock reaches its deadline. The device
\* promises nothing, not even to answer.
FairSpec ==
    /\ Spec
    /\ \A w \in Workers : WF_vars(WorkerStep(w))
    /\ \A c \in Connectors : WF_vars(CloseStep(c))

-----------------------------------------------------------------------------
(* Properties *)

\* The type invariant: fields of the connectors, their workers and the device.
TypeOK ==
    /\ active \in BOOLEAN
    /\ phase \in [Connectors -> {"new", "dead", "running", "closing", "detached", "closed"}]
    /\ env \subseteq Connectors
    /\ attached \subseteq Connectors
    /\ \A k \in Keys : records[k] # None =>
         records[k] \in Seq(Nat) /\ Len(records[k]) \in 1 .. MaxValueBytes
    /\ wpc \in [Workers -> {"off", "start", "idle", "submit", "poll", "ended"}]
    /\ req \in [Workers -> Requests \cup {NoRequest}]
    /\ step \in [Workers -> {"retrieve", "store", "exist", "delete", None}]
    /\ cur \in [Workers -> 0 .. QueueDepth]
    /\ result \in [Workers -> [done : BOOLEAN, success : BOOLEAN]]
    /\ \A w \in Workers :
         /\ staging[w] # None <=> Busy(w) /\ req[w].op \in {"get", "set"}
         /\ staging[w] # None =>
              staging[w] \in Seq(Nat) /\ Len(staging[w]) = Len(req[w].data)
         /\ Outstanding(w) \subseteq 1 .. QueueDepth
         /\ Cardinality(Outstanding(w)) = Cardinality(sq[w]) + Cardinality(cq[w])

\* Request w is about to return, not to throw.
Returns(w) ==
    wpc[w] = "poll" /\ result[w].done /\ ~ Continues(w) /\ Reply(w) # Thrown

\* What it tells LMCache is what the device did for its own last command.
Truthful(w) ==
    /\ own[w] # None
    /\ CASE req[w].op = "set" -> own[w] # Thrown /\ own[w].now = req[w].data
         [] req[w].op = "get" -> own[w] # Thrown
                                   /\ Reply(w) = Fit(own[w].was, Len(req[w].data))
         [] req[w].op = "exists" -> Reply(w) = (own[w] # Thrown)
         [] OTHER -> Reply(w) = (step[w] = "delete" /\ own[w] # Thrown
                                   /\ own[w].was # None /\ own[w].now = None)

\* Every answer is truthful (a set is stored, a get returns the record, a
\* delete that says so removed the record itself, whatever other workers did
\* between its EXIST and its DELETE), unless an abandoned command was
\* outstanding meanwhile (wait_for_completion): with no command left from an
\* earlier request, the pointers of complete and of the DMA buffers are good.
AnswersTruthful == \A w \in Workers : Returns(w) /\ ~ exposed[w] => Truthful(w)

\* Store "copies the source into an aligned DMA buffer before sending an NVMe-KV
\* `STORE` command. The operation completes only after the worker has polled a
\* successful device completion" (nvme-kv/docs/architecture.md:114-116): a set
\* that returns had its command executed, with the bytes of its source.
StoresCompleteOnDevice ==
    \A w \in Workers : Returns(w) /\ req[w].op = "set" =>
        own[w] \notin {None, Thrown} /\ own[w].now = req[w].data

\* Of the connectors a process constructs and closes, on any threads, one at
\* most has the SPDK environment; while the flag is down nobody has, so the
\* next constructor may initialize it, and the flag is up only while some
\* connector will still take it down; no queue pair outlives its controller.
OneEnvironment ==
    /\ Cardinality(env) <= 1
    /\ active <=> \E c \in Connectors : c \in env \/ phase[c] = "detached"
    /\ attached \subseteq env
    /\ \A w \in Workers : Busy(w) \/ wpc[w] = "idle" \/ Outstanding(w) # {}
                            => w[1] \in attached

\* Every request and every close ends although the device may never answer:
\* the deadline of wait_for_completion is enough.
RequestsEnd ==
    /\ \A w \in Workers : Busy(w) ~> ~ Busy(w)
    /\ \A c \in Connectors : (phase[c] = "closing") ~> (phase[c] = "closed")
=============================================================================
