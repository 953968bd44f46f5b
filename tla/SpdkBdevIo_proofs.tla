-------------------------- MODULE SpdkBdevIo_proofs --------------------------
(***************************************************************************)
(* Proofs about SpdkBdevIo for any callers, workers, buffers and items, and *)
(* any number of batches, retries and errors.                               *)
(***************************************************************************)
EXTENDS SpdkBdevIo, QueueOccurrences, NaturalsInduction

-----------------------------------------------------------------------------
(* Where a request is *)

\* The worker that serves a request, and the messages that carry it there.
Home(r) == WorkerOf(r[1], r[2])
Batch(c) == [type |-> "batch", arg |-> c]
Retry(r) == [type |-> "retry", arg |-> r]
Signal(type) == [type |-> type, arg |-> None]
Carriers(r, w) == {Retry(r)} \cup (IF w = Home(r) THEN {Batch(r[1])} ELSE {})

One(S, r) == IF r \in S THEN 1 ELSE 0

\* How many references to r worker w has, those in its messages and its FIFO
\* first.
Mailed(r, w) == Occurrences(msgs[w], Carriers(r, w))
Queued(r, w) == Times(pending[w], r)
Here(r, w) ==
    Mailed(r, w) + Queued(r, w)
      + One(todo[w], r) + One(inflight[w], r) + One(iowait[w], r)

\* Its caller waits for its result, or has yet to post its dispatch.
Waited(r) == alive[r[1]] /\ result[r] = None
Unposted(r) == cpc[r[1]] \in {"post", "send"} /\ Home(r) \in unsent[r[1]]

\* A request that is waited for and was posted is once with its worker, and no
\* other request is with any.
Placed(r, w) ==
    Here(r, w) = IF w = Home(r) /\ Waited(r) /\ ~ Unposted(r) THEN 1 ELSE 0

-----------------------------------------------------------------------------
(* The inductive invariant *)

Unanswered(c) == {i \in 1 .. ItemCount : result[<<c, i>>] = None}

\* A caller has a batch while it is inside the call; the dispatches it has yet
\* to post and those in messages are of that batch, and remaining counts the
\* missing results.
CallerSound(c) ==
    /\ alive[c] <=> cpc[c] # "idle"
    /\ cpc[c] \in {"post", "send"} =>
         unsent[c] # {} /\ \A w \in unsent[c] : DispatchOf(c, w) # {}
    /\ alive[c] => remaining[c] = Cardinality(Unanswered(c))
    /\ \A w \in Workers : Times(msgs[w], Batch(c)) # 0 => DispatchOf(c, w) # {}

PlaceSound(r) ==
    /\ Unposted(r) => Waited(r)
    /\ \A w \in Workers : Placed(r, w)

\* Only a command in flight has a buffer.
LeaseSound(r) == r \notin inflight[Home(r)] => lease[r] = None

\* A pool's buffers are free or leased. Requests wait for a buffer only while
\* none is free, or the drain is under way.
PoolSound(w) ==
    IF initialized[w]
    THEN /\ IsFiniteSet(inflight[w])
         /\ Elements(free[w]) \cup {lease[r] : r \in inflight[w]} = Buffers
         /\ Len(free[w]) + Cardinality(inflight[w]) = BufferCount
         /\ ~ draining[w] /\ pending[w] # <<>> => free[w] = <<>>
    ELSE free[w] = <<>> /\ pending[w] = <<>>

Begins == Times(msgs[0], Signal("begin"))
Acks == Times(msgs[0], Signal("ack"))
Shuts(w) == Times(msgs[w], Signal("shutdown"))
Pooled == {w \in Workers : initialized[w]}

\* Before begin_shutdown_on_app_thread.
NotBegun ==
    /\ workers_shutting_down = 0
    /\ ~ shutdown_complete
    /\ Acks = 0
    /\ \A w \in Workers : initialized[w] /\ ~ stopping[w] /\ Shuts(w) = 0

\* After it: every worker that still has its pool is being stopped or has the
\* message to stop, and the count is of those and of the acknowledgements.
Begun ==
    /\ workers_shutting_down = Cardinality(Pooled) + Acks
    /\ shutdown_complete => workers_shutting_down = 0
    /\ \A w \in Workers :
         /\ Shuts(w) = IF initialized[w] /\ ~ stopping[w] THEN 1 ELSE 0
         /\ stopping[w] => initialized[w]

TeardownSound ==
    /\ Shuts(0) = 0
    /\ Begins = 0 \/ Begins = 1
    /\ ~ shutdown_requested => Begins = 0
    /\ IF shutdown_requested /\ Begins = 0 THEN Begun ELSE NotBegun

IInv ==
    /\ TypeOK
    /\ \A c \in Callers : CallerSound(c)
    /\ \A r \in Requests : PlaceSound(r) /\ LeaseSound(r)
    /\ \A w \in Workers : PoolSound(w)
    /\ TeardownSound

-----------------------------------------------------------------------------
(* Workers, messages and places *)

\* Every request has a worker.
LEMMA HomeType ==
    ASSUME CallerType, NEW r \in Requests
    PROVE  /\ r[1] \in Callers /\ r[2] \in 1 .. ItemCount /\ r = <<r[1], r[2]>>
           /\ Home(r) \in Workers /\ 0 \in Workers
           /\ r \in DispatchOf(r[1], Home(r))
<1>1. r[1] \in Callers /\ r[2] \in 1 .. ItemCount /\ r = <<r[1], r[2]>>
  BY DEF Requests
<1>2. \A n \in Nat : n % WorkerCount \in 0 .. WorkerCount - 1
  BY IoAssumption
<1>3. first[r[1]] + (r[2] - 1) \in Nat
  BY <1>1, IoAssumption DEF CallerType, Workers
<1>4. Home(r) \in Workers /\ 0 \in Workers
  BY <1>2, <1>3, IoAssumption DEF Home, WorkerOf, Workers
<1>. QED BY <1>1, <1>4 DEF DispatchOf, Home

\* While no batch begins, requests keep their workers.
LEMMA HomeKept ==
    ASSUME first' = first
    PROVE  /\ \A r : Home(r)' = Home(r)
           /\ \A r, w : Carriers(r, w)' = Carriers(r, w)
           /\ \A c, w : DispatchOf(c, w)' = DispatchOf(c, w)
<1>1. \A r : Home(r)' = Home(r)
  BY DEF Home, WorkerOf
<1>2. \A r, w : Carriers(r, w)' = Carriers(r, w)
  BY <1>1 DEF Carriers, Retry, Batch
<1>3. \A c, w : DispatchOf(c, w)' = DispatchOf(c, w)
  BY DEF DispatchOf, WorkerOf
<1>. QED BY <1>1, <1>2, <1>3

\* The messages there are, and which of them carry a request.
LEMMA MessageFacts ==
    /\ \A c \in Callers : Batch(c) \in Message
    /\ \A r \in Requests : Retry(r) \in Message
    /\ \A k \in {"begin", "shutdown", "ack"} : Signal(k) \in Message
    /\ \A m \in Message :
         /\ m.type = "batch" => m.arg \in Callers /\ m = Batch(m.arg)
         /\ m.type = "retry" => m.arg \in Requests /\ m = Retry(m.arg)
         /\ m.type \in {"begin", "shutdown", "ack"} => m = Signal(m.type)
    /\ \A c, d : Batch(c) = Batch(d) => c = d
    /\ \A c, r : Batch(c) # Retry(r)
    /\ \A c : \A k \in {"begin", "shutdown", "ack"} :
         Batch(c) # Signal(k) /\ Retry(c) # Signal(k)
    /\ \A k, l : Signal(k) = Signal(l) => k = l
<1>1. /\ \A c : Batch(c).type = "batch" /\ Batch(c).arg = c
      /\ \A c : Retry(c).type = "retry" /\ Retry(c).arg = c
      /\ \A k : Signal(k).type = k
  BY DEF Batch, Retry, Signal
<1>2. \A c \in Callers : Batch(c) \in Message
  BY DEF Batch, Message
<1>3. \A r \in Requests : Retry(r) \in Message
  BY DEF Retry, Message
<1>4. \A k \in {"begin", "shutdown", "ack"} : Signal(k) \in Message
  BY DEF Signal, Message
<1>5. ASSUME NEW m \in Message
      PROVE  /\ m.type = "batch" => m.arg \in Callers /\ m = Batch(m.arg)
             /\ m.type = "retry" => m.arg \in Requests /\ m = Retry(m.arg)
             /\ m.type \in {"begin", "shutdown", "ack"} => m = Signal(m.type)
  <2>1. CASE m \in [type : {"batch"}, arg : Callers]
    BY <2>1 DEF Batch
  <2>2. CASE m \in [type : {"retry"}, arg : Requests]
    BY <2>2 DEF Retry
  <2>3. CASE m \in [type : {"begin", "shutdown", "ack"}, arg : {None}]
    BY <2>3 DEF Signal
  <2>. QED BY <2>1, <2>2, <2>3 DEF Message
<1>6. /\ \A c, d : Batch(c) = Batch(d) => c = d
      /\ \A c, r : Batch(c) # Retry(r)
      /\ \A k, l : Signal(k) = Signal(l) => k = l
  BY <1>1
<1>7. \A c : \A k \in {"begin", "shutdown", "ack"} :
        Batch(c) # Signal(k) /\ Retry(c) # Signal(k)
  BY <1>1
<1>. QED BY <1>2, <1>3, <1>4, <1>5, <1>6, <1>7

\* Which messages carry request r at worker w.
LEMMA CarrierFacts ==
    ASSUME NEW r, NEW w
    PROVE  /\ \A c : Batch(c) \in Carriers(r, w) <=> w = Home(r) /\ c = r[1]
           /\ \A q : Retry(q) \in Carriers(r, w) <=> q = r
           /\ \A k \in {"begin", "shutdown", "ack"} : Signal(k) \notin Carriers(r, w)
<1>1. \A c : Batch(c) \in Carriers(r, w) <=> w = Home(r) /\ c = r[1]
  BY MessageFacts DEF Carriers
<1>2. \A q : Retry(q) = Retry(r) => q = r
  <2>1. \A q : Retry(q).arg = q
    BY DEF Retry
  <2>. QED BY <2>1
<1>3. \A q : Retry(q) \in Carriers(r, w) <=> q = r
  BY <1>2, MessageFacts DEF Carriers
<1>4. \A k \in {"begin", "shutdown", "ack"} : Signal(k) \notin Carriers(r, w)
  BY MessageFacts DEF Carriers
<1>. QED BY <1>1, <1>3, <1>4

\* The numbers are natural numbers.
LEMMA HereType ==
    ASSUME QueueType, NEW w \in Workers, NEW r
    PROVE  /\ Mailed(r, w) \in Nat /\ Queued(r, w) \in Nat /\ Here(r, w) \in Nat
           /\ \A k : Times(msgs[w], k) \in Nat
           /\ msgs[w] \in Seq(Message) /\ pending[w] \in Seq(Requests)
           /\ todo[w] \in SUBSET Requests
<1>1. msgs[w] \in Seq(Message) /\ pending[w] \in Seq(Requests) /\ todo[w] \in SUBSET Requests
  BY DEF QueueType
<1>2. Mailed(r, w) \in Nat
  BY <1>1, OccurrencesType DEF Mailed
<1>3. Queued(r, w) \in Nat /\ \A k : Times(msgs[w], k) \in Nat
  BY <1>1, TimesType DEF Queued
<1>. QED BY <1>1, <1>2, <1>3 DEF Here, One

\* A message arrives at v.
LEMMA MailAppended ==
    ASSUME QueueType, first' = first, NEW v \in Workers, NEW m \in Message,
           msgs'[v] = Append(msgs[v], m)
    PROVE  /\ \A r : Mailed(r, v)' = Mailed(r, v) + One(Carriers(r, v), m)
           /\ \A k : Times(msgs'[v], k) = Times(msgs[v], k) + (IF m = k THEN 1 ELSE 0)
<1>1. msgs[v] \in Seq(Message)
  BY DEF QueueType
<1>2. ASSUME NEW r PROVE Mailed(r, v)' = Mailed(r, v) + One(Carriers(r, v), m)
  <2>1. Carriers(r, v)' = Carriers(r, v)
    BY HomeKept
  <2>. QED BY <1>1, <2>1, OccurrencesAppend DEF Mailed, One
<1>3. ASSUME NEW k PROVE Times(msgs'[v], k) = Times(msgs[v], k) + (IF m = k THEN 1 ELSE 0)
  BY <1>1, TimesAppend
<1>. QED BY <1>2, <1>3

\* v takes its first message.
LEMMA MailTaken ==
    ASSUME QueueType, first' = first, NEW v \in Workers, msgs[v] # <<>>,
           msgs'[v] = Tail(msgs[v])
    PROVE  /\ Head(msgs[v]) \in Message
           /\ \A r : Mailed(r, v) = Mailed(r, v)' + One(Carriers(r, v), Head(msgs[v]))
           /\ \A k : Times(msgs[v], k)
                       = Times(msgs'[v], k) + (IF Head(msgs[v]) = k THEN 1 ELSE 0)
<1>1. msgs[v] \in Seq(Message)
  BY DEF QueueType
<1>2. ASSUME NEW r
      PROVE  Mailed(r, v) = Mailed(r, v)' + One(Carriers(r, v), Head(msgs[v]))
  <2>1. Carriers(r, v)' = Carriers(r, v)
    BY HomeKept
  <2>. QED BY <1>1, <2>1, OccurrencesTail DEF Mailed, One
<1>3. ASSUME NEW k
      PROVE  Times(msgs[v], k) = Times(msgs'[v], k) + (IF Head(msgs[v]) = k THEN 1 ELSE 0)
  BY <1>1, TimesTail
<1>4. Head(msgs[v]) \in Message
  BY <1>1
<1>. QED BY <1>2, <1>3, <1>4

\* The queues of v are left alone.
SameQueues(v) ==
    /\ msgs'[v] = msgs[v] /\ pending'[v] = pending[v] /\ todo'[v] = todo[v]
    /\ inflight'[v] = inflight[v] /\ iowait'[v] = iowait[v]

\* Then it has what it had.
LEMMA HereKept ==
    ASSUME first' = first, NEW v, SameQueues(v)
    PROVE  \A r : Here(r, v)' = Here(r, v)
BY HomeKept DEF SameQueues, Here, Mailed, Queued, One

\* A nonempty set of naturals has a least element.
LEMMA LeastExists ==
    ASSUME NEW T \in SUBSET Nat, T # {}
    PROVE  \E m \in T : \A t \in T : m <= t
<1>1. PICK m \in T : \A t \in T : ~ (<<t, m>> \in OpToRel(<, Nat))
  BY NatLessThanWellFounded, WFMin
<1>2. \A t \in T : ~ (t < m)
  BY <1>1 DEF OpToRel
<1>. QED BY <1>2

\* execute_worker_batch's next request is one of the dispatch.
LEMMA EarliestIn ==
    ASSUME NEW S \in SUBSET Requests, S # {}
    PROVE  Earliest(S) \in S
<1>. DEFINE T == {r[2] : r \in S}
<1>1. T \in SUBSET Nat /\ T # {}
  BY DEF Requests
<1>2. PICK m \in T : \A t \in T : m <= t
  BY <1>1, LeastExists
<1>3. \E r \in S : \A q \in S : r[2] <= q[2]
  BY <1>2
<1>. QED BY <1>3 DEF Earliest

\* The loop over the dispatches takes one that was not posted.
LEMMA LowestIn ==
    ASSUME NEW S \in SUBSET Workers, S # {}
    PROVE  Lowest(S) \in S
<1>1. S \in SUBSET Nat
  BY IoAssumption DEF Workers
<1>2. \E w \in S : \A v \in S : w <= v
  BY <1>1, LeastExists
<1>. QED BY <1>2 DEF Lowest

\* What execute_io_on_worker is called with was in the FIFO or the dispatch, and
\* is no more.
LEMMA TurnFacts ==
    ASSUME QueueType, NEW w \in Workers, NEW x \in Turn(w)
    PROVE  /\ x.request \in Requests
           /\ x.pending \in Seq(Requests) /\ x.todo \in SUBSET Requests
           /\ notify[w] = None /\ ~ stopping[w]
           /\ draining[w] => /\ DrainOn(w)
                             /\ x.request = Head(pending[w])
                             /\ x.pending = Tail(pending[w])
           /\ ~ draining[w] => x.pending = pending[w]
           /\ pending[w] = <<>> => x.pending = <<>>
           /\ \A r : Times(x.pending, r) \in Nat
           /\ \A r : Queued(r, w) + One(todo[w], r)
                       = Times(x.pending, r) + One(x.todo, r)
                           + (IF r = x.request THEN 1 ELSE 0)
<1>1. notify[w] = None /\ ~ stopping[w]
  BY DEF Turn
<1>2. pending[w] \in Seq(Requests) /\ todo[w] \in SUBSET Requests
  BY DEF QueueType
<1>3. CASE draining[w]
  <2>1. /\ DrainOn(w)
        /\ x = [request |-> Head(pending[w]), pending |-> Tail(pending[w]), todo |-> todo[w]]
    BY <1>1, <1>3 DEF Turn
  <2>2. pending[w] # <<>>
    BY <2>1 DEF DrainOn
  <2>3. /\ x.request = Head(pending[w]) /\ x.pending = Tail(pending[w]) /\ x.todo = todo[w]
    BY <2>1
  <2>4. x.request \in Requests /\ x.pending \in Seq(Requests)
    BY <1>2, <2>2, <2>3
  <2>5. \A r : Times(pending[w], r) = Times(x.pending, r) + (IF x.request = r THEN 1 ELSE 0)
    BY <1>2, <2>2, <2>3, TimesTail
  <2>6. \A r : Times(x.pending, r) \in Nat
    BY <2>4, TimesType
  <2>. QED BY <1>1, <1>2, <1>3, <2>1, <2>2, <2>3, <2>4, <2>5, <2>6 DEF Queued, One
<1>4. CASE ~ draining[w]
  <2>1. /\ todo[w] # {}
        /\ x = [request |-> Earliest(todo[w]), pending |-> pending[w],
                todo |-> todo[w] \ {Earliest(todo[w])}]
    BY <1>1, <1>4 DEF Turn
  <2>2. /\ x.request = Earliest(todo[w]) /\ x.pending = pending[w]
        /\ x.todo = todo[w] \ {x.request}
    BY <2>1
  <2>3. x.request \in todo[w]
    BY <1>2, <2>1, <2>2, EarliestIn
  <2>4. \A r : Times(x.pending, r) \in Nat
    BY <1>2, <2>2, TimesType
  <2>. QED BY <1>1, <1>2, <1>4, <2>2, <2>3, <2>4 DEF Queued, One
<1>. QED BY <1>3, <1>4

\* What a worker has is at its worker, waited for, and posted; it has it once.
LEMMA HereMeans ==
    ASSUME IInv, NEW r \in Requests, NEW w \in Workers
    PROVE  /\ Here(r, w) # 0 => w = Home(r) /\ Waited(r) /\ ~ Unposted(r) /\ Here(r, w) = 1
           /\ r \in inflight[w] \/ r \in iowait[w] \/ r \in todo[w] => Here(r, w) # 0
           /\ Queued(r, w) # 0 \/ Mailed(r, w) # 0 => Here(r, w) # 0
           /\ r \in inflight[w] => w = Home(r)
<1>1. Here(r, w) # 0 => w = Home(r) /\ Waited(r) /\ ~ Unposted(r) /\ Here(r, w) = 1
  BY DEF IInv, PlaceSound, Placed
<1>2. Mailed(r, w) \in Nat /\ Queued(r, w) \in Nat
  BY HereType DEF IInv, TypeOK
<1>3. /\ r \in inflight[w] \/ r \in iowait[w] \/ r \in todo[w] => Here(r, w) # 0
      /\ Queued(r, w) # 0 \/ Mailed(r, w) # 0 => Here(r, w) # 0
  BY <1>2 DEF Here, One
<1>. QED BY <1>1, <1>3

-----------------------------------------------------------------------------
(* Steps seen from the batches *)

\* A step that moves requests about but completes none and posts none.
LEMMA MovesKeepBatches ==
    ASSUME IInv, first' = first, alive' = alive, unsent' = unsent,
           next_io_worker' = next_io_worker,
           remaining' = remaining, result' = result,
           cpc' \in [Callers -> {"idle", "post", "send", "wait", "asleep"}],
           \A c \in Callers : cpc'[c] = "idle" <=> cpc[c] = "idle",
           \A c \in Callers : cpc'[c] \in {"post", "send"} <=> cpc[c] \in {"post", "send"},
           \A r \in Requests, v \in Workers : Here(r, v)' = Here(r, v),
           \A c \in Callers, v \in Workers :
             Times(msgs'[v], Batch(c)) # 0 => Times(msgs[v], Batch(c)) # 0
    PROVE  /\ CallerType'
           /\ \A c \in Callers : CallerSound(c)'
           /\ \A r \in Requests : PlaceSound(r)'
<1>2. CallerType'
  BY DEF IInv, TypeOK, CallerType
<1>3. ASSUME NEW c \in Callers PROVE CallerSound(c)'
  <2>1. Unanswered(c)' = Unanswered(c)
    BY DEF Unanswered
  <2>2. \A w : DispatchOf(c, w)' = DispatchOf(c, w)
    BY HomeKept
  <2>. QED BY <2>1, <2>2 DEF IInv, CallerSound
<1>4. ASSUME NEW r \in Requests PROVE PlaceSound(r)'
  <2>1. Home(r)' = Home(r) /\ Waited(r)' = Waited(r)
    BY HomeKept DEF Waited
  <2>2. Unposted(r)' <=> Unposted(r)
    <3>1. r[1] \in Callers
      BY DEF Requests
    <3>. QED BY <2>1, <3>1 DEF Unposted
  <2>. QED BY <2>1, <2>2 DEF IInv, PlaceSound, Placed
<1>. QED BY <1>2, <1>3, <1>4

\* A batch has finitely many requests.
LEMMA UnansweredFinite ==
    ASSUME NEW c
    PROVE  IsFiniteSet(1 .. ItemCount) /\ IsFiniteSet(Unanswered(c))
           /\ Cardinality(1 .. ItemCount) = ItemCount
<1>1. IsFiniteSet(1 .. ItemCount) /\ Cardinality(1 .. ItemCount) = ItemCount
  BY FS_Interval, IoAssumption
<1>2. Unanswered(c) \subseteq 1 .. ItemCount
  BY DEF Unanswered
<1>. QED BY <1>1, <1>2, FS_Subset

\* A step that completes a request its worker has.
LEMMA CompletionKeepsBatches ==
    ASSUME IInv, NEW q \in Requests, NEW w \in Workers, NEW outcome \in {"ok", "failed"},
           CompleteRequest(w, q, outcome), UNCHANGED callerVars,
           \A r \in Requests, v \in Workers :
             Here(r, v) = Here(r, v)' + (IF r = q /\ v = w THEN 1 ELSE 0),
           \A r \in Requests, v \in Workers : Here(r, v)' \in Nat,
           \A c \in Callers, v \in Workers :
             Times(msgs'[v], Batch(c)) # 0 => Times(msgs[v], Batch(c)) # 0
    PROVE  /\ CallerType'
           /\ \A c \in Callers : CallerSound(c)'
           /\ \A r \in Requests : PlaceSound(r)'
           /\ notify' \in [Workers -> Callers \cup {None}]
<1>. USE DEF callerVars
<1>1. Here(q, w) = 1 /\ Here(q, w)' = 0 /\ w = Home(q) /\ Waited(q) /\ ~ Unposted(q)
  <2>1. Here(q, w) # 0
    OBVIOUS
  <2>. QED BY <2>1, HereMeans
<1>2. /\ q[1] \in Callers /\ q[2] \in 1 .. ItemCount /\ q = <<q[1], q[2]>>
      /\ outcome # None
  BY HomeType, IoAssumption DEF IInv, TypeOK
<1>3. /\ result' = [result EXCEPT ![q] = outcome]
      /\ remaining' = [remaining EXCEPT ![q[1]] = @ - 1]
      /\ notify' = [notify EXCEPT ![w] = IF remaining[q[1]] = 1 THEN q[1] ELSE None]
  BY DEF CompleteRequest
<1>4. /\ result \in [Requests -> {None, "ok", "failed"}]
      /\ remaining \in [Callers -> 0 .. ItemCount]
      /\ notify \in [Workers -> Callers \cup {None}]
  BY DEF IInv, TypeOK, CallerType, QueueType
<1>5. /\ Unanswered(q[1])' = Unanswered(q[1]) \ {q[2]} /\ q[2] \in Unanswered(q[1])
      /\ \A c \in Callers : c # q[1] => Unanswered(c)' = Unanswered(c)
  <2>1. q[2] \in Unanswered(q[1])
    BY <1>1, <1>2 DEF Unanswered, Waited
  <2>2. ASSUME NEW c \in Callers, NEW i \in 1 .. ItemCount
        PROVE  result'[<<c, i>>] = IF <<c, i>> = q THEN outcome ELSE result[<<c, i>>]
    <3>1. <<c, i>> \in Requests
      BY DEF Requests
    <3>. QED BY <3>1, <1>3, <1>4
  <2>3. \A c \in Callers, i \in 1 .. ItemCount : <<c, i>> = q <=> c = q[1] /\ i = q[2]
    BY <1>2
  <2>. QED BY <1>2, <2>1, <2>2, <2>3 DEF Unanswered
<1>6. /\ remaining[q[1]] = Cardinality(Unanswered(q[1])) /\ alive[q[1]]
      /\ Cardinality(Unanswered(q[1])') = Cardinality(Unanswered(q[1])) - 1
      /\ Cardinality(Unanswered(q[1])) \in Nat \ {0}
  <2>2. IsFiniteSet(Unanswered(q[1]))
    BY UnansweredFinite
  <2>3. Cardinality(Unanswered(q[1]) \ {q[2]}) = Cardinality(Unanswered(q[1])) - 1
    BY <1>5, <2>2, FS_RemoveElement
  <2>4. Cardinality(Unanswered(q[1])) \in Nat /\ Cardinality(Unanswered(q[1])) # 0
    BY <1>5, <2>2, FS_CardinalityType, FS_EmptySet
  <2>5. alive[q[1]] /\ remaining[q[1]] = Cardinality(Unanswered(q[1]))
    BY <1>1, <1>2 DEF Waited, IInv, CallerSound
  <2>. QED BY <1>5, <2>3, <2>4, <2>5
<1>7. CallerType'
  <2>1. remaining' \in [Callers -> 0 .. ItemCount]
    <3>1. remaining[q[1]] \in 1 .. ItemCount
      BY <1>2, <1>4, <1>6
    <3>2. \A c \in Callers : remaining'[c] \in 0 .. ItemCount
      <4>1. remaining[q[1]] - 1 \in 0 .. ItemCount
        BY <3>1, IoAssumption
      <4>2. /\ remaining'[q[1]] = remaining[q[1]] - 1
            /\ \A c \in Callers : c # q[1] => remaining'[c] = remaining[c]
        BY <1>2, <1>3, <1>4
      <4>. QED BY <1>4, <4>1, <4>2
    <3>. QED BY <1>3, <1>4, <3>2
  <2>2. result' \in [Requests -> {None, "ok", "failed"}]
    BY <1>3, <1>4
  <2>. QED BY <2>1, <2>2 DEF IInv, TypeOK, CallerType
<1>8. ASSUME NEW c \in Callers PROVE CallerSound(c)'
  <2>1. \A v : DispatchOf(c, v)' = DispatchOf(c, v)
    BY HomeKept
  <2>2. alive'[c] => remaining'[c] = Cardinality(Unanswered(c)')
    BY <1>2, <1>3, <1>4, <1>5, <1>6 DEF IInv, CallerSound
  <2>. QED BY <2>1, <2>2 DEF IInv, CallerSound
<1>9. ASSUME NEW r \in Requests PROVE PlaceSound(r)'
  <2>1. Home(r)' = Home(r) /\ (Unposted(r)' <=> Unposted(r))
    BY HomeKept DEF Unposted
  <2>2. Waited(r)' <=> Waited(r) /\ r # q
    BY <1>2, <1>3, <1>4 DEF Waited
  <2>. QED BY <1>1, <2>1, <2>2 DEF IInv, PlaceSound, Placed
<1>10. notify' \in [Workers -> Callers \cup {None}]
  BY <1>2, <1>3, <1>4
<1>. QED BY <1>7, <1>8, <1>9, <1>10

-----------------------------------------------------------------------------
(* Steps seen from the queues *)

\* Requests moved from one place of their worker to another.
Moved ==
    /\ QueueType'
    /\ \A r \in Requests, v \in Workers : Here(r, v)' = Here(r, v)
    /\ \A c \in Callers, v \in Workers :
         Times(msgs'[v], Batch(c)) # 0 => Times(msgs[v], Batch(c)) # 0

\* Request q left worker w.
Left(q, w) ==
    /\ QueueType'
    /\ \A r \in Requests, v \in Workers : Here(r, v)' \in Nat
    /\ \A r \in Requests, v \in Workers :
         Here(r, v) = Here(r, v)' + (IF r = q /\ v = w THEN 1 ELSE 0)
    /\ \A c \in Callers, v \in Workers :
         Times(msgs'[v], Batch(c)) # 0 => Times(msgs[v], Batch(c)) # 0

\* It suffices to look at the worker that runs.
LEMMA MovedAt ==
    ASSUME QueueType', first' = first, NEW w \in Workers,
           \A v \in Workers : v # w => SameQueues(v),
           \A r \in Requests : Here(r, w)' = Here(r, w),
           \A c \in Callers : Times(msgs'[w], Batch(c)) # 0 => Times(msgs[w], Batch(c)) # 0
    PROVE  Moved
<1>1. \A v \in Workers : v # w => \A r : Here(r, v)' = Here(r, v)
  BY HereKept
<1>2. \A v \in Workers : v # w => msgs'[v] = msgs[v]
  BY DEF SameQueues
<1>. QED BY <1>1, <1>2 DEF Moved

\* The same for one that leaves.
LEMMA LeftAt ==
    ASSUME QueueType', QueueType, first' = first, NEW w \in Workers, NEW q \in Requests,
           \A v \in Workers : v # w => SameQueues(v),
           \A r \in Requests : Here(r, w) = Here(r, w)' + (IF r = q THEN 1 ELSE 0),
           msgs' = msgs
    PROVE  Left(q, w)
<1>1. \A v \in Workers : v # w => \A r : Here(r, v)' = Here(r, v)
  BY HereKept
<1>2. \A r \in Requests, v \in Workers : Here(r, v)' \in Nat
  <2>. SUFFICES ASSUME NEW r \in Requests, NEW v \in Workers PROVE Here(r, v)' \in Nat
    OBVIOUS
  <2>1. /\ msgs'[v] \in Seq(Message) /\ pending'[v] \in Seq(Requests)
    BY DEF QueueType
  <2>2. Mailed(r, v)' \in Nat
    BY <2>1, OccurrencesType DEF Mailed
  <2>3. Queued(r, v)' \in Nat
    BY <2>1, TimesType DEF Queued
  <2>. QED BY <2>2, <2>3 DEF Here, One
<1>3. \A r \in Requests, v \in Workers : Here(r, v) \in Nat
  BY HereType
<1>. QED BY <1>1, <1>2, <1>3 DEF Left

\* ExecuteWorkerBatchCallback: the message becomes the loop's requests.
LEMMA TakeBatchMoves ==
    ASSUME IInv, NEW w \in Workers, TakeBatch(w)
    PROVE  Moved
<1>. USE DEF IInv, TypeOK
<1>1. /\ todo[w] = {} /\ msgs[w] # <<>> /\ Head(msgs[w]).type = "batch"
      /\ first' = first /\ pending' = pending /\ inflight' = inflight /\ iowait' = iowait
      /\ draining' = draining
      /\ todo' = [todo EXCEPT ![w] = DispatchOf(Head(msgs[w]).arg, w)]
      /\ msgs' = [msgs EXCEPT ![w] = Tail(@)]
  BY DEF TakeBatch, AtLoop, callerVars
<1>2. PICK c : c = Head(msgs[w]).arg
  OBVIOUS
<1>3. /\ msgs'[w] = Tail(msgs[w]) /\ todo'[w] = DispatchOf(c, w)
      /\ \A v \in Workers : v # w => SameQueues(v)
  BY <1>1, <1>2 DEF QueueType, SameQueues
<1>4. /\ Head(msgs[w]) \in Message
      /\ \A r : Mailed(r, w) = Mailed(r, w)' + One(Carriers(r, w), Head(msgs[w]))
      /\ \A k : Times(msgs[w], k)
                  = Times(msgs'[w], k) + (IF Head(msgs[w]) = k THEN 1 ELSE 0)
  BY <1>1, <1>3, MailTaken
<1>5. Head(msgs[w]) = Batch(c) /\ c \in Callers
  BY <1>1, <1>2, <1>4, MessageFacts
<1>6. QueueType'
  <2>1. Tail(msgs[w]) \in Seq(Message)
    BY <1>1 DEF QueueType
  <2>2. DispatchOf(c, w) \in SUBSET Requests
    BY DEF DispatchOf
  <2>. QED BY <1>1, <1>2, <2>1, <2>2 DEF QueueType
<1>7. ASSUME NEW r \in Requests PROVE Here(r, w)' = Here(r, w)
  <2>1. One(Carriers(r, w), Head(msgs[w])) = One(DispatchOf(c, w), r)
    BY <1>5, CarrierFacts DEF One, DispatchOf, Home
  <2>2. Mailed(r, w) \in Nat /\ Queued(r, w) \in Nat
    BY HereType
  <2>3. Mailed(r, w)' \in Nat
    <3>1. msgs'[w] \in Seq(Message)
      BY <1>6 DEF QueueType
    <3>. QED BY <3>1, OccurrencesType DEF Mailed
  <2>4. Queued(r, w)' = Queued(r, w) /\ One(todo[w], r) = 0
    BY <1>1 DEF Queued, One
  <2>5. One(DispatchOf(c, w), r) \in Nat
    BY DEF One
  <2>6. One(todo'[w], r) = One(DispatchOf(c, w), r)
    BY <1>3
  <2>7. Mailed(r, w) = Mailed(r, w)' + One(DispatchOf(c, w), r)
    BY <1>4, <2>1
  <2>. QED BY <1>1, <2>2, <2>3, <2>4, <2>5, <2>6, <2>7 DEF Here, One
<1>8. ASSUME NEW d \in Callers, Times(msgs'[w], Batch(d)) # 0 PROVE Times(msgs[w], Batch(d)) # 0
  <2>1. Times(msgs[w], Batch(d)) \in Nat /\ Times(msgs'[w], Batch(d)) \in Nat
    <3>1. msgs'[w] \in Seq(Message)
      BY <1>6 DEF QueueType
    <3>. QED BY <3>1, HereType, TimesType
  <2>. QED BY <1>4, <1>8, <2>1
<1>. QED BY <1>1, <1>3, <1>6, <1>7, <1>8, MovedAt

\* RetryIoCallback: the request leaves the bdev's wait queue or the mailbox.
LEMMA TakeRetryMoves ==
    ASSUME IInv, NEW w \in Workers, TakeRetry(w)
    PROVE  Moved
<1>. USE DEF IInv, TypeOK
<1>1. /\ todo[w] = {} /\ first' = first /\ pending' = pending /\ inflight' = inflight
      /\ draining' = draining
  BY DEF TakeRetry, AtLoop, callerVars
<1>2. ASSUME NEW q \in iowait[w], iowait' = [iowait EXCEPT ![w] = @ \ {q}],
             todo' = [todo EXCEPT ![w] = {q}], msgs' = msgs
      PROVE  Moved
  <2>1. /\ iowait'[w] = iowait[w] \ {q} /\ todo'[w] = {q} /\ q \in Requests
        /\ \A v \in Workers : v # w => SameQueues(v)
    BY <1>1, <1>2 DEF QueueType, SameQueues
  <2>2. QueueType'
    BY <1>1, <1>2, <2>1 DEF QueueType
  <2>3. ASSUME NEW r \in Requests PROVE Here(r, w)' = Here(r, w)
    <3>1. Mailed(r, w)' = Mailed(r, w) /\ Queued(r, w)' = Queued(r, w)
      BY <1>1, <1>2, HomeKept DEF Mailed, Queued
    <3>2. Mailed(r, w) \in Nat /\ Queued(r, w) \in Nat
      BY HereType
    <3>. QED BY <1>1, <1>2, <2>1, <3>1, <3>2 DEF Here, One
  <2>. QED BY <1>1, <1>2, <2>1, <2>2, <2>3, MovedAt
<1>3. ASSUME msgs[w] # <<>>, Head(msgs[w]).type = "retry",
             todo' = [todo EXCEPT ![w] = {Head(msgs[w]).arg}],
             msgs' = [msgs EXCEPT ![w] = Tail(@)], iowait' = iowait
      PROVE  Moved
  <2>1. PICK q : q = Head(msgs[w]).arg
    OBVIOUS
  <2>2. /\ msgs'[w] = Tail(msgs[w]) /\ todo'[w] = {q}
        /\ \A v \in Workers : v # w => SameQueues(v)
    BY <1>1, <1>3, <2>1 DEF QueueType, SameQueues
  <2>3. /\ Head(msgs[w]) \in Message
        /\ \A r : Mailed(r, w) = Mailed(r, w)' + One(Carriers(r, w), Head(msgs[w]))
        /\ \A k : Times(msgs[w], k)
                    = Times(msgs'[w], k) + (IF Head(msgs[w]) = k THEN 1 ELSE 0)
    BY <1>1, <1>3, <2>2, MailTaken
  <2>4. Head(msgs[w]) = Retry(q) /\ q \in Requests
    BY <1>3, <2>1, <2>3, MessageFacts
  <2>5. QueueType'
    <3>1. Tail(msgs[w]) \in Seq(Message)
      BY <1>3 DEF QueueType
    <3>. QED BY <1>1, <1>3, <2>1, <2>4, <3>1 DEF QueueType
  <2>6. msgs'[w] \in Seq(Message)
    BY <2>5 DEF QueueType
  <2>7. ASSUME NEW r \in Requests PROVE Here(r, w)' = Here(r, w)
    <3>1. One(Carriers(r, w), Head(msgs[w])) = IF r = q THEN 1 ELSE 0
      BY <2>4, CarrierFacts DEF One
    <3>2. Mailed(r, w)' \in Nat /\ Queued(r, w) \in Nat /\ Queued(r, w)' = Queued(r, w)
      BY <1>1, <2>6, HereType, OccurrencesType DEF Mailed, Queued
    <3>3. Mailed(r, w) = Mailed(r, w)' + (IF r = q THEN 1 ELSE 0)
      BY <2>3, <3>1
    <3>4. One(todo'[w], r) = (IF r = q THEN 1 ELSE 0) /\ One(todo[w], r) = 0
      BY <1>1, <2>2 DEF One
    <3>5. /\ One(inflight'[w], r) = One(inflight[w], r) /\ One(iowait'[w], r) = One(iowait[w], r)
          /\ One(inflight[w], r) \in Nat /\ One(iowait[w], r) \in Nat
      BY <1>1, <1>3 DEF One
    <3>. QED BY <3>2, <3>3, <3>4, <3>5 DEF Here
  <2>8. ASSUME NEW d \in Callers, Times(msgs'[w], Batch(d)) # 0
        PROVE  Times(msgs[w], Batch(d)) # 0
    <3>1. Batch(d) # Head(msgs[w])
      BY <2>4, MessageFacts
    <3>2. Times(msgs'[w], Batch(d)) \in Nat
      BY <2>6, TimesType
    <3>. QED BY <2>3, <2>8, <3>1, <3>2
  <2>. QED BY <1>1, <2>2, <2>5, <2>7, <2>8, MovedAt
<1>. QED BY <1>2, <1>3 DEF TakeRetry

\* FIFO and dispatch together hold p + u + e.
LEMMA HereWithout ==
    ASSUME NEW r, NEW w, NEW p \in Nat, NEW u \in Nat, NEW e \in Nat,
           Mailed(r, w) \in Nat, Queued(r, w) \in Nat,
           Queued(r, w) + One(todo[w], r) = p + u + e
    PROVE  Here(r, w) = Mailed(r, w) + p + u + One(inflight[w], r) + One(iowait[w], r) + e
<1>1. One(todo[w], r) \in Nat /\ One(inflight[w], r) \in Nat /\ One(iowait[w], r) \in Nat
  BY DEF One
<1>. QED BY <1>1 DEF Here

\* What is left of FIFO and dispatch after the turn of q = x.request.
LEMMA TurnTaken ==
    ASSUME IInv, NEW w \in Workers, NEW x \in Turn(w), first' = first,
           pending'[w] \in Seq(Requests), todo'[w] = x.todo
    PROVE  /\ x.request \notin inflight[w] /\ x.request \notin iowait[w]
           /\ w = Home(x.request) /\ Here(x.request, w) # 0
           /\ \A r \in Requests : Mailed(r, w) \in Nat /\ Queued(r, w)' \in Nat
           /\ \A r \in Requests :
                Here(r, w) = Mailed(r, w) + Times(x.pending, r) + One(todo'[w], r)
                               + One(inflight[w], r) + One(iowait[w], r)
                               + (IF r = x.request THEN 1 ELSE 0)
<1>. USE DEF IInv, TypeOK
<1>1. /\ x.request \in Requests
      /\ \A r : Times(x.pending, r) \in Nat
      /\ \A r : Queued(r, w) + One(todo[w], r)
                  = Times(x.pending, r) + One(x.todo, r)
                      + (IF r = x.request THEN 1 ELSE 0)
  BY TurnFacts
<1>2. \A r \in Requests : Mailed(r, w) \in Nat /\ Queued(r, w) \in Nat
  BY HereType
<1>3. \A r \in Requests : Queued(r, w)' \in Nat
  BY TimesType DEF Queued
<1>4. ASSUME NEW r \in Requests
      PROVE  Here(r, w) = Mailed(r, w) + Times(x.pending, r) + One(todo'[w], r)
                            + One(inflight[w], r) + One(iowait[w], r)
                            + (IF r = x.request THEN 1 ELSE 0)
  <2>1. /\ One(todo[w], r) \in Nat /\ One(x.todo, r) \in Nat /\ One(inflight[w], r) \in Nat
        /\ One(iowait[w], r) \in Nat /\ One(todo'[w], r) = One(x.todo, r)
    BY DEF One
  <2>2. Queued(r, w) + One(todo[w], r)
          = Times(x.pending, r) + One(x.todo, r) + (IF r = x.request THEN 1 ELSE 0)
    BY <1>1
  <2>3. Times(x.pending, r) \in Nat /\ Mailed(r, w) \in Nat /\ Queued(r, w) \in Nat
    BY <1>1, <1>2
  <2>4. PICK e \in Nat : e = IF r = x.request THEN 1 ELSE 0
    OBVIOUS
  <2>5. Queued(r, w) + One(todo[w], r) = Times(x.pending, r) + One(todo'[w], r) + e
    BY <2>1, <2>2, <2>4
  <2>6. Here(r, w) = Mailed(r, w) + Times(x.pending, r) + One(todo'[w], r)
                       + One(inflight[w], r) + One(iowait[w], r) + e
    <3>1. PICK p \in Nat, u \in Nat : p = Times(x.pending, r) /\ u = One(todo'[w], r)
      BY <2>1, <2>3
    <3>2. Queued(r, w) + One(todo[w], r) = p + u + e
      BY <2>5, <3>1
    <3>3. Here(r, w) = Mailed(r, w) + p + u + One(inflight[w], r) + One(iowait[w], r) + e
      BY <2>3, <3>2, HereWithout
    <3>. QED BY <3>1, <3>3
  <2>. QED BY <2>4, <2>6
<1>5. Here(x.request, w) # 0 /\ One(inflight[w], x.request) = 0 /\ One(iowait[w], x.request) = 0
  <2>1. /\ One(todo'[w], x.request) \in Nat /\ One(inflight[w], x.request) \in Nat
        /\ One(iowait[w], x.request) \in Nat
    BY DEF One
  <2>2. Here(x.request, w) = Mailed(x.request, w) + Times(x.pending, x.request)
          + One(todo'[w], x.request) + One(inflight[w], x.request)
          + One(iowait[w], x.request) + 1
    BY <1>1, <1>4
  <2>3. Times(x.pending, x.request) \in Nat /\ Mailed(x.request, w) \in Nat
    BY <1>1, <1>2
  <2>4. Here(x.request, w) # 0
    BY <2>1, <2>2, <2>3
  <2>5. Here(x.request, w) = 1
    BY <1>1, <2>4, HereMeans
  <2>. QED BY <2>1, <2>2, <2>3, <2>5
<1>6. w = Home(x.request)
  BY <1>1, <1>5, HereMeans
<1>7. x.request \notin inflight[w] /\ x.request \notin iowait[w]
  BY <1>5 DEF One
<1>. QED BY <1>2, <1>3, <1>4, <1>5, <1>6, <1>7

\* No buffer: the request joins the FIFO.
LEMMA StarvedMoves ==
    ASSUME IInv, NEW w \in Workers, ExecuteStarved(w)
    PROVE  Moved
<1>. USE DEF IInv, TypeOK
<1>1. PICK x \in Turn(w) : /\ pending' = [pending EXCEPT ![w] = Append(x.pending, x.request)]
                           /\ todo' = [todo EXCEPT ![w] = x.todo]
  BY DEF ExecuteStarved
<1>2. /\ first' = first /\ inflight' = inflight /\ iowait' = iowait /\ draining' = draining
      /\ msgs' = msgs
  BY DEF ExecuteStarved, callerVars
<1>3. x.request \in Requests /\ x.pending \in Seq(Requests) /\ x.todo \in SUBSET Requests
  BY TurnFacts
<1>4. Append(x.pending, x.request) \in Seq(Requests)
  BY <1>3
<1>5. /\ pending'[w] = Append(x.pending, x.request) /\ todo'[w] = x.todo
      /\ \A v \in Workers : v # w => SameQueues(v)
  BY <1>1, <1>2 DEF QueueType, SameQueues
<1>6. QueueType'
  BY <1>1, <1>2, <1>3, <1>4 DEF QueueType
<1>7. ASSUME NEW r \in Requests PROVE Here(r, w)' = Here(r, w)
  <2>1. Queued(r, w)' = Times(x.pending, r) + (IF r = x.request THEN 1 ELSE 0)
    BY <1>3, <1>5, TimesAppend DEF Queued
  <2>2. Mailed(r, w)' = Mailed(r, w)
    BY <1>2, HomeKept DEF Mailed
  <2>3. /\ Mailed(r, w) \in Nat
        /\ Here(r, w) = Mailed(r, w) + Times(x.pending, r) + One(todo'[w], r)
                         + One(inflight[w], r) + One(iowait[w], r)
                         + (IF r = x.request THEN 1 ELSE 0)
    BY <1>2, <1>4, <1>5, TurnTaken
  <2>4. Times(x.pending, r) \in Nat
    BY TurnFacts
  <2>. QED BY <1>2, <2>1, <2>2, <2>3, <2>4 DEF Here, One
<1>. QED BY <1>2, <1>5, <1>6, <1>7, MovedAt

\* The bdev accepts the command.
LEMMA SubmittedMoves ==
    ASSUME IInv, NEW w \in Workers, ExecuteSubmitted(w)
    PROVE  Moved
<1>. USE DEF IInv, TypeOK
<1>1. PICK x \in Turn(w) : /\ inflight' = [inflight EXCEPT ![w] = @ \cup {x.request}]
                           /\ pending' = [pending EXCEPT ![w] = x.pending]
                           /\ todo' = [todo EXCEPT ![w] = x.todo]
  BY DEF ExecuteSubmitted
<1>2. /\ first' = first /\ iowait' = iowait /\ draining' = draining /\ msgs' = msgs
  BY DEF ExecuteSubmitted, callerVars
<1>3. x.request \in Requests /\ x.pending \in Seq(Requests) /\ x.todo \in SUBSET Requests
  BY TurnFacts
<1>4. /\ pending'[w] = x.pending /\ todo'[w] = x.todo
      /\ inflight'[w] = inflight[w] \cup {x.request}
      /\ \A v \in Workers : v # w => SameQueues(v)
  BY <1>1, <1>2 DEF QueueType, SameQueues
<1>5. QueueType'
  BY <1>1, <1>2, <1>3 DEF QueueType
<1>6. x.request \notin inflight[w]
  BY <1>2, <1>3, <1>4, TurnTaken
<1>7. ASSUME NEW r \in Requests PROVE Here(r, w)' = Here(r, w)
  <2>1. Queued(r, w)' = Times(x.pending, r)
    BY <1>4 DEF Queued
  <2>2. Mailed(r, w)' = Mailed(r, w)
    BY <1>2, HomeKept DEF Mailed
  <2>3. /\ Mailed(r, w) \in Nat
        /\ Here(r, w) = Mailed(r, w) + Times(x.pending, r) + One(todo'[w], r)
                         + One(inflight[w], r) + One(iowait[w], r)
                         + (IF r = x.request THEN 1 ELSE 0)
    BY <1>2, <1>3, <1>4, TurnTaken
  <2>4. Times(x.pending, r) \in Nat
    BY TurnFacts
  <2>5. One(inflight'[w], r) = One(inflight[w], r) + (IF r = x.request THEN 1 ELSE 0)
    BY <1>4, <1>6 DEF One
  <2>. QED BY <1>2, <2>1, <2>2, <2>3, <2>4, <2>5 DEF Here, One
<1>. QED BY <1>2, <1>4, <1>5, <1>7, MovedAt

\* ENOMEM: it waits for the bdev, or for a message to itself.
LEMMA NoMemoryMoves ==
    ASSUME IInv, NEW w \in Workers, ExecuteNoMemory(w)
    PROVE  Moved
<1>. USE DEF IInv, TypeOK
<1>1. PICK x \in Turn(w) :
        /\ \/ iowait' = [iowait EXCEPT ![w] = @ \cup {x.request}] /\ msgs' = msgs
           \/ /\ msgs' = [msgs EXCEPT ![w] = Append(@, Retry(x.request))]
              /\ iowait' = iowait
        /\ pending' = [pending EXCEPT ![w] = x.pending]
        /\ todo' = [todo EXCEPT ![w] = x.todo]
  BY DEF ExecuteNoMemory, Retry
<1>2. /\ first' = first /\ inflight' = inflight /\ draining' = draining
  BY DEF ExecuteNoMemory, callerVars
<1>3. x.request \in Requests /\ x.pending \in Seq(Requests) /\ x.todo \in SUBSET Requests
  BY TurnFacts
<1>4. /\ pending'[w] = x.pending /\ todo'[w] = x.todo
      /\ \A v \in Workers : v # w => SameQueues(v)
  BY <1>1, <1>2 DEF QueueType, SameQueues
<1>5. /\ x.request \notin iowait[w]
      /\ \A r \in Requests :
           /\ Mailed(r, w) \in Nat
           /\ Here(r, w) = Mailed(r, w) + Times(x.pending, r) + One(todo'[w], r)
                             + One(inflight[w], r) + One(iowait[w], r)
                             + (IF r = x.request THEN 1 ELSE 0)
  BY <1>2, <1>3, <1>4, TurnTaken
<1>6. \A r : Queued(r, w)' = Times(x.pending, r) /\ Times(x.pending, r) \in Nat
  BY <1>4, TurnFacts DEF Queued
<1>7. CASE iowait' = [iowait EXCEPT ![w] = @ \cup {x.request}] /\ msgs' = msgs
  <2>1. iowait'[w] = iowait[w] \cup {x.request}
    BY <1>7 DEF QueueType
  <2>2. QueueType'
    BY <1>1, <1>2, <1>3, <1>7 DEF QueueType
  <2>3. ASSUME NEW r \in Requests PROVE Here(r, w)' = Here(r, w)
    <3>1. Mailed(r, w)' = Mailed(r, w)
      BY <1>2, <1>7, HomeKept DEF Mailed
    <3>2. One(iowait'[w], r) = One(iowait[w], r) + (IF r = x.request THEN 1 ELSE 0)
      BY <1>5, <2>1 DEF One
    <3>. QED BY <1>2, <1>5, <1>6, <3>1, <3>2 DEF Here, One
  <2>. QED BY <1>2, <1>4, <1>7, <2>2, <2>3, MovedAt
<1>8. CASE msgs' = [msgs EXCEPT ![w] = Append(@, Retry(x.request))] /\ iowait' = iowait
  <2>1. msgs'[w] = Append(msgs[w], Retry(x.request)) /\ Retry(x.request) \in Message
    BY <1>3, <1>8, MessageFacts DEF QueueType
  <2>2. QueueType'
    <3>1. Append(msgs[w], Retry(x.request)) \in Seq(Message)
      BY <2>1 DEF QueueType
    <3>. QED BY <1>1, <1>2, <1>3, <1>8, <3>1 DEF QueueType
  <2>3. /\ \A r : Mailed(r, w)' = Mailed(r, w) + One(Carriers(r, w), Retry(x.request))
        /\ \A k : Times(msgs'[w], k)
                    = Times(msgs[w], k) + (IF Retry(x.request) = k THEN 1 ELSE 0)
    BY <1>2, <2>1, MailAppended
  <2>4. ASSUME NEW r \in Requests PROVE Here(r, w)' = Here(r, w)
    <3>1. Mailed(r, w)' = Mailed(r, w) + (IF r = x.request THEN 1 ELSE 0)
      BY <2>3, CarrierFacts DEF One
    <3>. QED BY <1>2, <1>5, <1>6, <1>8, <3>1 DEF Here, One
  <2>5. \A c \in Callers : Times(msgs'[w], Batch(c)) = Times(msgs[w], Batch(c))
    <3>1. \A c : Batch(c) # Retry(x.request) /\ Times(msgs[w], Batch(c)) \in Nat
      BY MessageFacts, HereType
    <3>. QED BY <2>3, <3>1
  <2>. QED BY <1>2, <1>4, <2>2, <2>4, <2>5, MovedAt
<1>. QED BY <1>1, <1>7, <1>8

\* The command is refused, or there is no pool: the request leaves.
LEMMA TurnLeaves ==
    ASSUME IInv, NEW w \in Workers, ExecuteFails(w) \/ ExecuteTornDown(w)
    PROVE  \E x \in Turn(w) : Left(x.request, w) /\ CompleteRequest(w, x.request, "failed")
                              /\ x.request \in Requests
<1>. USE DEF IInv, TypeOK
<1>1. PICK x \in Turn(w) : /\ CompleteRequest(w, x.request, "failed")
                           /\ pending' = [pending EXCEPT ![w] = x.pending]
                           /\ todo' = [todo EXCEPT ![w] = x.todo]
  BY DEF ExecuteFails, ExecuteTornDown
<1>2. /\ first' = first /\ iowait' = iowait /\ inflight' = inflight /\ msgs' = msgs
      /\ draining' = [draining EXCEPT ![w] = TRUE]
  BY DEF ExecuteFails, ExecuteTornDown, callerVars
<1>3. x.request \in Requests /\ x.pending \in Seq(Requests) /\ x.todo \in SUBSET Requests
  BY TurnFacts
<1>4. /\ pending'[w] = x.pending /\ todo'[w] = x.todo
      /\ \A v \in Workers : v # w => SameQueues(v)
  BY <1>1, <1>2 DEF QueueType, SameQueues
<1>5. QueueType'
  BY <1>1, <1>2, <1>3 DEF QueueType
<1>6. ASSUME NEW r \in Requests
      PROVE  Here(r, w) = Here(r, w)' + (IF r = x.request THEN 1 ELSE 0)
  <2>1. Queued(r, w)' = Times(x.pending, r) /\ Times(x.pending, r) \in Nat
    BY <1>4, TurnFacts DEF Queued
  <2>2. Mailed(r, w)' = Mailed(r, w)
    BY <1>2, HomeKept DEF Mailed
  <2>3. /\ Mailed(r, w) \in Nat
        /\ Here(r, w) = Mailed(r, w) + Times(x.pending, r) + One(todo'[w], r)
                         + One(inflight[w], r) + One(iowait[w], r)
                         + (IF r = x.request THEN 1 ELSE 0)
    BY <1>2, <1>3, <1>4, TurnTaken
  <2>. QED BY <1>2, <2>1, <2>2, <2>3 DEF Here, One
<1>7. Left(x.request, w)
  BY <1>2, <1>3, <1>4, <1>5, <1>6, LeftAt
<1>. QED BY <1>1, <1>3, <1>7

Signals == {"begin", "shutdown", "ack"}

\* A mailbox changes at most by a message of the teardown, which arrives or is
\* taken.
MailStep(v) ==
    \/ msgs'[v] = msgs[v]
    \/ \E k \in Signals : msgs'[v] = Append(msgs[v], Signal(k))
    \/ msgs[v] # <<>> /\ Head(msgs[v]).type \in Signals /\ msgs'[v] = Tail(msgs[v])

\* The teardown's messages carry no request.
LEMMA SignalsMove ==
    ASSUME IInv, first' = first, pending' = pending, inflight' = inflight,
           iowait' = iowait, todo' = todo, draining' \in [Workers -> BOOLEAN],
           msgs' = [v \in Workers |-> msgs'[v]], \A v \in Workers : MailStep(v)
    PROVE  Moved
<1>. USE DEF IInv, TypeOK
<1>1. ASSUME NEW v \in Workers
      PROVE  /\ msgs'[v] \in Seq(Message)
             /\ \A r : Mailed(r, v)' = Mailed(r, v)
             /\ \A c : Times(msgs'[v], Batch(c)) = Times(msgs[v], Batch(c))
  <2>. DEFINE Goal == /\ msgs'[v] \in Seq(Message)
                      /\ \A r : Mailed(r, v)' = Mailed(r, v)
                      /\ \A c : Times(msgs'[v], Batch(c)) = Times(msgs[v], Batch(c))
  <2>1. msgs[v] \in Seq(Message)
    BY DEF QueueType
  <2>2. CASE msgs'[v] = msgs[v]
    BY <2>1, <2>2, HomeKept DEF Mailed
  <2>3. ASSUME NEW k \in Signals, msgs'[v] = Append(msgs[v], Signal(k)) PROVE Goal
    <3>1. Signal(k) \in Message /\ \A c : Batch(c) # Signal(k)
      BY MessageFacts DEF Signals
    <3>2. \A r : Signal(k) \notin Carriers(r, v)
      BY CarrierFacts DEF Signals
    <3>3. /\ \A r : Mailed(r, v)' = Mailed(r, v) + One(Carriers(r, v), Signal(k))
          /\ \A l : Times(msgs'[v], l) = Times(msgs[v], l) + (IF Signal(k) = l THEN 1 ELSE 0)
      BY <2>3, <3>1, MailAppended
    <3>4. \A r : Mailed(r, v) \in Nat
      BY HereType
    <3>5. \A l : Times(msgs[v], l) \in Nat
      BY HereType
    <3>6. \A r : Mailed(r, v)' = Mailed(r, v)
      BY <3>2, <3>3, <3>4 DEF One
    <3>7. \A c : Times(msgs'[v], Batch(c)) = Times(msgs[v], Batch(c))
      BY <3>1, <3>3, <3>5
    <3>8. msgs'[v] \in Seq(Message)
      BY <2>1, <2>3, <3>1
    <3>. QED BY <3>6, <3>7, <3>8
  <2>4. ASSUME msgs[v] # <<>>, Head(msgs[v]).type \in Signals, msgs'[v] = Tail(msgs[v])
        PROVE  Goal
    <3>1. /\ Head(msgs[v]) \in Message
          /\ \A r : Mailed(r, v) = Mailed(r, v)' + One(Carriers(r, v), Head(msgs[v]))
          /\ \A l : Times(msgs[v], l)
                      = Times(msgs'[v], l) + (IF Head(msgs[v]) = l THEN 1 ELSE 0)
      BY <2>4, MailTaken
    <3>2. PICK k \in Signals : Head(msgs[v]) = Signal(k)
      BY <2>4, <3>1, MessageFacts DEF Signals
    <3>3. \A c : Batch(c) # Signal(k)
      BY MessageFacts DEF Signals
    <3>4. \A r : Signal(k) \notin Carriers(r, v)
      BY CarrierFacts DEF Signals
    <3>5. msgs'[v] \in Seq(Message)
      BY <2>1, <2>4
    <3>6. \A r : Mailed(r, v)' \in Nat
      BY <3>5, OccurrencesType DEF Mailed
    <3>7. \A l : Times(msgs'[v], l) \in Nat
      BY <3>5, TimesType
    <3>8. \A r : Mailed(r, v)' = Mailed(r, v)
      BY <3>1, <3>2, <3>4, <3>6 DEF One
    <3>9. \A c : Times(msgs'[v], Batch(c)) = Times(msgs[v], Batch(c))
      BY <3>1, <3>2, <3>3, <3>7
    <3>. QED BY <3>5, <3>8, <3>9
  <2>. QED BY <2>2, <2>3, <2>4 DEF MailStep
<1>2. QueueType'
  BY <1>1 DEF QueueType
<1>3. ASSUME NEW r \in Requests, NEW v \in Workers PROVE Here(r, v)' = Here(r, v)
  BY <1>1 DEF Here, Queued, One
<1>. QED BY <1>1, <1>2, <1>3 DEF Moved

\* The steps that leave the requests where they are.
QuietStep ==
    \/ \E w \in Workers : \/ Notify(w) \/ DrainEnds(w) \/ TakeShutdown(w)
                          \/ ReleaseWorker(w) \/ ThreadDestroyed(w)
    \/ \E c \in Callers : CheckLifecycle(c) \/ Sleep(c) \/ BatchReturns(c)
    \/ BeginShutdown \/ TakeAck \/ BdevEvent

\* They move none.
LEMMA QuietMoves ==
    ASSUME IInv, QuietStep
    PROVE  Moved
<1>. USE DEF IInv, TypeOK
<1>1. msgs \in [Workers -> Seq(Message)] /\ draining \in [Workers -> BOOLEAN] /\ 0 \in Workers
  BY IoAssumption DEF QueueType, Workers
<1>2. /\ first' = first /\ pending' = pending /\ inflight' = inflight /\ iowait' = iowait
      /\ todo' = todo /\ draining' \in [Workers -> BOOLEAN]
  BY <1>1 DEF QuietStep, Notify, DrainEnds, TakeShutdown, ReleaseWorker, ThreadDestroyed,
       CheckLifecycle, Sleep, BatchReturns, BeginShutdown, TakeAck, BdevEvent,
       callerVars, queueVars
<1>3. /\ msgs' = [v \in Workers |-> msgs'[v]]
      /\ \A v \in Workers : MailStep(v)
  <2>1. ASSUME msgs' = msgs
        PROVE  msgs' = [v \in Workers |-> msgs'[v]] /\ \A v \in Workers : MailStep(v)
    BY <1>1, <2>1 DEF MailStep
  <2>2. ASSUME NEW u \in Workers, NEW k \in Signals,
               msgs' = [msgs EXCEPT ![u] = Append(@, Signal(k))]
        PROVE  msgs' = [v \in Workers |-> msgs'[v]] /\ \A v \in Workers : MailStep(v)
    BY <1>1, <2>2 DEF MailStep
  <2>3. ASSUME NEW u \in Workers, msgs[u] # <<>>, Head(msgs[u]).type \in Signals,
               msgs' = [msgs EXCEPT ![u] = Tail(@)]
        PROVE  msgs' = [v \in Workers |-> msgs'[v]] /\ \A v \in Workers : MailStep(v)
    BY <1>1, <2>3 DEF MailStep
  <2>4. CASE \E w \in Workers : Notify(w) \/ DrainEnds(w) \/ ThreadDestroyed(w)
    BY <2>1, <2>4 DEF Notify, DrainEnds, ThreadDestroyed
  <2>10. CASE \E c \in Callers : CheckLifecycle(c) \/ Sleep(c) \/ BatchReturns(c)
    BY <2>1, <2>10 DEF CheckLifecycle, Sleep, BatchReturns
  <2>5. CASE \E w \in Workers : TakeShutdown(w)
    BY <2>3, <2>5 DEF TakeShutdown, Signals
  <2>6. CASE \E w \in Workers : ReleaseWorker(w)
    BY <1>1, <2>1, <2>2, <2>6 DEF ReleaseWorker, Signals, Signal
  <2>7. CASE BdevEvent
    BY <1>1, <2>2, <2>7 DEF BdevEvent, Signals, Signal
  <2>8. CASE TakeAck
    BY <1>1, <2>3, <2>8 DEF TakeAck, Signals
  <2>9. CASE BeginShutdown
    <3>1. /\ msgs[0] # <<>> /\ Head(msgs[0]).type \in Signals
          /\ msgs' = [w \in Workers |-> IF w = 0 THEN Tail(msgs[0])
                                        ELSE Append(msgs[w], Signal("shutdown"))]
      BY <2>9 DEF BeginShutdown, Signals, Signal
    <3>2. "shutdown" \in Signals
      BY DEF Signals
    <3>3. ASSUME NEW v \in Workers PROVE MailStep(v)
      BY <3>1, <3>2 DEF MailStep
    <3>. QED BY <3>1, <3>3
  <2>. QED BY <2>4, <2>5, <2>6, <2>7, <2>8, <2>9, <2>10 DEF QuietStep
<1>. QED BY <1>2, <1>3, SignalsMove

\* complete_io_on_worker: the command leaves the bdev.
LEMMA CompleteIoLeaves ==
    ASSUME IInv, NEW w \in Workers, NEW q \in Requests, NEW success \in BOOLEAN,
           CompleteIo(w, q, success)
    PROVE  Left(q, w)
<1>. USE DEF IInv, TypeOK
<1>1. /\ first' = first /\ pending' = pending /\ iowait' = iowait /\ todo' = todo
      /\ msgs' = msgs /\ draining' = [draining EXCEPT ![w] = TRUE]
      /\ inflight' = [inflight EXCEPT ![w] = @ \ {q}] /\ q \in inflight[w]
  BY DEF CompleteIo, callerVars
<1>2. /\ inflight'[w] = inflight[w] \ {q}
      /\ \A v \in Workers : v # w => SameQueues(v)
  BY <1>1 DEF QueueType, SameQueues
<1>3. QueueType'
  BY <1>1 DEF QueueType
<1>4. ASSUME NEW r \in Requests
      PROVE  Here(r, w) = Here(r, w)' + (IF r = q THEN 1 ELSE 0)
  <2>1. Mailed(r, w)' = Mailed(r, w) /\ Queued(r, w)' = Queued(r, w)
    BY <1>1, HomeKept DEF Mailed, Queued
  <2>2. Mailed(r, w) \in Nat /\ Queued(r, w) \in Nat
    BY HereType
  <2>3. One(inflight[w], r) = One(inflight'[w], r) + (IF r = q THEN 1 ELSE 0)
    BY <1>1, <1>2 DEF One
  <2>. QED BY <1>1, <2>1, <2>2, <2>3 DEF Here, One
<1>. QED BY <1>1, <1>2, <1>3, <1>4, LeftAt

\* shutdown_io_worker: the first request of the FIFO leaves it.
LEMMA FailPendingLeaves ==
    ASSUME IInv, NEW w \in Workers, FailPending(w)
    PROVE  Head(pending[w]) \in Requests /\ Left(Head(pending[w]), w)
<1>. USE DEF IInv, TypeOK
<1>1. /\ first' = first /\ inflight' = inflight /\ iowait' = iowait /\ todo' = todo
      /\ msgs' = msgs /\ draining' = draining
      /\ pending' = [pending EXCEPT ![w] = Tail(@)] /\ pending[w] # <<>>
  BY DEF FailPending, callerVars
<1>2. pending[w] \in Seq(Requests) /\ Head(pending[w]) \in Requests
      /\ Tail(pending[w]) \in Seq(Requests)
  BY <1>1 DEF QueueType
<1>3. /\ pending'[w] = Tail(pending[w])
      /\ \A v \in Workers : v # w => SameQueues(v)
  BY <1>1 DEF QueueType, SameQueues
<1>4. QueueType'
  BY <1>1, <1>2 DEF QueueType
<1>5. PICK q \in Requests : q = Head(pending[w])
  BY <1>2
<1>6. ASSUME NEW r \in Requests
      PROVE  Here(r, w) = Here(r, w)' + (IF r = q THEN 1 ELSE 0)
  <2>1. Mailed(r, w)' = Mailed(r, w)
    BY <1>1, HomeKept DEF Mailed
  <2>2. Queued(r, w) = Queued(r, w)' + (IF r = q THEN 1 ELSE 0)
    BY <1>1, <1>2, <1>3, <1>5, TimesTail DEF Queued
  <2>3. Mailed(r, w) \in Nat /\ Queued(r, w)' \in Nat
    BY <1>2, <1>3, HereType, TimesType DEF Queued
  <2>. QED BY <1>1, <2>1, <2>2, <2>3 DEF Here, One
<1>. QED BY <1>1, <1>2, <1>3, <1>4, <1>5, <1>6, LeftAt

-----------------------------------------------------------------------------
(* The batches' part of the invariant, step by step *)

BatchesSound ==
    /\ CallerType
    /\ QueueType
    /\ notify \in [Workers -> Callers \cup {None}]
    /\ \A c \in Callers : CallerSound(c)
    /\ \A r \in Requests : PlaceSound(r)

\* The I/O workers' steps that submit, queue or fetch requests.
MovingStep(w) ==
    \/ TakeBatch(w) \/ TakeRetry(w)
    \/ ExecuteStarved(w) \/ ExecuteSubmitted(w) \/ ExecuteNoMemory(w)

\* Those that complete request q.
LeavingStep(w, q, outcome) ==
    /\ CompleteRequest(w, q, outcome)
    /\ \/ ExecuteFails(w) \/ ExecuteTornDown(w) \/ FailPending(w)
       \/ \E success \in BOOLEAN : CompleteIo(w, q, success)
    /\ Left(q, w)

\* A moving step.
LEMMA MovingStepBatches ==
    ASSUME IInv, NEW w \in Workers, MovingStep(w)
    PROVE  BatchesSound' /\ Moved
<1>1. Moved
  BY TakeBatchMoves, TakeRetryMoves, StarvedMoves, SubmittedMoves, NoMemoryMoves
  DEF MovingStep
<1>2. UNCHANGED <<callerVars, batchVars, notify>>
  BY DEF MovingStep, TakeBatch, TakeRetry, ExecuteStarved, ExecuteSubmitted, ExecuteNoMemory
<1>3. /\ first' = first /\ alive' = alive /\ unsent' = unsent
      /\ next_io_worker' = next_io_worker /\ remaining' = remaining /\ result' = result
      /\ cpc' = cpc /\ notify' = notify
  BY <1>2 DEF callerVars, batchVars
<1>4. cpc \in [Callers -> {"idle", "post", "send", "wait", "asleep"}]
      /\ notify \in [Workers -> Callers \cup {None}]
  BY DEF IInv, TypeOK, CallerType
<1>5. CallerType' /\ (\A c \in Callers : CallerSound(c)') /\ (\A r \in Requests : PlaceSound(r)')
  BY <1>1, <1>3, <1>4, MovesKeepBatches DEF Moved
<1>. QED BY <1>1, <1>3, <1>4, <1>5 DEF Moved, BatchesSound

\* A request completes on its worker.
LEMMA LeavingStepBatches ==
    ASSUME IInv, NEW w \in Workers, NEW q \in Requests, NEW outcome \in {"ok", "failed"},
           LeavingStep(w, q, outcome)
    PROVE  BatchesSound'
<1>1. CompleteRequest(w, q, outcome) /\ Left(q, w)
  BY DEF LeavingStep
<1>2. UNCHANGED callerVars
  BY DEF LeavingStep, ExecuteFails, ExecuteTornDown, FailPending, CompleteIo
<1>3. /\ CallerType' /\ (\A c \in Callers : CallerSound(c)') /\ (\A r \in Requests : PlaceSound(r)')
      /\ notify' \in [Workers -> Callers \cup {None}]
  BY <1>1, <1>2, CompletionKeepsBatches DEF Left
<1>. QED BY <1>1, <1>3 DEF Left, BatchesSound

\* The four ways it does.
LEMMA LeavingSteps ==
    ASSUME IInv, NEW w \in Workers,
           \/ ExecuteFails(w) \/ ExecuteTornDown(w) \/ FailPending(w)
           \/ \E q \in Requests, success \in BOOLEAN : CompleteIo(w, q, success)
    PROVE  \E q \in Requests, outcome \in {"ok", "failed"} : LeavingStep(w, q, outcome)
<1>1. CASE ExecuteFails(w) \/ ExecuteTornDown(w)
  BY <1>1, TurnLeaves DEF LeavingStep
<1>2. CASE FailPending(w)
  <2>1. CompleteRequest(w, Head(pending[w]), "failed")
    BY <1>2 DEF FailPending
  <2>. QED BY <1>2, <2>1, FailPendingLeaves DEF LeavingStep
<1>3. ASSUME NEW q \in Requests, NEW success \in BOOLEAN, CompleteIo(w, q, success)
      PROVE  \E outcome \in {"ok", "failed"} : LeavingStep(w, q, outcome)
  <2>1. CompleteRequest(w, q, OutcomeOf(w, q, success))
    BY <1>3 DEF CompleteIo
  <2>2. OutcomeOf(w, q, success) \in {"ok", "failed"}
    BY DEF OutcomeOf
  <2>3. Left(q, w)
    BY <1>3, CompleteIoLeaves
  <2>. QED BY <1>3, <2>1, <2>2, <2>3 DEF LeavingStep
<1>. QED BY <1>1, <1>2, <1>3

\* The steps that leave the requests where they are.
LEMMA QuietStepBatches ==
    ASSUME IInv, QuietStep
    PROVE  BatchesSound' /\ Moved
<1>. USE DEF IInv, TypeOK
<1>1. Moved
  BY QuietMoves
<1>2. /\ cpc \in [Callers -> {"idle", "post", "send", "wait", "asleep"}]
      /\ notify \in [Workers -> Callers \cup {None}]
  BY DEF CallerType
<1>3. ASSUME UNCHANGED <<first, alive, unsent, next_io_worker, remaining, result>>,
             cpc' \in [Callers -> {"idle", "post", "send", "wait", "asleep"}],
             \A c \in Callers : cpc'[c] = "idle" <=> cpc[c] = "idle",
             \A c \in Callers : cpc'[c] \in {"post", "send"} <=> cpc[c] \in {"post", "send"},
             notify' \in [Workers -> Callers \cup {None}]
      PROVE  BatchesSound'
  BY <1>1, <1>3, MovesKeepBatches DEF Moved, BatchesSound
<1>4. CASE cpc' = cpc /\ UNCHANGED <<callerVars, batchVars>>
           /\ notify' \in [Workers -> Callers \cup {None}]
  BY <1>1, <1>2, <1>3, <1>4 DEF callerVars, batchVars
<1>5. ASSUME NEW w \in Workers, Notify(w) PROVE BatchesSound'
  <2>1. /\ notify[w] \in Callers
        /\ cpc' = [cpc EXCEPT ![notify[w]] = IF @ = "asleep" THEN "wait" ELSE @]
        /\ notify' = [notify EXCEPT ![w] = None]
        /\ UNCHANGED <<first, alive, unsent, next_io_worker, remaining, result>>
    BY <1>2, <1>5 DEF Notify, batchVars
  <2>2. notify' \in [Workers -> Callers \cup {None}]
    BY <1>2, <2>1
  <2>. QED BY <1>2, <1>3, <2>1, <2>2
<1>6. ASSUME NEW c \in Callers, CheckLifecycle(c) \/ Sleep(c) PROVE BatchesSound'
  <2>1. /\ UNCHANGED <<first, alive, unsent, next_io_worker, remaining, result>> /\ notify' = notify
        /\ \/ cpc[c] = "post" /\ cpc' = [cpc EXCEPT ![c] = "send"]
           \/ cpc[c] = "wait" /\ cpc' = [cpc EXCEPT ![c] = "asleep"]
    BY <1>6 DEF CheckLifecycle, Sleep, batchVars
  <2>. QED BY <1>2, <1>3, <2>1
<1>7. ASSUME NEW c \in Callers, BatchReturns(c) PROVE BatchesSound'
  <2>1. /\ UNCHANGED <<first, unsent, next_io_worker, remaining, result>> /\ notify' = notify
        /\ cpc[c] = "wait" /\ remaining[c] = 0
        /\ alive' = [alive EXCEPT ![c] = FALSE] /\ cpc' = [cpc EXCEPT ![c] = "idle"]
    BY <1>7 DEF BatchReturns, batchVars
  <2>2. CallerType'
    BY <2>1 DEF CallerType
  <2>3. \A d : Unanswered(d)' = Unanswered(d)
    BY <2>1 DEF Unanswered
  <2>4. ASSUME NEW d \in Callers PROVE CallerSound(d)'
    <3>1. \A w : DispatchOf(d, w)' = DispatchOf(d, w)
      BY <2>1, HomeKept
    <3>. QED BY <1>1, <2>1, <2>3, <3>1 DEF CallerSound, CallerType, Moved
  <2>5. ASSUME NEW i \in 1 .. ItemCount PROVE result[<<c, i>>] # None
    <3>2. IsFiniteSet(Unanswered(c))
      BY UnansweredFinite
    <3>3. alive[c] /\ Cardinality(Unanswered(c)) = 0
      BY <2>1 DEF CallerSound
    <3>4. Unanswered(c) = {}
      BY <3>2, <3>3, FS_EmptySet
    <3>. QED BY <3>4 DEF Unanswered
  <2>6. ASSUME NEW r \in Requests PROVE PlaceSound(r)'
    <3>1. r[1] \in Callers /\ r[2] \in 1 .. ItemCount /\ r = <<r[1], r[2]>>
      BY HomeType
    <3>2. Waited(r)' <=> Waited(r)
      BY <2>1, <2>5, <3>1 DEF Waited, CallerType
    <3>3. Home(r)' = Home(r) /\ (Unposted(r)' <=> Unposted(r))
      BY <2>1, <3>1, HomeKept DEF Unposted, CallerType
    <3>. QED BY <1>1, <3>2, <3>3 DEF PlaceSound, Placed, Moved
  <2>. QED BY <1>1, <1>2, <2>1, <2>2, <2>4, <2>6 DEF BatchesSound, Moved
<1>8. CASE \/ \E w \in Workers : DrainEnds(w) \/ TakeShutdown(w) \/ ReleaseWorker(w)
                                 \/ ThreadDestroyed(w)
           \/ BeginShutdown \/ TakeAck \/ BdevEvent
  <2>1. UNCHANGED <<callerVars, batchVars, notify>>
    BY <1>8 DEF DrainEnds, TakeShutdown, ReleaseWorker, ThreadDestroyed, BeginShutdown,
         TakeAck, BdevEvent
  <2>. QED BY <1>2, <1>4, <2>1 DEF callerVars
<1>. QED BY <1>1, <1>5, <1>6, <1>7, <1>8 DEF QuietStep

\* One dispatch is dealt with: its requests are unposted no more, the others of
\* the batch as before.
LEMMA DispatchDone ==
    ASSUME IInv, NEW c \in Callers, NEW w, cpc[c] \in {"post", "send"},
           w = Lowest(unsent[c]), AfterDispatch(c, w), first' = first
    PROVE  /\ w \in unsent[c] /\ w \in Workers
           /\ cpc' \in [Callers -> {"idle", "post", "send", "wait", "asleep"}]
           /\ unsent' \in [Callers -> SUBSET Workers]
           /\ \A r \in DispatchOf(c, w) : Unposted(r) /\ r \in Requests
           /\ \A r \in Requests : Unposted(r)' <=> Unposted(r) /\ r \notin DispatchOf(c, w)
           /\ \A d \in Callers : cpc'[d] = "idle" <=> cpc[d] = "idle"
           /\ \A d \in Callers : cpc'[d] \in {"post", "send"} =>
                unsent'[d] # {} /\ \A v \in unsent'[d] : DispatchOf(d, v) # {}
           /\ DispatchOf(c, w) # {}
<1>1. /\ cpc \in [Callers -> {"idle", "post", "send", "wait", "asleep"}]
      /\ unsent \in [Callers -> SUBSET Workers]
  BY DEF IInv, TypeOK, CallerType
<1>2. unsent[c] # {} /\ \A v \in unsent[c] : DispatchOf(c, v) # {}
  BY DEF IInv, CallerSound
<1>3. w \in unsent[c] /\ w \in Workers
  BY <1>1, <1>2, LowestIn
<1>4. /\ unsent' = [unsent EXCEPT ![c] = @ \ {w}]
      /\ cpc' = [cpc EXCEPT ![c] = IF unsent[c] = {w} THEN "wait" ELSE "post"]
  BY DEF AfterDispatch
<1>5. /\ unsent'[c] = unsent[c] \ {w} /\ cpc'[c] = (IF unsent[c] = {w} THEN "wait" ELSE "post")
      /\ \A d \in Callers : d # c => unsent'[d] = unsent[d] /\ cpc'[d] = cpc[d]
      /\ cpc' \in [Callers -> {"idle", "post", "send", "wait", "asleep"}]
      /\ unsent' \in [Callers -> SUBSET Workers]
  BY <1>1, <1>4
<1>6. \A r \in DispatchOf(c, w) : Unposted(r) /\ r \in Requests
  BY <1>3 DEF DispatchOf, Unposted, Home
<1>7. ASSUME NEW r \in Requests
      PROVE  Unposted(r)' <=> Unposted(r) /\ r \notin DispatchOf(c, w)
  <2>1. Home(r)' = Home(r) /\ r[1] \in Callers
    BY HomeKept DEF Requests
  <2>2. r \in DispatchOf(c, w) <=> r[1] = c /\ Home(r) = w
    BY DEF DispatchOf, Home
  <2>. QED BY <1>3, <1>5, <2>1, <2>2 DEF Unposted
<1>8. \A d \in Callers : cpc'[d] = "idle" <=> cpc[d] = "idle"
  BY <1>5
<1>9. ASSUME NEW d \in Callers, cpc'[d] \in {"post", "send"}
      PROVE  unsent'[d] # {} /\ \A v \in unsent'[d] : DispatchOf(d, v) # {}
  <2>1. CASE d = c
    BY <1>2, <1>3, <1>5, <1>9, <2>1
  <2>2. CASE d # c
    BY <1>5, <1>9, <2>2 DEF IInv, CallerSound
  <2>. QED BY <2>1, <2>2
<1>. QED BY <1>2, <1>3, <1>5, <1>6, <1>7, <1>8, <1>9

\* The dispatch is posted.
LEMMA SendBatches ==
    ASSUME IInv, NEW c \in Callers, Send(c)
    PROVE  BatchesSound'
<1>. USE DEF IInv, TypeOK
<1>1. PICK w : w = Lowest(unsent[c])
  OBVIOUS
<1>2. /\ cpc[c] = "send" /\ msgs' = [msgs EXCEPT ![w] = Append(@, Batch(c))]
      /\ AfterDispatch(c, w)
      /\ UNCHANGED <<next_io_worker, first, alive, remaining, result, notify>>
      /\ UNCHANGED <<pending, inflight, iowait, todo, draining>>
  BY <1>1 DEF Send, Batch, batchVars, queueVars
<1>3. /\ w \in unsent[c] /\ w \in Workers
      /\ cpc' \in [Callers -> {"idle", "post", "send", "wait", "asleep"}]
      /\ unsent' \in [Callers -> SUBSET Workers]
      /\ \A r \in DispatchOf(c, w) : Unposted(r) /\ r \in Requests
      /\ \A r \in Requests : Unposted(r)' <=> Unposted(r) /\ r \notin DispatchOf(c, w)
      /\ \A d \in Callers : cpc'[d] = "idle" <=> cpc[d] = "idle"
      /\ \A d \in Callers : cpc'[d] \in {"post", "send"} =>
           unsent'[d] # {} /\ \A v \in unsent'[d] : DispatchOf(d, v) # {}
      /\ DispatchOf(c, w) # {}
  BY <1>1, <1>2, DispatchDone
<1>4. CallerType'
  BY <1>2, <1>3 DEF CallerType
<1>5. /\ msgs'[w] = Append(msgs[w], Batch(c)) /\ Batch(c) \in Message
      /\ \A v \in Workers : v # w => SameQueues(v)
  BY <1>2, <1>3, MessageFacts DEF QueueType, SameQueues
<1>6. QueueType'
  <2>1. Append(msgs[w], Batch(c)) \in Seq(Message)
    BY <1>3, <1>5 DEF QueueType
  <2>. QED BY <1>2, <2>1 DEF QueueType
<1>7. /\ \A r : Mailed(r, w)' = Mailed(r, w) + One(Carriers(r, w), Batch(c))
      /\ \A k : Times(msgs'[w], k) = Times(msgs[w], k) + (IF Batch(c) = k THEN 1 ELSE 0)
  BY <1>2, <1>3, <1>5, MailAppended
<1>8. ASSUME NEW r \in Requests, NEW v \in Workers
      PROVE  Here(r, v)' = Here(r, v) + (IF v = w /\ r \in DispatchOf(c, w) THEN 1 ELSE 0)
  <2>0. Here(r, v) \in Nat
    BY HereType
  <2>1. CASE v # w
    BY <1>2, <1>5, <2>0, <2>1, HereKept
  <2>2. CASE v = w
    <3>1. One(Carriers(r, w), Batch(c)) = IF r \in DispatchOf(c, w) THEN 1 ELSE 0
      BY CarrierFacts DEF One, DispatchOf, Home
    <3>2. PICK e \in Nat : e = IF r \in DispatchOf(c, w) THEN 1 ELSE 0
      OBVIOUS
    <3>3. Mailed(r, w)' = Mailed(r, w) + e
      BY <1>7, <3>1, <3>2
    <3>4. Mailed(r, w) \in Nat /\ Queued(r, w) \in Nat /\ Queued(r, w)' = Queued(r, w)
      BY <1>2, <1>3, HereType DEF Queued
    <3>5. Here(r, w)' = Here(r, w) + e
      BY <1>2, <3>2, <3>3, <3>4 DEF Here, One
    <3>. QED BY <2>2, <3>2, <3>5
  <2>. QED BY <2>1, <2>2
<1>9. ASSUME NEW d \in Callers PROVE CallerSound(d)'
  <2>1. Unanswered(d)' = Unanswered(d)
    BY <1>2 DEF Unanswered
  <2>2. \A v : DispatchOf(d, v)' = DispatchOf(d, v)
    BY <1>2, HomeKept
  <2>3. ASSUME NEW v \in Workers, Times(msgs'[v], Batch(d)) # 0 PROVE DispatchOf(d, v) # {}
    <3>1. CASE v = w /\ d = c
      BY <1>3, <3>1
    <3>2. CASE ~ (v = w /\ d = c)
      <4>1. Times(msgs'[v], Batch(d)) = Times(msgs[v], Batch(d))
        <5>1. CASE v # w
          BY <1>5, <5>1 DEF SameQueues
        <5>2. CASE v = w /\ d # c
          <6>1. Batch(c) # Batch(d)
            BY <5>2, MessageFacts
          <6>2. Times(msgs[w], Batch(d)) \in Nat
            BY <1>3, HereType
          <6>. QED BY <1>7, <5>2, <6>1, <6>2
        <5>. QED BY <3>2, <5>1, <5>2
      <4>. QED BY <2>3, <4>1 DEF CallerSound
    <3>. QED BY <3>1, <3>2
  <2>. QED BY <1>2, <1>3, <2>1, <2>2, <2>3 DEF CallerSound
<1>10. ASSUME NEW r \in Requests PROVE PlaceSound(r)'
  <2>1. Home(r)' = Home(r) /\ Waited(r)' = Waited(r)
    BY <1>2, HomeKept DEF Waited
  <2>2. r \in DispatchOf(c, w) => Home(r) = w /\ Unposted(r) /\ Waited(r)
    BY <1>3 DEF DispatchOf, Home, PlaceSound
  <2>3. Unposted(r)' <=> Unposted(r) /\ r \notin DispatchOf(c, w)
    BY <1>3
  <2>. QED BY <1>8, <2>1, <2>2, <2>3 DEF PlaceSound, Placed
<1>. QED BY <1>2, <1>4, <1>6, <1>9, <1>10 DEF BatchesSound

\* A dispatch has as many requests as it has items.
LEMMA DispatchSize ==
    ASSUME NEW c \in Callers, NEW lost \in SUBSET Requests, \A r \in lost : r[1] = c
    PROVE  LET items == {i \in 1 .. ItemCount : <<c, i>> \in lost}
           IN  IsFiniteSet(items) /\ Cardinality(lost) = Cardinality(items)
<1>. DEFINE items == {i \in 1 .. ItemCount : <<c, i>> \in lost}
            f == [i \in items |-> <<c, i>>]
<1>1. IsFiniteSet(items)
  <2>1. items \in SUBSET (1 .. ItemCount)
    OBVIOUS
  <2>. QED BY <2>1, UnansweredFinite, FS_Subset
<1>2. f \in [items -> lost] /\ \A i, j \in items : f[i] = f[j] => i = j
  OBVIOUS
<1>3. \A r \in lost : \E i \in items : f[i] = r
  <2>1. ASSUME NEW r \in lost PROVE \E i \in items : f[i] = r
    <3>1. r = <<c, r[2]>> /\ r[2] \in 1 .. ItemCount
      BY DEF Requests
    <3>2. r[2] \in items
      BY <3>1
    <3>. QED BY <3>1, <3>2
  <2>. QED BY <2>1
<1>4. f \in Bijection(items, lost)
  BY <1>2, <1>3 DEF Bijection, Injection, Surjection, IsInjective
<1>5. ExistsBijection(items, lost)
  BY <1>4 DEF ExistsBijection
<1>. QED BY <1>1, <1>5, FS_Bijection

\* The dispatch is refused, or its thread is gone: its requests fail with the
\* caller.
LEMMA FailDispatchBatches ==
    ASSUME IInv, NEW c \in Callers, SendRefused(c) \/ SendFails(c)
    PROVE  BatchesSound'
<1>. USE DEF IInv, TypeOK
<1>1. PICK w : w = Lowest(unsent[c])
  OBVIOUS
<1>2. PICK lost : lost = DispatchOf(c, w)
  OBVIOUS
<1>3. /\ cpc[c] \in {"post", "send"} /\ AfterDispatch(c, w)
      /\ result' = [r \in Requests |-> IF r \in lost THEN "failed" ELSE result[r]]
      /\ remaining' = [remaining EXCEPT ![c] = @ - Cardinality(lost)]
      /\ UNCHANGED <<next_io_worker, first, alive, notify, msgs>>
      /\ UNCHANGED <<pending, inflight, iowait, todo, draining>>
  BY <1>1, <1>2 DEF SendRefused, SendFails, FailDispatch, queueVars
<1>4. /\ w \in unsent[c] /\ w \in Workers
      /\ cpc' \in [Callers -> {"idle", "post", "send", "wait", "asleep"}]
      /\ unsent' \in [Callers -> SUBSET Workers]
      /\ \A r \in lost : Unposted(r) /\ r \in Requests
      /\ \A r \in Requests : Unposted(r)' <=> Unposted(r) /\ r \notin lost
      /\ \A d \in Callers : cpc'[d] = "idle" <=> cpc[d] = "idle"
      /\ \A d \in Callers : cpc'[d] \in {"post", "send"} =>
           unsent'[d] # {} /\ \A v \in unsent'[d] : DispatchOf(d, v) # {}
  BY <1>1, <1>2, <1>3, DispatchDone
<1>5. \A r \in lost : r[1] = c
  BY <1>2 DEF DispatchOf
<1>6. \A r \in lost : result[r] = None
  BY <1>4 DEF PlaceSound, Waited
<1>7. PICK items : items = {i \in 1 .. ItemCount : <<c, i>> \in lost}
  OBVIOUS
<1>8. /\ result \in [Requests -> {None, "ok", "failed"}]
      /\ remaining \in [Callers -> 0 .. ItemCount]
  BY DEF CallerType
<1>9. /\ Unanswered(c)' = Unanswered(c) \ items /\ Unanswered(c) \cap items = items
      /\ \A d \in Callers : d # c => Unanswered(d)' = Unanswered(d)
  <2>1. ASSUME NEW d \in Callers, NEW i \in 1 .. ItemCount
        PROVE  /\ result'[<<d, i>>] = IF <<d, i>> \in lost THEN "failed" ELSE result[<<d, i>>]
               /\ <<d, i>> \in lost <=> d = c /\ i \in items
    <3>1. <<d, i>> \in Requests
      BY DEF Requests
    <3>2. <<d, i>> \in lost => d = c
      BY <1>5
    <3>. QED BY <1>3, <1>7, <3>1, <3>2
  <2>2. "failed" # None
    BY IoAssumption
  <2>3. items \subseteq 1 .. ItemCount
    BY <1>7
  <2>4. \A d \in Callers : Unanswered(d)' = {i \in 1 .. ItemCount : result'[<<d, i>>] = None}
    BY DEF Unanswered
  <2>5. \A d \in Callers : d # c => Unanswered(d)' = Unanswered(d)
    <3>1. \A d \in Callers, i \in 1 .. ItemCount : d # c => result'[<<d, i>>] = result[<<d, i>>]
      BY <2>1
    <3>. QED BY <2>4, <3>1 DEF Unanswered
  <2>6. Unanswered(c)' = Unanswered(c) \ items
    <3>1. \A i \in 1 .. ItemCount :
            result'[<<c, i>>] = IF i \in items THEN "failed" ELSE result[<<c, i>>]
      BY <2>1
    <3>. QED BY <2>2, <2>4, <3>1 DEF Unanswered
  <2>7. items \subseteq Unanswered(c)
    BY <1>6, <1>7 DEF Unanswered
  <2>. QED BY <2>5, <2>6, <2>7
<1>10. /\ remaining[c] = Cardinality(Unanswered(c))
       /\ Cardinality(Unanswered(c)') = remaining[c] - Cardinality(lost)
       /\ Cardinality(Unanswered(c)') \in Nat /\ Cardinality(lost) \in Nat
  <2>1. alive[c] /\ remaining[c] = Cardinality(Unanswered(c))
    BY <1>3 DEF CallerSound
  <2>2. lost \in SUBSET Requests
    BY <1>4
  <2>3. IsFiniteSet(items) /\ Cardinality(lost) = Cardinality(items)
    BY <1>5, <1>7, <2>2, DispatchSize
  <2>4. IsFiniteSet(Unanswered(c))
    BY UnansweredFinite
  <2>5. /\ IsFiniteSet(Unanswered(c) \ items)
        /\ Cardinality(Unanswered(c) \ items)
             = Cardinality(Unanswered(c)) - Cardinality(Unanswered(c) \cap items)
    BY <2>4, FS_Difference
  <2>. QED BY <1>9, <2>1, <2>3, <2>5, FS_CardinalityType
<1>11. CallerType'
  <2>1. remaining[c] \in 0 .. ItemCount
    BY <1>8
  <2>2. remaining[c] - Cardinality(lost) \in 0 .. ItemCount
    BY <1>10, <2>1, IoAssumption
  <2>3. remaining' \in [Callers -> 0 .. ItemCount]
    BY <1>3, <1>8, <2>2
  <2>4. result' \in [Requests -> {None, "ok", "failed"}]
    BY <1>3, <1>8
  <2>. QED BY <1>3, <1>4, <2>3, <2>4 DEF CallerType
<1>12. QueueType'
  BY <1>3 DEF QueueType
<1>13. ASSUME NEW d \in Callers PROVE CallerSound(d)'
  <2>1. alive[d] => remaining'[d] = Cardinality(Unanswered(d)')
    <3>1. CASE d = c
      BY <1>3, <1>8, <1>10, <3>1
    <3>2. CASE d # c
      BY <1>3, <1>8, <1>9, <3>2 DEF CallerSound
    <3>. QED BY <3>1, <3>2
  <2>2. \A v : DispatchOf(d, v)' = DispatchOf(d, v)
    BY <1>3, HomeKept
  <2>. QED BY <1>3, <1>4, <2>1, <2>2 DEF CallerSound
<1>14. ASSUME NEW r \in Requests PROVE PlaceSound(r)'
  <2>1. Home(r)' = Home(r)
    BY <1>3, HomeKept
  <2>2. Waited(r)' <=> Waited(r) /\ r \notin lost
    <3>1. "failed" # None
      BY IoAssumption
    <3>. QED BY <1>3, <3>1 DEF Waited
  <2>3. Unposted(r)' <=> Unposted(r) /\ r \notin lost
    BY <1>4
  <2>4. r \in lost => Unposted(r)
    BY <1>4
  <2>5. ASSUME NEW v \in Workers PROVE Here(r, v)' = Here(r, v)
    BY <1>3, HereKept DEF SameQueues
  <2>. QED BY <2>1, <2>2, <2>3, <2>4, <2>5 DEF PlaceSound, Placed
<1>. QED BY <1>3, <1>11, <1>12, <1>13, <1>14 DEF BatchesSound

\* A caller outside the call has nothing with the workers.
LEMMA IdleCallerGone ==
    ASSUME IInv, NEW c \in Callers, cpc[c] = "idle"
    PROVE  /\ \A r \in Requests, v \in Workers : r[1] = c =>
                /\ r \notin todo[v] /\ r \notin inflight[v] /\ r \notin iowait[v]
                /\ Queued(r, v) = 0 /\ Times(msgs[v], Retry(r)) = 0
           /\ \A v \in Workers : Times(msgs[v], Batch(c)) = 0
<1>. USE DEF IInv, TypeOK
<1>1. ASSUME NEW r \in Requests, NEW v \in Workers, r[1] = c
      PROVE  /\ r \notin todo[v] /\ r \notin inflight[v] /\ r \notin iowait[v]
             /\ Queued(r, v) = 0 /\ Mailed(r, v) = 0
  <2>1. ~ Waited(r)
    BY <1>1 DEF CallerSound, Waited
  <2>. QED BY <2>1, HereMeans
<1>2. ASSUME NEW r \in Requests, NEW v \in Workers, r[1] = c
      PROVE  /\ \A i \in DOMAIN msgs[v] : msgs[v][i] \notin Carriers(r, v)
             /\ Times(msgs[v], Retry(r)) = 0
             /\ v = Home(r) => Times(msgs[v], Batch(c)) = 0
  <2>1. msgs[v] \in Seq(Message) /\ Occurrences(msgs[v], Carriers(r, v)) = 0
    BY <1>1, <1>2 DEF QueueType, Mailed
  <2>2. \A i \in DOMAIN msgs[v] : msgs[v][i] \notin Carriers(r, v)
    BY <2>1, OccurrencesType
  <2>3. Retry(r) \in Carriers(r, v)
    BY CarrierFacts
  <2>4. v = Home(r) => Batch(c) \in Carriers(r, v)
    BY <1>2, CarrierFacts
  <2>5. \A k : k \in Carriers(r, v) => Times(msgs[v], k) = 0
    BY <2>1, <2>2, OccurrencesType DEF Times
  <2>. QED BY <2>2, <2>3, <2>4, <2>5
<1>3. ASSUME NEW v \in Workers PROVE Times(msgs[v], Batch(c)) = 0
  <2>1. SUFFICES ASSUME DispatchOf(c, v) # {} PROVE Times(msgs[v], Batch(c)) = 0
    BY DEF CallerSound
  <2>2. PICK r \in Requests : r[1] = c /\ Home(r) = v
    BY <2>1 DEF DispatchOf, Home
  <2>. QED BY <1>2, <2>2
<1>. QED BY <1>1, <1>2, <1>3

\* A batch begins: nothing of the caller's is with the workers yet.
LEMMA BeginBatchBatches ==
    ASSUME IInv, NEW c \in Callers, BeginBatch(c)
    PROVE  BatchesSound'
<1>. USE DEF IInv, TypeOK
<1>1. /\ cpc[c] = "idle"
      /\ first' = [first EXCEPT ![c] = next_io_worker]
      /\ next_io_worker' = (next_io_worker + 1) % WorkerCount
      /\ unsent' = [unsent EXCEPT ![c] =
                      {(next_io_worker + (i - 1)) % WorkerCount : i \in 1 .. ItemCount}]
      /\ alive' = [alive EXCEPT ![c] = TRUE]
      /\ remaining' = [remaining EXCEPT ![c] = ItemCount]
      /\ result' = [r \in Requests |-> IF r[1] = c THEN None ELSE result[r]]
      /\ cpc' = [cpc EXCEPT ![c] = "post"]
      /\ UNCHANGED <<notify, msgs>>
      /\ UNCHANGED <<pending, inflight, iowait, todo, draining>>
  BY DEF BeginBatch, queueVars
<1>2. \A n \in Nat : n % WorkerCount \in Workers
  BY IoAssumption DEF Workers
<1>3. next_io_worker \in Nat /\ next_io_worker \in Workers /\ ItemCount \in Nat \ {0}
  BY IoAssumption DEF CallerType, Workers
<1>4. CallerType'
  <2>1. \A i \in 1 .. ItemCount : (next_io_worker + (i - 1)) % WorkerCount \in Workers
    BY <1>2, <1>3
  <2>2. next_io_worker' \in Workers
    BY <1>1, <1>2, <1>3
  <2>3. unsent' \in [Callers -> SUBSET Workers]
    BY <1>1, <2>1 DEF CallerType
  <2>4. remaining' \in [Callers -> 0 .. ItemCount]
    BY <1>1, <1>3 DEF CallerType
  <2>5. result' \in [Requests -> {None, "ok", "failed"}]
    BY <1>1 DEF CallerType
  <2>6. first' \in [Callers -> Workers]
    BY <1>1, <1>3 DEF CallerType
  <2>7. cpc' \in [Callers -> {"idle", "post", "send", "wait", "asleep"}]
        /\ alive' \in [Callers -> BOOLEAN]
    BY <1>1 DEF CallerType
  <2>. QED BY <2>2, <2>3, <2>4, <2>5, <2>6, <2>7 DEF CallerType
<1>5. QueueType'
  BY <1>1 DEF QueueType
<1>6. /\ first'[c] = next_io_worker /\ cpc'[c] = "post" /\ alive'[c] = TRUE
      /\ remaining'[c] = ItemCount
      /\ unsent'[c] = {(next_io_worker + (i - 1)) % WorkerCount : i \in 1 .. ItemCount}
      /\ \A d \in Callers : d # c =>
           /\ first'[d] = first[d] /\ cpc'[d] = cpc[d] /\ alive'[d] = alive[d]
           /\ remaining'[d] = remaining[d] /\ unsent'[d] = unsent[d]
  BY <1>1 DEF CallerType
<1>7. \A r \in Requests : r[1] # c => Home(r)' = Home(r)
  BY <1>6 DEF Home, WorkerOf, Requests
<1>8. \A r \in Requests : r[1] = c => Home(r)' \in unsent'[c] /\ Home(r)' \in Workers
  <2>1. ASSUME NEW r \in Requests, r[1] = c
        PROVE  Home(r)' = (next_io_worker + (r[2] - 1)) % WorkerCount /\ r[2] \in 1 .. ItemCount
    BY <1>6, <2>1 DEF Home, WorkerOf, Requests
  <2>2. unsent'[c] \subseteq Workers
    BY <1>4 DEF CallerType
  <2>. QED BY <1>6, <2>1, <2>2
<1>9. ASSUME NEW d \in Callers, NEW v
      PROVE  d # c => DispatchOf(d, v)' = DispatchOf(d, v)
  BY <1>6 DEF DispatchOf, WorkerOf
<1>10. unsent'[c] # {} /\ \A v \in unsent'[c] : DispatchOf(c, v)' # {}
  <2>1. unsent'[c] # {}
    BY <1>3, <1>6
  <2>2. ASSUME NEW v \in unsent'[c] PROVE DispatchOf(c, v)' # {}
    <3>1. PICK i \in 1 .. ItemCount : v = (next_io_worker + (i - 1)) % WorkerCount
      BY <1>6
    <3>2. <<c, i>> \in Requests /\ WorkerOf(c, i)' = v
      BY <1>6, <3>1 DEF Requests, WorkerOf
    <3>. QED BY <3>2 DEF DispatchOf
  <2>. QED BY <2>1, <2>2
<1>11. /\ Unanswered(c)' = 1 .. ItemCount
       /\ \A d \in Callers : d # c => Unanswered(d)' = Unanswered(d)
  <2>1. ASSUME NEW d \in Callers, NEW i \in 1 .. ItemCount
        PROVE  result'[<<d, i>>] = IF d = c THEN None ELSE result[<<d, i>>]
    <3>1. <<d, i>> \in Requests
      BY DEF Requests
    <3>. QED BY <1>1, <3>1
  <2>. QED BY <2>1 DEF Unanswered
<1>12. ASSUME NEW d \in Callers PROVE CallerSound(d)'
  <2>1. CASE d = c
    <3>1. Cardinality(Unanswered(c)') = ItemCount
      BY <1>11, UnansweredFinite
    <3>2. \A v \in Workers : Times(msgs'[v], Batch(c)) = 0
      BY <1>1, IdleCallerGone
    <3>3. CallerSound(c)'
      BY <1>6, <1>10, <3>1, <3>2 DEF CallerSound
    <3>. QED BY <2>1, <3>3
  <2>2. CASE d # c
    BY <1>1, <1>6, <1>9, <1>11, <2>2 DEF CallerSound
  <2>. QED BY <2>1, <2>2
<1>13. ASSUME NEW r \in Requests, r[1] = c PROVE PlaceSound(r)'
  <2>1. Waited(r)' /\ Unposted(r)'
    BY <1>1, <1>6, <1>8, <1>13 DEF Waited, Unposted
  <2>2. ASSUME NEW v \in Workers PROVE Here(r, v)' = 0
    <3>1. /\ r \notin todo'[v] /\ r \notin inflight'[v] /\ r \notin iowait'[v]
          /\ Times(pending'[v], r) = 0
          /\ Times(msgs[v], Retry(r)) = 0 /\ Times(msgs[v], Batch(c)) = 0
      BY <1>1, <1>13, IdleCallerGone DEF Queued
    <3>2. msgs[v] \in Seq(Message) /\ msgs'[v] = msgs[v]
      BY <1>1 DEF QueueType
    <3>3. \A i \in DOMAIN msgs[v] : msgs[v][i] # Retry(r) /\ msgs[v][i] # Batch(c)
      BY <3>1, <3>2, OccurrencesType DEF Times
    <3>4. Carriers(r, v)' \subseteq {Retry(r), Batch(c)}
      BY <1>13 DEF Carriers, Retry, Batch
    <3>5. Occurrences(msgs[v], Carriers(r, v)') = 0
      BY <3>2, <3>3, <3>4, OccurrencesType
    <3>. QED BY <3>1, <3>2, <3>5 DEF Here, Mailed, Queued, One
  <2>. QED BY <2>1, <2>2 DEF PlaceSound, Placed
<1>14. ASSUME NEW r \in Requests, r[1] # c PROVE PlaceSound(r)'
  <2>1. Home(r)' = Home(r) /\ r[1] \in Callers
    BY <1>7, <1>14 DEF Requests
  <2>2. (Waited(r)' <=> Waited(r)) /\ (Unposted(r)' <=> Unposted(r))
    BY <1>1, <1>6, <1>14, <2>1 DEF Waited, Unposted
  <2>3. ASSUME NEW v \in Workers PROVE Here(r, v)' = Here(r, v)
    <3>1. Carriers(r, v)' = Carriers(r, v)
      BY <2>1 DEF Carriers, Retry, Batch
    <3>. QED BY <1>1, <3>1 DEF Here, Mailed, Queued, One
  <2>. QED BY <2>1, <2>2, <2>3 DEF PlaceSound, Placed
<1>. QED BY <1>1, <1>4, <1>5, <1>12, <1>13, <1>14 DEF BatchesSound

-----------------------------------------------------------------------------
(* The pools' part of the invariant, step by step *)

PoolsSound ==
    /\ PoolType
    /\ \A w \in Workers : PoolSound(w)
    /\ \A r \in Requests : LeaseSound(r)

\* A pool that the step does not touch.
LEMMA PoolKept ==
    ASSUME NEW v, PoolSound(v), inflight'[v] = inflight[v], pending'[v] = pending[v],
           free'[v] = free[v], initialized'[v] = initialized[v],
           draining'[v] = draining[v],
           \A r \in inflight[v] : lease'[r] = lease[r]
    PROVE  PoolSound(v)'
<1>1. {lease'[r] : r \in inflight'[v]} = {lease[r] : r \in inflight[v]}
  OBVIOUS
<1>2. Elements(free'[v]) = Elements(free[v])
  OBVIOUS
<1>. QED BY <1>1, <1>2 DEF PoolSound, Elements

\* No step of this kind touches any.
LEMMA PoolsKept ==
    ASSUME IInv, UNCHANGED <<poolVars, first, inflight, pending, draining>>
    PROVE  PoolsSound'
<1>1. /\ inflight' = inflight /\ pending' = pending /\ free' = free /\ lease' = lease
      /\ initialized' = initialized /\ draining' = draining /\ first' = first
  BY DEF poolVars
<1>2. \A w \in Workers : PoolSound(w)'
  BY <1>1, PoolKept DEF IInv
<1>3. \A r \in Requests : LeaseSound(r)'
  BY <1>1, HomeKept DEF IInv, LeaseSound
<1>4. PoolType'
  BY <1>1 DEF IInv, TypeOK, PoolType
<1>. QED BY <1>2, <1>3, <1>4 DEF PoolsSound

\* A buffer given back joins the free list; the last one of it is taken.
LEMMA ElementsAppend ==
    ASSUME NEW T, NEW s \in Seq(T), NEW x \in T
    PROVE  Elements(Append(s, x)) = Elements(s) \cup {x} /\ Len(Append(s, x)) = Len(s) + 1
<1>1. /\ DOMAIN s = 1 .. Len(s) /\ DOMAIN Append(s, x) = 1 .. Len(s) + 1 /\ Len(s) \in Nat
      /\ \A i \in 1 .. Len(s) : Append(s, x)[i] = s[i]
      /\ Append(s, x)[Len(s) + 1] = x /\ Len(Append(s, x)) = Len(s) + 1
  OBVIOUS
<1>2. 1 .. Len(s) + 1 = (1 .. Len(s)) \cup {Len(s) + 1}
  BY <1>1
<1>. QED BY <1>1, <1>2 DEF Elements

\* And the other way.
LEMMA ElementsFront ==
    ASSUME NEW T, NEW s \in Seq(T), s # <<>>
    PROVE  LET f == SubSeq(s, 1, Len(s) - 1)
           IN  /\ f \in Seq(T) /\ s[Len(s)] \in T
               /\ Elements(s) = Elements(f) \cup {s[Len(s)]}
               /\ Len(s) \in Nat \ {0} /\ Len(f) = Len(s) - 1
<1>. DEFINE f == SubSeq(s, 1, Len(s) - 1)
<1>1. Len(s) \in Nat \ {0}
  OBVIOUS
<1>2. /\ f \in Seq(T) /\ Len(f) = Len(s) - 1 /\ \A i \in 1 .. Len(s) - 1 : f[i] = s[i]
      /\ s[Len(s)] \in T
  <2>1. PICK n \in Nat : n = Len(s) - 1
    BY <1>1
  <2>2. (\A i \in 1 .. n : s[i] \in T) /\ s[Len(s)] \in T
    BY <1>1, <2>1
  <2>3. /\ SubSeq(s, 1, n) \in Seq(T) /\ Len(SubSeq(s, 1, n)) = (IF 1 <= n THEN n - 1 + 1 ELSE 0)
        /\ \A i \in 1 .. n - 1 + 1 : SubSeq(s, 1, n)[i] = s[1 + i - 1]
    BY <2>1, <2>2, SubSeqProperties
  <2>4. Len(SubSeq(s, 1, n)) = n /\ \A i \in 1 .. n : SubSeq(s, 1, n)[i] = s[i]
    BY <2>1, <2>3
  <2>. QED BY <2>1, <2>2, <2>3, <2>4
<1>3. DOMAIN s = 1 .. Len(s) /\ DOMAIN f = 1 .. Len(s) - 1
  BY <1>2
<1>4. 1 .. Len(s) = (1 .. Len(s) - 1) \cup {Len(s)}
  BY <1>1
<1>5. Elements(s) = Elements(f) \cup {s[Len(s)]}
  <2>. HIDE DEF f
  <2>. QED BY <1>2, <1>3, <1>4 DEF Elements
<1>. QED BY <1>1, <1>2, <1>5

\* Commands in flight are at their worker.
LEMMA OthersFlights ==
    ASSUME IInv, NEW q \in Requests, NEW w \in Workers, w = Home(q)
    PROVE  \A v \in Workers : v # w => q \notin inflight[v]
BY HereMeans

\* No buffer, and the request waits; or a request of the FIFO fails; or the
\* drain ends: what waits, waits because no buffer is free.
LEMMA WaitingPools ==
    ASSUME IInv, NEW w \in Workers,
           \/ ExecuteStarved(w) \/ ExecuteNoMemory(w) \/ ExecuteFails(w)
           \/ ExecuteTornDown(w) \/ FailPending(w) \/ DrainEnds(w)
    PROVE  PoolsSound'
<1>. USE DEF IInv, TypeOK
<1>1. /\ first' = first /\ inflight' = inflight
      /\ free' = free /\ lease' = lease /\ initialized' = initialized
  BY DEF ExecuteStarved, ExecuteNoMemory, ExecuteFails, ExecuteTornDown, FailPending,
       DrainEnds, poolVars, callerVars
<1>2. /\ \A v \in Workers : v # w => pending'[v] = pending[v] /\ draining'[v] = draining[v]
      /\ draining \in [Workers -> BOOLEAN]
  BY DEF ExecuteStarved, ExecuteNoMemory, ExecuteFails, ExecuteTornDown, FailPending,
       DrainEnds, QueueType
<1>3. PoolType' /\ \A r \in Requests : LeaseSound(r)'
  BY <1>1, HomeKept DEF PoolType, LeaseSound
<1>4. \A v \in Workers : v # w => PoolSound(v)'
  BY <1>1, <1>2, PoolKept
<1>5. ASSUME IF initialized[w] THEN ~ draining'[w] /\ pending'[w] # <<>> => free[w] = <<>>
             ELSE pending'[w] = <<>>
      PROVE  PoolsSound'
  <2>1. {lease'[r] : r \in inflight'[w]} = {lease[r] : r \in inflight[w]}
    BY <1>1
  <2>2. Elements(free'[w]) = Elements(free[w])
    BY <1>1
  <2>3. PoolSound(w)'
    BY <1>1, <1>5, <2>1, <2>2 DEF PoolSound, Elements
  <2>. QED BY <1>3, <1>4, <2>3 DEF PoolsSound
<1>6. ASSUME NEW x \in Turn(w)
      PROVE  /\ ~ draining[w] => x.pending = pending[w]
             /\ pending[w] = <<>> => x.pending = <<>>
  BY TurnFacts
<1>7. CASE ExecuteStarved(w)
  BY <1>5, <1>7 DEF ExecuteStarved
<1>8. CASE ExecuteNoMemory(w)
  <2>1. PICK x \in Turn(w) : pending' = [pending EXCEPT ![w] = x.pending]
    BY <1>8 DEF ExecuteNoMemory
  <2>2. pending'[w] = x.pending /\ draining' = draining /\ initialized[w] /\ free[w] # <<>>
    BY <1>8, <2>1 DEF ExecuteNoMemory, QueueType
  <2>3. ~ draining[w] => pending[w] = <<>>
    BY <2>2 DEF PoolSound
  <2>. QED BY <1>5, <1>6, <2>2, <2>3
<1>9. CASE ExecuteFails(w)
  <2>1. draining'[w] = TRUE /\ initialized[w]
    BY <1>2, <1>9 DEF ExecuteFails
  <2>. QED BY <1>5, <2>1
<1>10. CASE ExecuteTornDown(w)
  <2>1. PICK x \in Turn(w) : pending' = [pending EXCEPT ![w] = x.pending]
    BY <1>10 DEF ExecuteTornDown
  <2>2. pending'[w] = x.pending /\ ~ initialized[w]
    BY <1>10, <2>1 DEF ExecuteTornDown, QueueType
  <2>. QED BY <1>5, <1>6, <2>2 DEF PoolSound
<1>11. CASE FailPending(w)
  <2>1. pending[w] # <<>> /\ draining' = draining
    BY <1>11 DEF FailPending
  <2>. QED BY <1>5, <2>1 DEF PoolSound
<1>12. CASE DrainEnds(w)
  <2>1. pending' = pending /\ ~ DrainOn(w)
    BY <1>12 DEF DrainEnds
  <2>. QED BY <1>5, <2>1 DEF PoolSound, DrainOn
<1>. QED BY <1>7, <1>8, <1>9, <1>10, <1>11, <1>12

\* The last buffer of the free list goes to the command.
LEMMA SubmittedPools ==
    ASSUME IInv, NEW w \in Workers, ExecuteSubmitted(w)
    PROVE  PoolsSound'
<1>. USE DEF IInv, TypeOK
<1>1. PICK x \in Turn(w) :
        /\ lease' = [lease EXCEPT ![x.request] = free[w][Len(free[w])]]
        /\ free' = [free EXCEPT ![w] = SubSeq(@, 1, Len(@) - 1)]
        /\ inflight' = [inflight EXCEPT ![w] = @ \cup {x.request}]
        /\ pending' = [pending EXCEPT ![w] = x.pending]
        /\ todo' = [todo EXCEPT ![w] = x.todo]
  BY DEF ExecuteSubmitted
<1>2. /\ initialized[w] /\ free[w] # <<>> /\ first' = first /\ draining' = draining
      /\ initialized' = initialized
  BY DEF ExecuteSubmitted, callerVars
<1>3. PICK q : q = x.request
  OBVIOUS
<1>4. /\ q \in Requests /\ x.pending \in Seq(Requests)
      /\ ~ draining[w] => x.pending = pending[w]
  BY <1>3, TurnFacts
<1>5. q \notin inflight[w] /\ w = Home(q)
  <2>1. pending'[w] = x.pending /\ todo'[w] = x.todo
    BY <1>1 DEF QueueType
  <2>. QED BY <1>2, <1>3, <1>4, <2>1, TurnTaken
<1>6. PICK b, f : b = free[w][Len(free[w])] /\ f = SubSeq(free[w], 1, Len(free[w]) - 1)
  OBVIOUS
<1>7. /\ f \in Seq(Buffers) /\ b \in Buffers /\ Elements(free[w]) = Elements(f) \cup {b}
      /\ Len(free[w]) \in Nat \ {0} /\ Len(f) = Len(free[w]) - 1
  <2>1. free[w] \in Seq(Buffers)
    BY DEF PoolType
  <2>. QED BY <1>2, <1>6, <2>1, ElementsFront
<1>8. /\ inflight'[w] = inflight[w] \cup {q} /\ free'[w] = f /\ pending'[w] = x.pending
      /\ lease'[q] = b /\ \A r \in Requests : r # q => lease'[r] = lease[r]
      /\ \A v \in Workers : v # w => inflight'[v] = inflight[v] /\ free'[v] = free[v]
                                     /\ pending'[v] = pending[v]
      /\ inflight[w] \subseteq Requests
  BY <1>1, <1>3, <1>4, <1>6 DEF QueueType, PoolType
<1>9. PoolType'
  <2>1. free' \in [Workers -> Seq(Buffers)]
    BY <1>1, <1>6, <1>7 DEF PoolType
  <2>2. lease' \in [Requests -> Buffers \cup {None}]
    BY <1>1, <1>6, <1>7 DEF PoolType
  <2>. QED BY <1>2, <2>1, <2>2 DEF PoolType
<1>10. ASSUME NEW v \in Workers, v # w PROVE PoolSound(v)'
  <2>1. \A r \in inflight[v] : lease'[r] = lease[r]
    <3>1. q \notin inflight[v] /\ inflight[v] \subseteq Requests
      BY <1>4, <1>5, <1>10, OthersFlights DEF QueueType
    <3>. QED BY <1>8, <3>1
  <2>. QED BY <1>2, <1>8, <1>10, <2>1, PoolKept
<1>11. PoolSound(w)'
  <2>1. /\ IsFiniteSet(inflight[w])
        /\ Elements(free[w]) \cup {lease[r] : r \in inflight[w]} = Buffers
        /\ Len(free[w]) + Cardinality(inflight[w]) = BufferCount
        /\ ~ draining[w] => pending[w] = <<>>
    BY <1>2 DEF PoolSound
  <2>2. {lease'[r] : r \in inflight'[w]} = {lease[r] : r \in inflight[w]} \cup {b}
    BY <1>5, <1>8
  <2>3. Elements(free'[w]) \cup {lease'[r] : r \in inflight'[w]} = Buffers
    BY <1>7, <1>8, <2>1, <2>2
  <2>4. /\ IsFiniteSet(inflight'[w]) /\ Cardinality(inflight'[w]) = Cardinality(inflight[w]) + 1
        /\ Cardinality(inflight[w]) \in Nat
    BY <1>5, <1>8, <2>1, FS_AddElement, FS_CardinalityType
  <2>5. Len(free'[w]) + Cardinality(inflight'[w]) = BufferCount
    BY <1>7, <1>8, <2>1, <2>4
  <2>6. ~ draining'[w] => pending'[w] = <<>>
    BY <1>2, <1>4, <1>8, <2>1
  <2>7. initialized'[w]
    BY <1>2
  <2>. QED BY <2>3, <2>4, <2>5, <2>6, <2>7 DEF PoolSound, Elements
<1>12. ASSUME NEW r \in Requests PROVE LeaseSound(r)'
  <2>1. Home(r)' = Home(r) /\ Home(r) \in Workers
    BY <1>2, HomeKept, HomeType
  <2>2. CASE r = q
    BY <1>5, <1>8, <2>1, <2>2 DEF LeaseSound
  <2>3. CASE r # q
    <3>1. lease'[r] = lease[r] /\ inflight[Home(r)] \subseteq inflight'[Home(r)]
      BY <1>8, <2>1, <2>3
    <3>. QED BY <2>1, <3>1 DEF LeaseSound
  <2>. QED BY <2>2, <2>3
<1>. QED BY <1>9, <1>10, <1>11, <1>12 DEF PoolsSound

\* A completion gives the command's buffer back.
LEMMA CompleteIoPools ==
    ASSUME IInv, NEW w \in Workers, NEW q \in Requests, NEW success \in BOOLEAN,
           CompleteIo(w, q, success)
    PROVE  PoolsSound'
<1>. USE DEF IInv, TypeOK
<1>1. /\ q \in inflight[w] /\ inflight' = [inflight EXCEPT ![w] = @ \ {q}]
      /\ lease' = [lease EXCEPT ![q] = None]
      /\ free' = IF initialized[w] /\ lease[q] # None
                 THEN [free EXCEPT ![w] = Append(@, lease[q])] ELSE free
      /\ draining' = [draining EXCEPT ![w] = TRUE]
      /\ initialized' = initialized /\ pending' = pending /\ first' = first
  BY DEF CompleteIo, ReleaseBuffer, callerVars
<1>2. w = Home(q)
  BY <1>1, HereMeans
<1>3. /\ inflight'[w] = inflight[w] \ {q} /\ draining'[w] = TRUE
      /\ \A v \in Workers : v # w => /\ inflight'[v] = inflight[v] /\ free'[v] = free[v]
                                     /\ draining'[v] = draining[v]
      /\ lease'[q] = None /\ \A r \in Requests : r # q => lease'[r] = lease[r]
      /\ inflight[w] \subseteq Requests
  BY <1>1 DEF QueueType, PoolType
<1>4. lease[q] # None => lease[q] \in Buffers
  BY DEF PoolType
<1>5. PoolType'
  <2>1. lease' \in [Requests -> Buffers \cup {None}]
    BY <1>1 DEF PoolType
  <2>2. free' \in [Workers -> Seq(Buffers)]
    BY <1>1, <1>4 DEF PoolType
  <2>. QED BY <1>1, <2>1, <2>2 DEF PoolType
<1>6. ASSUME NEW v \in Workers, v # w PROVE PoolSound(v)'
  <2>1. \A r \in inflight[v] : lease'[r] = lease[r]
    <3>1. q \notin inflight[v] /\ inflight[v] \subseteq Requests
      BY <1>2, <1>6, OthersFlights DEF QueueType
    <3>. QED BY <1>3, <3>1
  <2>. QED BY <1>1, <1>3, <1>6, <2>1, PoolKept
<1>7. ASSUME initialized[w] PROVE PoolSound(w)'
  <2>1. /\ IsFiniteSet(inflight[w])
        /\ Elements(free[w]) \cup {lease[r] : r \in inflight[w]} = Buffers
        /\ Len(free[w]) + Cardinality(inflight[w]) = BufferCount
    BY <1>7 DEF PoolSound
  <2>2. lease[q] \in Buffers /\ lease[q] # None
    <3>1. lease[q] \in Buffers
      BY <1>1, <2>1
    <3>. QED BY <3>1, IoAssumption DEF Buffers
  <2>3. free[w] \in Seq(Buffers) /\ free'[w] = Append(free[w], lease[q])
    BY <1>1, <1>7, <2>2 DEF PoolType
  <2>4. Elements(free'[w]) = Elements(free[w]) \cup {lease[q]} /\ Len(free'[w]) = Len(free[w]) + 1
        /\ Len(free[w]) \in Nat
    BY <2>2, <2>3, ElementsAppend
  <2>5. {lease'[r] : r \in inflight'[w]} \cup {lease[q]} = {lease[r] : r \in inflight[w]}
    BY <1>1, <1>3
  <2>6. Elements(free'[w]) \cup {lease'[r] : r \in inflight'[w]} = Buffers
    BY <2>1, <2>4, <2>5
  <2>7. /\ IsFiniteSet(inflight'[w]) /\ Cardinality(inflight'[w]) = Cardinality(inflight[w]) - 1
        /\ Cardinality(inflight[w]) \in Nat
    BY <1>1, <1>3, <2>1, FS_RemoveElement, FS_CardinalityType
  <2>8. Len(free'[w]) + Cardinality(inflight'[w]) = BufferCount
    BY <2>1, <2>4, <2>7
  <2>. QED BY <1>1, <1>3, <1>7, <2>6, <2>7, <2>8 DEF PoolSound, Elements
<1>8. ASSUME ~ initialized[w] PROVE PoolSound(w)'
  BY <1>1, <1>8 DEF PoolSound
<1>9. ASSUME NEW r \in Requests PROVE LeaseSound(r)'
  <2>1. Home(r)' = Home(r) /\ Home(r) \in Workers
    BY <1>1, HomeKept, HomeType
  <2>2. CASE r = q
    BY <1>3, <2>2 DEF LeaseSound
  <2>3. CASE r # q
    BY <1>3, <2>1, <2>3 DEF LeaseSound
  <2>. QED BY <2>2, <2>3
<1>10. PoolSound(w)'
  BY <1>7, <1>8
<1>. QED BY <1>5, <1>6, <1>9, <1>10 DEF PoolsSound

\* A worker stops: its FIFO is empty and its pool goes.
LEMMA ReleaseWorkerPools ==
    ASSUME IInv, NEW w \in Workers, ReleaseWorker(w)
    PROVE  PoolsSound'
<1>. USE DEF IInv, TypeOK
<1>1. /\ initialized' = [initialized EXCEPT ![w] = FALSE] /\ free' = [free EXCEPT ![w] = <<>>]
      /\ pending[w] = <<>> /\ first' = first /\ pending' = pending /\ inflight' = inflight
      /\ draining' = draining /\ lease' = lease
  BY DEF ReleaseWorker, callerVars, queueVars
<1>2. PoolType'
  BY <1>1 DEF PoolType
<1>3. /\ initialized'[w] = FALSE /\ free'[w] = <<>>
      /\ \A v \in Workers : v # w => initialized'[v] = initialized[v] /\ free'[v] = free[v]
  BY <1>1 DEF PoolType
<1>4. \A v \in Workers : v # w => PoolSound(v)'
  BY <1>1, <1>3, PoolKept
<1>5. PoolSound(w)'
  BY <1>1, <1>3 DEF PoolSound
<1>6. \A r \in Requests : LeaseSound(r)'
  BY <1>1, HomeKept DEF LeaseSound
<1>. QED BY <1>2, <1>4, <1>5, <1>6 DEF PoolsSound

\* A batch begins: its requests hold no buffer.
LEMMA BeginBatchPools ==
    ASSUME IInv, NEW c \in Callers, BeginBatch(c)
    PROVE  PoolsSound'
<1>. USE DEF IInv, TypeOK
<1>1. /\ cpc[c] = "idle" /\ first' = [first EXCEPT ![c] = next_io_worker]
      /\ pending' = pending /\ inflight' = inflight /\ draining' = draining
      /\ lease' = lease /\ free' = free /\ initialized' = initialized
  BY DEF BeginBatch, queueVars, poolVars
<1>2. PoolType' /\ \A v \in Workers : PoolSound(v)'
  BY <1>1, PoolKept DEF PoolType
<1>3. ASSUME NEW r \in Requests PROVE LeaseSound(r)'
  <2>1. r[1] \in Callers /\ Home(r) \in Workers
    BY HomeType
  <2>2. CASE r[1] = c
    <3>1. r \notin inflight[Home(r)]
      BY <1>1, <2>1, <2>2, IdleCallerGone
    <3>. QED BY <1>1, <3>1 DEF LeaseSound
  <2>3. CASE r[1] # c
    <3>1. Home(r)' = Home(r)
      BY <1>1, <2>1, <2>3 DEF Home, WorkerOf, CallerType
    <3>. QED BY <1>1, <3>1 DEF LeaseSound
  <2>. QED BY <2>2, <2>3
<1>. QED BY <1>2, <1>3 DEF PoolsSound

-----------------------------------------------------------------------------
(* The teardown's part of the invariant, step by step *)

\* There are WorkerCount workers, so the pools can be counted.
LEMMA WorkersFinite ==
    /\ IsFiniteSet(Workers) /\ Cardinality(Workers) = WorkerCount /\ 0 \in Workers
    /\ IsFiniteSet(Pooled) /\ Cardinality(Pooled) \in Nat
    /\ \A w \in Workers : Cardinality(Pooled \ {w})
                            = IF w \in Pooled THEN Cardinality(Pooled) - 1 ELSE Cardinality(Pooled)
    /\ \A w : w \in Pooled => Cardinality(Pooled) # 0
<1>1. IsFiniteSet(Workers) /\ Cardinality(Workers) = WorkerCount /\ 0 \in Workers
  BY FS_Interval, IoAssumption DEF Workers
<1>2. Pooled \in SUBSET Workers
  BY DEF Pooled
<1>3. IsFiniteSet(Pooled) /\ Cardinality(Pooled) \in Nat
  BY <1>1, <1>2, FS_Subset, FS_CardinalityType
<1>4. \A w \in Workers : Cardinality(Pooled \ {w})
                           = IF w \in Pooled THEN Cardinality(Pooled) - 1 ELSE Cardinality(Pooled)
  BY <1>3, FS_RemoveElement
<1>5. \A w : w \in Pooled => Cardinality(Pooled) # 0
  BY <1>3, FS_EmptySet
<1>. QED BY <1>1, <1>3, <1>4, <1>5

\* The counts of the teardown's messages are natural numbers.
LEMMA SignalCounts ==
    ASSUME QueueType
    PROVE  Begins \in Nat /\ Acks \in Nat /\ \A w \in Workers : Shuts(w) \in Nat
BY HereType, WorkersFinite DEF Begins, Acks, Shuts

\* The same in the next state.
LEMMA CountsNext ==
    /\ Begins' = Times(msgs'[0], Signal("begin"))
    /\ Acks' = Times(msgs'[0], Signal("ack"))
    /\ \A w : Shuts(w)' = Times(msgs'[w], Signal("shutdown"))
BY DEF Begins, Acks, Shuts, Times, Occurrences, Positions, Signal

\* A step outside the teardown.
LEMMA TeardownKept ==
    ASSUME IInv, thread' \in [Workers -> {"running", "exiting", "gone"}],
           UNCHANGED <<shutdown_requested, workers_shutting_down, shutdown_complete,
                       stopping, initialized>>,
           \A v \in Workers, k \in Signals :
             Times(msgs'[v], Signal(k)) = Times(msgs[v], Signal(k))
    PROVE  LifeType' /\ TeardownSound'
<1>. USE DEF IInv, TypeOK
<1>1. LifeType'
  BY DEF LifeType
<1>2. /\ Begins' = Begins /\ Acks' = Acks /\ Pooled' = Pooled
      /\ \A v \in Workers : Shuts(v)' = Shuts(v)
  BY CountsNext, WorkersFinite DEF Begins, Acks, Shuts, Pooled, Signals
<1>3. (NotBegun' <=> NotBegun) /\ (Begun' <=> Begun)
  BY <1>2 DEF NotBegun, Begun
<1>4. 0 \in Workers
  BY WorkersFinite
<1>. QED BY <1>1, <1>2, <1>3, <1>4 DEF TeardownSound

\* A message that is none of the teardown's, appended or taken.
LEMMA SignalsKept ==
    ASSUME IInv, NEW v \in Workers, first' = first,
           \/ msgs'[v] = msgs[v]
           \/ \E m \in Message : m.type \notin Signals /\ msgs'[v] = Append(msgs[v], m)
           \/ msgs[v] # <<>> /\ Head(msgs[v]).type \notin Signals /\ msgs'[v] = Tail(msgs[v])
    PROVE  \A k \in Signals : Times(msgs'[v], Signal(k)) = Times(msgs[v], Signal(k))
<1>. USE DEF IInv, TypeOK
<1>1. \A k : Times(msgs[v], k) \in Nat
  BY HereType
<1>2. \A k : Signal(k).type = k
  BY DEF Signal
<1>3. ASSUME NEW m \in Message, m.type \notin Signals, msgs'[v] = Append(msgs[v], m)
      PROVE  \A k \in Signals : Times(msgs'[v], Signal(k)) = Times(msgs[v], Signal(k))
  <2>1. \A k \in Signals : m # Signal(k)
    BY <1>2, <1>3
  <2>2. \A k : Times(msgs'[v], k) = Times(msgs[v], k) + (IF m = k THEN 1 ELSE 0)
    BY <1>3, MailAppended
  <2>. QED BY <1>1, <2>1, <2>2
<1>4. ASSUME msgs[v] # <<>>, Head(msgs[v]).type \notin Signals, msgs'[v] = Tail(msgs[v])
      PROVE  \A k \in Signals : Times(msgs'[v], Signal(k)) = Times(msgs[v], Signal(k))
  <2>1. \A k \in Signals : Head(msgs[v]) # Signal(k)
    BY <1>2, <1>4
  <2>2. \A k : Times(msgs[v], k)
                 = Times(msgs'[v], k) + (IF Head(msgs[v]) = k THEN 1 ELSE 0)
    BY <1>4, MailTaken
  <2>3. msgs'[v] \in Seq(Message)
    BY <1>4 DEF QueueType
  <2>4. \A k : Times(msgs'[v], k) \in Nat
    BY <2>3, TimesType
  <2>. QED BY <2>1, <2>2, <2>4
<1>. QED BY <1>3, <1>4

\* The steps outside the teardown, one by one.
LEMMA OrdinaryTeardown ==
    ASSUME IInv,
           \/ \E w \in Workers :
                \/ MovingStep(w) \/ Notify(w) \/ DrainEnds(w) \/ ThreadDestroyed(w)
                \/ ExecuteFails(w) \/ ExecuteTornDown(w) \/ FailPending(w)
                \/ \E q \in Requests, success \in BOOLEAN : CompleteIo(w, q, success)
           \/ \E c \in Callers : BeginBatch(c) \/ CallerStep(c)
    PROVE  LifeType' /\ TeardownSound'
<1>. USE DEF IInv, TypeOK
<1>1. /\ UNCHANGED <<shutdown_requested, workers_shutting_down, shutdown_complete, stopping>>
      /\ initialized' = initialized
      /\ thread' \in [Workers -> {"running", "exiting", "gone"}]
  <2>0. thread \in [Workers -> {"running", "exiting", "gone"}]
    BY DEF LifeType
  <2>1. ASSUME UNCHANGED <<lifeVars, initialized>>
        PROVE  /\ UNCHANGED <<shutdown_requested, workers_shutting_down, shutdown_complete, stopping>>
               /\ initialized' = initialized
               /\ thread' \in [Workers -> {"running", "exiting", "gone"}]
    BY <2>0, <2>1 DEF lifeVars
  <2>2. CASE \E w \in Workers : MovingStep(w)
    BY <2>1, <2>2 DEF MovingStep, TakeBatch, TakeRetry, ExecuteStarved, ExecuteSubmitted,
         ExecuteNoMemory, poolVars
  <2>3. CASE \E w \in Workers : Notify(w) \/ DrainEnds(w) \/ ExecuteFails(w)
                               \/ ExecuteTornDown(w) \/ FailPending(w)
    BY <2>1, <2>3 DEF Notify, DrainEnds, ExecuteFails, ExecuteTornDown, FailPending, poolVars
  <2>4. CASE \E w \in Workers, q \in Requests, success \in BOOLEAN : CompleteIo(w, q, success)
    BY <2>1, <2>4 DEF CompleteIo
  <2>5. CASE \E w \in Workers : ThreadDestroyed(w)
    BY <2>0, <2>5 DEF ThreadDestroyed, poolVars
  <2>6. CASE \E c \in Callers : BeginBatch(c) \/ CallerStep(c)
    BY <2>1, <2>6 DEF BeginBatch, CallerStep, CheckLifecycle, SendRefused, Send, SendFails,
         Sleep, BatchReturns, poolVars
  <2>. QED BY <2>2, <2>3, <2>4, <2>5, <2>6
<1>2. ASSUME msgs' = msgs PROVE LifeType' /\ TeardownSound'
  BY <1>1, <1>2, TeardownKept
<1>3. msgs \in [Workers -> Seq(Message)]
  BY DEF QueueType
<1>4. ASSUME NEW w \in Workers, NEW m \in Message, m.type \notin Signals, first' = first,
             msgs' = [msgs EXCEPT ![w] = Append(@, m)]
      PROVE  LifeType' /\ TeardownSound'
  <2>1. msgs'[w] = Append(msgs[w], m) /\ \A v \in Workers : v # w => msgs'[v] = msgs[v]
    BY <1>3, <1>4
  <2>2. \A v \in Workers, k \in Signals : Times(msgs'[v], Signal(k)) = Times(msgs[v], Signal(k))
    BY <1>4, <2>1, SignalsKept
  <2>. QED BY <1>1, <2>2, TeardownKept
<1>5. ASSUME NEW w \in Workers, msgs[w] # <<>>, Head(msgs[w]).type \notin Signals,
             first' = first, msgs' = [msgs EXCEPT ![w] = Tail(@)]
      PROVE  LifeType' /\ TeardownSound'
  <2>1. msgs'[w] = Tail(msgs[w]) /\ \A v \in Workers : v # w => msgs'[v] = msgs[v]
    BY <1>3, <1>5
  <2>2. \A v \in Workers, k \in Signals : Times(msgs'[v], Signal(k)) = Times(msgs[v], Signal(k))
    BY <1>5, <2>1, SignalsKept
  <2>. QED BY <1>1, <2>2, TeardownKept
<1>6. ASSUME NEW w \in Workers, TakeBatch(w) \/ TakeRetry(w) PROVE LifeType' /\ TeardownSound'
  <2>1. /\ first' = first
        /\ \/ msgs' = msgs
           \/ /\ msgs[w] # <<>> /\ Head(msgs[w]).type \in {"batch", "retry"}
              /\ msgs' = [msgs EXCEPT ![w] = Tail(@)]
    BY <1>6 DEF TakeBatch, TakeRetry, callerVars
  <2>. QED BY <1>2, <1>5, <2>1 DEF Signals
<1>7. ASSUME NEW w \in Workers, ExecuteNoMemory(w) PROVE LifeType' /\ TeardownSound'
  <2>1. PICK x \in Turn(w) :
          \/ msgs' = msgs
          \/ msgs' = [msgs EXCEPT ![w] = Append(@, Retry(x.request))]
    BY <1>7 DEF ExecuteNoMemory, Retry
  <2>2. x.request \in Requests
    BY TurnFacts
  <2>3. Retry(x.request) \in Message /\ Retry(x.request).type \notin Signals
    BY <2>2, MessageFacts DEF Retry, Signals
  <2>4. first' = first
    BY <1>7 DEF ExecuteNoMemory, callerVars
  <2>. QED BY <1>2, <1>4, <2>1, <2>3, <2>4
<1>8. ASSUME NEW c \in Callers, Send(c) PROVE LifeType' /\ TeardownSound'
  <2>1. PICK w : w = Lowest(unsent[c])
    OBVIOUS
  <2>2. cpc[c] = "send" /\ msgs' = [msgs EXCEPT ![w] = Append(@, Batch(c))] /\ first' = first
    BY <1>8, <2>1 DEF Send, Batch
  <2>3. w \in Workers
    <3>1. unsent[c] # {} /\ unsent[c] \in SUBSET Workers
      BY <2>2 DEF CallerSound, CallerType
    <3>. QED BY <2>1, <3>1, LowestIn
  <2>4. Batch(c) \in Message /\ Batch(c).type \notin Signals
    BY MessageFacts DEF Batch, Signals
  <2>. QED BY <1>4, <2>2, <2>3, <2>4
<1>9. CASE \/ \E w \in Workers :
                \/ ExecuteStarved(w) \/ ExecuteSubmitted(w)
                \/ Notify(w) \/ DrainEnds(w) \/ ThreadDestroyed(w)
                \/ ExecuteFails(w) \/ ExecuteTornDown(w) \/ FailPending(w)
                \/ \E q \in Requests, success \in BOOLEAN : CompleteIo(w, q, success)
           \/ \E c \in Callers : \/ BeginBatch(c) \/ CheckLifecycle(c) \/ SendRefused(c)
                                 \/ SendFails(c) \/ Sleep(c) \/ BatchReturns(c)
  <2>1. msgs' = msgs
    BY <1>9 DEF ExecuteStarved, ExecuteSubmitted, Notify, DrainEnds, ThreadDestroyed,
         ExecuteFails, ExecuteTornDown, FailPending, CompleteIo, BeginBatch, CheckLifecycle,
         SendRefused, SendFails, Sleep, BatchReturns
  <2>. QED BY <1>2, <2>1
<1>. QED BY <1>6, <1>7, <1>8, <1>9 DEF MovingStep, CallerStep

\* A bdev event asks for the teardown.
LEMMA BdevEventTeardown ==
    ASSUME IInv, BdevEvent
    PROVE  LifeType' /\ TeardownSound'
<1>. USE DEF IInv, TypeOK
<1>1. /\ ~ shutdown_requested /\ shutdown_requested' = TRUE /\ first' = first
      /\ msgs' = [msgs EXCEPT ![0] = Append(@, Signal("begin"))]
      /\ UNCHANGED <<workers_shutting_down, shutdown_complete, thread, stopping, initialized>>
  BY DEF BdevEvent, Signal, callerVars, poolVars
<1>2. LifeType'
  BY <1>1 DEF LifeType
<1>3. 0 \in Workers
  BY WorkersFinite
<1>4. /\ msgs'[0] = Append(msgs[0], Signal("begin"))
      /\ \A v \in Workers : v # 0 => msgs'[v] = msgs[v]
  BY <1>1, <1>3 DEF QueueType
<1>5. /\ Signal("begin") \in Message /\ Signal("begin") # Signal("ack")
      /\ Signal("begin") # Signal("shutdown")
  BY MessageFacts
<1>6. \A k : Times(msgs'[0], k) = Times(msgs[0], k) + (IF Signal("begin") = k THEN 1 ELSE 0)
  BY <1>1, <1>3, <1>4, <1>5, MailAppended
<1>7. Begins = 0 /\ NotBegun /\ Shuts(0) = 0
  BY <1>1 DEF TeardownSound
<1>8. Begins' = 1 /\ Acks' = 0 /\ Shuts(0)' = 0
  BY <1>5, <1>6, <1>7, CountsNext DEF Begins, Acks, Shuts, NotBegun
<1>9. \A v \in Workers : Shuts(v)' = 0
  BY <1>4, <1>7, <1>8, CountsNext DEF NotBegun, Shuts
<1>10. NotBegun'
  BY <1>1, <1>7, <1>8, <1>9 DEF NotBegun
<1>. QED BY <1>1, <1>2, <1>8, <1>10 DEF TeardownSound

\* begin_shutdown_on_app_thread counts every worker and reaches each.
LEMMA BeginShutdownTeardown ==
    ASSUME IInv, BeginShutdown
    PROVE  LifeType' /\ TeardownSound'
<1>. USE DEF IInv, TypeOK
<1>1. /\ msgs[0] # <<>> /\ Head(msgs[0]).type = "begin" /\ first' = first
      /\ msgs' = [w \in Workers |-> IF w = 0 THEN Tail(msgs[0])
                                    ELSE Append(msgs[w], Signal("shutdown"))]
      /\ workers_shutting_down' = WorkerCount /\ stopping' = [stopping EXCEPT ![0] = TRUE]
      /\ UNCHANGED <<shutdown_requested, shutdown_complete, thread, initialized>>
  BY DEF BeginShutdown, Signal, callerVars, poolVars
<1>2. 0 \in Workers
  BY WorkersFinite
<1>3. LifeType'
  <2>1. WorkerCount \in 0 .. WorkerCount
    BY IoAssumption
  <2>. QED BY <1>1, <2>1 DEF LifeType
<1>4. /\ msgs'[0] = Tail(msgs[0])
      /\ \A v \in Workers : v # 0 => msgs'[v] = Append(msgs[v], Signal("shutdown"))
  BY <1>1, <1>2
<1>5. /\ Head(msgs[0]) \in Message
      /\ \A k : Times(msgs[0], k)
                  = Times(msgs'[0], k) + (IF Head(msgs[0]) = k THEN 1 ELSE 0)
  BY <1>1, <1>2, <1>4, MailTaken
<1>6. /\ Head(msgs[0]) = Signal("begin") /\ Signal("shutdown") \in Message
      /\ Signal("begin") # Signal("ack") /\ Signal("begin") # Signal("shutdown")
  BY <1>1, <1>5, MessageFacts
<1>7. \A k : Times(msgs'[0], k) \in Nat
  <2>1. msgs'[0] \in Seq(Message)
    BY <1>1, <1>2, <1>4 DEF QueueType
  <2>. QED BY <2>1, TimesType
<1>8. Begins = Begins' + 1 /\ Acks' = Acks /\ Shuts(0)' = Shuts(0) /\ Begins' \in Nat
  BY <1>5, <1>6, <1>7, CountsNext DEF Begins, Acks, Shuts
<1>9. Begins = 1 /\ Begins' = 0 /\ shutdown_requested /\ NotBegun /\ Shuts(0) = 0
  <2>1. PICK n \in Nat : Begins = n + 1 /\ Begins' = n
    BY <1>8
  <2>2. Begins # 0 /\ (Begins = 1 => Begins' = 0)
    BY <2>1
  <2>. QED BY <2>2 DEF TeardownSound
<1>10. ASSUME NEW v \in Workers, v # 0 PROVE Shuts(v)' = 1
  <2>1. \A k : Times(msgs'[v], k) = Times(msgs[v], k) + (IF Signal("shutdown") = k THEN 1 ELSE 0)
    BY <1>1, <1>4, <1>6, <1>10, MailAppended
  <2>. QED BY <1>9, <2>1, CountsNext DEF NotBegun, Shuts
<1>11. Pooled' = Workers
  BY <1>1, <1>9 DEF NotBegun, Pooled
<1>12. workers_shutting_down' = Cardinality(Pooled)' + Acks'
  <2>1. Cardinality(Pooled') = WorkerCount /\ Acks' = 0 /\ WorkerCount \in Nat
    BY <1>8, <1>9, <1>11, WorkersFinite, IoAssumption DEF NotBegun
  <2>. QED BY <1>1, <2>1
<1>13. /\ stopping'[0] = TRUE /\ \A v \in Workers : v # 0 => stopping'[v] = FALSE
  BY <1>1, <1>2, <1>9 DEF NotBegun, LifeType
<1>14. \A v \in Workers : initialized'[v]
  BY <1>1, <1>9 DEF NotBegun
<1>15. Begun'
  <2>1. ~ shutdown_complete'
    BY <1>1, <1>9 DEF NotBegun
  <2>2. ASSUME NEW v \in Workers
        PROVE  /\ Shuts(v)' = IF initialized'[v] /\ ~ stopping'[v] THEN 1 ELSE 0
               /\ stopping'[v] => initialized'[v]
    BY <1>8, <1>9, <1>10, <1>13, <1>14
  <2>. QED BY <1>12, <2>1, <2>2 DEF Begun
<1>. QED BY <1>1, <1>3, <1>8, <1>9, <1>15 DEF TeardownSound

\* A secondary takes the message to stop: it had one, and has none now.
LEMMA TakeShutdownTeardown ==
    ASSUME IInv, NEW w \in Workers, TakeShutdown(w)
    PROVE  LifeType' /\ TeardownSound'
<1>. USE DEF IInv, TypeOK
<1>1. /\ msgs[w] # <<>> /\ Head(msgs[w]).type = "shutdown" /\ first' = first
      /\ msgs' = [msgs EXCEPT ![w] = Tail(@)] /\ stopping' = [stopping EXCEPT ![w] = TRUE]
      /\ UNCHANGED <<shutdown_requested, workers_shutting_down, shutdown_complete, thread,
                     initialized>>
  BY DEF TakeShutdown, callerVars, poolVars
<1>2. LifeType'
  BY <1>1 DEF LifeType
<1>3. msgs'[w] = Tail(msgs[w]) /\ \A v \in Workers : v # w => msgs'[v] = msgs[v]
  BY <1>1 DEF QueueType
<1>4. /\ Head(msgs[w]) \in Message
      /\ \A k : Times(msgs[w], k)
                  = Times(msgs'[w], k) + (IF Head(msgs[w]) = k THEN 1 ELSE 0)
  BY <1>1, <1>3, MailTaken
<1>5. Head(msgs[w]) = Signal("shutdown")
  BY <1>1, <1>4, MessageFacts
<1>6. \A k : Times(msgs'[w], k) \in Nat
  <2>1. msgs'[w] \in Seq(Message)
    BY <1>1, <1>3 DEF QueueType
  <2>. QED BY <2>1, TimesType
<1>7. Shuts(w) = Shuts(w)' + 1 /\ Shuts(w)' \in Nat
  BY <1>4, <1>5, <1>6, CountsNext DEF Shuts
<1>8. Shuts(w) # 0
  BY <1>7
<1>9. w # 0 /\ shutdown_requested /\ Begins = 0 /\ Begun
  BY <1>8 DEF TeardownSound, NotBegun
<1>10. Shuts(w) = 1 /\ initialized[w] /\ ~ stopping[w]
  BY <1>8, <1>9 DEF Begun
<1>11. Shuts(w)' = 0 /\ \A v \in Workers : v # w => Shuts(v)' = Shuts(v)
  BY <1>3, <1>7, <1>10, CountsNext DEF Shuts
<1>12. 0 \in Workers
  BY WorkersFinite
<1>13. Begins' = Begins /\ Acks' = Acks /\ Pooled' = Pooled /\ Shuts(0)' = Shuts(0)
  BY <1>1, <1>3, <1>9, <1>12, CountsNext DEF Begins, Acks, Pooled, Shuts
<1>14. stopping'[w] = TRUE /\ \A v \in Workers : v # w => stopping'[v] = stopping[v]
  BY <1>1 DEF LifeType
<1>15. Begun'
  <2>1. ASSUME NEW v \in Workers
        PROVE  /\ Shuts(v)' = IF initialized'[v] /\ ~ stopping'[v] THEN 1 ELSE 0
               /\ stopping'[v] => initialized'[v]
    BY <1>1, <1>9, <1>10, <1>11, <1>14 DEF Begun
  <2>. QED BY <1>1, <1>9, <1>13, <2>1 DEF Begun
<1>. QED BY <1>1, <1>2, <1>9, <1>13, <1>15 DEF TeardownSound

\* The count goes down by one and the teardown completes at zero.
LEMMA StoppedCount ==
    ASSUME LifeType, WorkerStopped, NEW n \in Nat, workers_shutting_down = n + 1,
           shutdown_complete => workers_shutting_down = 0
    PROVE  /\ workers_shutting_down' = n /\ n \in 0 .. WorkerCount
           /\ shutdown_complete' \in BOOLEAN
           /\ shutdown_complete' => workers_shutting_down' = 0
<1>1. workers_shutting_down \in 0 .. WorkerCount
  BY DEF LifeType
<1>2. n \in 0 .. WorkerCount /\ workers_shutting_down # 0 /\ workers_shutting_down - 1 = n
  BY <1>1, IoAssumption
<1>3. workers_shutting_down' = n /\ shutdown_complete' = (shutdown_complete \/ n = 0)
  BY <1>2 DEF WorkerStopped
<1>. QED BY <1>2, <1>3 DEF LifeType

\* A worker releases its pool: it is counted no more, or as acknowledgement.
LEMMA ReleaseWorkerTeardown ==
    ASSUME IInv, NEW w \in Workers, ReleaseWorker(w)
    PROVE  LifeType' /\ TeardownSound'
<1>. USE DEF IInv, TypeOK
<1>1. /\ stopping[w] /\ first' = first /\ shutdown_requested' = shutdown_requested
      /\ initialized' = [initialized EXCEPT ![w] = FALSE]
      /\ stopping' = [stopping EXCEPT ![w] = FALSE]
  BY DEF ReleaseWorker, callerVars
<1>2. shutdown_requested /\ Begins = 0 /\ Begun
  BY <1>1 DEF TeardownSound, NotBegun
<1>3. initialized[w] /\ Shuts(w) = 0
  BY <1>1, <1>2 DEF Begun
<1>4. /\ stopping'[w] = FALSE /\ \A v \in Workers : v # w => stopping'[v] = stopping[v]
      /\ initialized'[w] = FALSE /\ \A v \in Workers : v # w => initialized'[v] = initialized[v]
      /\ stopping' \in [Workers -> BOOLEAN]
  BY <1>1 DEF LifeType, PoolType
<1>5. Pooled' = Pooled \ {w} /\ w \in Pooled
  BY <1>3, <1>4 DEF Pooled
<1>6. PICK n \in Nat : Cardinality(Pooled) = n + 1 /\ Cardinality(Pooled') = n
  <2>1. Cardinality(Pooled) \in Nat /\ Cardinality(Pooled) # 0
        /\ Cardinality(Pooled \ {w}) = Cardinality(Pooled) - 1
    BY <1>5, WorkersFinite
  <2>. QED BY <1>5, <2>1
<1>7. Acks \in Nat /\ 0 \in Workers
  BY SignalCounts, WorkersFinite
<1>8. ASSUME w = 0 PROVE /\ Begins' = 0 /\ \A v \in Workers : Shuts(v)' = Shuts(v)
                         /\ workers_shutting_down' = Cardinality(Pooled') + Acks'
                         /\ workers_shutting_down' \in 0 .. WorkerCount
                         /\ shutdown_complete' \in BOOLEAN
                         /\ shutdown_complete' => workers_shutting_down' = 0
                         /\ thread' = thread
  <2>1. WorkerStopped /\ msgs' = msgs /\ thread' = thread
    BY <1>8 DEF ReleaseWorker
  <2>2. workers_shutting_down = (n + Acks) + 1 /\ n + Acks \in Nat
    BY <1>2, <1>6, <1>7 DEF Begun
  <2>3. /\ workers_shutting_down' = n + Acks /\ n + Acks \in 0 .. WorkerCount
        /\ shutdown_complete' \in BOOLEAN /\ (shutdown_complete' => workers_shutting_down' = 0)
    BY <1>2, <2>1, <2>2, StoppedCount DEF Begun
  <2>4. Begins' = Begins /\ Acks' = Acks /\ \A v \in Workers : Shuts(v)' = Shuts(v)
    BY <2>1, CountsNext DEF Begins, Acks, Shuts
  <2>. QED BY <1>2, <1>6, <2>1, <2>3, <2>4
<1>9. ASSUME w # 0 PROVE /\ Begins' = 0 /\ \A v \in Workers : Shuts(v)' = Shuts(v)
                         /\ workers_shutting_down' = Cardinality(Pooled') + Acks'
                         /\ workers_shutting_down' \in 0 .. WorkerCount
                         /\ shutdown_complete' \in BOOLEAN
                         /\ shutdown_complete' => workers_shutting_down' = 0
                         /\ thread' = [thread EXCEPT ![w] = "exiting"]
  <2>1. /\ msgs' = [msgs EXCEPT ![0] = Append(@, Signal("ack"))]
        /\ thread' = [thread EXCEPT ![w] = "exiting"]
        /\ UNCHANGED <<workers_shutting_down, shutdown_complete>>
    BY <1>9 DEF ReleaseWorker, Signal
  <2>2. msgs'[0] = Append(msgs[0], Signal("ack")) /\ \A v \in Workers : v # 0 => msgs'[v] = msgs[v]
    BY <1>7, <2>1 DEF QueueType
  <2>3. /\ Signal("ack") \in Message /\ Signal("ack") # Signal("begin")
        /\ Signal("ack") # Signal("shutdown")
    BY MessageFacts
  <2>4. \A k : Times(msgs'[0], k) = Times(msgs[0], k) + (IF Signal("ack") = k THEN 1 ELSE 0)
    BY <1>1, <1>7, <2>2, <2>3, MailAppended
  <2>5. \A k : Times(msgs[0], k) \in Nat
    BY <1>7, HereType
  <2>6. Begins' = Begins /\ Acks' = Acks + 1 /\ Shuts(0)' = Shuts(0)
    BY <2>3, <2>4, <2>5, CountsNext DEF Begins, Acks, Shuts
  <2>7. \A v \in Workers : Shuts(v)' = Shuts(v)
    BY <2>2, <2>6, CountsNext DEF Shuts
  <2>8. workers_shutting_down = (n + 1) + Acks
    BY <1>2, <1>6 DEF Begun
  <2>9. workers_shutting_down' = Cardinality(Pooled') + Acks'
    BY <1>6, <1>7, <2>1, <2>6, <2>8
  <2>. QED BY <1>2, <2>1, <2>6, <2>7, <2>9 DEF Begun, LifeType
<1>10. /\ Begins' = 0 /\ \A v \in Workers : Shuts(v)' = Shuts(v)
       /\ workers_shutting_down' = Cardinality(Pooled') + Acks'
       /\ workers_shutting_down' \in 0 .. WorkerCount
       /\ shutdown_complete' \in BOOLEAN
       /\ shutdown_complete' => workers_shutting_down' = 0
  BY <1>8, <1>9
<1>11. LifeType'
  <2>1. thread' \in [Workers -> {"running", "exiting", "gone"}]
    BY <1>8, <1>9 DEF LifeType
  <2>. QED BY <1>1, <1>4, <1>10, <2>1 DEF LifeType
<1>12. Begun'
  <2>1. ASSUME NEW v \in Workers
        PROVE  /\ Shuts(v)' = IF initialized'[v] /\ ~ stopping'[v] THEN 1 ELSE 0
               /\ stopping'[v] => initialized'[v]
    BY <1>2, <1>3, <1>4, <1>10 DEF Begun
  <2>. QED BY <1>10, <2>1 DEF Begun
<1>13. Shuts(0)' = 0
  BY <1>7, <1>10 DEF TeardownSound
<1>. QED BY <1>1, <1>2, <1>10, <1>11, <1>12, <1>13 DEF TeardownSound

\* The application thread counts an acknowledgement.
LEMMA TakeAckTeardown ==
    ASSUME IInv, TakeAck
    PROVE  LifeType' /\ TeardownSound'
<1>. USE DEF IInv, TypeOK
<1>1. /\ msgs[0] # <<>> /\ Head(msgs[0]).type = "ack" /\ first' = first
      /\ msgs' = [msgs EXCEPT ![0] = Tail(@)] /\ WorkerStopped
      /\ UNCHANGED <<shutdown_requested, thread, stopping, initialized>>
  BY DEF TakeAck, callerVars, poolVars
<1>2. 0 \in Workers
  BY WorkersFinite
<1>3. msgs'[0] = Tail(msgs[0]) /\ \A v \in Workers : v # 0 => msgs'[v] = msgs[v]
  BY <1>1, <1>2 DEF QueueType
<1>4. /\ Head(msgs[0]) \in Message
      /\ \A k : Times(msgs[0], k)
                  = Times(msgs'[0], k) + (IF Head(msgs[0]) = k THEN 1 ELSE 0)
  BY <1>1, <1>2, <1>3, MailTaken
<1>5. /\ Head(msgs[0]) = Signal("ack") /\ Signal("ack") # Signal("begin")
      /\ Signal("ack") # Signal("shutdown")
  BY <1>1, <1>4, MessageFacts
<1>6. \A k : Times(msgs'[0], k) \in Nat
  <2>1. msgs'[0] \in Seq(Message)
    BY <1>1, <1>2, <1>3 DEF QueueType
  <2>. QED BY <2>1, TimesType
<1>7. Begins' = Begins /\ Acks = Acks' + 1 /\ Acks' \in Nat /\ Shuts(0)' = Shuts(0)
  BY <1>4, <1>5, <1>6, CountsNext DEF Begins, Acks, Shuts
<1>8. Acks # 0
  <2>1. PICK n \in Nat : Acks = n + 1
    BY <1>7
  <2>. QED BY <2>1
<1>9. shutdown_requested /\ Begins = 0 /\ Begun /\ Shuts(0) = 0
  BY <1>8 DEF TeardownSound, NotBegun
<1>10. Pooled' = Pooled /\ \A v \in Workers : Shuts(v)' = Shuts(v)
  BY <1>1, <1>3, <1>7, CountsNext DEF Pooled, Shuts
<1>11. PICK n \in Nat : n = Cardinality(Pooled) + Acks'
  BY <1>7, WorkersFinite
<1>12. workers_shutting_down = n + 1
  <2>1. workers_shutting_down = Cardinality(Pooled) + Acks /\ Cardinality(Pooled) \in Nat
    BY <1>9, WorkersFinite DEF Begun
  <2>. QED BY <1>7, <1>11, <2>1
<1>13. /\ workers_shutting_down' = n /\ n \in 0 .. WorkerCount /\ shutdown_complete' \in BOOLEAN
       /\ shutdown_complete' => workers_shutting_down' = 0
  BY <1>1, <1>9, <1>12, StoppedCount DEF Begun
<1>14. LifeType'
  BY <1>1, <1>13 DEF LifeType
<1>15. Begun'
  BY <1>1, <1>9, <1>10, <1>11, <1>13 DEF Begun
<1>. QED BY <1>1, <1>7, <1>9, <1>14, <1>15 DEF TeardownSound

-----------------------------------------------------------------------------
(* The invariant is inductive *)

\* It holds of the context as open() leaves it.
LEMMA IInvInit ==
    Init => IInv
<1>. SUFFICES ASSUME Init PROVE IInv
  OBVIOUS
<1>1. 0 \in Workers /\ WorkerCount \in Nat \ {0} /\ BufferCount \in Nat \ {0}
  BY WorkersFinite, IoAssumption
<1>2. CallerType
  BY <1>1, IoAssumption DEF Init, CallerType
<1>3. QueueType
  <2>1. <<>> \in Seq(Message) /\ <<>> \in Seq(Requests)
    OBVIOUS
  <2>. QED BY <2>1 DEF Init, QueueType
<1>4. PICK f : f = [i \in 1 .. BufferCount |-> BufferCount - i]
  OBVIOUS
<1>5. f \in Seq(Buffers) /\ Len(f) = BufferCount /\ Elements(f) = Buffers
  <2>1. \A i \in 1 .. BufferCount : f[i] = BufferCount - i /\ f[i] \in Buffers
    BY <1>1, <1>4 DEF Buffers
  <2>2. f \in Seq(Buffers) /\ Len(f) = BufferCount /\ DOMAIN f = 1 .. BufferCount
    BY <1>1, <1>4, <2>1
  <2>3. \A b \in Buffers : BufferCount - b \in 1 .. BufferCount /\ f[BufferCount - b] = b
    BY <1>1, <2>1 DEF Buffers
  <2>. QED BY <2>1, <2>2, <2>3 DEF Elements
<1>6. PoolType
  BY <1>4, <1>5 DEF Init, PoolType
<1>7. LifeType
  <2>1. 0 \in 0 .. WorkerCount
    BY <1>1
  <2>. QED BY <2>1 DEF Init, LifeType
<1>8. TypeOK
  BY <1>2, <1>3, <1>6, <1>7 DEF Init, TypeOK
<1>9. \A w \in Workers : \A M : Occurrences(msgs[w], M) = 0 /\ Occurrences(pending[w], M) = 0
  BY OccurrencesEmpty DEF Init
<1>10. ASSUME NEW c \in Callers PROVE CallerSound(c)
  BY <1>9 DEF Init, CallerSound, Times
<1>11. ASSUME NEW r \in Requests PROVE PlaceSound(r) /\ LeaseSound(r)
  <2>1. r[1] \in Callers
    BY DEF Requests
  <2>2. ~ Unposted(r) /\ ~ Waited(r)
    BY <2>1 DEF Init, Unposted, Waited
  <2>3. ASSUME NEW w \in Workers PROVE Here(r, w) = 0
    BY <1>9 DEF Init, Here, Mailed, Queued, One, Times
  <2>. QED BY <2>2, <2>3 DEF Init, PlaceSound, Placed, LeaseSound
<1>12. ASSUME NEW w \in Workers PROVE PoolSound(w)
  <2>1. /\ initialized[w] /\ free[w] = f /\ inflight[w] = {} /\ pending[w] = <<>>
    BY <1>4 DEF Init
  <2>2. IsFiniteSet(inflight[w]) /\ Cardinality(inflight[w]) = 0
    BY <2>1, FS_EmptySet
  <2>3. {lease[r] : r \in inflight[w]} = {}
    BY <2>1
  <2>. QED BY <1>1, <1>5, <2>1, <2>2, <2>3 DEF PoolSound
<1>13. TeardownSound
  <2>1. Begins = 0 /\ Acks = 0 /\ \A w \in Workers : Shuts(w) = 0
    BY <1>1, <1>9 DEF Begins, Acks, Shuts, Times
  <2>2. NotBegun
    BY <2>1 DEF Init, NotBegun
  <2>. QED BY <1>1, <2>1, <2>2 DEF Init, TeardownSound
<1>. QED BY <1>8, <1>10, <1>11, <1>12, <1>13 DEF IInv

\* Every step keeps it.
LEMMA IInvStep ==
    ASSUME IInv, [Next]_vars
    PROVE  IInv'
<1>1. SUFFICES BatchesSound' /\ PoolsSound' /\ LifeType' /\ TeardownSound'
  BY DEF IInv, TypeOK, BatchesSound, PoolsSound
<1>2. ASSUME NEW c \in Callers, BeginBatch(c)
      PROVE  BatchesSound' /\ PoolsSound' /\ LifeType' /\ TeardownSound'
  BY <1>2, BeginBatchBatches, BeginBatchPools, OrdinaryTeardown
<1>3. ASSUME NEW c \in Callers, CallerStep(c)
      PROVE  BatchesSound' /\ PoolsSound' /\ LifeType' /\ TeardownSound'
  <2>1. PoolsSound'
    <3>1. UNCHANGED <<poolVars, first, inflight, pending, draining>>
      BY <1>3 DEF CallerStep, CheckLifecycle, SendRefused, Send, SendFails, Sleep,
           BatchReturns, queueVars
    <3>. QED BY <3>1, PoolsKept
  <2>2. BatchesSound'
    BY <1>3, QuietStepBatches, SendBatches, FailDispatchBatches DEF CallerStep, QuietStep
  <2>3. LifeType' /\ TeardownSound'
    BY <1>3, OrdinaryTeardown
  <2>. QED BY <2>1, <2>2, <2>3
<1>4. ASSUME NEW w \in Workers, MovingStep(w)
      PROVE  BatchesSound' /\ PoolsSound' /\ LifeType' /\ TeardownSound'
  <2>1. PoolsSound'
    <3>1. CASE TakeBatch(w) \/ TakeRetry(w)
      <4>1. UNCHANGED <<poolVars, first, inflight, pending, draining>>
        BY <3>1 DEF TakeBatch, TakeRetry, callerVars
      <4>. QED BY <4>1, PoolsKept
    <3>. QED BY <1>4, <3>1, WaitingPools, SubmittedPools DEF MovingStep
  <2>2. BatchesSound'
    BY <1>4, MovingStepBatches
  <2>3. LifeType' /\ TeardownSound'
    BY <1>4, OrdinaryTeardown
  <2>. QED BY <2>1, <2>2, <2>3
<1>5. ASSUME NEW w \in Workers,
             \/ ExecuteFails(w) \/ ExecuteTornDown(w) \/ FailPending(w)
             \/ \E q \in Requests, success \in BOOLEAN : CompleteIo(w, q, success)
      PROVE  BatchesSound' /\ PoolsSound' /\ LifeType' /\ TeardownSound'
  <2>1. BatchesSound'
    BY <1>5, LeavingSteps, LeavingStepBatches
  <2>2. PoolsSound'
    BY <1>5, WaitingPools, CompleteIoPools
  <2>3. LifeType' /\ TeardownSound'
    BY <1>5, OrdinaryTeardown
  <2>. QED BY <2>1, <2>2, <2>3
<1>6. ASSUME NEW w \in Workers, DrainEnds(w) \/ ReleaseWorker(w)
      PROVE  BatchesSound' /\ PoolsSound' /\ LifeType' /\ TeardownSound'
  <2>1. BatchesSound'
    BY <1>6, QuietStepBatches DEF QuietStep
  <2>2. PoolsSound'
    BY <1>6, WaitingPools, ReleaseWorkerPools
  <2>3. LifeType' /\ TeardownSound'
    BY <1>6, OrdinaryTeardown, ReleaseWorkerTeardown
  <2>. QED BY <2>1, <2>2, <2>3
<1>7. ASSUME NEW w \in Workers, Notify(w) \/ TakeShutdown(w) \/ ThreadDestroyed(w)
      PROVE  BatchesSound' /\ PoolsSound' /\ LifeType' /\ TeardownSound'
  <2>1. BatchesSound'
    BY <1>7, QuietStepBatches DEF QuietStep
  <2>2. PoolsSound'
    <3>1. UNCHANGED <<poolVars, first, inflight, pending, draining>>
      BY <1>7 DEF Notify, TakeShutdown, ThreadDestroyed, queueVars, callerVars
    <3>. QED BY <3>1, PoolsKept
  <2>3. LifeType' /\ TeardownSound'
    BY <1>7, OrdinaryTeardown, TakeShutdownTeardown
  <2>. QED BY <2>1, <2>2, <2>3
<1>8. ASSUME AppStep \/ BdevEvent
      PROVE  BatchesSound' /\ PoolsSound' /\ LifeType' /\ TeardownSound'
  <2>1. BatchesSound'
    BY <1>8, QuietStepBatches DEF QuietStep, AppStep
  <2>2. PoolsSound'
    <3>1. UNCHANGED <<poolVars, first, inflight, pending, draining>>
      BY <1>8 DEF AppStep, BeginShutdown, TakeAck, BdevEvent, queueVars, callerVars
    <3>. QED BY <3>1, PoolsKept
  <2>3. LifeType' /\ TeardownSound'
    BY <1>8, BdevEventTeardown, BeginShutdownTeardown, TakeAckTeardown DEF AppStep
  <2>. QED BY <2>1, <2>2, <2>3
<1>9. ASSUME UNCHANGED vars
      PROVE  BatchesSound' /\ PoolsSound' /\ LifeType' /\ TeardownSound'
  <2>1. UNCHANGED <<callerVars, batchVars, queueVars, poolVars, lifeVars, msgs, notify>>
    BY <1>9 DEF vars
  <2>2. /\ first' = first /\ alive' = alive /\ unsent' = unsent /\ cpc' = cpc
        /\ next_io_worker' = next_io_worker /\ remaining' = remaining /\ result' = result
        /\ pending' = pending /\ inflight' = inflight /\ iowait' = iowait /\ todo' = todo
        /\ draining' = draining /\ msgs' = msgs /\ notify' = notify
    BY <2>1 DEF callerVars, batchVars, queueVars
  <2>3. PoolsSound'
    BY <2>1, <2>2, PoolsKept
  <2>4. LifeType' /\ TeardownSound'
    <3>1. UNCHANGED <<shutdown_requested, workers_shutting_down, shutdown_complete,
                      stopping, initialized, thread>>
      BY <2>1 DEF lifeVars, poolVars
    <3>2. thread \in [Workers -> {"running", "exiting", "gone"}]
      BY DEF IInv, TypeOK, LifeType
    <3>. QED BY <2>2, <3>1, <3>2, TeardownKept
  <2>5. BatchesSound'
    <3>1. \A v \in Workers : \A r : Here(r, v)' = Here(r, v)
      BY <2>2, HereKept DEF SameQueues
    <3>2. QueueType'
      BY <2>2 DEF IInv, TypeOK, QueueType
    <3>3. /\ cpc \in [Callers -> {"idle", "post", "send", "wait", "asleep"}]
          /\ notify \in [Workers -> Callers \cup {None}]
      BY DEF IInv, TypeOK, CallerType
    <3>4. /\ CallerType' /\ (\A c \in Callers : CallerSound(c)')
          /\ \A r \in Requests : PlaceSound(r)'
      BY <2>2, <3>1, <3>3, MovesKeepBatches
    <3>. QED BY <2>2, <3>2, <3>3, <3>4 DEF BatchesSound
  <2>. QED BY <2>3, <2>4, <2>5
<1>10. CASE Next
  <2>1. CASE \E c \in Callers : BeginBatch(c) \/ CallerStep(c)
    BY <1>2, <1>3, <2>1
  <2>2. CASE \E w \in Workers : WorkerStep(w) \/ ThreadDestroyed(w)
    BY <1>4, <1>5, <1>6, <1>7, <2>2 DEF WorkerStep, MovingStep
  <2>3. CASE \E r \in Requests : Completion(r)
    BY <1>5, <2>3 DEF Completion
  <2>. QED BY <1>8, <1>10, <2>1, <2>2, <2>3 DEF Next
<1>. QED BY <1>9, <1>10

\* The inductive invariant holds in every reachable state.
THEOREM SpecIInv ==
    Spec => []IInv
BY IInvInit, IInvStep, PTL DEF Spec

-----------------------------------------------------------------------------
(* Theorems *)

\* The fields of the context, its workers and the batches keep their types: in
\* particular remaining and the count of stopping workers never leave their
\* range.
THEOREM SpecTypeOK ==
    Spec => []TypeOK
<1>1. IInv => TypeOK
  BY DEF IInv
<1>. QED BY <1>1, SpecIInv, PTL

\* What the model counts is what the invariant counts.
LEMMA CopiesCounted ==
    ASSUME IInv, NEW r \in Requests
    PROVE  Copies(r) = (IF Unposted(r) THEN 1 ELSE 0) + Here(r, Home(r))
<1>. DEFINE w == Home(r)
            P == {i \in DOMAIN msgs[w] : \/ msgs[w][i].type = "batch" /\ msgs[w][i].arg = r[1]
                                         \/ msgs[w][i].type = "retry" /\ msgs[w][i].arg = r}
            Q == {i \in DOMAIN pending[w] : pending[w][i] = r}
<1>1. w \in Workers
  BY HomeType DEF IInv, TypeOK
<1>2. msgs[w] \in Seq(Message)
  BY <1>1 DEF IInv, TypeOK, QueueType
<1>3. P = Positions(msgs[w], Carriers(r, w))
  <2>1. ASSUME NEW i \in DOMAIN msgs[w]
        PROVE  msgs[w][i] \in Carriers(r, w) <=>
                 \/ msgs[w][i].type = "batch" /\ msgs[w][i].arg = r[1]
                 \/ msgs[w][i].type = "retry" /\ msgs[w][i].arg = r
    <3>. DEFINE m == msgs[w][i]
    <3>1. m \in Message
      BY <1>2
    <3>2. m \in Carriers(r, w) <=> m = Retry(r) \/ m = Batch(r[1])
      BY DEF Carriers
    <3>3. m = Batch(r[1]) <=> m.type = "batch" /\ m.arg = r[1]
      BY <3>1, MessageFacts DEF Batch
    <3>4. m = Retry(r) <=> m.type = "retry" /\ m.arg = r
      BY <3>1, MessageFacts DEF Retry
    <3>. QED BY <3>2, <3>3, <3>4
  <2>. QED BY <2>1 DEF Positions
<1>4. Q = Positions(pending[w], {r})
  BY DEF Positions
<1>5. \A S : Cardinality({r} \cap S) = One(S, r)
  <2>1. Cardinality({r}) = 1 /\ Cardinality({}) = 0
    BY FS_Singleton, FS_EmptySet
  <2>2. \A S : {r} \cap S = IF r \in S THEN {r} ELSE {}
    OBVIOUS
  <2>. QED BY <2>1, <2>2 DEF One
<1>6. Cardinality(P) = Mailed(r, w) /\ Cardinality(Q) = Queued(r, w)
  BY <1>3, <1>4 DEF Mailed, Queued, Occurrences, Times
<1>7. Copies(r) = (IF Unposted(r) THEN 1 ELSE 0)
                    + Cardinality(P) + Cardinality({r} \cap todo[w]) + Cardinality(Q)
                    + Cardinality({r} \cap inflight[w]) + Cardinality({r} \cap iowait[w])
  BY DEF Copies, Unposted, Home
<1>8. Mailed(r, w) \in Nat /\ Queued(r, w) \in Nat
  BY <1>1, HereType DEF IInv, TypeOK
<1>9. One(todo[w], r) \in Nat /\ One(inflight[w], r) \in Nat /\ One(iowait[w], r) \in Nat
  BY DEF One
<1>10. PICK e \in Nat : e = IF Unposted(r) THEN 1 ELSE 0
  OBVIOUS
<1>11. Copies(r) = e + Mailed(r, w) + One(todo[w], r) + Queued(r, w) + One(inflight[w], r)
                     + One(iowait[w], r)
  BY <1>5, <1>6, <1>7, <1>10
<1>12. Here(r, w) = Mailed(r, w) + Queued(r, w) + One(todo[w], r) + One(inflight[w], r)
                      + One(iowait[w], r)
  BY DEF Here
<1>. HIDE DEF w, P, Q
<1>13. Copies(r) = e + Here(r, w)
  BY <1>8, <1>9, <1>10, <1>11, <1>12
<1>. QED BY <1>10, <1>13 DEF w

\* "Waiting for remaining==0 guarantees no callback retains either pointer": a
\* request without a result is in exactly one place, one with a result in none,
\* and remaining counts those without, through starvation, ENOMEM, errors and
\* teardown.
THEOREM SpecRequestsInOnePlace ==
    Spec => []RequestsInOnePlace
<1>1. ASSUME IInv PROVE RequestsInOnePlace
  <2>1. ASSUME NEW c \in Callers, NEW i \in 1 .. ItemCount
        PROVE  Copies(<<c, i>>) = IF alive[c] /\ result[<<c, i>>] = None THEN 1 ELSE 0
    <3>0. <<c, i>> \in Requests /\ <<c, i>>[1] = c
      BY DEF Requests
    <3>1. PICK r \in Requests : r = <<c, i>> /\ r[1] = c
      BY <3>0
    <3>2. Copies(r) = (IF Unposted(r) THEN 1 ELSE 0) + Here(r, Home(r))
      BY <1>1, CopiesCounted
    <3>3. Home(r) \in Workers
      BY <1>1, HomeType DEF IInv, TypeOK
    <3>4. /\ Here(r, Home(r)) = IF Waited(r) /\ ~ Unposted(r) THEN 1 ELSE 0
          /\ Unposted(r) => Waited(r)
      BY <1>1, <3>3 DEF IInv, PlaceSound, Placed
    <3>5. Copies(r) = IF Waited(r) THEN 1 ELSE 0
      BY <3>2, <3>4
    <3>. QED BY <3>1, <3>5 DEF Waited
  <2>2. ASSUME NEW c \in Callers, alive[c]
        PROVE  remaining[c] = Cardinality({i \in 1 .. ItemCount : result[<<c, i>>] = None})
    BY <1>1, <2>2 DEF IInv, CallerSound, Unanswered
  <2>. QED BY <2>1, <2>2 DEF RequestsInOnePlace
<1>. QED BY <1>1, SpecIInv, PTL

\* release_buffer and try_acquire balance on every path: the buffers of a pool
\* are its free list and the leases of its commands in flight.
THEOREM SpecLeasesExact ==
    Spec => []LeasesExact
<1>1. ASSUME IInv PROVE LeasesExact
  <2>. SUFFICES ASSUME NEW w \in Workers, initialized[w]
                PROVE  /\ Elements(free[w]) \cup {lease[r] : r \in inflight[w]} = Buffers
                       /\ Len(free[w]) + Cardinality(inflight[w]) = BufferCount
                       /\ \A r \in Requests : WorkerOf(r[1], r[2]) = w /\ r \notin inflight[w]
                                                /\ alive[r[1]] => lease[r] = None
    BY DEF LeasesExact
  <2>1. /\ Elements(free[w]) \cup {lease[r] : r \in inflight[w]} = Buffers
        /\ Len(free[w]) + Cardinality(inflight[w]) = BufferCount
    BY <1>1 DEF IInv, PoolSound
  <2>2. \A r \in Requests : WorkerOf(r[1], r[2]) = w /\ r \notin inflight[w] => lease[r] = None
    BY <1>1 DEF IInv, LeaseSound, Home
  <2>. QED BY <2>1, <2>2
<1>. QED BY <1>1, SpecIInv, PTL

\* A worker that waits for messages has requests in its FIFO only while every
\* buffer is with a command in flight, although ENOMEM does not drain.
THEOREM SpecNoStrandedRequest ==
    Spec => []NoStrandedRequest
<1>1. ASSUME IInv PROVE NoStrandedRequest
  <2>. SUFFICES ASSUME NEW w \in Workers, AtLoop(w), initialized[w], pending[w] # <<>>
                PROVE  free[w] = <<>> /\ inflight[w] # {}
    BY DEF NoStrandedRequest
  <2>1. free[w] = <<>> /\ Len(free[w]) + Cardinality(inflight[w]) = BufferCount
    BY <1>1 DEF IInv, PoolSound, AtLoop
  <2>2. Len(free[w]) = 0 /\ BufferCount # 0
    BY <2>1, IoAssumption
  <2>3. inflight[w] = {} => Cardinality(inflight[w]) = 0
    BY FS_EmptySet
  <2>. QED BY <2>1, <2>2, <2>3
<1>. QED BY <1>1, SpecIInv, PTL

\* shutdown_complete_ is set only when every worker has failed its FIFO and
\* released its pool: the count of the workers and the acknowledgements agree.
THEOREM SpecPoolsReleasedFirst ==
    Spec => []PoolsReleasedFirst
<1>1. ASSUME IInv PROVE PoolsReleasedFirst
  <2>. SUFFICES ASSUME shutdown_complete, NEW w \in Workers
                PROVE  ~ initialized[w] /\ pending[w] = <<>>
    BY DEF PoolsReleasedFirst
  <2>1. Begun
    BY <1>1 DEF IInv, TeardownSound, NotBegun
  <2>2. Cardinality(Pooled) + Acks = 0 /\ Acks \in Nat /\ Cardinality(Pooled) \in Nat
    BY <1>1, <2>1, SignalCounts, WorkersFinite DEF Begun, IInv, TypeOK
  <2>3. Cardinality(Pooled) = 0
    BY <2>2
  <2>4. ~ initialized[w]
    BY <2>3, WorkersFinite DEF Pooled
  <2>. QED BY <1>1, <2>4 DEF IInv, PoolSound
<1>. QED BY <1>1, SpecIInv, PTL

\* "Retain the stable request in FIFO order": a request that gets a buffer is
\* the first of its worker's FIFO, or the FIFO is empty.
THEOREM SpecNoOvertaking ==
    Spec => NoOvertaking
<1>. DEFINE InOrder == \A w \in Workers : \A r \in inflight'[w] \ inflight[w] :
                         pending[w] = <<>> \/ r = Head(pending[w])
<1>1. ASSUME IInv, [Next]_vars PROVE [InOrder]_vars
  <2>0. inflight \in [Workers -> SUBSET Requests]
    BY <1>1 DEF IInv, TypeOK, QueueType
  <2>1. CASE UNCHANGED vars
    BY <2>1
  <2>2. CASE inflight' = inflight
    BY <2>2
  <2>3. ASSUME NEW w \in Workers, ExecuteSubmitted(w) PROVE InOrder
    <3>1. PICK x \in Turn(w) : inflight' = [inflight EXCEPT ![w] = @ \cup {x.request}]
      BY <2>3 DEF ExecuteSubmitted
    <3>2. draining[w] => x.request = Head(pending[w])
      BY <1>1, TurnFacts DEF IInv, TypeOK
    <3>3. ~ draining[w] => pending[w] = <<>>
      BY <1>1, <2>3 DEF ExecuteSubmitted, IInv, PoolSound
    <3>. QED BY <2>0, <3>1, <3>2, <3>3
  <2>4. ASSUME NEW r \in Requests, Completion(r) PROVE InOrder
    <3>1. PICK w \in Workers : inflight' = [inflight EXCEPT ![w] = @ \ {r}]
      BY <2>4 DEF Completion, CompleteIo
    <3>. QED BY <2>0, <3>1
  <2>5. CASE \E c \in Callers : BeginBatch(c) \/ CallerStep(c)
    <3>1. inflight' = inflight
      BY <2>5 DEF BeginBatch, CallerStep, CheckLifecycle, SendRefused, Send, SendFails, Sleep,
           BatchReturns, queueVars
    <3>. QED BY <2>2, <3>1
  <2>6. CASE \E w \in Workers : (WorkerStep(w) /\ ~ ExecuteSubmitted(w)) \/ ThreadDestroyed(w)
    <3>1. inflight' = inflight
      BY <2>6 DEF WorkerStep, Notify, TakeBatch, TakeRetry, ExecuteStarved, ExecuteNoMemory,
           ExecuteFails, ExecuteTornDown, DrainEnds, TakeShutdown, FailPending, ReleaseWorker,
           ThreadDestroyed, queueVars
    <3>. QED BY <2>2, <3>1
  <2>7. CASE AppStep \/ BdevEvent
    <3>1. inflight' = inflight
      BY <2>7 DEF AppStep, BeginShutdown, TakeAck, BdevEvent, queueVars
    <3>. QED BY <2>2, <3>1
  <2>. QED BY <1>1, <2>1, <2>3, <2>4, <2>5, <2>6, <2>7 DEF Next
<1>. QED BY <1>1, SpecIInv, PTL DEF Spec, NoOvertaking
=============================================================================
